------------------------------ MODULE DataPlane ------------------------------
(***************************************************************************)
(* The data plane of a client (src/internal/tun/dataplane.go): the loop    *)
(* that reads the TUN device, one sender per connected link, the loop that *)
(* writes the TUN device, and the table of links that the client manager   *)
(* changes under them.  The sending and receiving ends of a link are those *)
(* of src/internal/client/worker.go.                                       *)
(*                                                                         *)
(* A packet is its place in the order of arrival: as read from the TUN     *)
(* device on the way out, as received from the peers on the way in.        *)
(* Packets that fail the checks of the address and the length are left     *)
(* out: nothing changes.  A queue holds what was accepted and not taken    *)
(* yet; a closed one may still be taken from.                              *)
(***************************************************************************)
EXTENDS Naturals, Sequences, SequencesExt

CONSTANTS
    Peers,          \* virtual addresses of the peers
    Links,          \* registrations: a link of an attempt, registered once
    PeerOf,         \* the peer at the end of each
    NoLink,
    OutboundQueue,  \* OutboundQueuePackets
    InboundQueue,   \* InboundQueuePackets
    BatchSize,      \* outboundBatchSize
    MaxPackets      \* bound: packets of both directions

ASSUME PlaneAssumption ==
    /\ PeerOf \in [Links -> Peers] /\ NoLink \notin Links
    /\ OutboundQueue \in Nat \ {0} /\ InboundQueue \in Nat \ {0}
    /\ BatchSize \in Nat \ {0} /\ MaxPackets \in Nat

Packets == 1 .. MaxPackets

VARIABLES
    links,     \* the table: the link registered for a peer
    closed,    \* the table takes no more links
    cancelled, \* the context of the plane is done
    device,    \* the TUN device is open
    closer,    \* where Close is
    \* TUN to peers
    read,      \* packets read
    readLoop,  \* the read loop; it holds the lock of the table while "queueing"
    found,     \* the link it found
    channel,   \* the queue of a link: none, open, closed
    outbound,  \* what the queue holds
    sender,    \* the sender of a link
    batch,     \* the frames it has encoded: a packet and a sequence number
    encoded,   \* frames it encoded so far
    wire,      \* the frames a link sent to its peer
    \* peers to TUN
    received,  \* packets received
    inbound,   \* what the queue to the TUN device holds
    writeLoop,
    written    \* what was written to the device

tableVars == <<links, closed, cancelled, device, closer>>
readVars  == <<read, readLoop, found>>
sendVars  == <<sender, batch, encoded, wire>>
inVars    == <<received, inbound, writeLoop, written>>
vars      == <<tableVars, readVars, channel, outbound, sendVars, inVars>>

Init ==
    /\ links = [p \in Peers |-> NoLink]
    /\ closed = FALSE /\ cancelled = FALSE /\ device = "open" /\ closer = "none"
    /\ read = 0 /\ readLoop = "reading" /\ found = NoLink
    /\ channel = [l \in Links |-> "none"] /\ outbound = [l \in Links |-> <<>>]
    /\ sender = [l \in Links |-> "none"] /\ batch = [l \in Links |-> <<>>]
    /\ encoded = [l \in Links |-> 0] /\ wire = [l \in Links |-> <<>>]
    /\ received = 0 /\ inbound = <<>> /\ writeLoop = "waiting" /\ written = <<>>

----------------------------------------------------------------------------
(* The table of links; the lock is free unless the read loop is queueing *)

Unlocked == readLoop # "queueing"

\* A mutant of RegisterLink: a closed plane still takes links.
RegisterAnyTime(l) ==
    /\ Unlocked /\ channel[l] = "none" /\ links[PeerOf[l]] = NoLink
    /\ links' = [links EXCEPT ![PeerOf[l]] = l]
    /\ channel' = [channel EXCEPT ![l] = "open"]
    /\ sender' = [sender EXCEPT ![l] = "waiting"]
    /\ UNCHANGED <<closed, cancelled, device, closer, readVars, outbound, batch, encoded, wire, inVars>>

RegisterLink(l) ==
    /\ Unlocked /\ ~closed
    /\ channel[l] = "none" /\ links[PeerOf[l]] = NoLink
    /\ links' = [links EXCEPT ![PeerOf[l]] = l]
    /\ channel' = [channel EXCEPT ![l] = "open"]
    /\ sender' = [sender EXCEPT ![l] = "waiting"]
    /\ UNCHANGED <<closed, cancelled, device, closer, readVars, outbound, batch, encoded, wire, inVars>>

\* A mutant of UnregisterLink: the queue is closed without the lock.
UnregisterUnlocked(p) ==
    /\ links[p] # NoLink
    /\ links' = [links EXCEPT ![p] = NoLink]
    /\ channel' = [channel EXCEPT ![links[p]] = "closed"]
    /\ UNCHANGED <<closed, cancelled, device, closer, readVars, outbound, sendVars, inVars>>

UnregisterLink(p) ==
    /\ Unlocked
    /\ links[p] # NoLink
    /\ links' = [links EXCEPT ![p] = NoLink]
    /\ channel' = [channel EXCEPT ![links[p]] = "closed"]
    /\ UNCHANGED <<closed, cancelled, device, closer, readVars, outbound, sendVars, inVars>>

----------------------------------------------------------------------------
(* The read loop *)

\* The packet is for a peer with a link: the lock is taken.
ReadPacket(p) ==
    /\ readLoop = "reading" /\ device = "open" /\ read + received < MaxPackets
    /\ read' = read + 1
    /\ \/ links[p] # NoLink /\ readLoop' = "queueing" /\ found' = links[p]
       \/ links[p] = NoLink /\ UNCHANGED <<readLoop, found>>
    /\ UNCHANGED <<tableVars, channel, outbound, sendVars, inVars>>

\* A full queue drops the new packet.
QueuePacket ==
    /\ readLoop = "queueing"
    /\ outbound' = IF Len(outbound[found]) < OutboundQueue
                   THEN [outbound EXCEPT ![found] = Append(@, read)] ELSE outbound
    /\ readLoop' = "reading" /\ found' = NoLink
    /\ UNCHANGED <<tableVars, read, channel, sendVars, inVars>>

\* The device fails, or was closed.
ReadFails ==
    /\ readLoop = "reading"
    /\ readLoop' = "ended"
    /\ UNCHANGED <<tableVars, read, found, channel, outbound, sendVars, inVars>>

----------------------------------------------------------------------------
(* The sender of a link *)

\* The next packet of the queue is encoded; one larger than the MTU is dropped.
Encode(l) ==
    /\ outbound[l] # <<>>
    /\ outbound' = [outbound EXCEPT ![l] = Tail(@)]
    /\ \/ /\ batch' = [batch EXCEPT ![l] = Append(@, <<Head(outbound[l]), encoded[l]>>)]
          /\ encoded' = [encoded EXCEPT ![l] = @ + 1]
       \/ UNCHANGED <<batch, encoded>>

TakePacket(l) ==
    /\ sender[l] = "waiting"
    /\ Encode(l)
    /\ sender' = [sender EXCEPT ![l] = "draining"]
    /\ UNCHANGED <<tableVars, readVars, channel, wire, inVars>>

\* A mutant of DrainPacket: all of the queue goes into one batch.
DrainAll(l) ==
    /\ sender[l] = "draining"
    /\ Encode(l)
    /\ UNCHANGED <<tableVars, readVars, channel, sender, wire, inVars>>

DrainPacket(l) ==
    /\ sender[l] = "draining" /\ Len(batch[l]) < BatchSize
    /\ Encode(l)
    /\ UNCHANGED <<tableVars, readVars, channel, sender, wire, inVars>>

\* SendBatch.  The system call took some frames, the others go one by one until
\* one fails; what is not sent then is lost, all of it once the link has ended.
Flushed(l, n) == /\ wire' = [wire EXCEPT ![l] = @ \o SubSeq(batch[l], 1, n)]
                 /\ batch' = [batch EXCEPT ![l] = <<>>]

\* A mutant of Flush: after a part was sent, the whole batch is sent again.
FlushAgain(l) ==
    /\ sender[l] = "draining" /\ (outbound[l] = <<>> \/ Len(batch[l]) = BatchSize)
    /\ \E n \in 0 .. Len(batch[l]) :
          wire' = [wire EXCEPT ![l] = @ \o SubSeq(batch[l], 1, n) \o (IF n < Len(batch[l]) THEN batch[l] ELSE <<>>)]
    /\ batch' = [batch EXCEPT ![l] = <<>>]
    /\ sender' = [sender EXCEPT ![l] = "waiting"]
    /\ UNCHANGED <<tableVars, readVars, channel, outbound, encoded, inVars>>

\* The batch is full, or nothing is queued; the sender ends when the queue is
\* closed as well.
Flush(l) ==
    /\ sender[l] = "draining" /\ (outbound[l] = <<>> \/ Len(batch[l]) = BatchSize)
    /\ \E n \in 0 .. Len(batch[l]) : Flushed(l, n)
    /\ sender' = [sender EXCEPT ![l] =
                    IF Len(batch[l]) < BatchSize /\ channel[l] = "closed" THEN "ended" ELSE "waiting"]
    /\ UNCHANGED <<tableVars, readVars, channel, outbound, encoded, inVars>>

SenderEnds(l) ==
    /\ sender[l] = "waiting"
    /\ cancelled \/ (channel[l] = "closed" /\ outbound[l] = <<>>)
    /\ sender' = [sender EXCEPT ![l] = "ended"]
    /\ UNCHANGED <<tableVars, readVars, channel, outbound, batch, encoded, wire, inVars>>

----------------------------------------------------------------------------
(* From the peers to the TUN device *)

\* A frame of a peer passes the checks of its link's receiver.  The queue takes
\* it, or it is full and drops it; it takes frames after Close too.
DeliverInbound ==
    /\ read + received < MaxPackets
    /\ received' = received + 1
    /\ inbound' = IF Len(inbound) < InboundQueue THEN Append(inbound, received + 1) ELSE inbound
    /\ UNCHANGED <<tableVars, readVars, channel, outbound, sendVars, writeLoop, written>>

TakeInbound ==
    /\ writeLoop = "waiting" /\ inbound # <<>>
    /\ inbound' = Tail(inbound)
    /\ \/ device = "open" /\ written' = Append(written, Head(inbound)) /\ UNCHANGED writeLoop
       \/ writeLoop' = "ended" /\ UNCHANGED written
    /\ UNCHANGED <<tableVars, readVars, channel, outbound, sendVars, received>>

WriterEnds ==
    /\ writeLoop = "waiting" /\ cancelled
    /\ writeLoop' = "ended"
    /\ UNCHANGED <<tableVars, readVars, channel, outbound, sendVars, received, inbound, written>>

----------------------------------------------------------------------------
(* Close *)

LoopsEnded == /\ readLoop = "ended" /\ writeLoop = "ended"
              /\ \A l \in Links : sender[l] \in {"none", "ended"}

CloseTable ==
    /\ closer = "none" /\ Unlocked
    /\ closed' = TRUE /\ links' = [p \in Peers |-> NoLink]
    /\ closer' = "cancelling"
    /\ UNCHANGED <<cancelled, device, readVars, channel, outbound, sendVars, inVars>>

CancelSenders ==
    /\ closer = "cancelling"
    /\ cancelled' = TRUE /\ closer' = "closing device"
    /\ UNCHANGED <<links, closed, device, readVars, channel, outbound, sendVars, inVars>>

\* A mutant of CloseDevice: the loops are waited for first.
CloseDeviceLast ==
    /\ closer = "closing device" /\ LoopsEnded
    /\ device' = "closed" /\ closer' = "waiting"
    /\ UNCHANGED <<links, closed, cancelled, readVars, channel, outbound, sendVars, inVars>>

CloseDevice ==
    /\ closer = "closing device"
    /\ device' = "closed" /\ closer' = "waiting"
    /\ UNCHANGED <<links, closed, cancelled, readVars, channel, outbound, sendVars, inVars>>

CloseReturns ==
    /\ closer = "waiting" /\ LoopsEnded
    /\ closer' = "done"
    /\ UNCHANGED <<links, closed, cancelled, device, readVars, channel, outbound, sendVars, inVars>>

CloseStep == CancelSenders \/ CloseDevice \/ CloseReturns

----------------------------------------------------------------------------
SenderStep(l) == TakePacket(l) \/ DrainPacket(l) \/ Flush(l) \/ SenderEnds(l)

Next ==
    \/ \E l \in Links : RegisterLink(l) \/ SenderStep(l)
    \/ \E p \in Peers : UnregisterLink(p) \/ ReadPacket(p)
    \/ QueuePacket \/ ReadFails
    \/ DeliverInbound \/ TakeInbound \/ WriterEnds
    \/ CloseTable \/ CloseStep

Spec == Init /\ [][Next]_vars

\* Goroutines run on.  Only a closed device is sure to fail the read that waits in
\* it; a device that is open may be silent for ever.
Fairness ==
    /\ WF_vars(QueuePacket) /\ WF_vars(device = "closed" /\ ReadFails)
    /\ WF_vars(TakeInbound \/ WriterEnds)
    /\ WF_vars(CloseStep)
    /\ \A l \in Links : WF_vars(TakePacket(l) \/ DrainPacket(l) \/ Flush(l)) /\ WF_vars(SenderEnds(l))

FairSpec == Spec /\ Fairness

----------------------------------------------------------------------------
(* Invariants *)

DataTypeOK ==
    /\ links \in [Peers -> Links \cup {NoLink}]
    /\ closed \in BOOLEAN /\ cancelled \in BOOLEAN /\ device \in {"open", "closed"}
    /\ closer \in {"none", "cancelling", "closing device", "waiting", "done"}
    /\ read \in 0 .. MaxPackets /\ readLoop \in {"reading", "queueing", "ended"}
    /\ found \in Links \cup {NoLink}
    /\ channel \in [Links -> {"none", "open", "closed"}]
    /\ outbound \in [Links -> Seq(Packets)]
    /\ \A l \in Links : Len(outbound[l]) <= OutboundQueue
    /\ sender \in [Links -> {"none", "waiting", "draining", "ended"}]
    /\ batch \in [Links -> Seq(Packets \X Nat)]
    /\ \A l \in Links : Len(batch[l]) <= BatchSize
    /\ encoded \in [Links -> Nat]
    /\ wire \in [Links -> Seq(Packets \X Nat)]
    /\ received \in 0 .. MaxPackets /\ inbound \in Seq(Packets) /\ Len(inbound) <= InboundQueue
    /\ writeLoop \in {"waiting", "ended"} /\ written \in Seq(Packets)

\* dataplane.go: the read loop looks a queue up and sends to it under the lock that
\* UnregisterLink closes it under: no packet is ever sent on a closed channel.
NoSendOnClosedChannel == readLoop = "queueing" => channel[found] = "open"

Ascending(s)  == \A i \in 1 .. Len(s) - 1 : s[i] < s[i + 1]
First(frames) == [i \in DOMAIN frames |-> frames[i][1]]
Nums(frames)  == [i \in DOMAIN frames |-> frames[i][2]]

\* A peer gets the packets of a link in the order they were read, none of them
\* twice, with sequence numbers that only rise, whatever the queue, the batch and
\* a batch sent in part have lost; a packet takes one link, also when the link of
\* its peer is replaced while the old sender empties its queue.  The TUN device
\* gets the packets of the peers in the order they came in.
InOrder ==
    /\ \A l \in Links : /\ Ascending(First(wire[l] \o batch[l]) \o outbound[l])
                        /\ Ascending(Nums(wire[l] \o batch[l]))
    /\ \A l, m \in Links : l # m =>
          ToSet(First(wire[l] \o batch[l]) \o outbound[l])
             \cap ToSet(First(wire[m] \o batch[m]) \o outbound[m]) = {}
    /\ Ascending(written \o inbound)

\* After Close no goroutine of the plane runs and none can start: a link that is
\* registered while the plane closes is refused or waited for.  A sender that was
\* told to end by its closed queue has emptied it.
NothingRunsAfterClose ==
    /\ closer = "done" => LoopsEnded /\ device = "closed"
    /\ \A l \in Links : sender[l] = "ended" /\ ~cancelled => outbound[l] = <<>> /\ batch[l] = <<>>

----------------------------------------------------------------------------
(* Liveness *)

\* Close comes back although the TUN device is silent: closing the device wakes
\* the read loop before it is waited for.
CloseEnds == closer # "none" ~> closer = "done"
=============================================================================
