-------------------------- MODULE DataPlaneProofs --------------------------
(***************************************************************************)
(* Theorems about DataPlane: for any peers, links, queue sizes and batch   *)
(* size, however the table of links changes under the loops.               *)
(***************************************************************************)
EXTENDS DataPlane, TLAPS

----------------------------------------------------------------------------
(* Types, and what the read loop and an idle sender hold *)

\* The read loop queues a packet it has read to a link it has found; a link has
\* a sender from its registration on, which holds frames only while it drains
\* its queue.
Holding ==
    /\ readLoop = "queueing" => read \in Packets /\ found \in Links
    /\ \A l \in Links : /\ sender[l] # "draining" => batch[l] = <<>>
                        /\ channel[l] = "none" <=> sender[l] = "none"

\* The table holds each link at its peer and only links whose queue is open.
OpenLinks ==
    \A p \in Peers : links[p] # NoLink => PeerOf[links[p]] = p /\ channel[links[p]] = "open"

\* The parts of DataTypeOK that most steps leave alone.
TableType == /\ links \in [Peers -> Links \cup {NoLink}]
             /\ closed \in BOOLEAN /\ cancelled \in BOOLEAN /\ device \in {"open", "closed"}
             /\ closer \in {"none", "cancelling", "closing device", "waiting", "done"}
ReadType  == /\ read \in 0 .. MaxPackets /\ readLoop \in {"reading", "queueing", "ended"}
             /\ found \in Links \cup {NoLink}
QueueType == /\ outbound \in [Links -> Seq(Packets)]
             /\ \A l \in Links : Len(outbound[l]) <= OutboundQueue
SendType  == /\ sender \in [Links -> {"none", "waiting", "draining", "ended"}]
             /\ batch \in [Links -> Seq(Packets \X Nat)]
             /\ \A l \in Links : Len(batch[l]) <= BatchSize
             /\ encoded \in [Links -> Nat]
             /\ wire \in [Links -> Seq(Packets \X Nat)]
InType    == /\ received \in 0 .. MaxPackets /\ inbound \in Seq(Packets) /\ Len(inbound) <= InboundQueue
             /\ writeLoop \in {"waiting", "ended"} /\ written \in Seq(Packets)
ChannelType == channel \in [Links -> {"none", "open", "closed"}]

LEMMA TypeParts ==
    DataTypeOK <=> TableType /\ ReadType /\ QueueType /\ SendType /\ InType /\ ChannelType
  BY DEF DataTypeOK, TableType, ReadType, QueueType, SendType, InType, ChannelType

LEMMA TypePartsNext ==
    DataTypeOK' <=> TableType' /\ ReadType' /\ QueueType' /\ SendType' /\ InType' /\ ChannelType'
  BY DEF DataTypeOK, TableType, ReadType, QueueType, SendType, InType, ChannelType

LEMMA TypeFrame ==
    ASSUME DataTypeOK
    PROVE  /\ UNCHANGED tableVars => TableType'
           /\ UNCHANGED readVars => ReadType'
           /\ UNCHANGED outbound => QueueType'
           /\ UNCHANGED sendVars => SendType'
           /\ UNCHANGED inVars => InType'
           /\ UNCHANGED channel => ChannelType'
  BY TypeParts DEF TableType, ReadType, QueueType, SendType, InType, ChannelType, tableVars, readVars, sendVars, inVars

\* The sizes of the queues and what is in them.
LEMMA TableFacts ==
    ASSUME DataTypeOK
    PROVE  /\ links \in [Peers -> Links \cup {NoLink}]
           /\ channel \in [Links -> {"none", "open", "closed"}]
           /\ sender \in [Links -> {"none", "waiting", "draining", "ended"}]
           /\ readLoop \in {"reading", "queueing", "ended"}
  BY TypeParts DEF TableType, ChannelType, SendType, ReadType

LEMMA QueueFacts ==
    ASSUME DataTypeOK, NEW l \in Links
    PROVE  /\ outbound[l] \in Seq(Packets) /\ Len(outbound[l]) <= OutboundQueue
           /\ batch[l] \in Seq(Packets \X Nat) /\ Len(batch[l]) <= BatchSize
           /\ wire[l] \in Seq(Packets \X Nat) /\ encoded[l] \in Nat
           /\ sender[l] \in {"none", "waiting", "draining", "ended"}
  BY TypeParts DEF QueueType, SendType

\* What Encode does to the queue and the batch of its link, and only to them.
LEMMA EncodeEffect ==
    ASSUME DataTypeOK, NEW l \in Links, Encode(l)
    PROVE  /\ outbound[l] # <<>> /\ Head(outbound[l]) \in Packets /\ Tail(outbound[l]) \in Seq(Packets)
           /\ outbound' = [outbound EXCEPT ![l] = Tail(outbound[l])]
           /\ \/ /\ batch' = [batch EXCEPT ![l] = Append(batch[l], <<Head(outbound[l]), encoded[l]>>)]
                 /\ encoded' = [encoded EXCEPT ![l] = encoded[l] + 1]
              \/ UNCHANGED <<batch, encoded>>
<1>1. outbound[l] \in Seq(Packets)
  BY QueueFacts
<1>. QED
  BY <1>1 DEF Encode

LEMMA EncodeTypes ==
    ASSUME DataTypeOK, NEW l \in Links, Encode(l), Len(batch[l]) < BatchSize, UNCHANGED wire,
           sender' = [sender EXCEPT ![l] = "draining"]
    PROVE  QueueType' /\ SendType' /\ \A m \in Links \ {l} : batch'[m] = batch[m]
<1>1. /\ outbound[l] \in Seq(Packets) /\ outbound[l] # <<>> /\ Len(outbound[l]) <= OutboundQueue
      /\ batch[l] \in Seq(Packets \X Nat) /\ encoded[l] \in Nat /\ BatchSize \in Nat /\ OutboundQueue \in Nat
  BY PlaneAssumption, QueueFacts, EncodeEffect
<1>2. outbound' = [outbound EXCEPT ![l] = Tail(outbound[l])]
  BY EncodeEffect
<1>3. Tail(outbound[l]) \in Seq(Packets) /\ Len(Tail(outbound[l])) <= OutboundQueue
  BY <1>1
<1> DEFINE frame == <<Head(outbound[l]), encoded[l]>>
<1>4. frame \in Packets \X Nat
  BY <1>1
<1>5. Append(batch[l], frame) \in Seq(Packets \X Nat) /\ Len(Append(batch[l], frame)) <= BatchSize
  BY <1>1, <1>4
<1>6. QueueType'
  BY <1>2, <1>3, TypeParts DEF QueueType
<1>7. CASE batch' = [batch EXCEPT ![l] = Append(batch[l], frame)] /\ encoded' = [encoded EXCEPT ![l] = encoded[l] + 1]
  <2>1. encoded[l] + 1 \in Nat
    BY <1>1
  <2>. HIDE DEF frame
  <2>. QED
    BY <1>5, <1>6, <1>7, <2>1, TypeParts DEF SendType
<1>8. CASE UNCHANGED <<batch, encoded>>
  BY <1>6, <1>8, TypeParts DEF SendType
<1>. QED
  BY <1>7, <1>8, EncodeEffect

LEMMA UnregisteredLink ==
    ASSUME DataTypeOK, OpenLinks, NEW p \in Peers, UnregisterLink(p)
    PROVE  links[p] \in Links /\ channel[links[p]] = "open"
  BY TableFacts DEF UnregisterLink, OpenLinks

LEMMA TypeStep == DataTypeOK /\ Holding /\ OpenLinks /\ [Next]_vars => DataTypeOK' /\ Holding'
<1> SUFFICES ASSUME DataTypeOK, Holding, OpenLinks, [Next]_vars PROVE DataTypeOK' /\ Holding'
  OBVIOUS
<1> USE TypeFrame, TypePartsNext
<1>1. CASE UNCHANGED vars
  BY <1>1 DEF vars, readVars, sendVars, Holding
<1>2. ASSUME NEW l \in Links, RegisterLink(l) PROVE DataTypeOK' /\ Holding'
  <2>1. TableType' /\ SendType' /\ ChannelType'
    BY <1>2, PlaneAssumption, TypeParts DEF RegisterLink, TableType, SendType, ChannelType
  <2>2. Holding'
    BY <1>2, TableFacts DEF RegisterLink, Holding, readVars
  <2>. QED
    BY <1>2, <2>1, <2>2 DEF RegisterLink
<1>3. ASSUME NEW p \in Peers, UnregisterLink(p) PROVE DataTypeOK' /\ Holding'
  <2>1. TableType' /\ ChannelType'
    BY <1>3, TypeParts DEF UnregisterLink, TableType, ChannelType
  <2>2. links[p] \in Links /\ channel[links[p]] = "open" /\ channel' = [channel EXCEPT ![links[p]] = "closed"]
    BY <1>3, TableFacts DEF UnregisterLink, OpenLinks
  <2>3. \A l \in Links : channel[l] = "none" <=> channel'[l] = "none"
    BY <2>2, TableFacts
  <2>. QED
    BY <1>3, <2>1, <2>2, <2>3 DEF UnregisterLink, Holding, readVars, sendVars
<1>4. ASSUME NEW p \in Peers, ReadPacket(p) PROVE DataTypeOK' /\ Holding'
  <2>1. read \in 0 .. MaxPackets /\ received \in 0 .. MaxPackets /\ links[p] \in Links \cup {NoLink} /\ MaxPackets \in Nat
    BY TypeParts, PlaneAssumption DEF ReadType, InType, TableType
  <2>2. read' \in 0 .. MaxPackets /\ read' \in Packets
    BY <1>4, <2>1 DEF ReadPacket, Packets
  <2>3. ReadType' /\ (readLoop' = "queueing" => found' \in Links)
    BY <1>4, <2>1, <2>2, TypeParts DEF ReadPacket, ReadType
  <2>. QED
    BY <1>4, <2>2, <2>3 DEF ReadPacket, Holding, sendVars
<1>5. CASE QueuePacket
  <2>1. read \in Packets /\ found \in Links
    BY <1>5 DEF QueuePacket, Holding
  <2>2. outbound[found] \in Seq(Packets) /\ OutboundQueue \in Nat
    BY <2>1, QueueFacts, PlaneAssumption
  <2>3. Append(outbound[found], read) \in Seq(Packets) /\ Len(Append(outbound[found], read)) = Len(outbound[found]) + 1
    BY <2>1, <2>2
  <2>4. QueueType'
    BY <1>5, <2>2, <2>3, TypeParts DEF QueuePacket, QueueType
  <2>5. ReadType' /\ Holding'
    BY <1>5, TypeParts DEF QueuePacket, ReadType, Holding, sendVars
  <2>. QED
    BY <1>5, <2>4, <2>5 DEF QueuePacket
<1>6. CASE ReadFails
  BY <1>6, TypeParts DEF ReadFails, ReadType, Holding, sendVars
<1>7. ASSUME NEW l \in Links, TakePacket(l) \/ DrainPacket(l) PROVE DataTypeOK' /\ Holding'
  <2>1. sender \in [Links -> {"none", "waiting", "draining", "ended"}]
    BY TypeParts DEF SendType
  <2>2. Encode(l) /\ Len(batch[l]) < BatchSize
    BY <1>7, PlaneAssumption DEF TakePacket, DrainPacket, Holding
  <2>3. sender' = [sender EXCEPT ![l] = "draining"]
    BY <1>7, <2>1 DEF TakePacket, DrainPacket
  <2>4. UNCHANGED <<tableVars, readVars, channel, wire, inVars>>
    BY <1>7 DEF TakePacket, DrainPacket
  <2>5. QueueType' /\ SendType' /\ \A m \in Links \ {l} : batch'[m] = batch[m]
    BY <2>2, <2>3, <2>4, EncodeTypes
  <2>6. Holding'
    <3>1. /\ \A m \in Links : /\ m # l => sender'[m] = sender[m] /\ batch'[m] = batch[m]
                              /\ m = l => sender'[m] = "draining" /\ sender[m] # "none"
          /\ UNCHANGED <<read, readLoop, found, channel>>
      BY <1>7, <2>1, <2>3, <2>4, <2>5 DEF readVars, TakePacket, DrainPacket
    <3>. QED
      BY <3>1 DEF Holding
  <2>. QED
    BY <2>4, <2>5, <2>6
<1>8. ASSUME NEW l \in Links, Flush(l) PROVE DataTypeOK' /\ Holding'
  <2>1. PICK n \in 0 .. Len(batch[l]) : Flushed(l, n)
    BY <1>8 DEF Flush
  <2>2. wire[l] \in Seq(Packets \X Nat) /\ batch[l] \in Seq(Packets \X Nat)
    BY QueueFacts
  <2>3. SubSeq(batch[l], 1, n) \in Seq(Packets \X Nat)
    BY <2>1, <2>2
  <2>4. wire[l] \o SubSeq(batch[l], 1, n) \in Seq(Packets \X Nat)
    BY <2>2, <2>3
  <2>5. wire' = [wire EXCEPT ![l] = wire[l] \o SubSeq(batch[l], 1, n)] /\ batch' = [batch EXCEPT ![l] = <<>>]
    BY <2>1 DEF Flushed
  <2>6. PICK r \in {"ended", "waiting"} : sender' = [sender EXCEPT ![l] = r]
    BY <1>8 DEF Flush
  <2>7. Len(<<>>) <= BatchSize /\ <<>> \in Seq(Packets \X Nat)
    BY PlaneAssumption
  <2>8. SendType'
    BY <1>8, <2>4, <2>5, <2>6, <2>7, TypeParts DEF Flush, SendType
  <2>9. Holding'
    <3>1. /\ \A m \in Links : /\ m # l => sender'[m] = sender[m] /\ batch'[m] = batch[m]
                              /\ m = l => sender'[m] = r /\ batch'[m] = <<>>
          /\ sender[l] = "draining" /\ UNCHANGED <<read, readLoop, found, channel>>
      BY <1>8, <2>5, <2>6, TypeParts DEF Flush, readVars, SendType
    <3>. QED
      BY <3>1 DEF Holding
  <2>. QED
    BY <1>8, <2>8, <2>9 DEF Flush
<1>9. ASSUME NEW l \in Links, SenderEnds(l) PROVE DataTypeOK' /\ Holding'
  <2>1. SendType' /\ Holding'
    BY <1>9, TableFacts, TypeParts DEF SenderEnds, SendType, Holding, readVars
  <2>. QED
    BY <1>9, <2>1 DEF SenderEnds
<1>10. CASE DeliverInbound
  <2>1. /\ read \in 0 .. MaxPackets /\ received \in 0 .. MaxPackets /\ MaxPackets \in Nat /\ InboundQueue \in Nat
        /\ inbound \in Seq(Packets) /\ Len(inbound) <= InboundQueue
    BY TypeParts, PlaneAssumption DEF ReadType, InType
  <2>2. received + 1 \in Packets /\ received' \in 0 .. MaxPackets
    BY <1>10, <2>1 DEF DeliverInbound, Packets
  <2>3. /\ Append(inbound, received + 1) \in Seq(Packets)
        /\ Len(Append(inbound, received + 1)) = Len(inbound) + 1
    BY <2>1, <2>2
  <2>4. InType'
    BY <1>10, <2>1, <2>2, <2>3, TypeParts DEF DeliverInbound, InType
  <2>. QED
    BY <1>10, <2>4 DEF DeliverInbound, Holding, readVars, sendVars
<1>11. CASE TakeInbound
  <2>1. inbound \in Seq(Packets) /\ Len(inbound) <= InboundQueue /\ inbound # <<>> /\ written \in Seq(Packets) /\ InboundQueue \in Nat
    BY <1>11, TypeParts, PlaneAssumption DEF TakeInbound, InType
  <2>2. Head(inbound) \in Packets /\ Tail(inbound) \in Seq(Packets) /\ Len(Tail(inbound)) <= InboundQueue
    BY <2>1
  <2>3. Append(written, Head(inbound)) \in Seq(Packets)
    BY <2>1, <2>2
  <2>4. InType'
    BY <1>11, <2>2, <2>3, TypeParts DEF TakeInbound, InType
  <2>. QED
    BY <1>11, <2>4 DEF TakeInbound, Holding, readVars, sendVars
<1>12. CASE WriterEnds
  <2>1. InType'
    BY <1>12, TypeParts DEF WriterEnds, InType
  <2>. QED
    BY <1>12, <2>1 DEF WriterEnds, Holding, readVars, sendVars
<1>13. CASE CloseTable \/ CloseStep
  <2>1. TableType'
    BY <1>13, TypeParts DEF CloseTable, CloseStep, CancelSenders, CloseDevice, CloseReturns, TableType
  <2>. QED
    BY <1>13, <2>1 DEF CloseTable, CloseStep, CancelSenders, CloseDevice, CloseReturns, Holding, readVars, sendVars
<1>. QED
  BY <1>1, <1>2, <1>3, <1>4, <1>5, <1>6, <1>7, <1>8, <1>9, <1>10, <1>11, <1>12, <1>13 DEF Next, SenderStep

----------------------------------------------------------------------------
(* The lock of the table *)

LEMMA TableStep ==
    DataTypeOK /\ OpenLinks /\ NoSendOnClosedChannel /\ [Next]_vars => OpenLinks' /\ NoSendOnClosedChannel'
<1> SUFFICES ASSUME DataTypeOK, OpenLinks, NoSendOnClosedChannel, [Next]_vars
             PROVE  OpenLinks' /\ NoSendOnClosedChannel'
  OBVIOUS
<1>1. CASE UNCHANGED <<links, channel, readLoop, found>>
  BY <1>1 DEF OpenLinks, NoSendOnClosedChannel
<1>2. ASSUME NEW l \in Links, RegisterLink(l) PROVE OpenLinks' /\ NoSendOnClosedChannel'
  <2>1. /\ links' = [links EXCEPT ![PeerOf[l]] = l]
        /\ channel' = [channel EXCEPT ![l] = "open"]
        /\ readLoop' # "queueing" /\ PeerOf[l] \in Peers
    BY <1>2, PlaneAssumption DEF RegisterLink, Unlocked, readVars
  <2>. QED
    BY <2>1, TableFacts DEF OpenLinks, NoSendOnClosedChannel
<1>3. ASSUME NEW p \in Peers, UnregisterLink(p) PROVE OpenLinks' /\ NoSendOnClosedChannel'
  <2>1. /\ links' = [links EXCEPT ![p] = NoLink]
        /\ channel' = [channel EXCEPT ![links[p]] = "closed"]
        /\ links[p] # NoLink /\ readLoop' # "queueing"
    BY <1>3 DEF UnregisterLink, Unlocked, readVars
  <2>2. \A q \in Peers : links'[q] # NoLink => q # p /\ links'[q] = links[q] /\ links[q] # links[p]
    BY <2>1, TableFacts DEF OpenLinks
  <2>. QED
    BY <2>1, <2>2, TableFacts DEF OpenLinks, NoSendOnClosedChannel
<1>4. ASSUME NEW p \in Peers, ReadPacket(p) PROVE OpenLinks' /\ NoSendOnClosedChannel'
  BY <1>4 DEF ReadPacket, tableVars, OpenLinks, NoSendOnClosedChannel
<1>5. CASE QueuePacket \/ ReadFails
  BY <1>5 DEF QueuePacket, ReadFails, tableVars, OpenLinks, NoSendOnClosedChannel
<1>6. CASE CloseTable
  BY <1>6 DEF CloseTable, Unlocked, readVars, OpenLinks, NoSendOnClosedChannel
<1>7. CASE CloseStep
  BY <1>1, <1>7 DEF CloseStep, CancelSenders, CloseDevice, CloseReturns, readVars
<1>8. ASSUME NEW l \in Links, SenderStep(l) PROVE OpenLinks' /\ NoSendOnClosedChannel'
  BY <1>1, <1>8 DEF SenderStep, TakePacket, DrainPacket, Flush, SenderEnds, tableVars, readVars
<1>9. CASE DeliverInbound \/ TakeInbound \/ WriterEnds
  BY <1>1, <1>9 DEF DeliverInbound, TakeInbound, WriterEnds, tableVars, readVars
<1>. QED
  BY <1>1, <1>2, <1>3, <1>4, <1>5, <1>6, <1>7, <1>8, <1>9 DEF Next, vars, tableVars, readVars

LEMMA PlaneHolds == Spec => [](DataTypeOK /\ Holding /\ OpenLinks /\ NoSendOnClosedChannel)
<1>1. ASSUME Init PROVE DataTypeOK /\ Holding
  <2>1. /\ <<>> \in Seq(Packets) /\ Len(<<>>) = 0
        /\ <<>> \in Seq(Packets \X Nat)
    OBVIOUS
  <2>2. TableType /\ ReadType /\ ChannelType
    <3>1. MaxPackets \in Nat /\ 0 \in 0 .. MaxPackets
      BY PlaneAssumption
    <3>2. ReadType
      BY <1>1, <3>1 DEF Init, ReadType
    <3>3. TableType /\ ChannelType
      BY <1>1 DEF Init, TableType, ChannelType
    <3>. QED
      BY <3>2, <3>3
  <2>3. QueueType /\ InType
    BY <1>1, <2>1, PlaneAssumption DEF Init, QueueType, InType
  <2>4. SendType
    BY <1>1, <2>1, PlaneAssumption DEF Init, SendType
  <2>. QED
    BY <1>1, <2>2, <2>3, <2>4, TypeParts DEF Init, Holding
<1>2. Init => OpenLinks /\ NoSendOnClosedChannel
  BY DEF Init, OpenLinks, NoSendOnClosedChannel
<1>. QED
  BY <1>1, <1>2, TypeStep, TableStep, PTL DEF Spec

\* Every variable keeps its type and no queue, batch or channel takes more than
\* its size, in every behaviour.
THEOREM DataTypes == Spec => []DataTypeOK
  BY PlaneHolds, PTL

\* The read loop never sends on a channel UnregisterLink has closed, however
\* links are replaced while it looks one up.
THEOREM NoSendOnClosed == Spec => []NoSendOnClosedChannel
  BY PlaneHolds, PTL

----------------------------------------------------------------------------
(* Close *)

\* How far Close is tells what it has stopped.
CloseProgress ==
    /\ closer # "none" => closed
    /\ closer \in {"closing device", "waiting", "done"} => cancelled
    /\ closer \in {"waiting", "done"} => device = "closed"

\* Only a closed queue or a cancelled context ends a sender, the queue only once
\* it is empty.
SendersServe ==
    \A l \in Links : sender[l] = "ended" /\ ~cancelled => channel[l] = "closed" /\ outbound[l] = <<>>

CloseInv == CloseProgress /\ SendersServe /\ (closer = "done" => LoopsEnded)

LEMMA SenderMayEnd ==
    ASSUME DataTypeOK, NEW l \in Links, Flush(l) \/ SenderEnds(l)
    PROVE  \E r \in {"ended", "waiting"} :
              /\ sender[l] \in {"waiting", "draining"} /\ sender' = [sender EXCEPT ![l] = r]
              /\ r = "ended" /\ ~cancelled => channel[l] = "closed" /\ outbound[l] = <<>>
              /\ UNCHANGED <<tableVars, readVars, channel, inVars, outbound>>
<1>1. CASE SenderEnds(l)
  BY <1>1 DEF SenderEnds
<1>2. CASE Flush(l)
  <2>1. Len(batch[l]) \in Nat /\ BatchSize \in Nat
    BY QueueFacts, PlaneAssumption
  <2>2. Len(batch[l]) < BatchSize => outbound[l] = <<>>
    BY <1>2, <2>1 DEF Flush
  <2>3. CASE Len(batch[l]) < BatchSize /\ channel[l] = "closed"
    BY <1>2, <2>2, <2>3 DEF Flush
  <2>4. CASE ~(Len(batch[l]) < BatchSize /\ channel[l] = "closed")
    BY <1>2, <2>4 DEF Flush
  <2>. QED
    BY <2>3, <2>4
<1>. QED
  BY <1>1, <1>2

LEMMA CloseInvStep ==
    DataTypeOK /\ Holding /\ OpenLinks /\ NoSendOnClosedChannel /\ CloseInv /\ [Next]_vars => CloseInv'
<1> SUFFICES ASSUME DataTypeOK, Holding, OpenLinks, NoSendOnClosedChannel, CloseInv, [Next]_vars PROVE CloseInv'
  OBVIOUS
<1> USE DEF CloseInv, CloseProgress, SendersServe, LoopsEnded
<1>1. CASE UNCHANGED vars
  BY <1>1 DEF vars, tableVars, readVars, sendVars, inVars
<1>2. ASSUME NEW l \in Links, RegisterLink(l) PROVE CloseInv'
  BY <1>2, TableFacts DEF RegisterLink, readVars, inVars
<1>3. ASSUME NEW p \in Peers, UnregisterLink(p) PROVE CloseInv'
  <2>1. links[p] \in Links /\ channel[links[p]] = "open"
    BY <1>3, UnregisteredLink
  <2>. QED
    BY <1>3, <2>1, TableFacts DEF UnregisterLink, readVars, sendVars, inVars
<1>4. ASSUME NEW p \in Peers, ReadPacket(p) PROVE CloseInv'
  BY <1>4 DEF ReadPacket, tableVars, sendVars, inVars
<1>5. CASE QueuePacket
  <2>1. found \in Links /\ channel[found] = "open" /\ readLoop # "ended"
    BY <1>5 DEF QueuePacket, Holding, NoSendOnClosedChannel
  <2>2. \A l \in Links : l # found => outbound'[l] = outbound[l]
    BY <1>5, <2>1, TypeParts DEF QueuePacket, QueueType
  <2>. QED
    BY <1>5, <2>1, <2>2 DEF QueuePacket, tableVars, sendVars, inVars
<1>6. CASE ReadFails
  BY <1>6 DEF ReadFails, tableVars, sendVars, inVars
<1>7. ASSUME NEW l \in Links, TakePacket(l) \/ DrainPacket(l) PROVE CloseInv'
  <2>1. /\ sender[l] \in {"waiting", "draining"} /\ sender' = [sender EXCEPT ![l] = "draining"]
        /\ UNCHANGED <<tableVars, readVars, channel, inVars>>
        /\ \A m \in Links : m # l => outbound'[m] = outbound[m]
    BY <1>7, TableFacts, TypeParts, EncodeEffect DEF TakePacket, DrainPacket, QueueType
  <2>. QED
    BY <2>1, TableFacts DEF tableVars, readVars, inVars
<1>8. ASSUME NEW l \in Links, Flush(l) \/ SenderEnds(l) PROVE CloseInv'
  <2>1. PICK r \in {"ended", "waiting"} :
           /\ sender[l] \in {"waiting", "draining"} /\ sender' = [sender EXCEPT ![l] = r]
           /\ r = "ended" /\ ~cancelled => channel[l] = "closed" /\ outbound[l] = <<>>
           /\ UNCHANGED <<tableVars, readVars, channel, inVars, outbound>>
    BY <1>8, SenderMayEnd
  <2>. QED
    BY <2>1, TableFacts DEF tableVars, readVars, inVars
<1>9. CASE DeliverInbound \/ TakeInbound \/ WriterEnds
  BY <1>9 DEF DeliverInbound, TakeInbound, WriterEnds, tableVars, readVars, sendVars
<1>10. CASE CloseTable \/ CloseStep
  BY <1>10 DEF CloseTable, CloseStep, CancelSenders, CloseDevice, CloseReturns, readVars, sendVars, inVars
<1>. QED
  BY <1>1, <1>2, <1>3, <1>4, <1>5, <1>6, <1>7, <1>8, <1>9, <1>10 DEF Next, SenderStep

\* When Close has returned nothing of the plane runs, and no link registered
\* while it was closing can start a sender; a sender its closed queue ended has
\* sent or lost every packet it was given.
THEOREM NothingRunsOn == Spec => []NothingRunsAfterClose
<1>1. Init => CloseInv
  BY DEF Init, CloseInv, CloseProgress, SendersServe
<1>2. Holding /\ CloseInv => NothingRunsAfterClose
  BY DEF Holding, CloseInv, CloseProgress, SendersServe, NothingRunsAfterClose
<1>. QED
  BY <1>1, <1>2, CloseInvStep, PlaneHolds, PTL DEF Spec

----------------------------------------------------------------------------
(* The order of packets *)

\* Neighbours in ascending order is what a peer sees; what a step preserves is
\* the order of every two packets, because a drop makes others neighbours.
Rise(q) == \A i, j \in 1 .. Len(q) : i < j => q[i] < q[j]

\* The frames f of a link, sent and encoded, the packets q of its queue and the
\* next sequence number n.
Ordered(f, q, n) ==
    /\ \A i, j \in 1 .. Len(f) : i < j => f[i][1] < f[j][1] /\ f[i][2] < f[j][2]
    /\ Rise(q)
    /\ \A i \in 1 .. Len(f), j \in 1 .. Len(q) : f[i][1] < q[j]
    /\ \A i \in 1 .. Len(f) : f[i][2] < n

Carried(f, q) == {f[i][1] : i \in 1 .. Len(f)} \cup {q[j] : j \in 1 .. Len(q)}

\* A batch behind what was sent: what a frame at its end, or a cut, does to the
\* whole.
Frame == Packets \X Nat

LEMMA BehindAppend ==
    ASSUME NEW s \in Seq(Frame), NEW t \in Seq(Frame), NEW e \in Frame
    PROVE  /\ s \o Append(t, e) \in Seq(Frame) /\ Len(s \o Append(t, e)) = Len(s \o t) + 1
           /\ \A i \in 1 .. Len(s \o t) : (s \o Append(t, e))[i] = (s \o t)[i]
           /\ (s \o Append(t, e))[Len(s \o Append(t, e))] = e
<1>1. Append(t, e) \in Seq(Frame) /\ Len(Append(t, e)) = Len(t) + 1 /\ Len(s) \in Nat /\ Len(t) \in Nat
  OBVIOUS
<1>2. /\ s \o Append(t, e) \in Seq(Frame) /\ Len(s \o Append(t, e)) = Len(s) + Len(t) + 1
      /\ Len(s \o t) = Len(s) + Len(t)
  BY <1>1
<1>3. \A i \in 1 .. Len(s) + Len(t) : (s \o Append(t, e))[i] = (s \o t)[i]
  <2> SUFFICES ASSUME NEW i \in 1 .. Len(s) + Len(t) PROVE (s \o Append(t, e))[i] = (s \o t)[i]
    OBVIOUS
  <2>1. CASE i <= Len(s)
    BY <1>1, <2>1
  <2>2. CASE i > Len(s)
    <3>1. i - Len(s) \in 1 .. Len(t) /\ Append(t, e)[i - Len(s)] = t[i - Len(s)]
      BY <2>2
    <3>. QED
      BY <1>1, <2>2, <3>1
  <2>. QED
    BY <1>1, <2>1, <2>2
<1>. QED
  BY <1>1, <1>2, <1>3

LEMMA BehindCut ==
    ASSUME NEW s \in Seq(Frame), NEW t \in Seq(Frame), NEW n \in 0 .. Len(t)
    PROVE  /\ s \o SubSeq(t, 1, n) \in Seq(Frame) /\ Len(s \o SubSeq(t, 1, n)) <= Len(s \o t)
           /\ \A i \in 1 .. Len(s \o SubSeq(t, 1, n)) : (s \o SubSeq(t, 1, n))[i] = (s \o t)[i]
           /\ (s \o SubSeq(t, 1, n)) \o <<>> = s \o SubSeq(t, 1, n)
<1> DEFINE c == SubSeq(t, 1, n)
<1>1. c \in Seq(Frame) /\ Len(c) = n /\ Len(s) \in Nat /\ Len(t) \in Nat /\ \A i \in 1 .. n : c[i] = t[i]
  OBVIOUS
<1>. HIDE DEF c
<1>2. s \o c \in Seq(Frame) /\ Len(s \o c) = Len(s) + n /\ Len(s \o t) = Len(s) + Len(t)
  BY <1>1
<1>3. \A i \in 1 .. Len(s) + n : (s \o c)[i] = (s \o t)[i]
  <2> SUFFICES ASSUME NEW i \in 1 .. Len(s) + n PROVE (s \o c)[i] = (s \o t)[i]
    OBVIOUS
  <2>1. CASE i <= Len(s)
    BY <1>1, <2>1
  <2>2. CASE i > Len(s)
    <3>1. i - Len(s) \in 1 .. n /\ c[i - Len(s)] = t[i - Len(s)]
      BY <1>1, <2>2
    <3>. QED
      BY <1>1, <2>2, <3>1
  <2>. QED
    BY <1>1, <2>1, <2>2
<1>4. (s \o c) \o <<>> = s \o c
  BY <1>2
<1>. QED
  BY <1>1, <1>2, <1>3, <1>4 DEF c

\* The first packet of the queue is dropped.
LEMMA OrderedDrop ==
    ASSUME NEW f \in Seq(Packets \X Nat), NEW q \in Seq(Packets), NEW n \in Nat, q # <<>>, Ordered(f, q, n)
    PROVE  Ordered(f, Tail(q), n) /\ Carried(f, Tail(q)) \subseteq Carried(f, q)
<1>1. /\ Len(Tail(q)) = Len(q) - 1 /\ Len(q) \in Nat
      /\ \A j \in 1 .. Len(Tail(q)) : j + 1 \in 1 .. Len(q) /\ Tail(q)[j] = q[j + 1]
  OBVIOUS
<1>2. Rise(Tail(q))
  BY <1>1 DEF Ordered, Rise
<1>. QED
  BY <1>1, <1>2 DEF Ordered, Carried

\* The first packet of the queue becomes the frame with the next number.
LEMMA OrderedEncode ==
    ASSUME NEW f \in Seq(Packets \X Nat), NEW q \in Seq(Packets), NEW n \in Nat, q # <<>>, Ordered(f, q, n),
           NEW g \in Seq(Packets \X Nat), Len(g) = Len(f) + 1, \A i \in 1 .. Len(f) : g[i] = f[i],
           g[Len(g)] = <<Head(q), n>>
    PROVE  Ordered(g, Tail(q), n + 1) /\ Carried(g, Tail(q)) \subseteq Carried(f, q)
<1>1. /\ Len(q) \in Nat \ {0} /\ Head(q) = q[1]
      /\ \A j \in 1 .. Len(Tail(q)) : j + 1 \in 1 .. Len(q) /\ Tail(q)[j] = q[j + 1]
      /\ \A i \in 1 .. Len(g) : i \in 1 .. Len(f) \/ i = Len(g)
      /\ Len(f) \in Nat /\ 1 \in 1 .. Len(q)
  OBVIOUS
<1>2. g[Len(g)][1] = q[1] /\ g[Len(g)][2] = n
  BY <1>1
<1>3. Rise(Tail(q)) /\ \A j \in 1 .. Len(Tail(q)) : q[1] < Tail(q)[j]
  BY <1>1 DEF Ordered, Rise
<1>4. \A i \in 1 .. Len(f) : f[i][1] < q[1] /\ f[i][2] < n
  BY <1>1 DEF Ordered
<1>5. \A i, j \in 1 .. Len(g) : i < j => g[i][1] < g[j][1] /\ g[i][2] < g[j][2]
  <2> SUFFICES ASSUME NEW i \in 1 .. Len(g), NEW j \in 1 .. Len(g), i < j
               PROVE  g[i][1] < g[j][1] /\ g[i][2] < g[j][2]
    OBVIOUS
  <2>1. i \in 1 .. Len(f) /\ g[i] = f[i]
    BY <1>1
  <2>2. CASE j \in 1 .. Len(f)
    <3>1. g[j] = f[j]
      BY <2>2
    <3>2. f[i][1] < f[j][1] /\ f[i][2] < f[j][2]
      BY <2>1, <2>2 DEF Ordered
    <3>. QED
      BY <2>1, <3>1, <3>2
  <2>3. CASE j = Len(g)
    BY <1>2, <1>4, <2>1, <2>3
  <2>. QED
    BY <1>1, <2>2, <2>3
<1>6. \A i \in 1 .. Len(g) : g[i][2] < n + 1
  <2> SUFFICES ASSUME NEW i \in 1 .. Len(g) PROVE g[i][2] < n + 1
    OBVIOUS
  <2>1. CASE i \in 1 .. Len(f)
    <3>1. f[i] \in Packets \X Nat /\ g[i] = f[i]
      BY <2>1
    <3>2. g[i][2] < n /\ g[i][2] \in Nat
      BY <1>4, <2>1, <3>1
    <3>. QED
      BY <3>2
  <2>2. CASE i = Len(g)
    BY <1>2, <2>2
  <2>. QED
    BY <1>1, <2>1, <2>2
<1>7. \A i \in 1 .. Len(g), j \in 1 .. Len(Tail(q)) : g[i][1] < Tail(q)[j]
  BY <1>1, <1>2, <1>3 DEF Ordered
<1>8. Carried(g, Tail(q)) \subseteq Carried(f, q)
  <2>1. \A i \in 1 .. Len(g) : g[i][1] \in Carried(f, q)
    BY <1>1, <1>2 DEF Carried
  <2>2. \A j \in 1 .. Len(Tail(q)) : Tail(q)[j] \in Carried(f, q)
    BY <1>1 DEF Carried
  <2>. QED
    BY <2>1, <2>2 DEF Carried
<1>. QED
  BY <1>3, <1>5, <1>6, <1>7, <1>8 DEF Ordered

\* A batch is sent in part.
LEMMA OrderedCut ==
    ASSUME NEW f \in Seq(Packets \X Nat), NEW q \in Seq(Packets), NEW n \in Nat, Ordered(f, q, n),
           NEW g \in Seq(Packets \X Nat), Len(g) <= Len(f), \A i \in 1 .. Len(g) : g[i] = f[i]
    PROVE  Ordered(g, q, n) /\ Carried(g, q) \subseteq Carried(f, q)
<1>1. \A i \in 1 .. Len(g) : i \in 1 .. Len(f)
  OBVIOUS
<1>. QED
  BY <1>1 DEF Ordered, Carried

\* A new packet is queued.
LEMMA OrderedQueue ==
    ASSUME NEW f \in Seq(Packets \X Nat), NEW q \in Seq(Packets), NEW n \in Nat, Ordered(f, q, n),
           NEW x \in Packets, \A y \in Carried(f, q) : y < x
    PROVE  Ordered(f, Append(q, x), n) /\ Carried(f, Append(q, x)) \subseteq Carried(f, q) \cup {x}
<1>1. /\ Len(Append(q, x)) = Len(q) + 1 /\ Len(q) \in Nat
      /\ \A j \in 1 .. Len(q) : Append(q, x)[j] = q[j]
      /\ Append(q, x)[Len(q) + 1] = x
      /\ \A j \in 1 .. Len(Append(q, x)) : j \in 1 .. Len(q) \/ j = Len(q) + 1
  OBVIOUS
<1>2. /\ \A i \in 1 .. Len(f) : f[i][1] < x
      /\ \A j \in 1 .. Len(q) : q[j] < x
  BY DEF Carried
<1>3. Rise(Append(q, x))
  BY <1>1, <1>2 DEF Ordered, Rise
<1>4. \A i \in 1 .. Len(f), j \in 1 .. Len(Append(q, x)) : f[i][1] < Append(q, x)[j]
  BY <1>1, <1>2 DEF Ordered
<1>5. \A j \in 1 .. Len(Append(q, x)) : Append(q, x)[j] \in Carried(f, q) \cup {x}
  BY <1>1 DEF Carried
<1>. QED
  BY <1>3, <1>4, <1>5 DEF Ordered, Carried

----------------------------------------------------------------------------
Frames(l) == wire[l] \o batch[l]

Travels(l) == Carried(Frames(l), outbound[l])

\* What a link carries was read, and differs from what is being queued; it is
\* in order and no other link carries it.
LinksInOrder ==
    /\ \A l \in Links : /\ Ordered(Frames(l), outbound[l], encoded[l])
                        /\ \A x \in Travels(l) : x <= read /\ (readLoop = "queueing" => x < read)
    /\ \A l, m \in Links : l # m => Travels(l) \cap Travels(m) = {}

DeviceInOrder ==
    /\ Rise(written) /\ Rise(inbound)
    /\ \A i \in 1 .. Len(written), j \in 1 .. Len(inbound) : written[i] < inbound[j]
    /\ \A i \in 1 .. Len(written) : written[i] <= received
    /\ \A j \in 1 .. Len(inbound) : inbound[j] <= received

LEMMA FramesType ==
    ASSUME DataTypeOK, NEW l \in Links
    PROVE  Frames(l) \in Seq(Packets \X Nat) /\ outbound[l] \in Seq(Packets) /\ encoded[l] \in Nat
<1>1. wire[l] \in Seq(Packets \X Nat) /\ batch[l] \in Seq(Packets \X Nat)
  BY QueueFacts
<1>2. wire[l] \o batch[l] \in Seq(Packets \X Nat)
  BY <1>1
<1>. QED
  BY <1>2, QueueFacts DEF Frames

\* A step of one link that keeps its order and carries nothing new.
LEMMA OneLinkMoves ==
    ASSUME DataTypeOK, LinksInOrder, NEW l \in Links,
           \A m \in Links \ {l} : UNCHANGED <<wire[m], batch[m], outbound[m], encoded[m]>>,
           Ordered(Frames(l)', outbound'[l], encoded'[l]), Travels(l)' \subseteq Travels(l),
           UNCHANGED readVars
    PROVE  LinksInOrder'
<1>1. \A m \in Links \ {l} : /\ Ordered(Frames(m)', outbound'[m], encoded'[m]) <=> Ordered(Frames(m), outbound[m], encoded[m])
                             /\ Travels(m)' = Travels(m)
  BY DEF Frames, Travels
<1>2. read' = read /\ readLoop' = readLoop
  BY DEF readVars
<1>3. \A m \in Links : Travels(m)' \subseteq Travels(m)
  BY <1>1
<1>4. \A m \in Links : Ordered(Frames(m)', outbound'[m], encoded'[m])
  BY <1>1 DEF LinksInOrder
<1>. QED
  BY <1>2, <1>3, <1>4 DEF LinksInOrder

LEMMA EncodeInOrder ==
    ASSUME DataTypeOK, LinksInOrder, NEW l \in Links, Encode(l), UNCHANGED <<wire, readVars>>
    PROVE  LinksInOrder'
<1>1. /\ wire[l] \in Seq(Packets \X Nat) /\ batch[l] \in Seq(Packets \X Nat)
      /\ outbound[l] \in Seq(Packets) /\ encoded[l] \in Nat
      /\ outbound[l] # <<>> /\ Head(outbound[l]) \in Packets /\ Frames(l) \in Seq(Packets \X Nat)
  BY QueueFacts, EncodeEffect, FramesType
<1>2. outbound \in [Links -> Seq(Packets)] /\ batch \in [Links -> Seq(Packets \X Nat)] /\ encoded \in [Links -> Nat]
  BY TypeParts DEF QueueType, SendType
<1>3. outbound' = [outbound EXCEPT ![l] = Tail(outbound[l])]
  BY EncodeEffect
<1>4. Ordered(Frames(l), outbound[l], encoded[l])
  BY DEF LinksInOrder
<1>5. CASE UNCHANGED <<batch, encoded>>
  <2>1. Ordered(Frames(l), Tail(outbound[l]), encoded[l]) /\ Carried(Frames(l), Tail(outbound[l])) \subseteq Travels(l)
    BY <1>1, <1>4, OrderedDrop DEF Travels
  <2>2. /\ Frames(l)' = Frames(l) /\ outbound'[l] = Tail(outbound[l]) /\ encoded'[l] = encoded[l]
        /\ \A m \in Links \ {l} : UNCHANGED <<wire[m], batch[m], outbound[m], encoded[m]>>
    BY <1>2, <1>3, <1>5 DEF Frames
  <2>3. Ordered(Frames(l)', outbound'[l], encoded'[l]) /\ Travels(l)' \subseteq Travels(l)
    BY <2>1, <2>2 DEF Travels
  <2>. QED
    BY <2>2, <2>3, OneLinkMoves
<1>6. CASE /\ batch' = [batch EXCEPT ![l] = Append(batch[l], <<Head(outbound[l]), encoded[l]>>)]
           /\ encoded' = [encoded EXCEPT ![l] = encoded[l] + 1]
  <2> DEFINE frame == <<Head(outbound[l]), encoded[l]>>
             g == wire[l] \o Append(batch[l], frame)
  <2>1. frame \in Packets \X Nat
    BY <1>1
  <2>2. /\ Frames(l)' = g /\ outbound'[l] = Tail(outbound[l]) /\ encoded'[l] = encoded[l] + 1
        /\ \A m \in Links \ {l} : UNCHANGED <<wire[m], batch[m], outbound[m], encoded[m]>>
    BY <1>2, <1>3, <1>6 DEF Frames
  <2>3. /\ g \in Seq(Packets \X Nat) /\ Len(g) = Len(Frames(l)) + 1
        /\ \A i \in 1 .. Len(Frames(l)) : g[i] = Frames(l)[i]
        /\ g[Len(g)] = frame
    <3>1. wire[l] \in Seq(Frame) /\ batch[l] \in Seq(Frame) /\ frame \in Frame
      BY <1>1, <2>1 DEF Frame
    <3>. HIDE DEF frame
    <3>2. /\ g \in Seq(Frame) /\ Len(g) = Len(wire[l] \o batch[l]) + 1
          /\ \A i \in 1 .. Len(wire[l] \o batch[l]) : g[i] = (wire[l] \o batch[l])[i]
          /\ g[Len(g)] = frame
      BY <3>1, BehindAppend
    <3>. QED
      BY <3>2 DEF Frames, Frame
  <2>. HIDE DEF g
  <2>4. Ordered(g, Tail(outbound[l]), encoded[l] + 1) /\ Carried(g, Tail(outbound[l])) \subseteq Travels(l)
    BY <1>1, <1>4, <2>3, OrderedEncode DEF Travels
  <2>5. Ordered(Frames(l)', outbound'[l], encoded'[l]) /\ Travels(l)' \subseteq Travels(l)
    BY <2>2, <2>4 DEF Travels
  <2>. QED
    BY <2>2, <2>5, OneLinkMoves
<1>. QED
  BY <1>5, <1>6, EncodeEffect

LEMMA FlushInOrder ==
    ASSUME DataTypeOK, LinksInOrder, NEW l \in Links, Flush(l)
    PROVE  LinksInOrder'
<1>1. PICK n \in 0 .. Len(batch[l]) : Flushed(l, n)
  BY DEF Flush
<1>2. /\ wire[l] \in Seq(Packets \X Nat) /\ batch[l] \in Seq(Packets \X Nat)
      /\ outbound[l] \in Seq(Packets) /\ encoded[l] \in Nat /\ Frames(l) \in Seq(Packets \X Nat)
  BY QueueFacts, FramesType
<1>3. wire \in [Links -> Seq(Packets \X Nat)] /\ batch \in [Links -> Seq(Packets \X Nat)]
  BY TypeParts DEF SendType
<1> DEFINE sent == SubSeq(batch[l], 1, n)
           g == wire[l] \o sent
<1>5. /\ g \in Seq(Packets \X Nat) /\ Len(g) <= Len(Frames(l))
      /\ \A i \in 1 .. Len(g) : g[i] = Frames(l)[i]
      /\ g \o <<>> = g
  <2>1. wire[l] \in Seq(Frame) /\ batch[l] \in Seq(Frame)
    BY <1>2 DEF Frame
  <2>2. /\ g \in Seq(Frame) /\ Len(g) <= Len(wire[l] \o batch[l])
        /\ \A i \in 1 .. Len(g) : g[i] = (wire[l] \o batch[l])[i]
        /\ g \o <<>> = g
    BY <2>1, BehindCut
  <2>. QED
    BY <2>2 DEF Frames, Frame
<1>6. /\ wire' = [wire EXCEPT ![l] = g] /\ batch' = [batch EXCEPT ![l] = <<>>]
      /\ UNCHANGED <<outbound, encoded, readVars>>
  BY <1>1 DEF Flush, Flushed
<1>. HIDE DEF g
<1>7. Frames(l)' = g
  <2>1. wire'[l] = g /\ batch'[l] = <<>>
    BY <1>3, <1>6
  <2>. QED
    BY <1>5, <2>1 DEF Frames
<1>8. Ordered(Frames(l), outbound[l], encoded[l])
  BY DEF LinksInOrder
<1>9. Ordered(g, outbound[l], encoded[l]) /\ Carried(g, outbound[l]) \subseteq Travels(l)
  BY <1>2, <1>5, <1>8, OrderedCut DEF Travels
<1>10. Ordered(Frames(l)', outbound'[l], encoded'[l]) /\ Travels(l)' \subseteq Travels(l)
  BY <1>6, <1>7, <1>9 DEF Travels
<1>11. \A m \in Links \ {l} : UNCHANGED <<wire[m], batch[m], outbound[m], encoded[m]>>
  BY <1>3, <1>6
<1>. QED
  BY <1>6, <1>10, <1>11, OneLinkMoves

LEMMA QueueInOrder ==
    ASSUME DataTypeOK, Holding, LinksInOrder, QueuePacket
    PROVE  LinksInOrder'
<1>1. readLoop = "queueing" /\ readLoop' = "reading" /\ UNCHANGED <<read, sendVars>>
  BY DEF QueuePacket
<1>2. read \in Packets /\ found \in Links /\ read \in Nat
  BY <1>1 DEF Holding, Packets
<1>0. PICK k \in Links : k = found
  BY <1>2
<1>3. \A m \in Links : Frames(m)' = Frames(m) /\ encoded'[m] = encoded[m]
  BY <1>1 DEF sendVars, Frames
<1>4. /\ Frames(k) \in Seq(Packets \X Nat) /\ outbound[k] \in Seq(Packets) /\ encoded[k] \in Nat
      /\ Ordered(Frames(k), outbound[k], encoded[k])
  BY <1>2, FramesType DEF LinksInOrder
<1>5. \A m \in Links : \A x \in Travels(m) : x < read
  BY <1>1 DEF LinksInOrder
<1>6. CASE UNCHANGED outbound
  <2>1. \A m \in Links : Travels(m)' = Travels(m) /\ outbound'[m] = outbound[m]
    BY <1>3, <1>6 DEF Travels
  <2>. QED
    BY <1>1, <1>3, <2>1 DEF LinksInOrder
<1>7. CASE outbound' = [outbound EXCEPT ![found] = Append(@, read)]
  <2>1. /\ Ordered(Frames(k), Append(outbound[k], read), encoded[k])
        /\ Carried(Frames(k), Append(outbound[k], read)) \subseteq Travels(k) \cup {read}
    BY <1>2, <1>4, <1>5, OrderedQueue DEF Travels
  <2>2. outbound'[k] = Append(outbound[k], read) /\ \A m \in Links \ {k} : outbound'[m] = outbound[m]
    BY <1>0, <1>7, TypeParts DEF QueueType
  <2>3. \A m \in Links : Ordered(Frames(m)', outbound'[m], encoded'[m])
    BY <1>3, <2>1, <2>2 DEF LinksInOrder
  <2>4. Travels(k)' \subseteq Travels(k) \cup {read} /\ \A m \in Links \ {k} : Travels(m)' = Travels(m)
    <3>1. \A m \in Links : Travels(m)' = Carried(Frames(m), outbound'[m])
      BY <1>3 DEF Travels
    <3>2. Travels(k)' = Carried(Frames(k), Append(outbound[k], read))
      BY <1>2, <2>2, <3>1
    <3>3. \A m \in Links \ {k} : Travels(m)' = Travels(m)
      BY <2>2, <3>1 DEF Travels
    <3>. QED
      BY <2>1, <3>2, <3>3
  <2>5. \A m \in Links : \A x \in Travels(m)' : x <= read
    <3>1. \A m \in Links : \A x \in Travels(m)' : x = read \/ x \in Travels(m)
      BY <2>4
    <3>2. \A m \in Links : \A x \in Travels(m) : x <= read
      BY DEF LinksInOrder
    <3>. QED
      BY <1>1, <1>2, <3>1, <3>2
  <2>6. \A m \in Links : read \notin Travels(m)
    BY <1>2, <1>5
  <2>7. \A l, m \in Links : l # m => Travels(l)' \cap Travels(m)' = {}
    <3>1. \A l, m \in Links : l # m => Travels(l) \cap Travels(m) = {}
      BY DEF LinksInOrder
    <3>2. \A l \in Links : l # k => Travels(l)' \cap Travels(k)' = {}
      BY <1>2, <2>4, <2>6, <3>1
    <3>. QED
      BY <2>4, <3>1, <3>2
  <2>. QED
    BY <1>1, <2>3, <2>5, <2>7 DEF LinksInOrder
<1>. QED
  BY <1>6, <1>7 DEF QueuePacket

LEMMA LinksInOrderStep == DataTypeOK /\ Holding /\ LinksInOrder /\ [Next]_vars => LinksInOrder'
<1> SUFFICES ASSUME DataTypeOK, Holding, LinksInOrder, [Next]_vars PROVE LinksInOrder'
  OBVIOUS
<1>1. CASE UNCHANGED <<wire, batch, outbound, encoded>> /\ UNCHANGED read /\ readLoop' \in {readLoop, "ended"}
  <2>1. \A m \in Links : Frames(m)' = Frames(m) /\ Travels(m)' = Travels(m) /\ outbound'[m] = outbound[m] /\ encoded'[m] = encoded[m]
    BY <1>1 DEF Frames, Travels
  <2>. QED
    BY <1>1, <2>1 DEF LinksInOrder
<1>2. ASSUME NEW p \in Peers, ReadPacket(p) PROVE LinksInOrder'
  <2>1. UNCHANGED <<wire, batch, outbound, encoded>> /\ read' = read + 1
    BY <1>2 DEF ReadPacket, sendVars
  <2>2. \A m \in Links : Frames(m)' = Frames(m) /\ Travels(m)' = Travels(m) /\ outbound'[m] = outbound[m] /\ encoded'[m] = encoded[m]
    BY <2>1 DEF Frames, Travels
  <2>3. \A m \in Links : Frames(m) \in Seq(Packets \X Nat) /\ outbound[m] \in Seq(Packets)
    BY FramesType
  <2>4. \A m \in Links : Travels(m) \subseteq Packets
    BY <2>3 DEF Travels, Carried
  <2>5. \A m \in Links : \A x \in Travels(m) : x < read + 1
    BY <2>4, TypeParts DEF LinksInOrder, ReadType, Packets
  <2>6. \A m \in Links : \A x \in Travels(m)' : x <= read' /\ x < read'
    BY <2>1, <2>2, <2>4, <2>5, TypeParts DEF Packets, ReadType
  <2>. QED
    BY <2>2, <2>6 DEF LinksInOrder
<1>3. ASSUME NEW l \in Links, TakePacket(l) \/ DrainPacket(l) PROVE LinksInOrder'
  BY <1>3, EncodeInOrder DEF TakePacket, DrainPacket
<1>4. ASSUME NEW l \in Links, SenderEnds(l) \/ RegisterLink(l) PROVE LinksInOrder'
  BY <1>1, <1>4 DEF SenderEnds, RegisterLink, readVars
<1>5. ASSUME NEW p \in Peers, UnregisterLink(p) PROVE LinksInOrder'
  BY <1>1, <1>5 DEF UnregisterLink, readVars, sendVars
<1>6. CASE ReadFails \/ DeliverInbound \/ TakeInbound \/ WriterEnds \/ CloseTable \/ CloseStep
  BY <1>1, <1>6 DEF ReadFails, DeliverInbound, TakeInbound, WriterEnds, CloseTable, CloseStep,
                    CancelSenders, CloseDevice, CloseReturns, readVars, sendVars
<1>7. CASE UNCHANGED vars
  BY <1>1, <1>7 DEF vars, readVars, sendVars
<1>. QED
  BY <1>2, <1>3, <1>4, <1>5, <1>6, <1>7, FlushInOrder, QueueInOrder DEF Next, SenderStep

LEMMA DeviceInOrderStep == DataTypeOK /\ DeviceInOrder /\ [Next]_vars => DeviceInOrder'
<1> SUFFICES ASSUME DataTypeOK, DeviceInOrder, [Next]_vars PROVE DeviceInOrder'
  OBVIOUS
<1>0. written \in Seq(Packets) /\ inbound \in Seq(Packets) /\ received \in Nat
  BY TypeParts DEF InType
<1>1. CASE UNCHANGED <<written, inbound, received>>
  BY <1>1 DEF DeviceInOrder
<1>2. CASE DeliverInbound
  <2>1. received' = received + 1 /\ UNCHANGED written
    BY <1>2 DEF DeliverInbound
  <2>2. /\ \A i \in 1 .. Len(written) : written[i] \in Nat
        /\ \A j \in 1 .. Len(inbound) : inbound[j] \in Nat
    <3>1. /\ \A i \in 1 .. Len(written) : written[i] \in Packets
          /\ \A j \in 1 .. Len(inbound) : inbound[j] \in Packets
      BY <1>0
    <3>2. Packets \subseteq Nat
      BY DEF Packets
    <3>. QED
      BY <3>1, <3>2
  <2>3. CASE UNCHANGED inbound
    BY <1>0, <2>1, <2>2, <2>3 DEF DeviceInOrder
  <2>4. CASE inbound' = Append(inbound, received + 1)
    <3>1. /\ Len(inbound') = Len(inbound) + 1 /\ Len(inbound) \in Nat
          /\ \A j \in 1 .. Len(inbound) : inbound'[j] = inbound[j]
          /\ inbound'[Len(inbound) + 1] = received + 1
          /\ \A j \in 1 .. Len(inbound') : j \in 1 .. Len(inbound) \/ j = Len(inbound) + 1
      BY <1>0, <2>4
    <3>2. \A j \in 1 .. Len(inbound') : inbound'[j] <= received'
      BY <1>0, <2>1, <2>2, <3>1 DEF DeviceInOrder
    <3>3. Rise(inbound)'
      BY <1>0, <2>2, <3>1 DEF DeviceInOrder, Rise
    <3>4. \A i \in 1 .. Len(written), j \in 1 .. Len(inbound') : written[i] < inbound'[j]
      <4> SUFFICES ASSUME NEW i \in 1 .. Len(written), NEW j \in 1 .. Len(inbound') PROVE written[i] < inbound'[j]
        OBVIOUS
      <4>1. CASE j \in 1 .. Len(inbound)
        BY <3>1, <4>1 DEF DeviceInOrder
      <4>2. CASE j = Len(inbound) + 1
        <5>1. written[i] \in Nat /\ written[i] <= received
          BY <2>2 DEF DeviceInOrder
        <5>. QED
          BY <1>0, <3>1, <4>2, <5>1
      <4>. QED
        BY <3>1, <4>1, <4>2
    <3>5. \A i \in 1 .. Len(written) : written[i] <= received'
      BY <1>0, <2>1, <2>2 DEF DeviceInOrder
    <3>6. Rise(written)'
      BY <2>1 DEF DeviceInOrder, Rise
    <3>. QED
      BY <2>1, <3>2, <3>3, <3>4, <3>5, <3>6 DEF DeviceInOrder
  <2>. QED
    BY <1>2, <2>3, <2>4 DEF DeliverInbound
<1>3. CASE TakeInbound
  <2>1. inbound # <<>> /\ inbound' = Tail(inbound) /\ UNCHANGED received
    BY <1>3 DEF TakeInbound
  <2>2. /\ Len(inbound) \in Nat \ {0} /\ Head(inbound) = inbound[1] /\ 1 \in 1 .. Len(inbound)
        /\ \A j \in 1 .. Len(inbound') : j + 1 \in 1 .. Len(inbound) /\ inbound'[j] = inbound[j + 1]
    BY <1>0, <2>1
  <2>3. Rise(inbound)' /\ \A j \in 1 .. Len(inbound') : inbound'[j] <= received /\ inbound[1] < inbound'[j]
    BY <2>2 DEF DeviceInOrder, Rise
  <2>4. CASE UNCHANGED written
    BY <2>1, <2>2, <2>3, <2>4 DEF DeviceInOrder
  <2>5. CASE written' = Append(written, Head(inbound))
    <3>1. /\ Len(written') = Len(written) + 1 /\ Len(written) \in Nat
          /\ \A i \in 1 .. Len(written) : written'[i] = written[i]
          /\ written'[Len(written) + 1] = inbound[1]
          /\ \A i \in 1 .. Len(written') : i \in 1 .. Len(written) \/ i = Len(written) + 1
      BY <1>0, <2>2, <2>5
    <3>2. Rise(written)'
      BY <2>2, <3>1 DEF DeviceInOrder, Rise
    <3>3. \A i \in 1 .. Len(written'), j \in 1 .. Len(inbound') : written'[i] < inbound'[j]
      BY <2>2, <2>3, <3>1 DEF DeviceInOrder
    <3>4. \A i \in 1 .. Len(written') : written'[i] <= received
      BY <2>2, <3>1 DEF DeviceInOrder
    <3>. QED
      BY <2>1, <2>3, <3>2, <3>3, <3>4 DEF DeviceInOrder
  <2>. QED
    BY <1>3, <2>4, <2>5 DEF TakeInbound
<1>4. ASSUME NEW p \in Peers, UnregisterLink(p) \/ ReadPacket(p) PROVE DeviceInOrder'
  BY <1>1, <1>4 DEF UnregisterLink, ReadPacket, inVars
<1>5. ASSUME NEW l \in Links, RegisterLink(l) \/ SenderStep(l) PROVE DeviceInOrder'
  BY <1>1, <1>5 DEF RegisterLink, SenderStep, TakePacket, DrainPacket, Flush, SenderEnds, inVars
<1>6. CASE QueuePacket \/ ReadFails \/ WriterEnds \/ CloseTable \/ CloseStep
  BY <1>1, <1>6 DEF QueuePacket, ReadFails, WriterEnds, CloseTable, CloseStep, CancelSenders, CloseDevice,
                    CloseReturns, inVars
<1>7. CASE UNCHANGED vars
  BY <1>1, <1>7 DEF vars, inVars
<1>. QED
  BY <1>2, <1>3, <1>4, <1>5, <1>6, <1>7 DEF Next

\* Neighbours in a sequence of numbers whose every two are in order.
LEMMA RiseAscends == ASSUME NEW s \in Seq(Packets), Rise(s) PROVE Ascending(s)
<1>1. \A i \in 1 .. Len(s) - 1 : i \in 1 .. Len(s) /\ i + 1 \in 1 .. Len(s) /\ i < i + 1
  OBVIOUS
<1>. QED
  BY <1>1 DEF Rise, Ascending

LEMMA BehindRises ==
    ASSUME NEW s \in Seq(Packets), NEW t \in Seq(Packets), Rise(s), Rise(t),
           \A i \in 1 .. Len(s), j \in 1 .. Len(t) : s[i] < t[j]
    PROVE  Ascending(s \o t)
<1>1. s \o t \in Seq(Packets) /\ Len(s \o t) = Len(s) + Len(t) /\ Len(s) \in Nat /\ Len(t) \in Nat
  OBVIOUS
<1>2. /\ \A i \in 1 .. Len(s) : (s \o t)[i] = s[i]
      /\ \A i \in Len(s) + 1 .. Len(s) + Len(t) : i - Len(s) \in 1 .. Len(t) /\ (s \o t)[i] = t[i - Len(s)]
  BY <1>1
<1>3. \A i \in 1 .. Len(s \o t) : i \in 1 .. Len(s) \/ i \in Len(s) + 1 .. Len(s) + Len(t)
  BY <1>1
<1>4. Rise(s \o t)
  <2> SUFFICES ASSUME NEW i \in 1 .. Len(s \o t), NEW j \in 1 .. Len(s \o t), i < j
               PROVE  (s \o t)[i] < (s \o t)[j]
    BY DEF Rise
  <2>1. CASE j \in 1 .. Len(s)
    BY <1>1, <1>2, <2>1 DEF Rise
  <2>2. CASE i \in 1 .. Len(s) /\ j \in Len(s) + 1 .. Len(s) + Len(t)
    BY <1>1, <1>2, <2>2
  <2>3. CASE i \in Len(s) + 1 .. Len(s) + Len(t) /\ j \in Len(s) + 1 .. Len(s) + Len(t)
    <3>1. i - Len(s) < j - Len(s)
      BY <1>1
    <3>. QED
      BY <1>1, <1>2, <2>3, <3>1 DEF Rise
  <2>. QED
    BY <1>1, <1>3, <2>1, <2>2, <2>3
<1>. QED
  BY <1>1, <1>4, RiseAscends

\* The packets and the numbers of frames.
LEMMA FrameParts ==
    ASSUME NEW f \in Seq(Packets \X Nat)
    PROVE  /\ First(f) \in Seq(Packets) /\ Len(First(f)) = Len(f) /\ \A i \in 1 .. Len(f) : First(f)[i] = f[i][1]
           /\ Len(Nums(f)) = Len(f) /\ \A i \in 1 .. Len(f) : Nums(f)[i] = f[i][2]
<1>1. DOMAIN f = 1 .. Len(f) /\ Len(f) \in Nat /\ \A i \in 1 .. Len(f) : f[i][1] \in Packets /\ f[i][2] \in Nat
  OBVIOUS
<1>2. First(f) = [i \in 1 .. Len(f) |-> f[i][1]] /\ Nums(f) = [i \in 1 .. Len(f) |-> f[i][2]]
  BY <1>1 DEF First, Nums
<1>. QED
  BY <1>1, <1>2

LEMMA InOrderFromParts == DataTypeOK /\ LinksInOrder /\ DeviceInOrder => InOrder
<1> SUFFICES ASSUME DataTypeOK, LinksInOrder, DeviceInOrder PROVE InOrder
  OBVIOUS
<1>1. Ascending(written \o inbound)
  BY TypeParts, BehindRises DEF DeviceInOrder, InType
<1>2. ASSUME NEW l \in Links
      PROVE  /\ Ascending(First(wire[l] \o batch[l]) \o outbound[l])
             /\ Ascending(Nums(wire[l] \o batch[l]))
             /\ ToSet(First(wire[l] \o batch[l]) \o outbound[l]) \subseteq Travels(l)
  <2> DEFINE f == Frames(l)
             q == outbound[l]
  <2>1. f \in Seq(Packets \X Nat) /\ q \in Seq(Packets) /\ Ordered(f, q, encoded[l])
    BY FramesType DEF LinksInOrder
  <2>. HIDE DEF f, q
  <2>2. /\ First(f) \in Seq(Packets) /\ Len(First(f)) = Len(f) /\ \A i \in 1 .. Len(f) : First(f)[i] = f[i][1]
        /\ Len(Nums(f)) = Len(f) /\ \A i \in 1 .. Len(f) : Nums(f)[i] = f[i][2]
    BY <2>1, FrameParts
  <2>3. Ascending(First(f) \o q)
    <3>1. Rise(First(f)) /\ Rise(q) /\ \A i \in 1 .. Len(First(f)), j \in 1 .. Len(q) : First(f)[i] < q[j]
      BY <2>1, <2>2 DEF Ordered, Rise
    <3>. QED
      BY <2>1, <2>2, <3>1, BehindRises
  <2>4. Ascending(Nums(f))
    <3>1. \A i \in 1 .. Len(f) - 1 : i \in 1 .. Len(f) /\ i + 1 \in 1 .. Len(f) /\ i < i + 1
      BY <2>1
    <3>. QED
      BY <2>1, <2>2, <3>1 DEF Ordered, Ascending
  <2>5. ToSet(First(f) \o q) \subseteq Carried(f, q)
    <3>1. /\ DOMAIN (First(f) \o q) = 1 .. Len(First(f)) + Len(q) /\ Len(First(f)) \in Nat /\ Len(q) \in Nat
          /\ \A i \in 1 .. Len(First(f)) : (First(f) \o q)[i] = First(f)[i]
          /\ \A i \in 1 .. Len(First(f)) + Len(q) : i \notin 1 .. Len(First(f)) =>
                i - Len(First(f)) \in 1 .. Len(q) /\ (First(f) \o q)[i] = q[i - Len(First(f))]
      BY <2>1, <2>2
    <3>2. \A i \in DOMAIN (First(f) \o q) : (First(f) \o q)[i] \in Carried(f, q)
      BY <2>2, <3>1 DEF Carried
    <3>. QED
      BY <3>2 DEF ToSet
  <2>. QED
    BY <2>3, <2>4, <2>5 DEF f, q, Frames, Travels
<1>3. \A l, m \in Links : l # m =>
         ToSet(First(wire[l] \o batch[l]) \o outbound[l]) \cap ToSet(First(wire[m] \o batch[m]) \o outbound[m]) = {}
  BY <1>2 DEF LinksInOrder
<1>. QED
  BY <1>1, <1>2, <1>3 DEF InOrder

\* A peer gets the packets of a link in the order they were read, none of them
\* twice and no packet over two links, and the TUN device gets the peers' packets
\* in the order they came in, whatever full queues, batches sent in part and
\* links that end have lost.
THEOREM PacketsInOrder == Spec => []InOrder
<1>1. Init => LinksInOrder
  <2> SUFFICES ASSUME Init PROVE LinksInOrder
    OBVIOUS
  <2>1. \A l \in Links : Frames(l) = <<>> /\ outbound[l] = <<>>
    BY DEF Init, Frames
  <2>2. \A l \in Links : Ordered(<<>>, <<>>, encoded[l]) /\ Travels(l) = {}
    BY <2>1 DEF Ordered, Rise, Travels, Carried
  <2>. QED
    BY <2>1, <2>2 DEF LinksInOrder
<1>2. Init => DeviceInOrder
  BY DEF Init, DeviceInOrder, Rise
<1>. QED
  BY <1>1, <1>2, LinksInOrderStep, DeviceInOrderStep, InOrderFromParts, PlaneHolds, PTL DEF Spec
=============================================================================
