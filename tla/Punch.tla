------------------------------- MODULE Punch -------------------------------
(***************************************************************************)
(* Hole punching between the two ends of one attempt: the senders, the     *)
(* receive loops and the three-way handshake of linkWorker                 *)
(* (src/internal/client/worker.go, punch and below), over UDP that loses,  *)
(* duplicates and reorders.                                                *)
(*                                                                         *)
(* Side 0 is link0, the end with the smaller device id; side 1 is link1.   *)
(* A side behind a variable NAT punches from a pool of helper sockets, a   *)
(* stable one from its main socket; the server never lets two variable     *)
(* sides come this far (the workers refuse with NAT_UNSUPPORTED).          *)
(*                                                                         *)
(* A received datagram is handled at once: one that waits in eventsIn      *)
(* while its socket is closed would only lose its reply.  What a receiver  *)
(* drops unread - another attempt's token, a source IP that is not the     *)
(* peer's - is not in the model.                                           *)
(***************************************************************************)
EXTENDS Naturals, FiniteSets

CONSTANTS
    Sockets,    \* socket ids are random, so a socket is its id
    Main,       \* the main socket of each side
    Helpers,    \* the sockets CreateHelpers would give each side
    NATs,       \* the sets of sides that may be behind a variable NAT
    OKResends,  \* punchOKResendCount
    NoSocket, NoPath

Sides   == {0, 1}
Peer(i) == 1 - i

ASSUME SocketAssumption ==
    /\ Main \in [Sides -> Sockets] /\ Main[0] # Main[1]
    /\ Helpers \in [Sides -> SUBSET Sockets]
    /\ (Helpers[0] \cup {Main[0]}) \cap (Helpers[1] \cup {Main[1]}) = {}
    /\ \A i \in Sides : Main[i] \notin Helpers[i]
    /\ Sockets = {Main[0], Main[1]} \cup Helpers[0] \cup Helpers[1]
ASSUME NATAssumption  == \A v \in NATs : v \subseteq Sides /\ v # Sides
ASSUME CountAssumption == OKResends \in Nat

VARIABLES
    variable,     \* the sides behind a variable NAT
    phase,        \* of each side's worker
    open,         \* the sockets each side receives on
    path,         \* p2pSocket, peerSocketID and peerLive of each side, or NoPath
    punchSent,    \* the addresses each socket has punched or been punched from
    reverseSent,  \* the (receiving socket, source, sender) already answered with a PUNCH
    ackAssoc,     \* the (receiving socket, source, sender) of ACKs link1 recorded
    okLeft,       \* re-sends of PUNCH_OK still to come
    limited,      \* less than a second since the last supplementary PUNCH_OK
    net           \* datagrams on their way

workers == <<variable, phase, open, path, punchSent, reverseSent, ackAssoc, okLeft, limited>>
vars    == <<variable, phase, open, path, punchSent, reverseSent, ackAssoc, okLeft, limited, net>>

SocketsOf(i) == {Main[i]} \cup Helpers[i]
SideOf(s)    == CHOOSE i \in Sides : s \in SocketsOf(i)

----------------------------------------------------------------------------
(* Addresses and datagrams *)

\* The public address a socket's datagrams to the peer come from.  A stable NAT
\* has one mapping for every destination; a variable one makes another for the
\* peer than the one the probe servers saw.
Address(s) == <<s, IF SideOf(s) \in variable THEN "peer" ELSE "any">>

Addresses == Sockets \X {"any", "peer", "probe"}

\* What a commit selects: the own socket, the peer's, and the address to send to.
Selections == [socket : Sockets, peer : Sockets, addr : Addresses]

ASSUME AbsenceAssumption == NoSocket \notin Sockets /\ NoPath \notin Selections

Datagrams == [type : {"PUNCH", "ACK", "OK"}, from : Sockets, to : Addresses,
              target : Sockets \cup {NoSocket}]

\* SenderSocketID is the id of the sending socket.
PUNCH(s, a)       == [type |-> "PUNCH", from |-> s, to |-> a, target |-> NoSocket]
ACK(s, a, target) == [type |-> "ACK", from |-> s, to |-> a, target |-> target]
OK(s, a, target)  == [type |-> "OK", from |-> s, to |-> a, target |-> target]

Source(m)   == Address(m.from)
Receiver(m) == m.to[1]

Connected(i) == phase[i] = "connected"
Running(i)   == phase[i] \in {"punching", "connected"}

----------------------------------------------------------------------------
(* Senders *)

\* The peer's profile has arrived and the receivers start.
Start(i) ==
    /\ phase[i] = "waiting"
    /\ phase' = [phase EXCEPT ![i] = "punching"]
    /\ open' = [open EXCEPT ![i] = {Main[i]} \cup (IF i \in variable THEN Helpers[i] ELSE {})]
    /\ UNCHANGED <<variable, path, punchSent, reverseSent, ackAssoc, okLeft, limited, net>>

\* sendPunchRecorded.
SendPunch(s, a) ==
    /\ net' = net \cup {PUNCH(s, a)}
    /\ punchSent' = [punchSent EXCEPT ![s] = @ \cup {a}]
    /\ UNCHANGED <<variable, phase, open, path, reverseSent, ackAssoc, okLeft, limited>>

\* Between stable sides: the main socket to the peer's stable endpoint.
DirectPunch(i) ==
    /\ phase[i] = "punching" /\ variable = {}
    /\ SendPunch(Main[i], Address(Main[Peer(i)]))

\* From a stable side to a variable one: any port may be a mapping of any of
\* the peer's sockets, the ones the probe servers saw included.
Candidates(i) == {Address(s) : s \in SocketsOf(i)} \cup {<<Main[i], "probe">>}
RangeScan(i, a) ==
    /\ phase[i] = "punching" /\ Peer(i) \in variable
    /\ a \in Candidates(Peer(i))
    /\ SendPunch(Main[i], a)

\* From a variable side: the helpers still open, connected or not.
PollHelpers(i, s) ==
    /\ Running(i) /\ i \in variable
    /\ s \in open[i] \cap Helpers[i]
    /\ SendPunch(s, Address(Main[Peer(i)]))

----------------------------------------------------------------------------
(* The handshake *)

\* A mutant of Prune: all helpers are closed.
PruneAll(i, s) == [open EXCEPT ![i] = {Main[i]}]

\* pruneHelpers keeps the main socket and the selected one.
Prune(i, s) == [open EXCEPT ![i] = @ \cap {Main[i], s}]

\* A mutant of Commit: the path keeps the ids the wrong way round.
CommitSwapped(i, s, m) ==
    /\ phase' = [phase EXCEPT ![i] = "connected"]
    /\ path'  = [path EXCEPT ![i] = [socket |-> m.from, peer |-> s, addr |-> Source(m)]]
    /\ open'  = Prune(i, s)

\* commit: the path is the socket the datagram arrived on and where it came from.
Commit(i, s, m) ==
    /\ phase' = [phase EXCEPT ![i] = "connected"]
    /\ path'  = [path EXCEPT ![i] = [socket |-> s, peer |-> m.from, addr |-> Source(m)]]
    /\ open'  = Prune(i, s)

\* Mutants of SelectedPathOK: the supplement leaves from where the PUNCH came in;
\* there is no supplement.
ArrivalPathOK(s, m)  == {OK(s, Source(m), m.from)}
NoSupplementOK(s, m) == {}

\* sendSelectedPathOK: always along the path link0 has committed to.
SelectedPathOK(s, m) == {OK(path[0].socket, path[0].addr, path[0].peer)}

\* PUNCH is always acknowledged.  A side that is still punching answers a new
\* sender with one PUNCH of its own; a connected link0 repeats its PUNCH_OK, at
\* most once a second.
HandlePunch(m) ==
    LET s   == Receiver(m)
        i   == SideOf(s)
        ack == ACK(s, Source(m), m.from)
        key == <<s, Source(m), m.from>>
    IN /\ m.type = "PUNCH"
       /\ punchSent' = [punchSent EXCEPT ![s] = @ \cup {Source(m)}]
       /\ \/ /\ Connected(i) /\ i = 0 /\ ~limited
             /\ net' = net \cup {ack} \cup SelectedPathOK(s, m)
             /\ limited' = TRUE
             /\ UNCHANGED reverseSent
          \/ /\ Connected(i) /\ (i = 1 \/ limited)
             /\ net' = net \cup {ack}
             /\ UNCHANGED <<limited, reverseSent>>
          \/ /\ ~Connected(i)
             /\ net' = net \cup {ack} \cup (IF key \in reverseSent THEN {} ELSE {PUNCH(s, Source(m))})
             /\ reverseSent' = reverseSent \cup {key}
             /\ UNCHANGED limited
       /\ UNCHANGED <<variable, phase, open, path, ackAssoc, okLeft>>

\* A mutant of Acceptable: a connected side listens on.
AcceptableConnected(m) == m.target = Receiver(m) /\ Source(m) \in punchSent[Receiver(m)]

\* An ACK counts while its receiver punches, if it names the socket it arrived
\* on and that socket has punched its source.
Acceptable(m) ==
    /\ ~Connected(SideOf(Receiver(m)))
    /\ m.target = Receiver(m) /\ Source(m) \in punchSent[Receiver(m)]

\* link0 commits on an ACK and sends PUNCH_OK back the way it came.
HandleACKLink0(m) ==
    LET s == Receiver(m)
    IN /\ m.type = "ACK" /\ SideOf(s) = 0
       /\ Acceptable(m)
       /\ Commit(0, s, m)
       /\ net' = net \cup {OK(s, Source(m), m.from)}
       /\ okLeft' = OKResends
       /\ UNCHANGED <<variable, punchSent, reverseSent, ackAssoc, limited>>

\* A mutant of HandleACKLink1: link1 does not wait for PUNCH_OK.
ACKCommitsLink1(m) ==
    LET s == Receiver(m)
    IN /\ m.type = "ACK" /\ SideOf(s) = 1
       /\ Acceptable(m)
       /\ Commit(1, s, m)
       /\ UNCHANGED <<variable, punchSent, reverseSent, ackAssoc, okLeft, limited, net>>

\* link1 only remembers who acknowledged.
HandleACKLink1(m) ==
    LET s == Receiver(m)
    IN /\ m.type = "ACK" /\ SideOf(s) = 1
       /\ Acceptable(m)
       /\ ackAssoc' = {k \in ackAssoc : <<k[1], k[2]>> # <<s, Source(m)>>} \cup {<<s, Source(m), m.from>>}
       /\ UNCHANGED <<variable, phase, open, path, punchSent, reverseSent, okLeft, limited, net>>

\* link1 commits on a PUNCH_OK of the socket that acknowledged.
HandleOKLink1(m) ==
    LET s == Receiver(m)
    IN /\ m.type = "OK" /\ SideOf(s) = 1
       /\ ~Connected(1)
       /\ m.target = s /\ <<s, Source(m), m.from>> \in ackAssoc
       /\ Commit(1, s, m)
       /\ UNCHANGED <<variable, punchSent, reverseSent, ackAssoc, okLeft, limited, net>>

\* A datagram reaches a socket that is still read, and its effect if it has
\* one; it stays on its way, for it may be duplicated.
Deliver(m) ==
    /\ m \in net
    /\ Running(SideOf(Receiver(m))) /\ Receiver(m) \in open[SideOf(Receiver(m))]
    /\ HandlePunch(m) \/ HandleACKLink0(m) \/ HandleACKLink1(m) \/ HandleOKLink1(m)

\* resendPunchOK: a few more times, while the worker lives.
ResendOK ==
    /\ Connected(0) /\ okLeft > 0
    /\ okLeft' = okLeft - 1
    /\ net' = net \cup {OK(path[0].socket, path[0].addr, path[0].peer)}
    /\ UNCHANGED <<variable, phase, open, path, punchSent, reverseSent, ackAssoc, limited>>

SecondPasses ==
    /\ limited
    /\ limited' = FALSE
    /\ UNCHANGED <<variable, phase, open, path, punchSent, reverseSent, ackAssoc, okLeft, net>>

----------------------------------------------------------------------------
(* The end of an attempt *)

Finish(i, outcome) ==
    /\ phase' = [phase EXCEPT ![i] = outcome]
    /\ open' = [open EXCEPT ![i] = {}]
    /\ UNCHANGED <<variable, path, punchSent, reverseSent, ackAssoc, okLeft, limited, net>>

\* The punching budget is used up.
Deadline(i) == phase[i] = "punching" /\ Finish(i, "failed")

\* Nothing valid was heard for the keepalive timeout.
KeepaliveTimeout(i) == Connected(i) /\ Finish(i, "lost")

\* Stop: a new attempt, a DISCONNECT or a new configuration.
Stop(i) == phase[i] \in {"waiting", "punching", "connected"} /\ Finish(i, "stopped")

\* A datagram is lost.
Lose(m) == m \in net /\ net' = net \ {m} /\ UNCHANGED workers
----------------------------------------------------------------------------
(* Specification *)

Init ==
    /\ variable \in NATs
    /\ phase = [i \in Sides |-> "waiting"]
    /\ open = [i \in Sides |-> {}]
    /\ path = [i \in Sides |-> NoPath]
    /\ punchSent = [s \in Sockets |-> {}]
    /\ reverseSent = {} /\ ackAssoc = {}
    /\ okLeft = 0 /\ limited = FALSE
    /\ net = {}

Punching ==
    \E i \in Sides :
        \/ Start(i) \/ DirectPunch(i)
        \/ \E a \in Addresses : RangeScan(i, a)
        \/ \E s \in Sockets : PollHelpers(i, s)

Handshake == (\E m \in net : Deliver(m)) \/ ResendOK \/ SecondPasses

Ending == \E i \in Sides : Deadline(i) \/ KeepaliveTimeout(i) \/ Stop(i)

\* A datagram that is never delivered is a lost one.
Next == Punching \/ Handshake \/ Ending

Spec == Init /\ [][Next]_vars

\* While the punching budget lasts; any single datagram may be lost.
PatientNext == Punching \/ Handshake \/ \E m \in net : Lose(m)

\* link1 punches the path link0 has selected once more: its direct PUNCHes and
\* those of each helper go on at their intervals until link1 itself is connected.
\* A scan is none of this: it tries every port once, and a part of them only.
Repunch ==
    /\ Connected(0)
    /\ DirectPunch(1) \/ PollHelpers(1, path[0].peer)

\* A datagram of this type is delivered on the path link0 has selected.
Selected(type) ==
    /\ Connected(0)
    /\ \E m \in net :
        /\ m.type = type
        /\ {m.from, Receiver(m)} = {path[0].socket, path[0].peer}
        /\ SideOf(Receiver(m)) = IF type = "PUNCH" THEN 0 ELSE 1
        /\ Deliver(m)

\* The senders keep their intervals; a path that is open does not lose every
\* repetition of a datagram, and may lose one that is not repeated.
Patience ==
    /\ WF_vars(SecondPasses) /\ WF_vars(Repunch)
    /\ SF_vars(Selected("PUNCH")) /\ SF_vars(Selected("ACK")) /\ SF_vars(Selected("OK"))

PatientSpec == Init /\ [][PatientNext]_vars /\ Patience
----------------------------------------------------------------------------
(* Properties *)

Committed(i) == path[i] # NoPath

\* Every variable holds what the code's types allow; a side only ever opens and
\* selects its own sockets, and selects a socket of the peer.
TypeOK ==
    /\ variable \in NATs
    /\ phase \in [Sides -> {"waiting", "punching", "connected", "failed", "lost", "stopped"}]
    /\ open \in [Sides -> SUBSET Sockets]
    /\ path \in [Sides -> Selections \cup {NoPath}]
    /\ \A i \in Sides :
          /\ open[i] \subseteq SocketsOf(i)
          /\ Committed(i) => path[i].socket \in SocketsOf(i) /\ path[i].peer \in SocketsOf(Peer(i))
    /\ punchSent \in [Sockets -> SUBSET Addresses]
    /\ reverseSent \in SUBSET (Sockets \X Addresses \X Sockets)
    /\ ackAssoc \in SUBSET (Sockets \X Addresses \X Sockets)
    /\ okLeft \in 0 .. OKResends /\ limited \in BOOLEAN
    /\ net \in SUBSET Datagrams

\* What side i sends along its path arrives at the socket the other side has
\* selected, from the address the other side has selected: the frames and PINGs
\* of i are the ones the other accepts.
Reaches(i) ==
    /\ path[i].addr = Address(path[Peer(i)].socket)
    /\ path[Peer(i)].addr = Address(path[i].socket)
    /\ path[i].peer = path[Peer(i)].socket

\* Two connected sides have settled on the same path: no tunnel is a black hole.
PathsMirror == Committed(0) /\ Committed(1) => Reaches(0) /\ Reaches(1)

\* link1 never connects before link0: what link1 reports connected is a path
\* link0 has already committed to.
Link0First == Committed(1) => Committed(0)

\* Shrinking the helper pool closes neither end of the selected path.
SelectedPathOpen ==
    \A i \in Sides : Connected(i) =>
        /\ path[i].socket \in open[i]
        /\ Running(Peer(i)) => path[i].peer \in open[Peer(i)]

\* A committed path is final, however many acknowledgements arrive later.
PathNeverMoves == [][\A i \in Sides : Committed(i) => path'[i] = path[i]]_vars

\* Some sender of link1 repeats its PUNCH along the path link0 has selected: the
\* direct one between stable sides, a helper's of a variable link1.  From its main
\* socket a variable link1 answers a new sender once, and so does the link1 that
\* scans for a variable link0.
StillPunched ==
    \/ variable = {}
    \/ variable = {1} /\ path[0].peer \in Helpers[1]

\* worker.go:699-708: while the budget lasts, link1 follows link0: the half-open
\* state heals although the PUNCH_OKs sent at commit may all be lost.
Link1Follows == Connected(0) /\ StillPunched ~> Connected(1)
=============================================================================
