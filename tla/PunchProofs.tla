---------------------------- MODULE PunchProofs ----------------------------
(***************************************************************************)
(* Theorems about Punch: for any number of helper sockets, whichever side  *)
(* is variable, and however datagrams are lost, duplicated and reordered,  *)
(* two connected ends have selected one and the same path, link0 was       *)
(* connected first, and neither path ever changes.                         *)
(*                                                                         *)
(* The inductive invariant says what a datagram on its way proves: every   *)
(* PUNCH_OK is of the path link0 has committed to, and its sender is a     *)
(* socket that was open.                                                   *)
(*                                                                         *)
(* The ports of a scan come last: the three stages try each once, in a     *)
(* space of any size.                                                      *)
(***************************************************************************)
EXTENDS PunchScan, FiniteSetTheorems, TLAPS

\* The sockets side i receives on until it commits.
Openable(i) == {Main[i]} \cup (IF i \in variable THEN Helpers[i] ELSE {})

\* Datagrams travel between the sides, from sockets that were open.
Wire ==
    \A m \in net : \E i \in Sides :
        m.from \in Openable(i) /\ Receiver(m) \in SocketsOf(Peer(i))

\* A side has a path once it is connected, and keeps the path's socket open.
Life ==
    \A i \in Sides :
        /\ phase[i] \in {"waiting", "punching"} => ~Committed(i)
        /\ Connected(i) => Committed(i) /\ path[i].socket \in open[i]
        /\ phase[i] = "punching" => open[i] = Openable(i)
        /\ open[i] \subseteq Openable(i)

\* link0 sends along its path to the socket it has selected.
Aimed ==
    Committed(0) => path[0].addr = Address(path[0].peer) /\ path[0].peer \in Openable(1)

\* Every PUNCH_OK goes along the path link0 has committed to.
OKs ==
    \A m \in net : m.type = "OK" =>
        Committed(0) /\ m = OK(path[0].socket, path[0].addr, path[0].peer)

\* link1 follows link0, onto its path.
Mirror == Committed(1) => Committed(0) /\ Reaches(0) /\ Reaches(1)

IInv == TypeOK /\ Wire /\ Life /\ Aimed /\ OKs /\ Mirror
----------------------------------------------------------------------------
(* Sides, sockets and addresses *)

LEMMA PeerSide ==
    /\ \A i \in Sides : Peer(i) \in Sides /\ Peer(i) # i /\ Peer(Peer(i)) = i
    /\ Peer(0) = 1 /\ Peer(1) = 0
  BY DEF Sides, Peer

LEMMA SideOfSocket ==
    ASSUME NEW i \in Sides, NEW s \in SocketsOf(i)
    PROVE  SideOf(s) = i /\ s \in Sockets
<1>1. \A j \in Sides : s \in SocketsOf(j) => j = i
  BY SocketAssumption DEF Sides, SocketsOf
<1>2. s \in Sockets
  BY SocketAssumption DEF Sides, SocketsOf
<1>. QED
  BY <1>1, <1>2 DEF SideOf

LEMMA SocketSide ==
    ASSUME NEW s \in Sockets
    PROVE  SideOf(s) \in Sides /\ s \in SocketsOf(SideOf(s))
<1>1. \E i \in Sides : s \in SocketsOf(i)
  BY SocketAssumption DEF Sides, SocketsOf
<1>. QED
  BY <1>1 DEF SideOf

LEMMA AddressOf ==
    ASSUME NEW s \in Sockets
    PROVE  Address(s) \in Addresses /\ Address(s)[1] = s
  BY DEF Address, Addresses

LEMMA OpenableSockets ==
    ASSUME NEW i \in Sides
    PROVE  Openable(i) \subseteq SocketsOf(i) /\ Main[i] \in Openable(i)
  BY DEF Openable, SocketsOf

\* A datagram side i may send from socket s to address a.
LEMMA MessageTypes ==
    ASSUME NEW s \in Sockets, NEW a \in Addresses, NEW t \in Sockets
    PROVE  /\ PUNCH(s, a) \in Datagrams
           /\ ACK(s, a, t) \in Datagrams
           /\ OK(s, a, t) \in Datagrams
  BY DEF PUNCH, ACK, OK, Datagrams
----------------------------------------------------------------------------
(* Steps that leave both paths alone *)

Wired(m) == \E i \in Sides : m.from \in Openable(i) /\ Receiver(m) \in SocketsOf(Peer(i))
Sound(m) == m.type = "OK" => Committed(0) /\ m = OK(path[0].socket, path[0].addr, path[0].peer)

\* What is still true when more datagrams are on their way.
LEMMA SendKeeps ==
    ASSUME IInv, TypeOK', \A m \in net' : m \in net \/ (Wired(m) /\ Sound(m)),
           UNCHANGED <<variable, phase, open, path>>
    PROVE  IInv'
<1>1. Wire'
  BY DEF IInv, Wire, Wired, Openable
<1>2. Life'
  BY DEF IInv, Life, Connected, Committed, Openable
<1>3. Aimed'
  BY DEF IInv, Aimed, Committed, Address, Openable
<1>4. OKs'
  BY DEF IInv, OKs, Sound, Committed
<1>5. Mirror'
  BY DEF IInv, Mirror, Committed, Reaches, Address
<1>. QED
  BY <1>1, <1>2, <1>3, <1>4, <1>5 DEF IInv

\* A side starts, or its attempt is over: its sockets open, or close.
LEMMA PhaseKeeps ==
    ASSUME IInv, NEW i \in Sides, NEW f, NEW o,
           phase' = [phase EXCEPT ![i] = f], open' = [open EXCEPT ![i] = o],
           \/ phase[i] = "waiting" /\ f = "punching" /\ o = Openable(i)
           \/ f \in {"failed", "lost", "stopped"} /\ o = {},
           UNCHANGED <<variable, path, punchSent, reverseSent, ackAssoc, okLeft, limited, net>>
    PROVE  IInv'
<1>1. TypeOK'
  <2>1. o \subseteq SocketsOf(i) /\ o \subseteq Sockets
    BY OpenableSockets, SideOfSocket
  <2>2. /\ phase' \in [Sides -> {"waiting", "punching", "connected", "failed", "lost", "stopped"}]
        /\ open' \in [Sides -> SUBSET Sockets]
        /\ \A j \in Sides : open'[j] \subseteq SocketsOf(j)
    BY <2>1 DEF IInv, TypeOK
  <2>. QED
    BY <2>2 DEF IInv, TypeOK, Committed
<1>2. Wire'
  BY DEF IInv, Wire, Openable
<1>3. Life'
  <2> SUFFICES ASSUME NEW j \in Sides
               PROVE  /\ phase'[j] \in {"waiting", "punching"} => ~Committed(j)'
                      /\ Connected(j)' => Committed(j)' /\ path'[j].socket \in open'[j]
                      /\ phase'[j] = "punching" => open'[j] = Openable(j)'
                      /\ open'[j] \subseteq Openable(j)'
    BY DEF Life
  <2>1. Openable(j)' = Openable(j) /\ (Committed(j)' <=> Committed(j))
    BY DEF Openable, Committed
  <2>2. CASE j = i
    BY <2>1, <2>2 DEF IInv, TypeOK, Life, Connected
  <2>3. CASE j # i
    BY <2>1, <2>3 DEF IInv, TypeOK, Life, Connected
  <2>. QED
    BY <2>2, <2>3
<1>4. Aimed'
  BY DEF IInv, Aimed, Committed, Address, Openable
<1>5. OKs'
  BY DEF IInv, OKs, Committed
<1>6. Mirror'
  BY DEF IInv, Mirror, Committed, Reaches, Address
<1>. QED
  BY <1>1, <1>2, <1>3, <1>4, <1>5, <1>6 DEF IInv

LEMMA StartKeeps ==
    ASSUME IInv, NEW i \in Sides, Start(i)
    PROVE  IInv'
  BY PhaseKeeps DEF Start, Openable

LEMMA FinishKeeps ==
    ASSUME IInv, NEW i \in Sides, Deadline(i) \/ KeepaliveTimeout(i) \/ Stop(i)
    PROVE  IInv'
<1>1. PICK outcome \in {"failed", "lost", "stopped"} : Finish(i, outcome)
  BY DEF Deadline, KeepaliveTimeout, Stop
<1>. QED
  BY <1>1, PhaseKeeps DEF Finish

LEMMA SendPunchKeeps ==
    ASSUME IInv, NEW i \in Sides, NEW s \in Openable(i), NEW a \in Addresses,
           a[1] \in SocketsOf(Peer(i)), SendPunch(s, a)
    PROVE  IInv'
<1>1. s \in Sockets
  BY OpenableSockets, SideOfSocket
<1>2. PUNCH(s, a) \in Datagrams
  BY <1>1 DEF PUNCH, Datagrams
<1>3. Wired(PUNCH(s, a)) /\ Sound(PUNCH(s, a))
  BY DEF PUNCH, Wired, Sound, Receiver
<1>4. TypeOK'
  <2>1. punchSent' \in [Sockets -> SUBSET Addresses]
    BY <1>1 DEF SendPunch, IInv, TypeOK
  <2>2. net' \in SUBSET Datagrams
    BY <1>2 DEF SendPunch, IInv, TypeOK
  <2>. QED
    BY <2>1, <2>2 DEF SendPunch, IInv, TypeOK, Committed
<1>5. UNCHANGED <<variable, phase, open, path>> /\ \A m \in net' : m \in net \/ m = PUNCH(s, a)
  BY DEF SendPunch
<1>. QED
  BY <1>3, <1>4, <1>5, SendKeeps

LEMMA PunchingKeeps ==
    ASSUME IInv, Punching
    PROVE  IInv'
<1>1. PICK i \in Sides : \/ Start(i) \/ DirectPunch(i)
                         \/ \E a \in Addresses : RangeScan(i, a)
                         \/ \E s \in Sockets : PollHelpers(i, s)
  BY DEF Punching
<1>2. /\ Main[i] \in Openable(i) /\ Main[Peer(i)] \in SocketsOf(Peer(i))
      /\ Main[Peer(i)] \in Sockets
  BY PeerSide, OpenableSockets, SideOfSocket DEF SocketsOf
<1>3. CASE Start(i)
  BY <1>3, StartKeeps
<1>4. CASE DirectPunch(i)
  BY <1>2, <1>4, AddressOf, SendPunchKeeps DEF DirectPunch
<1>5. CASE \E a \in Addresses : RangeScan(i, a)
  <2>1. PICK a \in Addresses : RangeScan(i, a)
    BY <1>5
  <2>2. a[1] \in SocketsOf(Peer(i))
    <3>1. \A s \in SocketsOf(Peer(i)) : Address(s)[1] \in SocketsOf(Peer(i))
      BY DEF Address
    <3>. QED
      BY <1>2, <2>1, <3>1 DEF RangeScan, Candidates
  <2>. QED
    BY <1>2, <2>1, <2>2, SendPunchKeeps DEF RangeScan
<1>6. CASE \E s \in Sockets : PollHelpers(i, s)
  <2>1. PICK s \in Sockets : PollHelpers(i, s)
    BY <1>6
  <2>2. s \in Openable(i)
    BY <2>1 DEF PollHelpers, IInv, Life
  <2>. QED
    BY <1>2, <2>1, <2>2, AddressOf, SendPunchKeeps DEF PollHelpers
<1>. QED
  BY <1>1, <1>3, <1>4, <1>5, <1>6
----------------------------------------------------------------------------
(* What arrives *)

\* A datagram that is read was sent by the peer, from a socket that was open.
LEMMA Received ==
    ASSUME IInv, NEW m \in net, NEW i \in Sides, i = SideOf(Receiver(m)),
           Receiver(m) \in open[i]
    PROVE  /\ m \in Datagrams
           /\ Receiver(m) \in Sockets /\ Receiver(m) \in Openable(i) /\ Receiver(m) \in SocketsOf(i)
           /\ m.from \in Sockets /\ m.from \in Openable(Peer(i)) /\ m.from \in SocketsOf(Peer(i))
           /\ Source(m) \in Addresses /\ Source(m)[1] = m.from
<1>1. m \in Datagrams
  BY DEF IInv, TypeOK
<1>2. Receiver(m) \in Openable(i)
  BY DEF IInv, Life
<1>3. Receiver(m) \in SocketsOf(i) /\ Receiver(m) \in Sockets
  BY <1>2, OpenableSockets, SideOfSocket
<1>4. PICK j \in Sides : m.from \in Openable(j) /\ Receiver(m) \in SocketsOf(Peer(j))
  BY DEF IInv, Wire
<1>5. Peer(i) = j
  BY <1>4, PeerSide, SideOfSocket
<1>6. m.from \in SocketsOf(j) /\ m.from \in Sockets
  BY <1>4, OpenableSockets, SideOfSocket
<1>. QED
  BY <1>1, <1>2, <1>3, <1>4, <1>5, <1>6, AddressOf DEF Source

\* A reply goes back to the side the datagram came from.
LEMMA ReplyWired ==
    ASSUME NEW i \in Sides, NEW s \in Openable(i), NEW m,
           Source(m)[1] \in SocketsOf(Peer(i))
    PROVE  /\ Wired(PUNCH(s, Source(m))) /\ Wired(ACK(s, Source(m), m.from)) /\ Wired(OK(s, Source(m), m.from))
           /\ Sound(PUNCH(s, Source(m))) /\ Sound(ACK(s, Source(m), m.from))
  BY DEF PUNCH, ACK, OK, Wired, Sound, Receiver

\* PUNCH_OK along the path link0 has selected.
LEMMA SelectedOK ==
    ASSUME IInv, Connected(0)
    PROVE  LET m == OK(path[0].socket, path[0].addr, path[0].peer)
           IN m \in Datagrams /\ Wired(m) /\ Sound(m)
<1>1. 0 \in Sides
  BY DEF Sides
<1>2. Committed(0) /\ path[0].socket \in Openable(0)
  BY <1>1 DEF IInv, Life
<1>3. path[0] \in Selections
  BY <1>1, <1>2 DEF IInv, TypeOK, Committed
<1>4. path[0].addr[1] = path[0].peer /\ path[0].peer \in SocketsOf(Peer(0))
  BY <1>1, <1>2 DEF IInv, Aimed, TypeOK, Address
<1>. QED
  BY <1>1, <1>2, <1>3, <1>4 DEF Selections, OK, Datagrams, Wired, Sound, Receiver
----------------------------------------------------------------------------
(* The handshake *)

LEMMA HandlePunchKeeps ==
    ASSUME IInv, NEW m \in net, NEW i \in Sides, i = SideOf(Receiver(m)),
           Receiver(m) \in open[i], HandlePunch(m)
    PROVE  IInv'
<1> DEFINE s   == Receiver(m)
           ack == ACK(s, Source(m), m.from)
           ok  == OK(path[0].socket, path[0].addr, path[0].peer)
           D   == {ack, PUNCH(s, Source(m))} \cup (IF Connected(0) THEN {ok} ELSE {})
<1>1. /\ s \in Sockets /\ s \in Openable(i) /\ m.from \in Sockets
      /\ Source(m) \in Addresses /\ Source(m)[1] \in SocketsOf(Peer(i))
  BY Received
<1>2. net' \subseteq net \cup D
  BY DEF HandlePunch, SelectedPathOK
<1>3. UNCHANGED <<variable, phase, open, path, ackAssoc, okLeft>>
  BY DEF HandlePunch
<1>4. \A d \in {ack, PUNCH(s, Source(m))} : d \in Datagrams /\ Wired(d) /\ Sound(d)
  BY <1>1, MessageTypes, ReplyWired
<1>5. Connected(0) => ok \in Datagrams /\ Wired(ok) /\ Sound(ok)
  BY SelectedOK
<1>6. \A d \in D : d \in Datagrams /\ Wired(d) /\ Sound(d)
  BY <1>4, <1>5
<1>7. TypeOK'
  <2>1. punchSent' \in [Sockets -> SUBSET Addresses]
    BY <1>1 DEF HandlePunch, IInv, TypeOK
  <2>2. reverseSent' \in SUBSET (Sockets \X Addresses \X Sockets)
    <3>1. <<s, Source(m), m.from>> \in Sockets \X Addresses \X Sockets
      BY <1>1
    <3>2. reverseSent' = reverseSent \/ reverseSent' = reverseSent \cup {<<s, Source(m), m.from>>}
      BY DEF HandlePunch
    <3>. QED
      BY <3>1, <3>2 DEF IInv, TypeOK
  <2>3. limited' \in BOOLEAN
    <3>1. limited' = TRUE \/ limited' = limited
      BY DEF HandlePunch
    <3>. QED
      BY <3>1 DEF IInv, TypeOK
  <2>4. net' \in SUBSET Datagrams
    BY <1>2, <1>6 DEF IInv, TypeOK
  <2>. QED
    BY <1>3, <2>1, <2>2, <2>3, <2>4 DEF IInv, TypeOK, Committed
<1>. HIDE DEF D
<1>. QED
  BY <1>2, <1>3, <1>6, <1>7, SendKeeps

LEMMA HandleACKLink1Keeps ==
    ASSUME IInv, NEW m \in net, NEW i \in Sides, i = SideOf(Receiver(m)),
           Receiver(m) \in open[i], HandleACKLink1(m)
    PROVE  IInv'
<1>1. Receiver(m) \in Sockets /\ m.from \in Sockets /\ Source(m) \in Addresses
  BY Received
<1>2. UNCHANGED <<variable, phase, open, path, punchSent, reverseSent, okLeft, limited, net>>
  BY DEF HandleACKLink1
<1>3. ackAssoc' \in SUBSET (Sockets \X Addresses \X Sockets)
  BY <1>1 DEF HandleACKLink1, IInv, TypeOK
<1>4. TypeOK'
  BY <1>2, <1>3 DEF IInv, TypeOK, Committed
<1>. QED
  BY <1>2, <1>4, SendKeeps

LEMMA ResendOKKeeps ==
    ASSUME IInv, ResendOK \/ SecondPasses
    PROVE  IInv'
<1> DEFINE ok == OK(path[0].socket, path[0].addr, path[0].peer)
           D  == IF Connected(0) THEN {ok} ELSE {}
<1>1. UNCHANGED <<variable, phase, open, path, punchSent, reverseSent, ackAssoc>>
  BY DEF ResendOK, SecondPasses
<1>2. net' \subseteq net \cup D
  BY DEF ResendOK, SecondPasses
<1>3. \A d \in D : d \in Datagrams /\ Wired(d) /\ Sound(d)
  BY SelectedOK
<1>4. okLeft' \in 0 .. OKResends /\ limited' \in BOOLEAN
  <2>1. okLeft' = okLeft \/ (okLeft > 0 /\ okLeft' = okLeft - 1)
    BY DEF ResendOK, SecondPasses
  <2>2. okLeft' \in 0 .. OKResends
    BY <2>1, CountAssumption DEF IInv, TypeOK
  <2>3. limited' = FALSE \/ limited' = limited
    BY DEF ResendOK, SecondPasses
  <2>4. limited' \in BOOLEAN
    BY <2>3 DEF IInv, TypeOK
  <2>. QED
    BY <2>2, <2>4
<1>5. net' \in SUBSET Datagrams
  BY <1>2, <1>3 DEF IInv, TypeOK
<1>6. TypeOK'
  BY <1>1, <1>4, <1>5 DEF IInv, TypeOK, Committed
<1>. HIDE DEF D
<1>. QED
  BY <1>1, <1>2, <1>3, <1>6, SendKeeps

\* A side that commits keeps the socket the datagram arrived on open, and the
\* other side's state is not touched.
LEMMA CommitEffect ==
    ASSUME IInv, NEW m \in net, NEW i \in Sides, i = SideOf(Receiver(m)),
           Receiver(m) \in open[i], phase[i] = "punching",
           Commit(i, Receiver(m), m), UNCHANGED variable
    PROVE  /\ phase' \in [Sides -> {"waiting", "punching", "connected", "failed", "lost", "stopped"}]
           /\ open' \in [Sides -> SUBSET Sockets]
           /\ path' \in [Sides -> Selections \cup {NoPath}]
           /\ \A j \in Sides :
                 /\ open'[j] \subseteq SocketsOf(j)
                 /\ Committed(j)' => path'[j].socket \in SocketsOf(j) /\ path'[j].peer \in SocketsOf(Peer(j))
           /\ path'[i] = [socket |-> Receiver(m), peer |-> m.from, addr |-> Source(m)]
           /\ path'[i] # NoPath /\ path[i] = NoPath
           /\ \A j \in Sides : j # i => path'[j] = path[j]
           /\ Life'
<1> DEFINE s == Receiver(m)
           p == [socket |-> s, peer |-> m.from, addr |-> Source(m)]
<1>1. /\ s \in Sockets /\ s \in SocketsOf(i) /\ m.from \in Sockets /\ m.from \in SocketsOf(Peer(i))
      /\ Source(m) \in Addresses
  BY Received
<1>2. p \in Selections /\ p # NoPath
  BY <1>1, AbsenceAssumption DEF Selections
<1>3. /\ phase' = [phase EXCEPT ![i] = "connected"]
      /\ path' = [path EXCEPT ![i] = p]
      /\ open' = [open EXCEPT ![i] = open[i] \cap {Main[i], s}]
  BY DEF Commit, Prune
<1>4. p.socket = s /\ p.peer = m.from
  OBVIOUS
<1> HIDE DEF p
<1>5. path[i] = NoPath
  BY DEF IInv, Life, Committed
<1>6. /\ phase' \in [Sides -> {"waiting", "punching", "connected", "failed", "lost", "stopped"}]
      /\ open' \in [Sides -> SUBSET Sockets]
      /\ path' \in [Sides -> Selections \cup {NoPath}]
  BY <1>2, <1>3 DEF IInv, TypeOK
<1>7. path'[i] = p /\ \A j \in Sides : j # i => path'[j] = path[j]
  BY <1>3 DEF IInv, TypeOK
<1>8. ASSUME NEW j \in Sides
      PROVE  /\ open'[j] \subseteq SocketsOf(j)
             /\ Committed(j)' => path'[j].socket \in SocketsOf(j) /\ path'[j].peer \in SocketsOf(Peer(j))
  <2>1. CASE j = i
    BY <1>1, <1>3, <1>4, <1>7, <2>1 DEF IInv, TypeOK
  <2>2. CASE j # i
    BY <1>3, <1>7, <2>2 DEF IInv, TypeOK, Committed
  <2>. QED
    BY <2>1, <2>2
<1>9. Life'
  <2> SUFFICES ASSUME NEW j \in Sides
               PROVE  /\ phase'[j] \in {"waiting", "punching"} => ~Committed(j)'
                      /\ Connected(j)' => Committed(j)' /\ path'[j].socket \in open'[j]
                      /\ phase'[j] = "punching" => open'[j] = Openable(j)'
                      /\ open'[j] \subseteq Openable(j)'
    BY DEF Life
  <2>1. Openable(j)' = Openable(j)
    BY DEF Openable
  <2>2. CASE j = i
    <3>1. phase'[j] = "connected" /\ open'[j] = open[j] \cap {Main[j], s}
      BY <1>3, <2>2 DEF IInv, TypeOK
    <3>2. path'[j] = p /\ p.socket \in open'[j]
      BY <1>4, <1>7, <2>2, <3>1
    <3>. QED
      BY <1>2, <2>1, <3>1, <3>2 DEF IInv, Life, Committed
  <2>3. CASE j # i
    <3>1. phase'[j] = phase[j] /\ open'[j] = open[j] /\ path'[j] = path[j]
      BY <1>3, <2>3 DEF IInv, TypeOK
    <3>. QED
      BY <2>1, <3>1 DEF IInv, Life, Committed, Connected
  <2>. QED
    BY <2>2, <2>3
<1>. QED
  BY <1>2, <1>5, <1>6, <1>7, <1>8, <1>9 DEF p

\* link0 commits: nothing was committed before, and the PUNCH_OK it sends is of
\* the path it has selected.
LEMMA HandleACKLink0Keeps ==
    ASSUME IInv, NEW m \in net, 0 = SideOf(Receiver(m)), Running(0),
           Receiver(m) \in open[0], HandleACKLink0(m)
    PROVE  IInv'
<1> DEFINE s  == Receiver(m)
           ok == OK(s, Source(m), m.from)
<1>1. 0 \in Sides /\ 1 \in Sides /\ Peer(0) = 1 /\ phase[0] = "punching"
  BY DEF Sides, Peer, HandleACKLink0, Acceptable, Running, Connected
<1>2. /\ Commit(0, s, m) /\ net' = net \cup {ok} /\ okLeft' = OKResends
      /\ UNCHANGED <<variable, punchSent, reverseSent, ackAssoc, limited>>
  BY DEF HandleACKLink0
<1>3. /\ phase' \in [Sides -> {"waiting", "punching", "connected", "failed", "lost", "stopped"}]
      /\ open' \in [Sides -> SUBSET Sockets]
      /\ path' \in [Sides -> Selections \cup {NoPath}]
      /\ \A j \in Sides :
            /\ open'[j] \subseteq SocketsOf(j)
            /\ Committed(j)' => path'[j].socket \in SocketsOf(j) /\ path'[j].peer \in SocketsOf(Peer(j))
      /\ path'[0] = [socket |-> s, peer |-> m.from, addr |-> Source(m)]
      /\ path'[0] # NoPath /\ path[0] = NoPath /\ path'[1] = path[1]
      /\ Life'
  BY <1>1, <1>2, CommitEffect
<1>4. /\ s \in Sockets /\ s \in Openable(0) /\ m.from \in Sockets /\ m.from \in Openable(1)
      /\ Source(m) \in Addresses /\ Source(m)[1] \in SocketsOf(1)
  BY <1>1, Received
<1>5. ok \in Datagrams /\ Wired(ok)
  BY <1>1, <1>4, MessageTypes, ReplyWired
<1>6. TypeOK'
  <2>1. okLeft' \in 0 .. OKResends
    BY <1>2, CountAssumption
  <2>2. net' \in SUBSET Datagrams
    BY <1>2, <1>5 DEF IInv, TypeOK
  <2>. QED
    BY <1>2, <1>3, <2>1, <2>2 DEF IInv, TypeOK
<1>7. Wire'
  BY <1>2, <1>5 DEF IInv, Wire, Wired, Openable
<1>8. Aimed'
  BY <1>2, <1>3, <1>4 DEF Aimed, Source, Address, Openable
<1>9. OKs'
  <2>1. \A x \in net : x.type # "OK"
    BY <1>3 DEF IInv, OKs, Committed
  <2>2. ok = OK(path'[0].socket, path'[0].addr, path'[0].peer)
    BY <1>3
  <2>. QED
    BY <1>2, <1>3, <2>1, <2>2 DEF OKs, Committed
<1>10. Mirror'
  BY <1>3 DEF IInv, Mirror, Committed
<1>. QED
  BY <1>3, <1>6, <1>7, <1>8, <1>9, <1>10 DEF IInv

\* link1 commits: the PUNCH_OK names the path link0 has selected, so its own is
\* the same path from the other end.
LEMMA HandleOKLink1Keeps ==
    ASSUME IInv, NEW m \in net, 1 = SideOf(Receiver(m)), Running(1),
           Receiver(m) \in open[1], HandleOKLink1(m)
    PROVE  IInv'
<1> DEFINE s == Receiver(m)
<1>1. 0 \in Sides /\ 1 \in Sides /\ phase[1] = "punching"
  BY DEF Sides, HandleOKLink1, Running, Connected
<1>2. /\ Commit(1, s, m) /\ m.type = "OK" /\ m.target = s
      /\ UNCHANGED <<variable, punchSent, reverseSent, ackAssoc, okLeft, limited, net>>
  BY DEF HandleOKLink1
<1>3. /\ phase' \in [Sides -> {"waiting", "punching", "connected", "failed", "lost", "stopped"}]
      /\ open' \in [Sides -> SUBSET Sockets]
      /\ path' \in [Sides -> Selections \cup {NoPath}]
      /\ \A j \in Sides :
            /\ open'[j] \subseteq SocketsOf(j)
            /\ Committed(j)' => path'[j].socket \in SocketsOf(j) /\ path'[j].peer \in SocketsOf(Peer(j))
      /\ path'[1] = [socket |-> s, peer |-> m.from, addr |-> Source(m)]
      /\ path'[1] # NoPath /\ path'[0] = path[0]
      /\ Life'
  BY <1>1, <1>2, CommitEffect
<1>4. Committed(0) /\ m = OK(path[0].socket, path[0].addr, path[0].peer)
  BY <1>2 DEF IInv, OKs
<1>5. path[0].socket = m.from /\ path[0].peer = s
  BY <1>2, <1>4 DEF OK
<1>6. TypeOK'
  BY <1>2, <1>3 DEF IInv, TypeOK
<1>7. Wire' /\ Aimed' /\ OKs'
  BY <1>2, <1>3 DEF IInv, Wire, Aimed, OKs, Committed, Address, Openable
<1>8. Mirror'
  <2>1. path[0].addr = Address(s)
    BY <1>4, <1>5 DEF IInv, Aimed
  <2>2. Source(m) = Address(path[0].socket)
    BY <1>5 DEF Source
  <2>3. path'[1].socket = s /\ path'[1].peer = m.from /\ path'[1].addr = Source(m)
    BY <1>3
  <2>4. /\ path'[0].addr = Address(path[1].socket)'
        /\ path'[1].addr = Address(path[0].socket)'
        /\ path'[0].peer = path'[1].socket /\ path'[1].peer = path'[0].socket
    <3>1. Address(path[1].socket)' = Address(s)
      BY <1>2, <2>3 DEF Address
    <3>2. Address(path[0].socket)' = Address(path[0].socket)
      BY <1>2, <1>3 DEF Address
    <3>. QED
      BY <1>3, <1>5, <2>1, <2>2, <2>3, <3>1, <3>2
  <2>5. Reaches(0)' /\ Reaches(1)'
    BY <2>4, PeerSide DEF Reaches
  <2>. QED
    BY <1>3, <1>4, <2>5 DEF Mirror, Committed
<1>. QED
  BY <1>3, <1>6, <1>7, <1>8 DEF IInv
----------------------------------------------------------------------------
(* Every step *)

LEMMA DeliverKeeps ==
    ASSUME IInv, NEW m \in net, Deliver(m)
    PROVE  IInv'
<1> DEFINE i == SideOf(Receiver(m))
<1>1. i \in Sides /\ Running(i) /\ Receiver(m) \in open[i]
  <2>1. m.to \in Addresses
    BY DEF IInv, TypeOK, Datagrams
  <2>2. Receiver(m) \in Sockets
    BY <2>1 DEF Receiver, Addresses
  <2>. QED
    BY <2>2, SocketSide DEF Deliver
<1>2. CASE HandlePunch(m)
  BY <1>1, <1>2, HandlePunchKeeps
<1>3. CASE HandleACKLink0(m)
  <2>1. i = 0
    BY <1>3 DEF HandleACKLink0
  <2>. QED
    BY <1>1, <1>3, <2>1, HandleACKLink0Keeps
<1>4. CASE HandleACKLink1(m)
  <2>1. i = 1
    BY <1>4 DEF HandleACKLink1
  <2>. QED
    BY <1>1, <1>4, <2>1, HandleACKLink1Keeps
<1>5. CASE HandleOKLink1(m)
  <2>1. i = 1
    BY <1>5 DEF HandleOKLink1
  <2>. QED
    BY <1>1, <1>5, <2>1, HandleOKLink1Keeps
<1>. QED
  BY <1>2, <1>3, <1>4, <1>5 DEF Deliver

LEMMA InvInit == Init => IInv
<1> SUFFICES ASSUME Init PROVE IInv
  OBVIOUS
<1>1. TypeOK
  <2>1. /\ phase \in [Sides -> {"waiting", "punching", "connected", "failed", "lost", "stopped"}]
        /\ open \in [Sides -> SUBSET Sockets]
        /\ path \in [Sides -> Selections \cup {NoPath}]
        /\ punchSent \in [Sockets -> SUBSET Addresses]
    BY DEF Init
  <2>2. \A i \in Sides : open[i] \subseteq SocketsOf(i) /\ ~Committed(i)
    BY DEF Init, Committed
  <2>3. okLeft \in 0 .. OKResends
    BY CountAssumption DEF Init
  <2>. QED
    BY <2>1, <2>2, <2>3 DEF Init, TypeOK
<1>2. Wire /\ OKs
  BY DEF Init, Wire, OKs
<1>3. Life
  BY DEF Init, Life, Committed, Connected
<1>4. Aimed /\ Mirror
  BY DEF Init, Aimed, Mirror, Committed, Sides
<1>. QED
  BY <1>1, <1>2, <1>3, <1>4 DEF IInv

LEMMA InvStep == IInv /\ [Next]_vars => IInv'
<1> SUFFICES ASSUME IInv, [Next]_vars PROVE IInv'
  OBVIOUS
<1>1. CASE Punching
  BY <1>1, PunchingKeeps
<1>2. CASE \E m \in net : Deliver(m)
  BY <1>2, DeliverKeeps
<1>3. CASE ResendOK \/ SecondPasses
  BY <1>3, ResendOKKeeps
<1>4. CASE Ending
  BY <1>4, FinishKeeps DEF Ending
<1>5. CASE UNCHANGED vars
  <2>1. TypeOK'
    BY <1>5 DEF vars, IInv, TypeOK, Committed
  <2>2. \A m \in net' : m \in net \/ (Wired(m) /\ Sound(m))
    BY <1>5 DEF vars
  <2>. QED
    BY <1>5, <2>1, <2>2, SendKeeps DEF vars
<1>. QED
  BY <1>1, <1>2, <1>3, <1>4, <1>5 DEF Next, Handshake

THEOREM Invariant == Spec => []IInv
<1>1. Init => IInv
  BY InvInit
<1>2. IInv /\ [Next]_vars => IInv'
  BY InvStep
<1>. QED
  BY <1>1, <1>2, PTL DEF Spec
----------------------------------------------------------------------------
(* What the invariant gives *)

\* Every variable keeps its type, and each side only opens and selects sockets
\* of its own (linkWorker's fields, worker.go).
THEOREM TypeCorrect == Spec => []TypeOK
<1>1. IInv => TypeOK
  BY DEF IInv
<1>. QED
  BY <1>1, Invariant, PTL

\* Two sides that committed have selected the same path, each from its own end:
\* HandleOKLink1 takes only a PUNCH_OK, and those go along link0's path alone.
THEOREM Mirrored == Spec => []PathsMirror
<1>1. IInv => PathsMirror
  BY DEF IInv, Mirror, PathsMirror
<1>. QED
  BY <1>1, Invariant, PTL

\* link1 never commits to a path before link0 has: it waits for PUNCH_OK.
THEOREM Link0IsFirst == Spec => []Link0First
<1>1. IInv => Link0First
  BY DEF IInv, Mirror, Link0First
<1>. QED
  BY <1>1, Invariant, PTL

\* pruneHelpers closes neither end of a path in use: a peer that still punches
\* has every socket open, and one that committed selected the other end.
THEOREM SelectedStaysOpen == Spec => []SelectedPathOpen
<1>1. IInv => SelectedPathOpen
  <2> SUFFICES ASSUME IInv, NEW i \in Sides, Connected(i)
               PROVE  /\ path[i].socket \in open[i]
                      /\ Running(Peer(i)) => path[i].peer \in open[Peer(i)]
    BY DEF SelectedPathOpen
  <2>1. Committed(i) /\ path[i].socket \in open[i]
    BY DEF IInv, Life
  <2>2. ASSUME Connected(Peer(i))
        PROVE  path[i].peer \in open[Peer(i)]
    <3>1. Committed(Peer(i)) /\ path[Peer(i)].socket \in open[Peer(i)]
      BY <2>2, PeerSide DEF IInv, Life
    <3>2. path[i].peer = path[Peer(i)].socket
      BY <2>1, <3>1, PeerSide DEF IInv, Mirror, Reaches, Sides
    <3>. QED
      BY <3>1, <3>2
  <2>3. ASSUME phase[Peer(i)] = "punching"
        PROVE  path[i].peer \in open[Peer(i)]
    <3>1. ~Committed(Peer(i)) /\ open[Peer(i)] = Openable(Peer(i))
      BY <2>3, PeerSide DEF IInv, Life
    <3>2. i = 0
      BY <2>1, <3>1, PeerSide DEF IInv, Mirror, Sides
    <3>. QED
      BY <2>1, <3>1, <3>2, PeerSide DEF IInv, Aimed
  <2>. QED
    BY <2>1, <2>2, <2>3 DEF Running, Connected
<1>. QED
  BY <1>1, Invariant, PTL

\* No acknowledgement that arrives after the commit moves the path: the handlers
\* of ACK and PUNCH_OK act for a punching side only.
THEOREM PathStays == Spec => PathNeverMoves
<1>1. IInv /\ [Next]_vars => [\A i \in Sides : Committed(i) => path'[i] = path[i]]_vars
  <2> SUFFICES ASSUME IInv, Next, NEW i \in Sides, Committed(i)
               PROVE  path'[i] = path[i]
    BY DEF vars
  <2>1. CASE \E m \in net : Deliver(m)
    <3>1. PICK m \in net : Deliver(m)
      BY <2>1
    <3>2. CASE HandlePunch(m) \/ HandleACKLink1(m)
      BY <3>2 DEF HandlePunch, HandleACKLink1
    <3>3. ~Connected(i) => ~Running(i)
      BY DEF IInv, Life, Running, Connected, Committed
    <3>4. ASSUME NEW j \in Sides, j = SideOf(Receiver(m)), ~Connected(j),
                 path' = [path EXCEPT ![j] = path'[j]]
          PROVE  path'[i] = path[i]
      <4>1. Running(j)
        BY <3>1, <3>4 DEF Deliver
      <4>2. i # j
        BY <3>3, <3>4, <4>1
      <4>. QED
        BY <3>4, <4>2 DEF IInv, TypeOK
    <3>5. CASE HandleACKLink0(m)
      BY <3>4, <3>5 DEF HandleACKLink0, Acceptable, Commit, Sides
    <3>6. CASE HandleOKLink1(m)
      BY <3>4, <3>6 DEF HandleOKLink1, Commit, Sides
    <3>. QED
      BY <3>1, <3>2, <3>5, <3>6 DEF Deliver
  <2>2. CASE Punching
    BY <2>2 DEF Punching, Start, DirectPunch, RangeScan, PollHelpers, SendPunch
  <2>3. CASE ResendOK \/ SecondPasses
    BY <2>3 DEF ResendOK, SecondPasses
  <2>4. CASE Ending
    BY <2>4 DEF Ending, Deadline, KeepaliveTimeout, Stop, Finish
  <2>. QED
    BY <2>1, <2>2, <2>3, <2>4 DEF Next, Handshake
<1>. QED
  BY <1>1, Invariant, PTL DEF Spec, PathNeverMoves

----------------------------------------------------------------------------
(* The ports of a scan *)

LEMMA Division ==
    ASSUME NEW n \in Nat \ {0}, NEW x \in Int
    PROVE  x \div n \in Int /\ x % n \in 0 .. n - 1 /\ x = (x \div n) * n + (x % n)
  BY Z3

\* One remainder only.
LEMMA Remainder ==
    ASSUME NEW n \in Nat \ {0}, NEW q \in Int, NEW r \in 0 .. n - 1
    PROVE  (q * n + r) % n = r
<1> DEFINE x == q * n + r
           e == x \div n - q
<1>0. x \in Int
  OBVIOUS
<1>1. x \div n \in Int /\ x % n \in 0 .. n - 1 /\ x = (x \div n) * n + (x % n)
  BY <1>0, Division
<1>2. PICK a \in Int, m \in Int : a = x \div n /\ m = x % n
  BY <1>1
<1>3. (a - q) * n = r - m
  BY <1>1, <1>2, Z3
<1>4. r - m < n /\ m - r < n
  BY <1>1, <1>2
<1>5. PICK k \in Int : k = a - q
  OBVIOUS
<1>6. k * n < n /\ -(k * n) < n
  BY <1>3, <1>4, <1>5
<1>7. k = 0
  <2>1. k >= 1 => k * n >= n
    BY Z3
  <2>2. k <= -1 => -(k * n) >= n
    BY Z3
  <2>. QED
    BY <1>6, <2>1, <2>2
<1>. QED
  BY <1>3, <1>5, <1>7, <1>2

LEMMA SpaceSize == PortSpaceSize \in Nat \ {0} /\ 2 * NearWindow + 1 <= PortSpaceSize
  BY SpaceAssumption DEF PortSpaceSize

\* A step of less than the window, around the ring.
LEMMA SmallStep ==
    ASSUME NEW delta \in -NearWindow .. NearWindow
    PROVE  delta % PortSpaceSize = IF delta >= 0 THEN delta ELSE PortSpaceSize + delta
<1>0. NearWindow \in Nat /\ PortSpaceSize \in Nat \ {0} /\ 2 * NearWindow + 1 <= PortSpaceSize
  BY SpaceAssumption, SpaceSize
<1>1. CASE delta >= 0
  <2>1. delta \in 0 .. PortSpaceSize - 1
    BY <1>0, <1>1
  <2>2. (0 * PortSpaceSize + delta) % PortSpaceSize = delta
    BY <1>0, <2>1, Remainder
  <2>. QED
    BY <1>0, <1>1, <2>2
<1>2. CASE delta < 0
  <2>1. PortSpaceSize + delta \in 0 .. PortSpaceSize - 1
    BY <1>0, <1>2
  <2>2. ((-1) * PortSpaceSize + (PortSpaceSize + delta)) % PortSpaceSize = PortSpaceSize + delta
    BY <1>0, <2>1, Remainder
  <2>3. (-1) * PortSpaceSize + (PortSpaceSize + delta) = delta
    BY <1>0
  <2>. QED
    BY <1>2, <2>2, <2>3
<1>. QED
  BY <1>1, <1>2

\* The distance from the last port to the port at delta is delta, around the ring.
LEMMA WrapDistance ==
    ASSUME NEW lastPort \in Int, NEW delta \in Int
    PROVE  /\ Wrap(lastPort, delta) \in PortSpace
           /\ (Wrap(lastPort, delta) - lastPort) % PortSpaceSize = delta % PortSpaceSize
<1> DEFINE x == lastPort - PortSpaceMin + delta
<1>0. PortSpaceMin \in Nat /\ PortSpaceMax \in Nat /\ PortSpaceSize \in Nat \ {0} /\ x \in Int
  BY SpaceAssumption, SpaceSize
<1>1. PICK q \in Int, r \in 0 .. PortSpaceSize - 1 : x = q * PortSpaceSize + r /\ r = x % PortSpaceSize
  BY <1>0, Division
<1>2. PICK e \in Int, d \in 0 .. PortSpaceSize - 1 : delta = e * PortSpaceSize + d /\ d = delta % PortSpaceSize
  BY <1>0, Division
<1>3. Wrap(lastPort, delta) = PortSpaceMin + r
  BY <1>1 DEF Wrap
<1>4. Wrap(lastPort, delta) - lastPort = (e - q) * PortSpaceSize + d
  <2>1. PICK n \in Nat \ {0} : n = PortSpaceSize
    BY <1>0
  <2>2. PICK a \in Int, b \in Int : a = q * n /\ b = e * n
    OBVIOUS
  <2>3. (e - q) * n = b - a
    BY <2>2, Z3
  <2>4. lastPort - PortSpaceMin + delta = a + r /\ delta = b + d
    BY <1>1, <1>2, <2>1, <2>2
  <2>. QED
    BY <1>0, <1>3, <2>1, <2>3, <2>4
<1>5. ((e - q) * PortSpaceSize + d) % PortSpaceSize = d
  BY <1>0, Remainder
<1>6. Wrap(lastPort, delta) \in PortSpace
  BY <1>0, <1>3 DEF PortSpace, PortSpaceSize
<1>. QED
  BY <1>2, <1>4, <1>5, <1>6

\* A port of the space at that distance is that port.
LEMMA WrapReaches ==
    ASSUME NEW lastPort \in Int, NEW delta \in Int, NEW port \in PortSpace, NEW q \in Int,
           port - lastPort = q * PortSpaceSize + delta
    PROVE  Wrap(lastPort, delta) = port
<1>0. PortSpaceMin \in Nat /\ PortSpaceMax \in Nat /\ PortSpaceSize \in Nat \ {0} /\ port \in Int
      /\ port - PortSpaceMin \in 0 .. PortSpaceSize - 1
  BY SpaceAssumption, SpaceSize DEF PortSpace, PortSpaceSize
<1>1. lastPort - PortSpaceMin + delta = (-q) * PortSpaceSize + (port - PortSpaceMin)
  BY <1>0, Z3
<1>2. ((-q) * PortSpaceSize + (port - PortSpaceMin)) % PortSpaceSize = port - PortSpaceMin
  <2>1. PICK e \in Int, r \in 0 .. PortSpaceSize - 1 : e = -q /\ r = port - PortSpaceMin
    BY <1>0
  <2>2. (e * PortSpaceSize + r) % PortSpaceSize = r
    BY <1>0, Remainder
  <2>. QED
    BY <2>1, <2>2
<1>. QED
  BY <1>0, <1>1, <1>2 DEF Wrap

\* The offset of the candidates: 0, +1, -1, ...
Offset(i) == IF i % 2 = 0 THEN i \div 2 ELSE -(i \div 2)

LEMMA Offsets ==
    /\ \A i \in 1 .. 2 * NearWindow + 1 : Offset(i) \in -NearWindow .. NearWindow
    /\ \A i, j \in 1 .. 2 * NearWindow + 1 : Offset(i) = Offset(j) => i = j
    /\ \A delta \in -NearWindow .. NearWindow : \E i \in 1 .. 2 * NearWindow + 1 : Offset(i) = delta
<1>0. NearWindow \in Nat
  BY SpaceAssumption
<1>1. ASSUME NEW i \in 1 .. 2 * NearWindow + 1
      PROVE  /\ Offset(i) \in -NearWindow .. NearWindow
             /\ i = IF Offset(i) > 0 THEN 2 * Offset(i) ELSE 1 - 2 * Offset(i)
  <2>1. PICK q \in Int, r \in {0, 1} : i = q * 2 + r /\ q = i \div 2 /\ r = i % 2
    BY <1>0, Division
  <2>2. Offset(i) = IF r = 0 THEN q ELSE -q
    BY <2>1 DEF Offset
  <2>. QED
    BY <1>0, <2>1, <2>2
<1>2. ASSUME NEW delta \in -NearWindow .. NearWindow
      PROVE  \E i \in 1 .. 2 * NearWindow + 1 : Offset(i) = delta
  <2>1. CASE delta > 0
    <3>1. 2 * delta \in 1 .. 2 * NearWindow + 1 /\ (2 * delta) % 2 = 0 /\ (2 * delta) \div 2 = delta
      BY <1>0, <2>1, Z3
    <3>. QED
      BY <3>1 DEF Offset
  <2>2. CASE delta <= 0
    <3>1. 1 - 2 * delta \in 1 .. 2 * NearWindow + 1 /\ (1 - 2 * delta) % 2 = 1 /\ (1 - 2 * delta) \div 2 = -delta
      BY <1>0, <2>2, Z3
    <3>. QED
      BY <1>0, <2>2, <3>1 DEF Offset
  <2>. QED
    BY <1>0, <2>1, <2>2
<1>. QED
  BY <1>1, <1>2

LEMMA Candidate ==
    ASSUME NEW lastPort, NEW i \in 1 .. 2 * NearWindow + 1
    PROVE  Near(lastPort)[i] = Wrap(lastPort, Offset(i))
  BY DEF Near, Offset

\* The first stage has the ports that nearMember says it has.
LEMMA NearIsNear ==
    ASSUME NEW lastPort \in Int
    PROVE  ToSet(Near(lastPort)) = {port \in PortSpace : NearMember(lastPort, port)}
<1> DEFINE K == 1 .. 2 * NearWindow + 1
<1>0. NearWindow \in Nat /\ PortSpaceSize \in Nat \ {0} /\ 2 * NearWindow + 1 <= PortSpaceSize
  BY SpaceAssumption, SpaceSize
<1>1. ToSet(Near(lastPort)) = {Near(lastPort)[i] : i \in K}
  BY DEF ToSet, Near
<1>2. ASSUME NEW i \in K PROVE Near(lastPort)[i] \in PortSpace /\ NearMember(lastPort, Near(lastPort)[i])
  <2>1. PICK delta \in -NearWindow .. NearWindow : delta = Offset(i)
    BY Offsets
  <2>2. delta \in Int /\ Near(lastPort)[i] = Wrap(lastPort, delta)
    BY <1>0, <2>1, Candidate
  <2>3. (Near(lastPort)[i] - lastPort) % PortSpaceSize = IF delta >= 0 THEN delta ELSE PortSpaceSize + delta
    BY <2>2, WrapDistance, SmallStep
  <2>4. Near(lastPort)[i] \in PortSpace
    BY <2>2, WrapDistance
  <2>. QED
    BY <1>0, <2>3, <2>4 DEF NearMember
<1>3. ASSUME NEW port \in PortSpace, NearMember(lastPort, port) PROVE \E i \in K : Near(lastPort)[i] = port
  <2>0. port - lastPort \in Int
    BY SpaceAssumption DEF PortSpace
  <2>1. PICK q \in Int, d \in 0 .. PortSpaceSize - 1 :
            port - lastPort = q * PortSpaceSize + d /\ d = (port - lastPort) % PortSpaceSize
    BY <1>0, <2>0, Division
  <2>2. d <= NearWindow \/ PortSpaceSize - d <= NearWindow
    BY <1>3, <2>1 DEF NearMember
  <2>3. \E delta \in -NearWindow .. NearWindow, e \in Int : port - lastPort = e * PortSpaceSize + delta
    <3>1. CASE d <= NearWindow
      <4>. d \in -NearWindow .. NearWindow
        BY <1>0, <3>1
      <4>. QED
        BY <2>1
    <3>2. CASE PortSpaceSize - d <= NearWindow
      <4>1. d - PortSpaceSize \in -NearWindow .. NearWindow
        BY <1>0, <3>2
      <4>2. port - lastPort = (q + 1) * PortSpaceSize + (d - PortSpaceSize)
        BY <1>0, <2>1, Z3
      <4>. QED
        BY <4>1, <4>2
    <3>. QED
      BY <2>2, <3>1, <3>2
  <2>4. PICK delta \in -NearWindow .. NearWindow, e \in Int : port - lastPort = e * PortSpaceSize + delta
    BY <2>3
  <2>5. Wrap(lastPort, delta) = port
    <3>1. delta \in Int
      BY <1>0
    <3>. QED
      BY <2>4, <3>1, WrapReaches
  <2>6. PICK i \in K : Offset(i) = delta
    BY Offsets
  <2>. QED
    BY <2>5, <2>6, Candidate
<1>. QED
  BY <1>1, <1>2, <1>3

\* It repeats none.
LEMMA NearDistinct ==
    ASSUME NEW lastPort \in Int
    PROVE  Cardinality(ToSet(Near(lastPort))) = 2 * NearWindow + 1
<1> DEFINE K == 1 .. 2 * NearWindow + 1
           f == Near(lastPort)
<1>0. NearWindow \in Nat /\ PortSpaceSize \in Nat \ {0} /\ 2 * NearWindow + 1 <= PortSpaceSize
  BY SpaceAssumption, SpaceSize
<1>1. ToSet(f) = {f[i] : i \in K} /\ f \in [K -> ToSet(f)]
  BY DEF ToSet, Near
<1>2. ASSUME NEW i \in K, NEW j \in K, f[i] = f[j] PROVE i = j
  <2>1. PICK a \in -NearWindow .. NearWindow, b \in -NearWindow .. NearWindow : a = Offset(i) /\ b = Offset(j)
    BY Offsets
  <2>2. a \in Int /\ b \in Int /\ Wrap(lastPort, a) = Wrap(lastPort, b)
    BY <1>0, <1>2, <2>1, Candidate
  <2>3. a % PortSpaceSize = b % PortSpaceSize
    <3>1. a % PortSpaceSize = (Wrap(lastPort, a) - lastPort) % PortSpaceSize
      BY <2>2, WrapDistance
    <3>2. b % PortSpaceSize = (Wrap(lastPort, b) - lastPort) % PortSpaceSize
      BY <2>2, WrapDistance
    <3>. QED
      BY <2>2, <3>1, <3>2
  <2>4. a = b
    BY <1>0, <2>3, SmallStep
  <2>. QED
    BY <2>1, <2>4, Offsets
<1>3. f \in Bijection(K, ToSet(f))
  BY <1>1, <1>2 DEF Bijection, Injection, Surjection, IsInjective
<1>4. ExistsBijection(K, ToSet(f)) /\ 2 * NearWindow + 1 \in Nat
  BY <1>0, <1>3 DEF ExistsBijection
<1>. QED
  BY <1>4, FS_CountingElements

LEMMA StrideIs ==
    ASSUME NEW h \in HelperCounts
    PROVE  h \in Nat /\ Stride(h) \in Nat \ {0} /\ 4 * Stride(h) <= h
<1>1. h \in Nat /\ h >= 4
  BY PoolAssumption
<1>2. h \div 4 >= 1 /\ 4 * (h \div 4) <= h /\ h \div 4 \in Nat
  BY <1>1, Z3
<1>. QED
  BY <1>1, <1>2 DEF Stride

\* The second stage has the ports that sweepMember says it has, and no near one.
LEMMA SweepIsSweep ==
    ASSUME NEW lastPort, NEW h \in HelperCounts
    PROVE  Sweep(lastPort, h) = {port \in PortSpace : SweepMember(h, port) /\ ~NearMember(lastPort, port)}
<1>0. PortSpaceMin \in Nat /\ PortSpaceMax \in Nat /\ PortSpaceSize \in Nat \ {0} /\ Stride(h) \in Nat \ {0}
  BY SpaceAssumption, SpaceSize, StrideIs
<1>1. ASSUME NEW port \in PortSpace, NEW k \in 0 .. PortSpaceSize, port = PortSpaceMin + k * Stride(h)
      PROVE  SweepMember(h, port)
  <2>1. (k * Stride(h) + 0) % Stride(h) = 0
    BY <1>0, Remainder
  <2>2. port - PortSpaceMin = k * Stride(h) + 0
    BY <1>0, <1>1
  <2>. QED
    BY <2>1, <2>2 DEF SweepMember
<1>2. ASSUME NEW port \in PortSpace, SweepMember(h, port)
      PROVE  \E k \in 0 .. PortSpaceSize : port = PortSpaceMin + k * Stride(h)
  <2>1. port - PortSpaceMin \in 0 .. PortSpaceSize - 1 /\ port \in Int
    BY <1>0 DEF PortSpace, PortSpaceSize
  <2>2. PICK n \in Nat : n = port - PortSpaceMin
    BY <2>1
  <2>3. PICK s \in Nat \ {0} : s = Stride(h)
    BY <1>0
  <2>4. n % s = 0
    BY <1>2, <2>2, <2>3 DEF SweepMember
  <2>5. PICK k \in Int : n = k * s
    <3>1. n \div s \in Int /\ n = (n \div s) * s + (n % s)
      BY Division
    <3>2. PICK k \in Int : k = n \div s
      BY <3>1
    <3>3. n = k * s + 0
      BY <2>4, <3>1, <3>2
    <3>. QED
      BY <3>3
  <2>6. 0 <= k /\ k <= n
    <3>1. k < 0 => k * s < 0
      BY Z3
    <3>2. k >= 0 => k * s >= k
      BY Z3
    <3>. QED
      BY <2>5, <3>1, <3>2
  <2>7. k \in 0 .. PortSpaceSize
    BY <1>0, <2>1, <2>2, <2>6
  <2>8. port = PortSpaceMin + k * Stride(h)
    BY <1>0, <2>1, <2>2, <2>3, <2>5
  <2>. QED
    BY <2>7, <2>8
<1>. QED
  BY <1>1, <1>2 DEF Sweep

LEMMA StagesPart ==
    ASSUME NEW lastPort \in Int, NEW h \in HelperCounts
    PROVE  EveryPortOnce(lastPort, h)
<1>1. ToSet(Near(lastPort)) = {port \in PortSpace : NearMember(lastPort, port)}
  BY NearIsNear
<1>2. Sweep(lastPort, h) = {port \in PortSpace : SweepMember(h, port) /\ ~NearMember(lastPort, port)}
  BY SweepIsSweep
<1>3. Random(lastPort, h) = {port \in PortSpace : ~NearMember(lastPort, port) /\ ~SweepMember(h, port)}
  BY DEF Random
<1>. QED
  BY <1>1, <1>2, <1>3, NearDistinct DEF EveryPortOnce

LEMMA FourThings ==
    ASSUME NEW a, NEW b, NEW c, NEW d, a # b, a # c, a # d, b # c, b # d, c # d
    PROVE  Cardinality({a, b, c, d}) = 4
<1>1. IsFiniteSet({a}) /\ Cardinality({a}) = 1
  BY FS_Singleton
<1>2. IsFiniteSet({a, b}) /\ Cardinality({a, b}) = 2
  <2>1. {a, b} = {a} \cup {b} /\ b \notin {a}
    OBVIOUS
  <2>. QED
    BY <1>1, <2>1, FS_AddElement
<1>3. IsFiniteSet({a, b, c}) /\ Cardinality({a, b, c}) = 3
  <2>1. {a, b, c} = {a, b} \cup {c} /\ c \notin {a, b}
    OBVIOUS
  <2>. QED
    BY <1>2, <2>1, FS_AddElement
<1>4. {a, b, c, d} = {a, b, c} \cup {d} /\ d \notin {a, b, c}
  OBVIOUS
<1>. QED
  BY <1>3, <1>4, FS_AddElement

\* Four steps of the sweep are in every pool, and each is a candidate of the
\* second stage unless the first one had it.
LEMMA FourSteps ==
    ASSUME NEW lastPort \in Int, NEW h \in HelperCounts
    PROVE  FourHitsInEveryRun(lastPort, h)
<1> DEFINE early == ToSet(Near(lastPort)) \cup Sweep(lastPort, h)
<1>0. PortSpaceMin \in Nat /\ PortSpaceMax \in Nat /\ h \in Nat /\ Stride(h) \in Nat \ {0} /\ 4 * Stride(h) <= h
  BY SpaceAssumption, StrideIs
<1>1. ASSUME NEW port \in PortSpace, SweepMember(h, port) PROVE port \in early
  BY <1>1, NearIsNear, SweepIsSweep
<1>2. ASSUME NEW base \in PortSpaceMin .. PortSpaceMax - h + 1
      PROVE  Cardinality(early \cap (base .. base + h - 1)) >= 4
  <2> DEFINE hits == early \cap (base .. base + h - 1)
  <2>1. PICK s \in Nat \ {0} : s = Stride(h) /\ 4 * s <= h
    BY <1>0
  <2>2. base \in Int /\ base - PortSpaceMin \in Nat /\ base + h - 1 <= PortSpaceMax
    BY <1>0
  <2>3. PICK n \in Nat : n = base - PortSpaceMin
    BY <2>2
  <2>4. PICK k \in Int : n <= k * s /\ k * s <= n + s - 1
    <3>1. PICK q \in Int, r \in 0 .. s - 1 : n + s - 1 = q * s + r
      BY Division, n + s - 1 \in Int
    <3>. QED
      BY <3>1
  <2>5. PICK m \in Int : m = k * s
    OBVIOUS
  <2>6. ASSUME NEW j \in 0 .. 3 PROVE PortSpaceMin + m + j * s \in hits
    <3>1. (k + j) * s = m + j * s /\ j * s \in 0 .. 3 * s
      BY <2>5, Z3
    <3>2. PICK port \in Int : port = PortSpaceMin + m + j * s /\ port - PortSpaceMin = (k + j) * s + 0
      BY <1>0, <3>1
    <3>3. port \in base .. base + h - 1
      <4>1. PICK y \in 0 .. 3 * s : y = j * s
        BY <3>1
      <4>2. port = PortSpaceMin + m + y /\ n <= m /\ m <= n + s - 1 /\ base = PortSpaceMin + n
        BY <1>0, <2>2, <2>3, <2>4, <2>5, <3>2, <4>1
      <4>. QED
        BY <1>0, <2>1, <4>1, <4>2
    <3>4. port \in PortSpace
      BY <1>0, <2>2, <3>3 DEF PortSpace
    <3>5. ((k + j) * s + 0) % s = 0
      BY Remainder
    <3>6. SweepMember(h, port)
      BY <2>1, <3>2, <3>5 DEF SweepMember
    <3>. QED
      BY <1>1, <3>2, <3>3, <3>4, <3>6
  <2> DEFINE four == {PortSpaceMin + m, PortSpaceMin + m + s, PortSpaceMin + m + 2 * s, PortSpaceMin + m + 3 * s}
  <2>7. four \subseteq hits
    <3>1. PortSpaceMin + m + 0 * s \in hits /\ PortSpaceMin + m + 1 * s \in hits
          /\ PortSpaceMin + m + 2 * s \in hits /\ PortSpaceMin + m + 3 * s \in hits
      BY <2>6
    <3>. HIDE DEF hits
    <3>. QED
      BY <1>0, <3>1
  <2>8. IsFiniteSet(hits)
    <3>1. IsFiniteSet(base .. base + h - 1)
      BY <1>0, <2>2, FS_Interval
    <3>. QED
      BY <3>1, FS_Subset
  <2>9. Cardinality(four) = 4
    <3>1. PICK a \in Int, b \in Int, c \in Int, d \in Int :
              a = PortSpaceMin + m /\ b = a + s /\ c = a + 2 * s /\ d = a + 3 * s
      BY <1>0
    <3>2. a # b /\ a # c /\ a # d /\ b # c /\ b # d /\ c # d
      BY <3>1
    <3>3. four = {a, b, c, d}
      BY <3>1
    <3>. QED
      <4>1. Cardinality({a, b, c, d}) = 4
        BY <3>2, FourThings
      <4>. QED
        BY <3>3, <4>1
  <2>10. Cardinality(four) <= Cardinality(hits) /\ Cardinality(hits) \in Nat
    <3>. HIDE DEF four, hits
    <3>. QED
      BY <2>7, <2>8, FS_Subset, FS_CardinalityType
  <2>. HIDE DEF four, hits
  <2>11. Cardinality(hits) >= 4
    BY <2>9, <2>10
  <2>. QED
    BY <2>11 DEF hits
<1>. QED
  BY <1>2 DEF FourHitsInEveryRun

\* scanplan.go: whatever the port space, the window and the tiers of helpers, the
\* three stages try every port once, and any run of ports as long as a pool is
\* met four times before the random stage.
THEOREM PlanIsComplete == PlanFindsThePool
<1>1. ASSUME NEW lastPort \in 1 .. PortSpaceMax PROVE lastPort \in Int
  BY SpaceAssumption
<1>. QED
  BY <1>1, StagesPart, FourSteps DEF PlanFindsThePool

\* So it is whenever a side scans for a variable peer.
THEOREM ScanFindsEveryPool == Spec => []ScanFindsThePool
<1>1. PlanFindsThePool => ScanFindsThePool
  BY DEF ScanFindsThePool
<1>. QED
  BY <1>1, PlanIsComplete, PTL
=============================================================================
