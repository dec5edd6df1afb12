----------------------------- MODULE HubSafety -----------------------------
(***************************************************************************)
(* The safety invariants of Hub, each from an inductive invariant:         *)
(* TokenPairing from the methods of link.go; the session table, the        *)
(* pending devices and the last word of replaced connections together; the *)
(* half-collected profiles and the real ones together.                     *)
(*                                                                         *)
(* Then what a step of the hub may never do: both ends hear of every       *)
(* attempt under one token, a link record changes only for the reasons     *)
(* link.go states, and a registration stays within max_connections.  Fresh *)
(* tokens differ from the ones in use because every token a record or a    *)
(* report holds was issued: that is the invariant behind the first two.    *)
(* The third needs the set of devices online to be finite, as a count of   *)
(* it is compared.                                                         *)
(***************************************************************************)
EXTENDS HubProofs, FiniteSetTheorems

----------------------------------------------------------------------------
(* State and token of a link are two faces of one fact *)

LEMMA PairingStep == TypeOK /\ TokenPairing /\ [Next]_vars => TokenPairing'
<1> SUFFICES ASSUME TypeOK, TokenPairing, [Next]_vars PROVE TokenPairing'
  OBVIOUS
<1>1. CASE UNCHANGED links
  BY <1>1 DEF TokenPairing
<1>2. ASSUME NEW s \in Sessions, HandleStateReport(s) PROVE TokenPairing'
  <2>1. CASE UNCHANGED links
    BY <2>1 DEF TokenPairing
  <2>2. CASE ~UNCHANGED links
    <3> DEFINE m == held[s]
               touched == Reported(Owner[s], DOMAIN m.entries)
    <3>1. links' = [p \in Pairs |-> IF p \in touched
                                    THEN AdoptEntry(links[p], m.entries[peering[p]], m.full)
                                    ELSE links[p]]
      BY <1>2, <2>2 DEF HandleStateReport, RefuseReport, tables
    <3>2. m \in Inbound(Tokens) /\ m.type = "state_report"
      BY <1>2 DEF HandleStateReport, Holds, TypeOK
    <3>3. ASSUME NEW p \in touched
          PROVE  Paired(AdoptEntry(links[p], m.entries[peering[p]], m.full))
      <4>1. p \in Pairs /\ peering[p] \in DOMAIN m.entries /\ links[p] \in LinkRecord /\ Paired(links[p])
        BY DEF Reported, PairsOf, TypeOK, TokenPairing
      <4>. QED
        BY <3>2, <4>1, StateReportShape, LinkPairing DEF AdoptEntry
    <3>. QED
      BY <3>1, <3>3 DEF TokenPairing
  <2>. QED
    BY <2>1, <2>2
<1>3. ASSUME NEW p \in Pairs, IssueConnectCommand(p) PROVE TokenPairing'
  <2>1. PICK t \in FreshTokens : links' = [links EXCEPT ![p] = IssueConnect(@, t)]
    BY <1>3 DEF IssueConnectCommand
  <2>2. t \in Tokens /\ t # NoToken
    BY TokenAssumption DEF FreshTokens
  <2>3. Paired(IssueConnect(links[p], t))
    BY <2>2, LinkPairing DEF TypeOK, TokenPairing, LinkStates
  <2>. QED
    BY <2>1, <2>3 DEF TokenPairing, TypeOK
<1>4. ASSUME NEW p \in Pairs, IssueDisconnectCommand(p) PROVE TokenPairing'
  <2>1. Paired(IssueDisconnect(links[p]))
    BY LinkPairing DEF TypeOK, TokenPairing, LinkStates
  <2>. QED
    BY <1>4, <2>1 DEF IssueDisconnectCommand, TokenPairing, TypeOK
<1>5. CASE AutoConnectIdle
  <2>1. PICK attempt \in Injection(Retryable, FreshTokens) :
           links' = [p \in Pairs |-> IF p \in Retryable THEN IssueConnect(links[p], attempt[p]) ELSE links[p]]
    BY <1>5 DEF AutoConnectIdle
  <2>2. \A p \in Retryable : attempt[p] \in Tokens /\ attempt[p] # NoToken
    BY TokenAssumption DEF FreshTokens, Injection
  <2>3. \A p \in Pairs \cap Retryable : Paired(IssueConnect(links[p], attempt[p]))
    BY <2>2, LinkPairing DEF TypeOK, TokenPairing, LinkStates
  <2>. QED
    BY <2>1, <2>3 DEF TokenPairing
<1>6. ASSUME NEW ps \in SUBSET Pairs, PruneLinks(ps) PROVE TokenPairing'
  BY <1>6, IdleLinkPaired DEF PruneLinks, TokenPairing
<1>7. CASE Restart
  BY <1>7, IdleLinkPaired DEF Restart, TokenPairing
<1>8. ASSUME NEW s \in Sessions, SessionStep(s) PROVE UNCHANGED links \/ HandleStateReport(s)
  BY <1>8 DEF SessionStep, Register, RefuseRegister, SessionEnded, Read, RejectInbound, ReadFails, Leave,
              Write, WriteFails, Heartbeat, Unregister, HandleProfileReport, RefuseReport, tables
<1>9. CASE AdminStep
  BY <1>1, <1>3, <1>4, <1>5, <1>6, <1>9
  DEF AdminStep, ApproveDevice, Kick, IssueQuery, PushConfig, DeleteDevice, CreatePeering, RemovePeering, tables
<1>. QED
  BY <1>1, <1>2, <1>7, <1>8, <1>9 DEF Next, vars

\* Link.Invariants: after any sequence of commands and reports, the token of a
\* link is empty exactly when its state is IDLE.
THEOREM TokensPaired == Spec => []TokenPairing
<1>1. Init => TokenPairing
  BY IdleLinkPaired DEF Init, TokenPairing
<1>. QED
  BY <1>1, PairingStep, TypeCorrect, PTL DEF Spec

----------------------------------------------------------------------------
(* The session table and the last word of a connection *)

\* A read loop waits for the owner only while it is in its loop.
HeldWhileReading == \A s \in Sessions : held[s] # NoMessage => reader[s] = "reading"

SessionInv == SessionTable /\ PendingDevicesConsistent /\ LastWord /\ HeldWhileReading

\* The connection of an online device is a connection of that device.
LEMMA CurrentOwner ==
    ASSUME TypeOK, SessionTable, NEW d \in Devices, Online(d)
    PROVE  current[d] \in Sessions /\ Owner[current[d]] = d /\ IsCurrent(current[d])
  BY DEF TypeOK, SessionTable, Online, IsCurrent

\* A message with closing effect stays in a queue that only grows.
LEMMA ClosingStays ==
    ASSUME NEW q \in Seq(Outbound), NEW b \in Seq(Outbound),
           \E i \in DOMAIN q : ClosesAfter(q[i])
    PROVE  \E i \in DOMAIN (q \o b) : ClosesAfter((q \o b)[i])
<1>1. PICK i \in 1 .. Len(q) : ClosesAfter(q[i])
  OBVIOUS
<1>2. i \in 1 .. Len(q \o b) /\ (q \o b)[i] = q[i]
  OBVIOUS
<1>. QED
  BY <1>1, <1>2

LEMMA ClosingArrives ==
    ASSUME NEW q \in Seq(Outbound), NEW m \in Outbound, ClosesAfter(m)
    PROVE  /\ \E i \in DOMAIN (q \o <<m>>) : ClosesAfter((q \o <<m>>)[i])
           /\ \E i \in DOMAIN Append(q, m) : ClosesAfter(Append(q, m)[i])
<1>1. /\ Len(q) + 1 \in DOMAIN (q \o <<m>>) /\ (q \o <<m>>)[Len(q) + 1] = m
      /\ Len(q) + 1 \in DOMAIN Append(q, m) /\ Append(q, m)[Len(q) + 1] = m
  OBVIOUS
<1>. QED
  BY <1>1

LEMMA ClosingRemains ==
    ASSUME NEW q \in Seq(Outbound), q # <<>>, ~ClosesAfter(Head(q)),
           \E i \in DOMAIN q : ClosesAfter(q[i])
    PROVE  \E i \in DOMAIN Tail(q) : ClosesAfter(Tail(q)[i])
<1>1. PICK i \in 1 .. Len(q) : ClosesAfter(q[i])
  OBVIOUS
<1>2. i # 1
  BY <1>1
<1>3. i - 1 \in DOMAIN Tail(q) /\ Tail(q)[i - 1] = q[i]
  BY <1>2
<1>. QED
  BY <1>1, <1>3

\* Mail for current sessions leaves the others alone.
LEMMA DeliverKeepsSessions ==
    ASSUME TypeOK, SessionInv, UNCHANGED <<current, pendingDevices, devices, reader>>,
           NEW STATE batch, batch \in Mail, Deliver(batch),
           \A s \in Sessions : ~IsCurrent(s) => batch[s] = <<>>
    PROVE  SessionTable' /\ PendingDevicesConsistent' /\ LastWord'
<1>1. \A s \in Sessions : alive'[s] => alive[s] /\ queue'[s] = queue[s] \o batch[s]
  BY DeliverEffect
<1>2. SessionTable' /\ PendingDevicesConsistent'
  BY <1>1 DEF SessionInv, SessionTable, PendingDevicesConsistent, Online, TypeOK
<1>3. ASSUME NEW s \in Sessions, reader'[s] # "registering", alive'[s], ~IsCurrent(s)'
      PROVE  \E i \in DOMAIN queue'[s] : ClosesAfter(queue'[s][i])
  <2>1. ~IsCurrent(s) /\ reader[s] # "registering" /\ alive[s] /\ batch[s] = <<>>
    BY <1>1, <1>3 DEF IsCurrent
  <2>2. queue'[s] = queue[s]
    BY <2>1, DeliverEffect
  <2>. QED
    BY <2>1, <2>2 DEF SessionInv, LastWord
<1>. QED
  BY <1>2, <1>3 DEF LastWord

LEMMA MailKeepsSessions ==
    ASSUME TypeOK, SessionInv, UNCHANGED <<current, pendingDevices, devices, reader>>,
           NEW STATE mail, mail \in [Devices -> Seq(Outbound)], Deliver(ToCurrent(mail))
    PROVE  SessionTable' /\ PendingDevicesConsistent' /\ LastWord'
  BY ToCurrentMail, DeliverKeepsSessions

\* A connection that ends needs no last word.
LEMMA EndKeepsSessions ==
    ASSUME TypeOK, SessionInv, UNCHANGED <<current, pendingDevices, devices>>,
           NEW s \in Sessions, End(s),
           \/ UNCHANGED reader
           \/ reader' = [reader EXCEPT ![s] = "ended"] /\ reader[s] # "registering"
           \/ reader' = [reader EXCEPT ![s] = "leaving"] /\ reader[s] # "registering"
           \/ reader' = [reader EXCEPT ![s] = "gone"] /\ ~IsCurrent(s)
    PROVE  SessionTable' /\ PendingDevicesConsistent' /\ LastWord'
<1>1. /\ ~alive'[s]
      /\ \A x \in Sessions \ {s} : alive'[x] = alive[x] /\ queue'[x] = queue[x] /\ reader'[x] = reader[x]
  BY EndEffect DEF TypeOK
<1>2. PendingDevicesConsistent'
  BY DEF SessionInv, PendingDevicesConsistent, Online
<1>3. SessionTable'
  <2> SUFFICES ASSUME NEW d \in Devices, Online(d)
               PROVE  /\ Owner[current[d]] = d
                      /\ reader'[current[d]] \in {"reading", "leaving", "ended"}
                      /\ reader'[current[d]] = "ended" => ~alive'[current[d]]
    BY DEF SessionTable, Online
  <2>1. current[d] \in Sessions /\ Owner[current[d]] = d /\ IsCurrent(current[d])
    BY CurrentOwner DEF SessionInv
  <2>2. /\ reader[current[d]] \in {"reading", "leaving", "ended"}
        /\ reader[current[d]] = "ended" => ~alive[current[d]]
    BY DEF SessionInv, SessionTable
  <2>. QED
    BY <1>1, <2>1, <2>2 DEF TypeOK
<1>4. LastWord'
  <2> SUFFICES ASSUME NEW x \in Sessions, reader'[x] # "registering", alive'[x], ~IsCurrent(x)'
               PROVE  \E i \in DOMAIN queue'[x] : ClosesAfter(queue'[x][i])
    BY DEF LastWord
  <2>1. x # s /\ ~IsCurrent(x)
    BY <1>1 DEF IsCurrent
  <2>. QED
    BY <1>1, <2>1 DEF SessionInv, LastWord
<1>. QED
  BY <1>2, <1>3, <1>4

\* The error that rejectSession sends is a last word.
LEMMA RejectKeepsSessions ==
    ASSUME TypeOK, SessionInv, UNCHANGED <<current, pendingDevices, devices>>,
           NEW s \in Sessions, RejectSession(s), NEW rest \in {"leaving", "gone"},
           reader' = [reader EXCEPT ![s] = rest],
           rest = "gone" => ~IsCurrent(s)
    PROVE  SessionTable' /\ PendingDevicesConsistent' /\ LastWord'
<1>1. /\ \A x \in Sessions \ {s} : alive'[x] = alive[x] /\ queue'[x] = queue[x] /\ reader'[x] = reader[x]
      /\ reader'[s] = rest
      /\ alive'[s] => alive[s] /\ queue'[s] = Append(queue[s], Plain("error"))
  BY RejectEffect DEF TypeOK
<1>2. PendingDevicesConsistent'
  BY DEF SessionInv, PendingDevicesConsistent, Online
<1>3. SessionTable'
  <2> SUFFICES ASSUME NEW d \in Devices, Online(d)
               PROVE  /\ Owner[current[d]] = d
                      /\ reader'[current[d]] \in {"reading", "leaving", "ended"}
                      /\ reader'[current[d]] = "ended" => ~alive'[current[d]]
    BY DEF SessionTable, Online
  <2>1. current[d] \in Sessions /\ Owner[current[d]] = d /\ IsCurrent(current[d])
    BY CurrentOwner DEF SessionInv
  <2>2. /\ reader[current[d]] \in {"reading", "leaving", "ended"}
        /\ reader[current[d]] = "ended" => ~alive[current[d]]
    BY DEF SessionInv, SessionTable
  <2>. QED
    BY <1>1, <2>1, <2>2
<1>4. LastWord'
  <2> SUFFICES ASSUME NEW x \in Sessions, reader'[x] # "registering", alive'[x], ~IsCurrent(x)'
               PROVE  \E i \in DOMAIN queue'[x] : ClosesAfter(queue'[x][i])
    BY DEF LastWord
  <2>1. CASE x = s
    <3>1. queue'[x] = Append(queue[x], Plain("error")) /\ queue[x] \in Seq(Outbound)
      BY <1>1, <2>1 DEF TypeOK
    <3>2. Plain("error") \in Outbound /\ ClosesAfter(Plain("error"))
      BY MessageTypes DEF Plain, ClosesAfter
    <3>. QED
      BY <3>1, <3>2, ClosingArrives
  <2>2. CASE x # s
    BY <1>1, <2>2 DEF SessionInv, LastWord, IsCurrent
  <2>. QED
    BY <2>1, <2>2
<1>. QED
  BY <1>2, <1>3, <1>4

LEMMA RegisterKeepsSessions ==
    ASSUME TypeOK, SessionInv, NEW s \in Sessions, Register(s)
    PROVE  SessionTable' /\ PendingDevicesConsistent' /\ LastWord'
<1> DEFINE d == Owner[s]
           mail == RegisterMail(s)
<1>1. /\ reader[s] = "registering" /\ alive[s]
      /\ pendingDevices' = IF d \in devices THEN pendingDevices ELSE pendingDevices \cup {d}
      /\ current' = [current EXCEPT ![d] = s]
      /\ reader' = [reader EXCEPT ![s] = "reading"]
      /\ Deliver(mail) /\ mail \in Mail
      /\ devices' = devices
  BY RegisterMailType DEF Register, RegisterMail, store
<1>2. d \in Devices /\ \A e \in Devices : current'[e] = IF e = d THEN s ELSE current[e]
  BY <1>1, OwnerAssumption DEF TypeOK
<1>3. \A x \in Sessions : reader'[x] = IF x = s THEN "reading" ELSE reader[x]
  BY <1>1 DEF TypeOK
<1>4. \A x \in Sessions : alive'[x] => alive[x] /\ queue'[x] = queue[x] \o mail[x]
  BY <1>1, DeliverEffect
<1>5. PendingDevicesConsistent'
  BY <1>1, <1>2, AbsenceAssumption DEF SessionInv, PendingDevicesConsistent, Online, TypeOK
<1>6. SessionTable'
  <2> SUFFICES ASSUME NEW e \in Devices, current'[e] # NoSession
               PROVE  /\ Owner[current'[e]] = e
                      /\ reader'[current'[e]] \in {"reading", "leaving", "ended"}
                      /\ reader'[current'[e]] = "ended" => ~alive'[current'[e]]
    BY DEF SessionTable, Online
  <2>1. CASE e = d
    BY <1>2, <1>3, <2>1
  <2>2. CASE e # d
    <3>1. current[e] \in Sessions /\ Owner[current[e]] = e /\ current'[e] = current[e]
      BY <1>2, <2>2, CurrentOwner DEF SessionInv, Online
    <3>2. /\ reader[current[e]] \in {"reading", "leaving", "ended"}
          /\ reader[current[e]] = "ended" => ~alive[current[e]]
      BY <1>2, <2>2 DEF SessionInv, SessionTable, Online
    <3>. QED
      BY <1>3, <1>4, <2>2, <3>1, <3>2
  <2>. QED
    BY <2>1, <2>2
<1>7. LastWord'
  <2> SUFFICES ASSUME NEW x \in Sessions, reader'[x] # "registering", alive'[x], current'[Owner[x]] # x
               PROVE  \E i \in DOMAIN queue'[x] : ClosesAfter(queue'[x][i])
    BY DEF LastWord, IsCurrent
  <2>1. x # s /\ Owner[x] \in Devices /\ reader[x] # "registering" /\ alive[x] /\ queue[x] \in Seq(Outbound)
        /\ queue'[x] = queue[x] \o mail[x] /\ mail[x] \in Seq(Outbound)
    BY <1>1, <1>2, <1>3, <1>4, OwnerAssumption DEF TypeOK, Mail
  <2>2. CASE x = current[d]
    <3>1. mail[x] = <<Plain("duplicate_login")>>
      BY <2>1, <2>2 DEF RegisterMail
    <3>2. Plain("duplicate_login") \in Outbound /\ ClosesAfter(Plain("duplicate_login"))
      BY MessageTypes DEF Plain, ClosesAfter
    <3>. QED
      BY <2>1, <3>1, <3>2, ClosingArrives
  <2>3. CASE x # current[d]
    <3>1. ~IsCurrent(x)
      BY <1>2, <2>1, <2>3 DEF IsCurrent
    <3>2. \E i \in DOMAIN queue[x] : ClosesAfter(queue[x][i])
      BY <2>1, <3>1 DEF SessionInv, LastWord
    <3>. QED
      BY <2>1, <3>2, ClosingStays
  <2>. QED
    BY <2>2, <2>3
<1>. QED
  BY <1>5, <1>6, <1>7

\* Steps of a session that send nothing.
LEMMA SilentKeepsSessions ==
    ASSUME TypeOK, SessionInv, NEW s \in Sessions, UNCHANGED <<devices, current, pendingDevices, queue, alive>>,
           \/ UNCHANGED reader
           \/ reader[s] = "reading" /\ reader' = [reader EXCEPT ![s] = "leaving"]
           \/ reader[s] = "reading" /\ reader' = [reader EXCEPT ![s] = "silenced"] /\ ~IsCurrent(s)
    PROVE  SessionTable' /\ PendingDevicesConsistent' /\ LastWord'
<1>1. \A x \in Sessions \ {s} : reader'[x] = reader[x]
  BY DEF TypeOK
<1>2. \/ reader'[s] = reader[s]
      \/ reader'[s] = "leaving" /\ reader[s] = "reading"
      \/ reader'[s] = "silenced" /\ ~IsCurrent(s) /\ reader[s] = "reading"
  BY DEF TypeOK
<1>3. PendingDevicesConsistent' /\ LastWord'
  <2>1. PendingDevicesConsistent'
    BY DEF SessionInv, PendingDevicesConsistent, Online
  <2>2. ASSUME NEW x \in Sessions, reader'[x] # "registering", alive[x], ~IsCurrent(x)
        PROVE  \E i \in DOMAIN queue[x] : ClosesAfter(queue[x][i])
    <3>1. reader[x] # "registering"
      BY <1>1, <1>2, <2>2
    <3>. QED
      BY <2>2, <3>1 DEF SessionInv, LastWord
  <2>. QED
    BY <2>1, <2>2 DEF LastWord, IsCurrent
<1>4. ASSUME NEW d \in Devices, Online(d)
      PROVE  /\ Owner[current[d]] = d
             /\ reader'[current[d]] \in {"reading", "leaving", "ended"}
             /\ reader'[current[d]] = "ended" => ~alive[current[d]]
  <2>1. current[d] \in Sessions /\ Owner[current[d]] = d /\ IsCurrent(current[d])
    BY <1>4, CurrentOwner DEF SessionInv
  <2>2. /\ reader[current[d]] \in {"reading", "leaving", "ended"}
        /\ reader[current[d]] = "ended" => ~alive[current[d]]
    BY <1>4 DEF SessionInv, SessionTable
  <2>. QED
    BY <1>1, <1>2, <2>1, <2>2
<1>. QED
  BY <1>3, <1>4 DEF SessionTable, Online

LEMMA SessionEndedKeepsSessions ==
    ASSUME TypeOK, SessionInv, NEW s \in Sessions, SessionEnded(s)
    PROVE  SessionTable' /\ PendingDevicesConsistent' /\ LastWord'
<1>1. /\ reader[s] = "ended"
      /\ reader' = [reader EXCEPT ![s] = "gone"]
      /\ UNCHANGED <<devices, queue, alive>>
  BY DEF SessionEnded, store
<1>2. \A x \in Sessions : reader'[x] = IF x = s THEN "gone" ELSE reader[x]
  BY <1>1 DEF TypeOK
<1>3. CASE IsCurrent(s)
  <2>1. /\ current' = [current EXCEPT ![Owner[s]] = NoSession]
        /\ pendingDevices' = pendingDevices \ {Owner[s]}
    BY <1>3 DEF SessionEnded, IsCurrent
  <2>2. \A e \in Devices : current'[e] = IF e = Owner[s] THEN NoSession ELSE current[e]
    BY <2>1 DEF TypeOK
  <2>3. ~alive[s] /\ Owner[s] \in Devices
    BY <1>1, <1>3, OwnerAssumption, AbsenceAssumption DEF IsCurrent, SessionInv, SessionTable, Online
  <2>4. PendingDevicesConsistent'
    BY <1>1, <2>1, <2>2 DEF SessionInv, PendingDevicesConsistent, Online, TypeOK
  <2>5. SessionTable'
    BY <1>1, <1>2, <2>2 DEF SessionInv, SessionTable, Online
  <2>6. LastWord'
    <3> SUFFICES ASSUME NEW x \in Sessions, reader'[x] # "registering", alive[x], current'[Owner[x]] # x
                 PROVE  \E i \in DOMAIN queue[x] : ClosesAfter(queue[x][i])
      BY <1>1 DEF LastWord, IsCurrent
    <3>1. x # s /\ Owner[x] \in Devices /\ reader[x] # "registering"
      BY <1>2, <2>3, OwnerAssumption
    <3>2. ~IsCurrent(x)
      <4>1. CASE Owner[x] = Owner[s]
        BY <1>3, <3>1, <4>1 DEF IsCurrent
      <4>2. CASE Owner[x] # Owner[s]
        BY <2>2, <3>1, <4>2 DEF IsCurrent
      <4>. QED
        BY <4>1, <4>2
    <3>. QED
      BY <3>1, <3>2 DEF SessionInv, LastWord
  <2>. QED
    BY <2>4, <2>5, <2>6
<1>4. CASE ~IsCurrent(s)
  <2>1. UNCHANGED <<current, pendingDevices>>
    BY <1>4 DEF SessionEnded, IsCurrent, online
  <2>2. PendingDevicesConsistent'
    BY <1>1, <2>1 DEF SessionInv, PendingDevicesConsistent, Online
  <2>3. LastWord'
    BY <1>1, <1>2, <2>1 DEF SessionInv, LastWord, IsCurrent
  <2>4. ASSUME NEW d \in Devices, Online(d)
        PROVE  /\ Owner[current[d]] = d
               /\ reader'[current[d]] \in {"reading", "leaving", "ended"}
               /\ reader'[current[d]] = "ended" => ~alive[current[d]]
    <3>1. current[d] \in Sessions /\ current[d] # s /\ Owner[current[d]] = d
      BY <1>4, <2>4, CurrentOwner DEF SessionInv
    <3>. QED
      BY <1>2, <2>4, <3>1 DEF SessionInv, SessionTable
  <2>5. SessionTable'
    BY <1>1, <2>1, <2>4 DEF SessionTable, Online
  <2>. QED
    BY <2>2, <2>3, <2>5
<1>. QED
  BY <1>3, <1>4

LEMMA SessionStepKeepsSessions ==
    ASSUME TypeOK, SessionInv, NEW s \in Sessions, SessionStep(s)
    PROVE  SessionTable' /\ PendingDevicesConsistent' /\ LastWord'
<1>1. CASE Register(s)
  BY <1>1, RegisterKeepsSessions
<1>2. CASE RefuseRegister(s)
  <2>1. ~IsCurrent(s)
    BY <1>2, OwnerAssumption, AbsenceAssumption DEF RefuseRegister, SessionInv, SessionTable, Online, IsCurrent
  <2>. QED
    BY <1>2, <2>1, RejectKeepsSessions DEF RefuseRegister, store, online
<1>3. CASE SessionEnded(s)
  BY <1>3, SessionEndedKeepsSessions
<1>4. CASE \E m \in Inbound(issued) : Read(s, m)
  BY <1>4, SilentKeepsSessions DEF Read, store, online
<1>5. CASE RejectInbound(s)
  BY <1>5, RejectKeepsSessions DEF RejectInbound, store, online
<1>6. CASE ReadFails(s)
  BY <1>6, SilentKeepsSessions DEF ReadFails, Reading, store, online
<1>7. CASE Leave(s)
  BY <1>7, EndKeepsSessions DEF Leave, store, online
<1>8. CASE Write(s)
  <2>1. UNCHANGED <<devices, current, pendingDevices, reader>>
    BY <1>8 DEF Write, store, online
  <2>2. CASE ClosesAfter(Head(queue[s]))
    BY <1>8, <2>1, <2>2, EndKeepsSessions DEF Write
  <2>3. CASE ~ClosesAfter(Head(queue[s]))
    <3>1. /\ queue[s] # <<>> /\ queue' = [queue EXCEPT ![s] = Tail(queue[s])]
          /\ alive' = alive
      BY <1>8, <2>3 DEF Write
    <3>2. SessionTable' /\ PendingDevicesConsistent'
      BY <2>1, <3>1 DEF SessionInv, SessionTable, PendingDevicesConsistent, Online
    <3>3. LastWord'
      <4> SUFFICES ASSUME NEW x \in Sessions, reader[x] # "registering", alive[x], ~IsCurrent(x)
                   PROVE  \E i \in DOMAIN queue'[x] : ClosesAfter(queue'[x][i])
        BY <2>1, <3>1 DEF LastWord, IsCurrent
      <4>1. queue[x] \in Seq(Outbound) /\ \E i \in DOMAIN queue[x] : ClosesAfter(queue[x][i])
        BY DEF SessionInv, LastWord, TypeOK
      <4>2. queue'[x] = IF x = s THEN Tail(queue[s]) ELSE queue[x]
        BY <3>1 DEF TypeOK
      <4>. QED
        BY <2>3, <3>1, <4>1, <4>2, ClosingRemains
    <3>. QED
      BY <3>2, <3>3
  <2>. QED
    BY <2>2, <2>3
<1>9. CASE WriteFails(s)
  BY <1>9, EndKeepsSessions DEF WriteFails, store, online
<1>10. CASE Heartbeat(s)
  BY <1>10, SilentKeepsSessions DEF Heartbeat, Holds, SessionInv, HeldWhileReading, store, online
<1>11. CASE Unregister(s)
  BY <1>11, SilentKeepsSessions DEF Unregister, Holds, SessionInv, HeldWhileReading, store, online
<1>12. ASSUME RefuseReport(s) PROVE SessionTable' /\ PendingDevicesConsistent' /\ LastWord'
  BY <1>12, RejectKeepsSessions DEF RefuseReport, store, online
<1>13. CASE HandleStateReport(s)
  <2>1. CASE UNCHANGED <<store, online, queue, alive, reader>>
    BY <2>1, SilentKeepsSessions DEF store, online
  <2>. QED
    BY <1>12, <1>13, <2>1 DEF HandleStateReport
<1>14. CASE HandleProfileReport(s)
  <2>1. CASE RefuseReport(s)
    BY <1>12, <2>1
  <2>2. CASE ~RefuseReport(s)
    <3> DEFINE m == held[s]
               d == Owner[s]
    <3>1. m.peering \in PeeringIds /\ m.token \in Tokens /\ m.profile \in Profiles
      BY <1>14, ProfileReportShape DEF HandleProfileReport, Holds, TypeOK
    <3>2. UNCHANGED <<current, pendingDevices, devices, reader>>
      BY <1>14, <2>2 DEF HandleProfileReport, store, online
    <3>3. ASSUME NEW p \in Reported(d, {m.peering}), AdoptProfile(p, m.token, d, m.profile)
          PROVE  SessionTable' /\ PendingDevicesConsistent' /\ LastWord'
      <4> DEFINE c == Collect(p, m.token, d, m.profile)
      <4>1. p \in Pairs /\ peering[p] # NoPeering /\ d \in Devices
        BY <3>1, OwnerAssumption, AbsenceAssumption DEF Reported, PairsOf
      <4>2. c \in [token : Tokens \cup {NoToken}, sides : [Devices -> Profiles \cup {NoProfile}]]
        BY <3>1, <4>1, CollectType
      <4>3. CASE Complete(c)
        <5>1. Deliver(ToCurrent(ProfileMail(p, m.token, c)))
          BY <3>3, <4>3 DEF AdoptProfile, ProfileMail
        <5>2. ProfileMail(p, m.token, c) \in [Devices -> Seq(Outbound)]
          BY <3>1, <4>1, <4>2, ProfileMailType
        <5>. QED
          BY <3>2, <5>1, <5>2, MailKeepsSessions
      <4>4. CASE ~Complete(c)
        BY <3>2, <3>3, <4>4, SilentKeepsSessions DEF AdoptProfile
      <4>. QED
        BY <4>3, <4>4
    <3>. QED
      BY <1>14, <2>2, <3>2, <3>3, SilentKeepsSessions DEF HandleProfileReport
  <2>. QED
    BY <2>1, <2>2
<1>. QED
  BY <1>1, <1>2, <1>3, <1>4, <1>5, <1>6, <1>7, <1>8, <1>9, <1>10, <1>11, <1>13, <1>14 DEF SessionStep

LEMMA AdminStepKeepsSessions ==
    ASSUME TypeOK, SessionInv, AdminStep
    PROVE  SessionTable' /\ PendingDevicesConsistent' /\ LastWord'
<1>1. ASSUME NEW p \in Pairs, IssueConnectCommand(p)
      PROVE  SessionTable' /\ PendingDevicesConsistent' /\ LastWord'
  <2>1. PICK t \in FreshTokens :
           Deliver(ToCurrent([d \in Devices |-> IF d \in p THEN <<Connect(p, t)>> ELSE <<>>]))
    BY <1>1 DEF IssueConnectCommand
  <2>2. Connect(p, t) \in Outbound
    BY <1>1, MessageTypes DEF FreshTokens, IssueConnectCommand
  <2>3. [d \in Devices |-> IF d \in p THEN <<Connect(p, t)>> ELSE <<>>] \in [Devices -> Seq(Outbound)]
    BY <2>2, PairMailType
  <2>4. UNCHANGED <<current, pendingDevices, devices, reader>>
    BY <1>1 DEF IssueConnectCommand, store, online
  <2>. QED
    BY <2>1, <2>3, <2>4, MailKeepsSessions
<1>2. ASSUME NEW p \in Pairs, IssueDisconnectCommand(p)
      PROVE  SessionTable' /\ PendingDevicesConsistent' /\ LastWord'
  <2>1. PICK t \in IF links[p].token = NoToken THEN FreshTokens ELSE {links[p].token} :
           Deliver(ToCurrent([d \in Devices |-> IF d \in p THEN <<Disconnect(p, t)>> ELSE <<>>]))
    BY <1>2 DEF IssueDisconnectCommand
  <2>2. t \in Tokens
    BY <2>1 DEF FreshTokens, TypeOK, LinkRecord
  <2>3. Disconnect(p, t) \in Outbound
    BY <1>2, <2>2, MessageTypes DEF IssueDisconnectCommand
  <2>4. [d \in Devices |-> IF d \in p THEN <<Disconnect(p, t)>> ELSE <<>>] \in [Devices -> Seq(Outbound)]
    BY <2>3, PairMailType
  <2>5. UNCHANGED <<current, pendingDevices, devices, reader>>
    BY <1>2 DEF IssueDisconnectCommand, store, online
  <2>. QED
    BY <2>1, <2>4, <2>5, MailKeepsSessions
<1>3. CASE AutoConnectIdle
  <2>1. PICK rank \in Injection(Retryable, 1 .. Cardinality(Retryable)),
             attempt \in Injection(Retryable, FreshTokens) :
           \E mail \in Sweep(rank) :
              Deliver(ToCurrent([d \in Devices |->
                 [i \in DOMAIN mail[d] |-> Connect(mail[d][i], attempt[mail[d][i]])]]))
    BY <1>3 DEF AutoConnectIdle
  <2>2. PICK mail \in Sweep(rank) :
           Deliver(ToCurrent([d \in Devices |->
              [i \in DOMAIN mail[d] |-> Connect(mail[d][i], attempt[mail[d][i]])]]))
    BY <2>1
  <2>3. attempt \in [Retryable -> Tokens]
    BY DEF Injection, FreshTokens
  <2>4. [d \in Devices |-> [i \in DOMAIN mail[d] |-> Connect(mail[d][i], attempt[mail[d][i]])]]
           \in [Devices -> Seq(Outbound)]
    BY <2>3, SweepMailType
  <2>5. UNCHANGED <<current, pendingDevices, devices, reader>>
    BY <1>3 DEF AutoConnectIdle, store, online
  <2>. QED
    BY <2>2, <2>4, <2>5, MailKeepsSessions
<1>4. ASSUME NEW d \in Devices, ApproveDevice(d)
      PROVE  SessionTable' /\ PendingDevicesConsistent' /\ LastWord'
  BY <1>4 DEF ApproveDevice, SessionInv, SessionTable, PendingDevicesConsistent, LastWord, Online, IsCurrent, session
<1>5. ASSUME NEW d \in Devices, Kick(d)
      PROVE  SessionTable' /\ PendingDevicesConsistent' /\ LastWord'
  <2>1. current[d] \in Sessions
    BY <1>5 DEF Kick, Online, TypeOK
  <2>. QED
    BY <1>5, <2>1, EndKeepsSessions DEF Kick, store, online
<1>6. ASSUME NEW d \in Devices, IssueQuery(d)
      PROVE  SessionTable' /\ PendingDevicesConsistent' /\ LastWord'
  <2>1. Plain("query") \in Outbound
    BY MessageTypes
  <2>2. [e \in Devices |-> IF e = d THEN <<Plain("query")>> ELSE <<>>] \in [Devices -> Seq(Outbound)]
    BY <2>1
  <2>. QED
    BY <1>6, <2>2, MailKeepsSessions DEF IssueQuery, store, online
<1>7. ASSUME NEW d \in Devices, PushConfig(d)
      PROVE  SessionTable' /\ PendingDevicesConsistent' /\ LastWord'
  <2>1. Config(d) \in Outbound
    BY MessageTypes
  <2>2. [e \in Devices |-> IF e = d THEN <<Config(d)>> ELSE <<>>] \in [Devices -> Seq(Outbound)]
    BY <2>1
  <2>. QED
    BY <1>7, <2>2, MailKeepsSessions DEF PushConfig, store, online
<1>8. ASSUME UNCHANGED <<online, session>>, devices' \subseteq devices
      PROVE  SessionTable' /\ PendingDevicesConsistent' /\ LastWord'
  BY <1>8 DEF SessionInv, SessionTable, PendingDevicesConsistent, LastWord, Online, IsCurrent, online, session
<1>9. ASSUME NEW ps \in SUBSET Pairs, PruneLinks(ps)
      PROVE  SessionTable' /\ PendingDevicesConsistent' /\ LastWord'
  BY <1>8, <1>9 DEF PruneLinks, store
<1>10. ASSUME NEW p \in Pairs, RemovePeering(p)
       PROVE  SessionTable' /\ PendingDevicesConsistent' /\ LastWord'
  BY <1>8, <1>10 DEF RemovePeering
<1>11. ASSUME NEW p \in Pairs, NEW id \in PeeringIds, CreatePeering(p, id)
       PROVE  SessionTable' /\ PendingDevicesConsistent' /\ LastWord'
  BY <1>8, <1>11 DEF CreatePeering
<1>12. ASSUME NEW d \in Devices, DeleteDevice(d)
       PROVE  SessionTable' /\ PendingDevicesConsistent' /\ LastWord'
  BY <1>8, <1>12 DEF DeleteDevice
<1>. QED
  BY <1>1, <1>2, <1>3, <1>4, <1>5, <1>6, <1>7, <1>9, <1>10, <1>11, <1>12 DEF AdminStep

LEMMA HeldStep == TypeOK /\ HeldWhileReading /\ [Next]_vars => HeldWhileReading'
<1> SUFFICES ASSUME TypeOK, HeldWhileReading, [Next]_vars PROVE HeldWhileReading'
  OBVIOUS
<1>1. ASSUME NEW s \in Sessions,
             \A x \in Sessions \ {s} : reader'[x] = reader[x] /\ held'[x] = held[x],
             held'[s] # NoMessage => reader'[s] = "reading"
      PROVE  HeldWhileReading'
  BY <1>1 DEF HeldWhileReading
<1>2. ASSUME NEW s \in Sessions, SessionStep(s) PROVE HeldWhileReading'
  <2>1. /\ \A x \in Sessions \ {s} : reader'[x] = reader[x] /\ held'[x] = held[x]
        /\ held'[s] # NoMessage => reader'[s] = "reading"
    <3> USE DEF TypeOK, HeldWhileReading
    <3>1. CASE Register(s) \/ RefuseRegister(s) \/ SessionEnded(s)
      BY <3>1 DEF Register, RefuseRegister, SessionEnded
    <3>2. CASE (\E m \in Inbound(issued) : Read(s, m)) \/ RejectInbound(s) \/ ReadFails(s) \/ Leave(s)
      BY <3>2 DEF Read, Reading, RejectInbound, ReadFails, Leave
    <3>3. CASE Write(s) \/ WriteFails(s)
      BY <3>3 DEF Write, WriteFails
    <3>4. CASE Heartbeat(s) \/ Unregister(s)
      BY <3>4 DEF Heartbeat, Unregister, Holds, Take
    <3>5. CASE HandleStateReport(s)
      BY <3>5 DEF HandleStateReport, Holds, Take, RefuseReport
    <3>6. CASE HandleProfileReport(s)
      BY <3>6 DEF HandleProfileReport, Holds, Take, RefuseReport
    <3>. QED
      BY <1>2, <3>1, <3>2, <3>3, <3>4, <3>5, <3>6 DEF SessionStep
  <2>. QED
    BY <1>1, <2>1
<1>3. CASE UNCHANGED <<reader, held>>
  BY <1>3 DEF HeldWhileReading
<1>4. CASE AdminStep
  BY <1>3, <1>4
  DEF AdminStep, IssueConnectCommand, IssueDisconnectCommand, AutoConnectIdle, ApproveDevice, Kick, IssueQuery,
      PushConfig, PruneLinks, CreatePeering, RemovePeering, DeleteDevice, session
<1>5. CASE Restart
  BY <1>5 DEF Restart, HeldWhileReading
<1>. QED
  BY <1>2, <1>3, <1>4, <1>5 DEF Next, vars

LEMMA SessionInvStep == TypeOK /\ SessionInv /\ [Next]_vars => SessionInv'
<1> SUFFICES ASSUME TypeOK, SessionInv, [Next]_vars
             PROVE  SessionTable' /\ PendingDevicesConsistent' /\ LastWord'
  BY HeldStep DEF SessionInv
<1>1. CASE Restart
  BY <1>1 DEF Restart, SessionTable, PendingDevicesConsistent, LastWord, Online
<1>2. CASE UNCHANGED vars
  BY <1>2 DEF vars, SessionInv, SessionTable, PendingDevicesConsistent, LastWord, Online, IsCurrent
<1>. QED
  BY <1>1, <1>2, SessionStepKeepsSessions, AdminStepKeepsSessions DEF Next

LEMMA SessionsInvariant == Spec => []SessionInv
<1>1. Init => SessionInv
  BY DEF Init, SessionInv, SessionTable, PendingDevicesConsistent, LastWord, HeldWhileReading, Online
<1>. QED
  BY <1>1, SessionInvStep, TypeCorrect, PTL DEF Spec

\* Every connection that was replaced or refused is closed or about to be told
\* so: none stays open unnoticed, in every behaviour.
THEOREM SessionsCorrect == Spec => []LastWord
<1>1. SessionInv => LastWord
  BY DEF SessionInv
<1>. QED
  BY <1>1, SessionsInvariant, PTL

\* sessions[d] is a connection that registered for d and whose end the owner
\* has not processed yet.
THEOREM SessionTableCorrect == Spec => []SessionTable
<1>1. SessionInv => SessionTable
  BY DEF SessionInv
<1>. QED
  BY <1>1, SessionsInvariant, PTL

\* approvedOnlineCount subtracts devices that are online and not approved.
THEOREM PendingDevicesCorrect == Spec => []PendingDevicesConsistent
<1>1. SessionInv => PendingDevicesConsistent
  BY DEF SessionInv
<1>. QED
  BY <1>1, SessionsInvariant, PTL

----------------------------------------------------------------------------
(* Profiles are collected for the ends of a pair and handed out whole *)

Real(m) == m.type = "peer_profile" => m.profile # NoProfile

AllReal(q) == \A i \in DOMAIN q : Real(q[i])

LEMMA RealQueues == RealProfiles <=> \A s \in Sessions : AllReal(queue[s])
  BY DEF RealProfiles, AllReal, Real

LEMMA RealQueuesNext == RealProfiles' <=> \A s \in Sessions : AllReal(queue'[s])
  BY DEF RealProfiles, AllReal, Real

LEMMA RealSequences ==
    ASSUME NEW q \in Seq(Outbound), NEW b \in Seq(Outbound), AllReal(q), AllReal(b)
    PROVE  AllReal(q \o b) /\ AllReal(<<>>) /\ (q # <<>> => AllReal(Tail(q)))
<1>1. ASSUME NEW i \in DOMAIN (q \o b) PROVE Real((q \o b)[i])
  <2>1. CASE i \in 1 .. Len(q)
    BY <1>1, <2>1 DEF AllReal
  <2>2. CASE i \notin 1 .. Len(q)
    <3>1. i - Len(q) \in 1 .. Len(b) /\ (q \o b)[i] = b[i - Len(q)]
      BY <1>1, <2>2
    <3>. QED
      BY <3>1 DEF AllReal
  <2>. QED
    BY <2>1, <2>2
<1>2. ASSUME q # <<>>, NEW i \in DOMAIN Tail(q) PROVE Real(Tail(q)[i])
  <2>1. i + 1 \in 1 .. Len(q) /\ Tail(q)[i] = q[i + 1]
    BY <1>2
  <2>. QED
    BY <2>1 DEF AllReal
<1>. QED
  BY <1>1, <1>2 DEF AllReal

\* Only a peer_profile can carry a zero profile.
LEMMA OtherMessagesReal ==
    /\ \A d \in Devices : Real(Config(d))
    /\ \A p \in Pairs, t \in Tokens : Real(Connect(p, t)) /\ Real(Disconnect(p, t))
    /\ \A type \in {"device_registered", "query", "duplicate_login", "error"} : Real(Plain(type))
  BY DEF Real, Config, Connect, Disconnect, Plain

LEMMA DeliverReal ==
    ASSUME TypeOK, RealProfiles, NEW STATE batch, batch \in Mail, Deliver(batch),
           \A s \in Sessions : AllReal(batch[s])
    PROVE  RealProfiles'
<1> SUFFICES ASSUME NEW s \in Sessions PROVE AllReal(queue'[s])
  BY RealQueuesNext
<1>1. CASE alive'[s]
  <2>1. queue'[s] = queue[s] \o batch[s]
    BY <1>1, DeliverEffect
  <2>2. queue[s] \in Seq(Outbound) /\ batch[s] \in Seq(Outbound) /\ AllReal(queue[s])
    BY RealQueues DEF TypeOK, Mail
  <2>. QED
    BY <2>1, <2>2, RealSequences
<1>2. CASE ~alive'[s]
  <2>1. queue'[s] = <<>>
    BY <1>2, DeliverEffect
  <2>. QED
    BY <2>1 DEF AllReal
<1>. QED
  BY <1>1, <1>2

LEMMA MailReal ==
    ASSUME TypeOK, RealProfiles, NEW STATE mail, mail \in [Devices -> Seq(Outbound)],
           Deliver(ToCurrent(mail)), \A d \in Devices : AllReal(mail[d])
    PROVE  RealProfiles'
<1>1. ToCurrent(mail) \in Mail
  BY ToCurrentMail
<1>2. \A s \in Sessions : AllReal(ToCurrent(mail)[s])
  <2> SUFFICES ASSUME NEW s \in Sessions PROVE AllReal(ToCurrent(mail)[s])
    OBVIOUS
  <2>1. ToCurrent(mail)[s] = mail[Owner[s]] \/ ToCurrent(mail)[s] = <<>>
    BY DEF ToCurrent
  <2>2. Owner[s] \in Devices /\ AllReal(<<>>)
    BY OwnerAssumption DEF AllReal
  <2>. QED
    BY <2>1, <2>2
<1>. QED
  BY <1>1, <1>2, DeliverReal

\* The same message to the ends of a pair, or to one device.
LEMMA PairMailReal ==
    ASSUME TypeOK, RealProfiles, NEW STATE m, m \in Outbound, Real(m), NEW S,
           Deliver(ToCurrent([d \in Devices |-> IF d \in S THEN <<m>> ELSE <<>>]))
    PROVE  RealProfiles'
<1> DEFINE mail == [d \in Devices |-> IF d \in S THEN <<m>> ELSE <<>>]
<1>1. mail \in [Devices -> Seq(Outbound)]
  BY PairMailType
<1>2. AllReal(<<m>>) /\ AllReal(<<>>)
  BY DEF AllReal
<1>3. \A d \in Devices : AllReal(mail[d])
  BY <1>2
<1>. QED
  BY <1>1, <1>3, MailReal

LEMMA EndReal ==
    ASSUME TypeOK, RealProfiles, NEW s \in Sessions, End(s)
    PROVE  RealProfiles'
<1>1. queue'[s] = <<>> /\ \A x \in Sessions \ {s} : queue'[x] = queue[x]
  BY EndEffect
<1>2. AllReal(<<>>)
  BY DEF AllReal
<1>. QED
  BY <1>1, <1>2, RealQueues, RealQueuesNext

LEMMA RejectReal ==
    ASSUME TypeOK, RealProfiles, NEW s \in Sessions, RejectSession(s)
    PROVE  RealProfiles'
<1>1. /\ \A x \in Sessions \ {s} : queue'[x] = queue[x]
      /\ alive'[s] => queue'[s] = Append(queue[s], Plain("error"))
      /\ ~alive'[s] => queue'[s] = <<>>
  BY RejectEffect
<1>2. /\ queue[s] \in Seq(Outbound) /\ AllReal(queue[s])
      /\ Plain("error") \in Outbound /\ Real(Plain("error"))
  BY RealQueues, MessageTypes, OtherMessagesReal DEF TypeOK
<1>3. AllReal(Append(queue[s], Plain("error"))) /\ AllReal(<<>>)
  BY <1>2 DEF AllReal
<1>. QED
  BY <1>1, <1>3, RealQueues, RealQueuesNext

\* What AdoptProfile leaves behind, and what it sends.
LEMMA AdoptProfileKeeps ==
    ASSUME TypeOK, HalfCollected, RealProfiles, NEW p \in Pairs, NEW t \in Tokens, NEW d \in p, NEW x \in Profiles,
           peering[p] # NoPeering, AdoptProfile(p, t, d, x)
    PROVE  HalfCollected' /\ RealProfiles'
<1> DEFINE c == Collect(p, t, d, x)
           kept == IF pending[p].token = t THEN pending[p].sides ELSE Uncollected.sides
<1>1. d \in Devices /\ t # NoToken /\ x # NoProfile
  BY PairEnds, TokenAssumption, AbsenceAssumption
<1>2. c \in [token : Tokens \cup {NoToken}, sides : [Devices -> Profiles \cup {NoProfile}]]
  BY <1>1, CollectType
<1>3. /\ kept \in [Devices -> Profiles \cup {NoProfile}]
      /\ \A e \in Devices : kept[e] # NoProfile => e \in p
  BY UncollectedType DEF HalfCollected, TypeOK, Uncollected
<1>4. c.token = t /\ c.sides = IF kept[d] = NoProfile THEN [kept EXCEPT ![d] = x] ELSE kept
  BY DEF Collect
<1>5. /\ c.sides[d] # NoProfile
      /\ \A e \in Devices : c.sides[e] # NoProfile => e \in p
  BY <1>1, <1>3, <1>4
<1>6. pending' = [pending EXCEPT ![p] = IF Complete(c) THEN Uncollected ELSE c]
  BY DEF AdoptProfile
<1>7. HalfCollected'
  <2> SUFFICES ASSUME NEW q \in Pairs
               PROVE  /\ (pending'[q].token = NoToken) <=> (\A e \in Devices : pending'[q].sides[e] = NoProfile)
                      /\ \A e, f \in Devices :
                            pending'[q].sides[e] # NoProfile /\ pending'[q].sides[f] # NoProfile => e = f
                      /\ \A e \in Devices : pending'[q].sides[e] # NoProfile => e \in q
    BY DEF HalfCollected
  <2>1. pending'[q] = IF q = p THEN (IF Complete(c) THEN Uncollected ELSE c) ELSE pending[q]
    BY <1>6 DEF TypeOK
  <2>2. CASE q # p
    BY <2>1, <2>2 DEF HalfCollected
  <2>3. CASE q = p /\ Complete(c)
    BY <2>1, <2>3 DEF Uncollected
  <2>4. CASE q = p /\ ~Complete(c)
    <3>1. pending'[q] = c
      BY <2>1, <2>4
    <3>2. \A e, f \in Devices : c.sides[e] # NoProfile /\ c.sides[f] # NoProfile => e = f
      BY <2>4 DEF Complete
    <3>. QED
      BY <1>1, <1>4, <1>5, <2>4, <3>1, <3>2
  <2>. QED
    BY <2>2, <2>3, <2>4
<1>8. CASE Complete(c)
  <2>1. Deliver(ToCurrent(ProfileMail(p, t, c)))
    BY <1>8 DEF AdoptProfile, ProfileMail
  <2>2. ProfileMail(p, t, c) \in [Devices -> Seq(Outbound)]
    BY <1>2, ProfileMailType
  <2>3. PICK e, f \in Devices : e # f /\ c.sides[e] # NoProfile /\ c.sides[f] # NoProfile
    BY <1>8 DEF Complete
  <2>4. e \in p /\ f \in p
    BY <1>5, <2>3
  <2>5. \A g \in p : c.sides[g] # NoProfile
    BY <2>3, <2>4, PairEnds
  <2>6. \A g \in p : AllReal(<<PeerProfile(p, t, c.sides[Other(p, g)])>>)
    BY <2>5, PairEnds DEF AllReal, Real, PeerProfile
  <2>7. \A g \in Devices : AllReal(ProfileMail(p, t, c)[g])
    BY <2>6 DEF ProfileMail, AllReal
  <2>. QED
    BY <1>7, <2>1, <2>2, <2>7, MailReal
<1>9. CASE ~Complete(c)
  <2>1. UNCHANGED queue
    BY <1>9 DEF AdoptProfile
  <2>. QED
    BY <1>7, <2>1 DEF RealProfiles
<1>. QED
  BY <1>8, <1>9

LEMMA PendingFrame ==
    /\ HalfCollected /\ UNCHANGED pending => HalfCollected'
    /\ RealProfiles /\ UNCHANGED queue => RealProfiles'
  BY DEF HalfCollected, RealProfiles

\* Forgetting a collection keeps it within bounds.
LEMMA ForgetKeeps ==
    ASSUME TypeOK, HalfCollected, NEW ps,
           pending' = [p \in Pairs |-> IF p \in ps THEN Uncollected ELSE pending[p]]
    PROVE  HalfCollected'
  BY DEF HalfCollected, Uncollected

LEMMA SessionStepKeepsProfiles ==
    ASSUME TypeOK, HalfCollected, RealProfiles, NEW s \in Sessions, SessionStep(s)
    PROVE  HalfCollected' /\ RealProfiles'
<1> USE PendingFrame
<1>1. CASE Register(s)
  <2>1. Deliver(RegisterMail(s)) /\ RegisterMail(s) \in Mail
    BY <1>1, RegisterMailType DEF Register, RegisterMail
  <2>2. Real(Plain("device_registered")) /\ Real(Config(Owner[s])) /\ Real(Plain("duplicate_login"))
    BY OtherMessagesReal, OwnerAssumption
  <2>3. /\ AllReal(<<Plain("device_registered"), Config(Owner[s])>>)
        /\ AllReal(<<Plain("duplicate_login")>>)
        /\ AllReal(<<>>)
    BY <2>2 DEF AllReal
  <2>4. \A x \in Sessions : AllReal(RegisterMail(s)[x])
    BY <2>3 DEF RegisterMail
  <2>. QED
    BY <1>1, <2>1, <2>4, DeliverReal DEF Register, tables
<1>2. CASE RefuseRegister(s) \/ RejectInbound(s)
  BY <1>2, RejectReal DEF RefuseRegister, RejectInbound, tables
<1>3. CASE Leave(s) \/ WriteFails(s)
  BY <1>3, EndReal DEF Leave, WriteFails, tables
<1>4. CASE Write(s)
  <2>1. CASE ClosesAfter(Head(queue[s]))
    BY <1>4, <2>1, EndReal DEF Write, tables
  <2>2. CASE ~ClosesAfter(Head(queue[s]))
    <3>1. queue[s] # <<>> /\ queue' = [queue EXCEPT ![s] = Tail(queue[s])]
      BY <1>4, <2>2 DEF Write
    <3>2. queue[s] \in Seq(Outbound) /\ AllReal(queue[s])
      BY RealQueues DEF TypeOK
    <3>3. AllReal(Tail(queue[s]))
      BY <3>1, <3>2, RealSequences
    <3>4. RealProfiles'
      BY <3>1, <3>3, RealQueues, RealQueuesNext DEF TypeOK
    <3>. QED
      BY <1>4, <3>4 DEF Write, tables
  <2>. QED
    BY <2>1, <2>2
<1>5. CASE SessionEnded(s) \/ (\E m \in Inbound(issued) : Read(s, m)) \/ ReadFails(s) \/ Heartbeat(s) \/ Unregister(s)
  BY <1>5 DEF SessionEnded, Read, ReadFails, Heartbeat, Unregister, tables
<1>6. ASSUME RefuseReport(s) PROVE HalfCollected' /\ RealProfiles'
  BY <1>6, RejectReal DEF RefuseReport, tables
<1>7. CASE HandleStateReport(s)
  BY <1>6, <1>7 DEF HandleStateReport
<1>8. CASE HandleProfileReport(s)
  <2> DEFINE m == held[s]
             d == Owner[s]
  <2>1. m.peering \in PeeringIds /\ m.token \in Tokens /\ m.profile \in Profiles
    BY <1>8, ProfileReportShape DEF HandleProfileReport, Holds, TypeOK
  <2>2. ASSUME NEW p \in Reported(d, {m.peering}), AdoptProfile(p, m.token, d, m.profile)
        PROVE  HalfCollected' /\ RealProfiles'
    <3>1. p \in Pairs /\ peering[p] # NoPeering /\ d \in p
      BY <2>1, AbsenceAssumption DEF Reported, PairsOf
    <3>. QED
      BY <2>1, <2>2, <3>1, AdoptProfileKeeps
  <2>. QED
    BY <1>6, <1>8, <2>2 DEF HandleProfileReport
<1>. QED
  BY <1>1, <1>2, <1>3, <1>4, <1>5, <1>7, <1>8 DEF SessionStep

LEMMA AdminStepKeepsProfiles ==
    ASSUME TypeOK, HalfCollected, RealProfiles, AdminStep
    PROVE  HalfCollected' /\ RealProfiles'
<1> USE PendingFrame
<1>1. ASSUME NEW p \in Pairs, IssueConnectCommand(p) PROVE HalfCollected' /\ RealProfiles'
  <2>1. PICK t \in FreshTokens :
           /\ pending' = [pending EXCEPT ![p] = Uncollected]
           /\ Deliver(ToCurrent([d \in Devices |-> IF d \in p THEN <<Connect(p, t)>> ELSE <<>>]))
    BY <1>1 DEF IssueConnectCommand
  <2>2. Connect(p, t) \in Outbound /\ Real(Connect(p, t))
    BY <1>1, MessageTypes, OtherMessagesReal DEF FreshTokens, IssueConnectCommand
  <2>3. pending' = [q \in Pairs |-> IF q \in {p} THEN Uncollected ELSE pending[q]]
    BY <2>1 DEF TypeOK
  <2>4. HalfCollected'
    BY <2>3, ForgetKeeps
  <2>. QED
    BY <2>1, <2>2, <2>4, PairMailReal
<1>2. ASSUME NEW p \in Pairs, IssueDisconnectCommand(p) PROVE HalfCollected' /\ RealProfiles'
  <2>1. PICK t \in IF links[p].token = NoToken THEN FreshTokens ELSE {links[p].token} :
           Deliver(ToCurrent([d \in Devices |-> IF d \in p THEN <<Disconnect(p, t)>> ELSE <<>>]))
    BY <1>2 DEF IssueDisconnectCommand
  <2>2. t \in Tokens
    BY <2>1 DEF FreshTokens, TypeOK, LinkRecord
  <2>3. Disconnect(p, t) \in Outbound /\ Real(Disconnect(p, t))
    BY <1>2, <2>2, MessageTypes, OtherMessagesReal DEF IssueDisconnectCommand
  <2>4. HalfCollected'
    BY <1>2 DEF IssueDisconnectCommand
  <2>. QED
    BY <2>1, <2>3, <2>4, PairMailReal
<1>3. CASE AutoConnectIdle
  <2>1. PICK rank \in Injection(Retryable, 1 .. Cardinality(Retryable)),
             attempt \in Injection(Retryable, FreshTokens) :
           /\ pending' = [p \in Pairs |-> IF p \in Retryable THEN Uncollected ELSE pending[p]]
           /\ \E mail \in Sweep(rank) :
                 Deliver(ToCurrent([d \in Devices |->
                    [i \in DOMAIN mail[d] |-> Connect(mail[d][i], attempt[mail[d][i]])]]))
    BY <1>3 DEF AutoConnectIdle
  <2>2. PICK mail \in Sweep(rank) :
           Deliver(ToCurrent([d \in Devices |->
              [i \in DOMAIN mail[d] |-> Connect(mail[d][i], attempt[mail[d][i]])]]))
    BY <2>1
  <2> DEFINE connects == [d \in Devices |-> [i \in DOMAIN mail[d] |-> Connect(mail[d][i], attempt[mail[d][i]])]]
  <2>3. attempt \in [Retryable -> Tokens]
    BY DEF Injection, FreshTokens
  <2>4. connects \in [Devices -> Seq(Outbound)]
    BY <2>3, SweepMailType
  <2>5. \A d \in Devices : AllReal(connects[d])
    BY DEF AllReal, Real, Connect
  <2>6. HalfCollected'
    BY <2>1, ForgetKeeps
  <2>. QED
    BY <2>2, <2>4, <2>5, <2>6, MailReal
<1>4. ASSUME NEW d \in Devices, Kick(d) PROVE HalfCollected' /\ RealProfiles'
  <2>1. current[d] \in Sessions
    BY <1>4 DEF Kick, Online, TypeOK
  <2>. QED
    BY <1>4, <2>1, EndReal DEF Kick, tables
<1>5. ASSUME NEW d \in Devices, IssueQuery(d) PROVE HalfCollected' /\ RealProfiles'
  <2>1. Deliver(ToCurrent([e \in Devices |-> IF e \in {d} THEN <<Plain("query")>> ELSE <<>>]))
    BY <1>5 DEF IssueQuery
  <2>2. Plain("query") \in Outbound /\ Real(Plain("query"))
    BY MessageTypes, OtherMessagesReal
  <2>3. HalfCollected'
    BY <1>5 DEF IssueQuery, tables
  <2>. QED
    BY <2>1, <2>2, <2>3, PairMailReal
<1>6. ASSUME NEW d \in Devices, PushConfig(d) PROVE HalfCollected' /\ RealProfiles'
  <2>1. Deliver(ToCurrent([e \in Devices |-> IF e \in {d} THEN <<Config(d)>> ELSE <<>>]))
    BY <1>6 DEF PushConfig
  <2>2. Config(d) \in Outbound /\ Real(Config(d))
    BY MessageTypes, OtherMessagesReal
  <2>3. HalfCollected'
    BY <1>6 DEF PushConfig, tables
  <2>. QED
    BY <2>1, <2>2, <2>3, PairMailReal
<1>7. ASSUME NEW ps \in SUBSET Pairs, PruneLinks(ps) PROVE HalfCollected' /\ RealProfiles'
  BY <1>7, ForgetKeeps DEF PruneLinks, session
<1>8. ASSUME NEW d \in Devices, ApproveDevice(d) \/ DeleteDevice(d) PROVE HalfCollected' /\ RealProfiles'
  BY <1>8 DEF ApproveDevice, DeleteDevice, tables, session
<1>9. ASSUME NEW p \in Pairs, RemovePeering(p) \/ \E id \in PeeringIds : CreatePeering(p, id)
      PROVE  HalfCollected' /\ RealProfiles'
  BY <1>9 DEF RemovePeering, CreatePeering, tables, session
<1>. QED
  BY <1>1, <1>2, <1>3, <1>4, <1>5, <1>6, <1>7, <1>8, <1>9 DEF AdminStep

LEMMA ProfilesStep == TypeOK /\ HalfCollected /\ RealProfiles /\ [Next]_vars => HalfCollected' /\ RealProfiles'
<1> SUFFICES ASSUME TypeOK, HalfCollected, RealProfiles, [Next]_vars PROVE HalfCollected' /\ RealProfiles'
  OBVIOUS
<1>1. CASE Restart
  BY <1>1 DEF Restart, HalfCollected, RealProfiles, Uncollected
<1>2. CASE UNCHANGED vars
  BY <1>2, PendingFrame DEF vars
<1>. QED
  BY <1>1, <1>2, SessionStepKeepsProfiles, AdminStepKeepsProfiles DEF Next

LEMMA ProfilesInvariant == Spec => [](HalfCollected /\ RealProfiles)
<1>1. Init => HalfCollected /\ RealProfiles
  BY DEF Init, HalfCollected, RealProfiles, Uncollected
<1>. QED
  BY <1>1, ProfilesStep, TypeCorrect, PTL DEF Spec

\* A collection only ever waits for the missing end of its pair, whoever
\* reports and however attempts follow each other.
THEOREM ProfilesCorrect == Spec => []HalfCollected
  BY ProfilesInvariant, PTL

\* Both ends are handed a profile the other end measured, never the zero one.
THEOREM ProfilesAreReal == Spec => []RealProfiles
  BY ProfilesInvariant, PTL

----------------------------------------------------------------------------
(* Every token in use was issued *)

TokensIssued ==
    /\ \A p \in Pairs : links[p].token \in issued \cup {NoToken}
    /\ \A s \in Sessions : held[s] \in Inbound(issued) \cup {NoMessage}

\* A record's next token is its own, the report's or none.
LEMMA AdoptedToken ==
    ASSUME NEW link \in LinkRecord, NEW e, NEW full \in BOOLEAN
    PROVE  AdoptEntry(link, e, full).token \in {link.token, e.token, NoToken}
  BY DEF LinkRecord, AdoptEntry, AdoptClientReport, ReportSuccess, ReportFailure, Set, Matches

\* IssueConnect takes the fresh token.
LEMMA ConnectToken ==
    ASSUME NEW link \in LinkRecord, NEW t
    PROVE  IssueConnect(link, t).token = t /\ IssueConnect(link, t).state = "CONNECTING"
  BY DEF LinkRecord, IssueConnect, Set

LEMMA IssuedFrame ==
    ASSUME TokensIssued, issued \subseteq issued'
    PROVE  /\ UNCHANGED links => \A p \in Pairs : links'[p].token \in issued' \cup {NoToken}
           /\ (\A s \in Sessions : held'[s] \in {held[s], NoMessage})
                 => \A s \in Sessions : held'[s] \in Inbound(issued') \cup {NoMessage}
  BY InboundGrows DEF TokensIssued

LEMMA IssuedStep == TypeOK /\ TokensIssued /\ [Next]_vars => TokensIssued'
<1> SUFFICES ASSUME TypeOK, TokensIssued, [Next]_vars PROVE TokensIssued'
  OBVIOUS
<1>1. ASSUME issued \subseteq issued', \A p \in Pairs : links'[p].token \in issued' \cup {NoToken},
             \A s \in Sessions : held'[s] \in {held[s], NoMessage}
      PROVE  TokensIssued'
  BY <1>1, IssuedFrame DEF TokensIssued
<1>2. ASSUME UNCHANGED links, issued \subseteq issued', \A s \in Sessions : held'[s] \in {held[s], NoMessage}
      PROVE  TokensIssued'
  BY <1>2, IssuedFrame DEF TokensIssued
<1>3. ASSUME NEW s \in Sessions, SessionStep(s) PROVE TokensIssued'
  <2>1. ASSUME NEW m \in Inbound(issued), Read(s, m) PROVE TokensIssued'
    <3>1. \A x \in Sessions : held'[x] \in {held[x], m}
      BY <2>1 DEF Read, TypeOK
    <3>. QED
      BY <2>1, <3>1 DEF Read, tables, TokensIssued
  <2>2. CASE HandleStateReport(s) /\ ~UNCHANGED links
    <3> DEFINE m == held[s]
               touched == Reported(Owner[s], DOMAIN m.entries)
    <3>1. /\ links' = [p \in Pairs |-> IF p \in touched
                                       THEN AdoptEntry(links[p], m.entries[peering[p]], m.full)
                                       ELSE links[p]]
          /\ issued' = issued
          /\ m # NoMessage /\ m.type = "state_report"
          /\ \A x \in Sessions : held'[x] \in {held[x], NoMessage}
      BY <2>2 DEF HandleStateReport, RefuseReport, Holds, Take, tables, TypeOK
    <3>2. m \in Inbound(issued)
      BY <3>1 DEF TokensIssued
    <3>3. ASSUME NEW p \in touched
          PROVE  AdoptEntry(links[p], m.entries[peering[p]], m.full).token \in issued \cup {NoToken}
      <4>1. /\ p \in Pairs /\ peering[p] \in DOMAIN m.entries
            /\ links[p] \in LinkRecord /\ links[p].token \in issued \cup {NoToken}
        BY DEF Reported, PairsOf, TypeOK, TokensIssued
      <4>2. m.full \in BOOLEAN /\ m.entries[peering[p]].token \in issued \cup {NoToken}
        BY <3>1, <3>2, <4>1, StateReportShape
      <4>. QED
        BY <4>1, <4>2, AdoptedToken
    <3>4. \A p \in Pairs : links'[p].token \in issued' \cup {NoToken}
      BY <3>1, <3>3 DEF TokensIssued
    <3>. QED
      BY <1>1, <3>1, <3>4
  <2>3. CASE HandleStateReport(s) /\ UNCHANGED links
    BY <1>2, <2>3 DEF HandleStateReport, RefuseReport, Take, tables, TypeOK
  <2>4. CASE Heartbeat(s) \/ Unregister(s) \/ HandleProfileReport(s)
    BY <1>2, <2>4 DEF Heartbeat, Unregister, HandleProfileReport, RefuseReport, Take, tables, TypeOK
  <2>5. CASE Register(s) \/ RefuseRegister(s) \/ SessionEnded(s) \/ RejectInbound(s) \/ ReadFails(s)
    BY <1>2, <2>5 DEF Register, RefuseRegister, SessionEnded, RejectInbound, ReadFails, tables
  <2>6. CASE Leave(s) \/ Write(s) \/ WriteFails(s)
    BY <1>2, <2>6 DEF Leave, Write, WriteFails, tables
  <2>. QED
    BY <1>3, <2>1, <2>2, <2>3, <2>4, <2>5, <2>6 DEF SessionStep
<1>4. ASSUME NEW p \in Pairs, IssueConnectCommand(p) PROVE TokensIssued'
  <2>1. PICK t \in FreshTokens : issued' = issued \cup {t} /\ links' = [links EXCEPT ![p] = IssueConnect(@, t)]
    BY <1>4 DEF IssueConnectCommand
  <2>2. IssueConnect(links[p], t).token = t
    BY ConnectToken DEF TypeOK
  <2>3. \A q \in Pairs : links'[q].token \in issued' \cup {NoToken}
    BY <2>1, <2>2 DEF TokensIssued, TypeOK
  <2>. QED
    BY <1>1, <1>4, <2>1, <2>3 DEF IssueConnectCommand
<1>5. ASSUME NEW p \in Pairs, IssueDisconnectCommand(p) PROVE TokensIssued'
  <2>1. issued \subseteq issued' /\ links' = [links EXCEPT ![p] = IssueDisconnect(@)]
    BY <1>5 DEF IssueDisconnectCommand
  <2>2. IssueDisconnect(links[p]).token = NoToken
    BY DEF IssueDisconnect, Set, TypeOK, LinkRecord
  <2>3. \A q \in Pairs : links'[q].token \in issued' \cup {NoToken}
    BY <2>1, <2>2 DEF TokensIssued, TypeOK
  <2>. QED
    BY <1>1, <1>5, <2>1, <2>3 DEF IssueDisconnectCommand
<1>6. CASE AutoConnectIdle
  <2>1. PICK attempt \in Injection(Retryable, FreshTokens) :
           /\ issued' = issued \cup {attempt[p] : p \in Retryable}
           /\ links'  = [p \in Pairs |-> IF p \in Retryable THEN IssueConnect(links[p], attempt[p]) ELSE links[p]]
    BY <1>6 DEF AutoConnectIdle
  <2>2. \A p \in Pairs : links'[p].token = IF p \in Retryable THEN attempt[p] ELSE links[p].token
    <3>1. \A p \in Pairs : links'[p] = IF p \in Retryable THEN IssueConnect(links[p], attempt[p]) ELSE links[p]
      BY <2>1
    <3>2. \A p \in Pairs : links[p] \in LinkRecord
      BY DEF TypeOK
    <3>. QED
      BY <3>1, <3>2, ConnectToken
  <2>3. \A p \in Pairs : links'[p].token \in issued' \cup {NoToken}
    BY <2>1, <2>2 DEF TokensIssued
  <2>. QED
    BY <1>1, <1>6, <2>1, <2>3 DEF AutoConnectIdle
<1>7. ASSUME NEW ps \in SUBSET Pairs, PruneLinks(ps) PROVE TokensIssued'
  BY <1>1, <1>7 DEF PruneLinks, IdleLink, TokensIssued, session
<1>8. CASE Restart
  BY <1>1, <1>8 DEF Restart, IdleLink
<1>9. CASE AdminStep
  BY <1>2, <1>4, <1>5, <1>6, <1>7, <1>9
  DEF AdminStep, ApproveDevice, Kick, IssueQuery, PushConfig, DeleteDevice, CreatePeering, RemovePeering, tables, session
<1>10. CASE UNCHANGED vars
  BY <1>2, <1>10 DEF vars
<1>. QED
  BY <1>3, <1>8, <1>9, <1>10 DEF Next

LEMMA TokensAreIssued == Spec => []TokensIssued
<1>1. Init => TokensIssued
  BY DEF Init, TokensIssued, IdleLink
<1>. QED
  BY <1>1, IssuedStep, TypeCorrect, PTL DEF Spec

----------------------------------------------------------------------------
(* Both ends hear of every attempt *)

\* Mail for a device whose current connection survives the delivery is in that
\* connection's queue.
LEMMA MailArrives ==
    ASSUME TypeOK, SessionTable, NEW STATE mail, mail \in [Devices -> Seq(Outbound)], Deliver(ToCurrent(mail)),
           NEW d \in Devices, Online(d), NEW i \in 1 .. Len(mail[d]), alive'[current[d]]
    PROVE  Contains(queue'[current[d]], mail[d][i])
<1> DEFINE s == current[d]
<1>1. s \in Sessions /\ Owner[s] = d
  BY CurrentOwner
<1>2. ToCurrent(mail) \in Mail
  BY ToCurrentMail
<1>3. ToCurrent(mail)[s] = mail[d]
  BY <1>1 DEF ToCurrent
<1>4. \A x \in Sessions : alive'[x] => queue'[x] = queue[x] \o ToCurrent(mail)[x]
  BY <1>2, DeliverEffect
<1>5. queue[s] \in Seq(Outbound) /\ mail[d] \in Seq(Outbound)
  BY <1>1 DEF TypeOK
<1>6. /\ Len(queue[s]) + i \in 1 .. Len(queue[s] \o mail[d])
      /\ (queue[s] \o mail[d])[Len(queue[s]) + i] = mail[d][i]
  BY <1>5
<1>. QED
  BY <1>1, <1>3, <1>4, <1>6 DEF Contains

\* One message for both ends of a pair.
LEMMA PairMailArrives ==
    ASSUME TypeOK, SessionTable, NEW p \in Pairs, BothOnline(p), NEW STATE m, m \in Outbound,
           Deliver(ToCurrent([d \in Devices |-> IF d \in p THEN <<m>> ELSE <<>>]))
    PROVE  \A d \in p : Online(d) /\ (alive'[current[d]] => Contains(queue'[current[d]], m))
<1> DEFINE mail == [d \in Devices |-> IF d \in p THEN <<m>> ELSE <<>>]
<1>1. mail \in [Devices -> Seq(Outbound)]
  BY PairMailType
<1> SUFFICES ASSUME NEW d \in p, alive'[current[d]]
             PROVE  Contains(queue'[current[d]], m)
  BY DEF BothOnline
<1>2. d \in Devices /\ Online(d)
  BY PairEnds DEF BothOnline
<1>3. mail[d] = <<m>>
  BY <1>2
<1>4. 1 \in 1 .. Len(mail[d]) /\ mail[d][1] = m
  BY <1>3
<1> HIDE DEF mail
<1>. QED
  BY <1>1, <1>2, <1>4, MailArrives DEF mail

HearsOf(p, t) ==
    \A d \in p : Online(d) /\ (alive'[current[d]] => Contains(queue'[current[d]], Connect(p, t)))

LEMMA ConnectIsHeard ==
    ASSUME TypeOK, SessionTable, TokensIssued, NEW p \in Pairs, IssueConnectCommand(p)
    PROVE  /\ \A q \in Pairs : \A t \in issued' \ issued : links'[q].token = t => HearsOf(q, t)
           /\ \A q \in Pairs : links'[q] # links[q] => links'[q].token \in issued' \ issued
<1>1. PICK t \in FreshTokens :
         /\ issued' = issued \cup {t}
         /\ links'  = [links EXCEPT ![p] = IssueConnect(@, t)]
         /\ Deliver(ToCurrent([d \in Devices |-> IF d \in p THEN <<Connect(p, t)>> ELSE <<>>]))
  BY DEF IssueConnectCommand
<1>2. t \in Tokens /\ t \notin issued /\ t # NoToken
  BY TokenAssumption DEF FreshTokens
<1>3. Connect(p, t) \in Outbound /\ BothOnline(p)
  BY <1>2, MessageTypes DEF IssueConnectCommand
<1>4. HearsOf(p, t)
  BY <1>1, <1>3, PairMailArrives DEF HearsOf
<1>5. \A q \in Pairs : q # p => links'[q] = links[q] /\ links[q].token \in issued \cup {NoToken}
  BY <1>1 DEF TypeOK, TokensIssued
<1>6. links'[p].token = t
  BY <1>1, ConnectToken DEF TypeOK
<1>. QED
  BY <1>1, <1>2, <1>4, <1>5, <1>6

LEMMA SweepIsHeard ==
    ASSUME TypeOK, SessionTable, TokensIssued, AutoConnectIdle
    PROVE  /\ \A q \in Pairs : \A t \in issued' \ issued : links'[q].token = t => HearsOf(q, t)
           /\ \A q \in Pairs : links'[q] # links[q] => links'[q].token \in issued' \ issued
<1>1. PICK rank \in Injection(Retryable, 1 .. Cardinality(Retryable)),
           attempt \in Injection(Retryable, FreshTokens) :
         /\ issued' = issued \cup {attempt[p] : p \in Retryable}
         /\ links'  = [p \in Pairs |-> IF p \in Retryable THEN IssueConnect(links[p], attempt[p]) ELSE links[p]]
         /\ \E mail \in Sweep(rank) :
               Deliver(ToCurrent([d \in Devices |->
                   [i \in DOMAIN mail[d] |-> Connect(mail[d][i], attempt[mail[d][i]])]]))
  BY DEF AutoConnectIdle
<1>2. PICK mail \in Sweep(rank) :
         Deliver(ToCurrent([d \in Devices |->
             [i \in DOMAIN mail[d] |-> Connect(mail[d][i], attempt[mail[d][i]])]]))
  BY <1>1
<1> DEFINE connects == [d \in Devices |-> [i \in DOMAIN mail[d] |-> Connect(mail[d][i], attempt[mail[d][i]])]]
<1>3. attempt \in [Retryable -> Tokens] /\ \A p \in Retryable : attempt[p] \notin issued
  BY DEF Injection, FreshTokens
<1>4. connects \in [Devices -> Seq(Outbound)]
  BY <1>3, SweepMailType
<1>5. ASSUME NEW q \in Retryable, NEW d \in q, alive'[current[d]]
      PROVE  Contains(queue'[current[d]], Connect(q, attempt[q]))
  <2>1. q \in Pairs /\ d \in Devices /\ Online(d) /\ q \in PairsOf(d)
    BY <1>5, PairEnds DEF Retryable, BothOnline, TypeOK, PairsOf
  <2>2. q \in ToSet(mail[d])
    BY <1>5, <2>1 DEF Sweep
  <2>3. PICK i \in DOMAIN mail[d] : mail[d][i] = q
    BY <2>2 DEF ToSet
  <2>4. connects[d] = [j \in DOMAIN mail[d] |-> Connect(mail[d][j], attempt[mail[d][j]])]
    BY <2>1
  <2>5. i \in DOMAIN connects[d] /\ connects[d][i] = Connect(q, attempt[q])
    BY <2>3, <2>4
  <2>6. Deliver(ToCurrent(connects))
    BY <1>2
  <2> HIDE DEF connects
  <2>7. i \in 1 .. Len(connects[d])
    BY <1>4, <2>1, <2>5
  <2>. QED
    BY <1>4, <1>5, <2>1, <2>5, <2>6, <2>7, MailArrives
<1>6. \A q \in Pairs : /\ q \in Retryable => links'[q].token = attempt[q]
                       /\ q \notin Retryable => links'[q] = links[q] /\ links[q].token \in issued \cup {NoToken}
  <2>1. \A q \in Pairs : links'[q] = IF q \in Retryable THEN IssueConnect(links[q], attempt[q]) ELSE links[q]
    BY <1>1
  <2>2. \A q \in Pairs : links[q] \in LinkRecord
    BY DEF TypeOK
  <2>. QED
    BY <2>1, <2>2, ConnectToken DEF TokensIssued
<1>7. \A q \in Retryable : HearsOf(q, attempt[q])
  BY <1>5 DEF HearsOf, Retryable, BothOnline
<1>8. \A t \in issued' \ issued : t # NoToken
  BY <1>1, <1>3, TokenAssumption
<1>9. \A q \in Retryable : attempt[q] \in issued' \ issued
  BY <1>1, <1>3
<1>. QED
  BY <1>6, <1>7, <1>8, <1>9

\* The other steps bring no fresh token into a record.
LEMMA NoFreshToken ==
    ASSUME TypeOK, TokensIssued, [Next]_vars, ~AutoConnectIdle, \A p \in Pairs : ~IssueConnectCommand(p)
    PROVE  \A q \in Pairs : \A t \in issued' \ issued : links'[q].token # t
<1>1. CASE UNCHANGED issued
  BY <1>1
<1>2. ASSUME NEW s \in Sessions, SessionStep(s) PROVE UNCHANGED issued
  BY <1>2 DEF SessionStep, Register, RefuseRegister, SessionEnded, Read, RejectInbound, ReadFails, Leave,
              Write, WriteFails, Heartbeat, Unregister, HandleProfileReport, HandleStateReport, RefuseReport, tables
<1>3. ASSUME NEW p \in Pairs, IssueDisconnectCommand(p)
      PROVE  \A q \in Pairs : \A t \in issued' \ issued : links'[q].token # t
  <2>1. PICK t \in IF links[p].token = NoToken THEN FreshTokens ELSE {links[p].token} :
           issued' = issued \cup {t} /\ links' = [links EXCEPT ![p] = IssueDisconnect(@)]
    BY <1>3 DEF IssueDisconnectCommand
  <2>2. links'[p].token = NoToken
    BY <2>1 DEF IssueDisconnect, Set, TypeOK, LinkRecord
  <2>3. \A q \in Pairs : links'[q].token \in issued \cup {NoToken}
    BY <2>1, <2>2 DEF TypeOK, TokensIssued
  <2>4. NoToken \notin issued' \ issued
    BY <2>1, TokenAssumption DEF FreshTokens
  <2>. QED
    BY <2>3, <2>4
<1>4. CASE Restart
  BY <1>1, <1>4 DEF Restart
<1>5. CASE AdminStep
  BY <1>1, <1>3, <1>5
  DEF AdminStep, ApproveDevice, Kick, IssueQuery, PushConfig, DeleteDevice, CreatePeering, RemovePeering, PruneLinks, tables
<1>. QED
  BY <1>1, <1>2, <1>4, <1>5 DEF Next, vars

\* There is no attempt that one live end knows of and the other does not: a
\* token that enters a record goes to both ends in the same command.
THEOREM BothEndsHear == Spec => NoSplitConnect
<1>1. TypeOK /\ SessionTable /\ TokensIssued /\ [Next]_vars =>
         \A p \in Pairs : \A t \in issued' \ issued : links'[p].token = t =>
            \A d \in p : /\ Online(d)
                         /\ alive'[current[d]] => Contains(queue'[current[d]], Connect(p, t))
  BY ConnectIsHeard, SweepIsHeard, NoFreshToken DEF HearsOf
<1>2. TypeOK /\ SessionTable /\ TokensIssued /\ [Next]_vars =>
         [\A p \in Pairs : \A t \in issued' \ issued : links'[p].token = t =>
            \A d \in p : /\ Online(d)
                         /\ alive'[current[d]] => Contains(queue'[current[d]], Connect(p, t))]_vars
  BY <1>1
<1>. QED
  BY <1>2, TypeCorrect, SessionTableCorrect, TokensAreIssued, PTL DEF Spec, NoSplitConnect

----------------------------------------------------------------------------
(* A record moves for a reason *)

\* A report that changes a record leaves in it what it says: a snapshot
\* verbatim, a transition only of the attempt the record was in.
LEMMA AdoptedOutcome ==
    ASSUME NEW link \in LinkRecord, NEW ts, NoToken \notin ts, NEW full \in BOOLEAN,
           NEW e \in IF full THEN Snapshots(ts) ELSE Transitions(ts),
           AdoptEntry(link, e, full) # link
    PROVE  /\ AdoptEntry(link, e, full).state = e.state
           /\ IF full THEN AdoptEntry(link, e, full).token = e.token ELSE link.token = e.token
<1>1. CASE full
  <2>1. (e.state = "IDLE") = (e.token = NoToken)
    BY <1>1 DEF Snapshots
  <2>2. AdoptEntry(link, e, full) = Set(link, e.state, e.token)
    BY <1>1, <2>1 DEF AdoptEntry, AdoptClientReport
  <2>. QED
    BY <1>1, <2>1, <2>2 DEF Set, LinkRecord
<1>2. CASE ~full
  <2>1. CASE e.state = "CONNECTED"
    <3>1. AdoptEntry(link, e, full) = ReportSuccess(link, e.token)
      BY <1>2, <2>1 DEF AdoptEntry
    <3>. QED
      BY <1>2, <2>1, <3>1 DEF ReportSuccess, Matches, Set, LinkRecord
  <2>2. CASE e.state # "CONNECTED"
    <3>1. AdoptEntry(link, e, full) = ReportFailure(link, e.token, e.reason) /\ e.state = "IDLE"
      BY <1>2, <2>2 DEF AdoptEntry, Transitions
    <3>. QED
      BY <1>2, <3>1 DEF ReportFailure, Matches, Set, LinkRecord
  <2>. QED
    BY <2>1, <2>2
<1>. QED
  BY <1>1, <1>2

Reason(p) ==
    \/ links'[p].token \in issued' \ issued
    \/ /\ links'[p].state = "IDLE" /\ BothOnline(p)
       /\ \A d \in p : alive'[current[d]] => Contains(queue'[current[d]], Disconnect(p, links[p].token))
    \/ \E s \in Sessions : Testimony(s, p)
    \/ p \notin tracked'

LEMMA ReportIsAReason ==
    ASSUME TypeOK, NEW s \in Sessions, HandleStateReport(s), NEW p \in Pairs, links'[p] # links[p]
    PROVE  Testimony(s, p)
<1> DEFINE m == held[s]
           touched == Reported(Owner[s], DOMAIN m.entries)
<1>1. ~UNCHANGED links
  OBVIOUS
<1>2. /\ IsCurrent(s) /\ Holds(s, "state_report") /\ held' = [held EXCEPT ![s] = NoMessage]
      /\ links' = [q \in Pairs |-> IF q \in touched
                                   THEN AdoptEntry(links[q], m.entries[peering[q]], m.full)
                                   ELSE links[q]]
  BY <1>1 DEF HandleStateReport, RefuseReport, Take, tables
<1>3. p \in touched /\ links'[p] = AdoptEntry(links[p], m.entries[peering[p]], m.full)
  BY <1>2
<1>4. Owner[s] \in p /\ peering[p] \in DOMAIN m.entries
  BY <1>3 DEF Reported, PairsOf
<1>5. m \in Inbound(Tokens) /\ m.type = "state_report"
  BY <1>2 DEF Holds, TypeOK
<1>6. m.full \in BOOLEAN /\ m.entries[peering[p]] \in IF m.full THEN Snapshots(Tokens) ELSE Transitions(Tokens)
  BY <1>4, <1>5, StateReportShape
<1>7. links[p] \in LinkRecord /\ held'[s] = NoMessage
  BY <1>2 DEF TypeOK
<1>8. /\ links'[p].state = m.entries[peering[p]].state
      /\ IF m.full THEN links'[p].token = m.entries[peering[p]].token
                   ELSE links[p].token = m.entries[peering[p]].token
  BY <1>3, <1>6, <1>7, TokenAssumption, AdoptedOutcome
<1>. QED
  BY <1>2, <1>4, <1>7, <1>8 DEF Testimony, Entry

LEMMA DisconnectIsAReason ==
    ASSUME TypeOK, TokenPairing, SessionTable, NEW p \in Pairs, IssueDisconnectCommand(p),
           NEW q \in Pairs, links'[q] # links[q]
    PROVE  Reason(q)
<1>1. PICK t \in IF links[p].token = NoToken THEN FreshTokens ELSE {links[p].token} :
         Deliver(ToCurrent([d \in Devices |-> IF d \in p THEN <<Disconnect(p, t)>> ELSE <<>>]))
  BY DEF IssueDisconnectCommand
<1>2. links' = [links EXCEPT ![p] = IssueDisconnect(@)] /\ peering[p] # NoPeering /\ BothOnline(p)
  BY DEF IssueDisconnectCommand
<1>3. q = p /\ links'[p] = IssueDisconnect(links[p]) /\ links[p] \in LinkRecord
  BY <1>2 DEF TypeOK
<1>4. links'[p].state = "IDLE"
  BY <1>3 DEF IssueDisconnect, Set, LinkRecord
<1>5. links[p].token # NoToken
  <2> SUFFICES ASSUME links[p].token = NoToken PROVE IssueDisconnect(links[p]) = links[p]
    BY <1>3
  <2>1. links[p].state = "IDLE"
    BY DEF TokenPairing, Paired
  <2>. QED
    BY <1>3, <2>1 DEF IssueDisconnect, Set, LinkRecord
<1>6. t = links[p].token /\ t \in Tokens
  BY <1>1, <1>3, <1>5 DEF LinkRecord
<1>7. Disconnect(p, t) \in Outbound
  BY <1>2, <1>6, MessageTypes
<1>8. \A d \in p : alive'[current[d]] => Contains(queue'[current[d]], Disconnect(p, t))
  BY <1>1, <1>2, <1>7, PairMailArrives
<1>. QED
  BY <1>2, <1>3, <1>4, <1>6, <1>8 DEF Reason

LEMMA StepHasAReason ==
    ASSUME TypeOK, TokenPairing, SessionTable, TokensIssued, [Next]_vars, NEW p \in Pairs, links'[p] # links[p]
    PROVE  Reason(p)
<1>1. ASSUME NEW s \in Sessions, SessionStep(s) PROVE Reason(p)
  <2>1. HandleStateReport(s)
    BY <1>1 DEF SessionStep, Register, RefuseRegister, SessionEnded, Read, RejectInbound, ReadFails, Leave,
                Write, WriteFails, Heartbeat, Unregister, HandleProfileReport, RefuseReport, tables
  <2>. QED
    BY <2>1, ReportIsAReason DEF Reason
<1>2. ASSUME NEW q \in Pairs, IssueConnectCommand(q) PROVE Reason(p)
  BY <1>2, ConnectIsHeard DEF Reason
<1>3. CASE AutoConnectIdle
  BY <1>3, SweepIsHeard DEF Reason
<1>4. ASSUME NEW q \in Pairs, IssueDisconnectCommand(q) PROVE Reason(p)
  BY <1>4, DisconnectIsAReason
<1>5. ASSUME NEW ps \in SUBSET Pairs, PruneLinks(ps) PROVE Reason(p)
  BY <1>5 DEF PruneLinks, Reason
<1>6. CASE Restart
  BY <1>6 DEF Restart, Reason
<1>7. CASE AdminStep
  BY <1>2, <1>3, <1>4, <1>5, <1>7
  DEF AdminStep, ApproveDevice, Kick, IssueQuery, PushConfig, DeleteDevice, CreatePeering, RemovePeering, tables
<1>. QED
  BY <1>1, <1>6, <1>7 DEF Next, vars

\* A link record changes because a new attempt is issued, because both ends are
\* sent the teardown, because a current end of the pair says so, or because it
\* is dropped: never because a connection came or went, never on the word of a
\* replaced connection or about an old attempt.
THEOREM LinksMoveOnlyForAReason == Spec => LinksMoveForAReason
<1>1. TypeOK /\ TokenPairing /\ SessionTable /\ TokensIssued /\ [Next]_vars =>
         [\A p \in Pairs : links'[p] # links[p] =>
            \/ links'[p].token \in issued' \ issued
            \/ /\ links'[p].state = "IDLE" /\ BothOnline(p)
               /\ \A d \in p : alive'[current[d]] => Contains(queue'[current[d]], Disconnect(p, links[p].token))
            \/ \E s \in Sessions : Testimony(s, p)
            \/ p \notin tracked']_vars
  BY StepHasAReason DEF Reason
<1>. QED
  BY <1>1, TypeCorrect, TokensPaired, SessionTableCorrect, TokensAreIssued, PTL DEF Spec, LinksMoveForAReason

----------------------------------------------------------------------------
(* A registration stays within max_connections *)

OnlineDevices == {d \in Devices : Online(d)}

\* A count of the devices online means something: there are finitely many,
\* however many there may be.
OnlineFinite == IsFiniteSet(OnlineDevices)

\* A step changes the devices online by at most one arrival.
LEMMA OnlineStep == TypeOK /\ OnlineFinite /\ [Next]_vars => OnlineFinite'
<1> SUFFICES ASSUME TypeOK, OnlineFinite, [Next]_vars PROVE OnlineFinite'
  OBVIOUS
<1>1. ASSUME NEW d, OnlineDevices' \subseteq OnlineDevices \cup {d} PROVE OnlineFinite'
  <2>1. IsFiniteSet(OnlineDevices \cup {d})
    BY FS_AddElement DEF OnlineFinite
  <2>. QED
    BY <1>1, <2>1, FS_Subset DEF OnlineFinite
<1>2. ASSUME UNCHANGED current PROVE OnlineFinite'
  BY <1>2 DEF OnlineFinite, OnlineDevices, Online
<1>3. ASSUME NEW s \in Sessions, Register(s) PROVE OnlineFinite'
  <2>1. current' = [current EXCEPT ![Owner[s]] = s]
    BY <1>3 DEF Register
  <2>2. OnlineDevices' \subseteq OnlineDevices \cup {Owner[s]}
    BY <2>1 DEF OnlineDevices, Online, TypeOK
  <2>. QED
    BY <1>1, <2>2
<1>4. ASSUME NEW s \in Sessions, SessionEnded(s) PROVE OnlineFinite'
  <2>1. UNCHANGED current \/ current' = [current EXCEPT ![Owner[s]] = NoSession]
    BY <1>4 DEF SessionEnded, online
  <2>2. OnlineDevices' \subseteq OnlineDevices \cup {Owner[s]}
    BY <2>1 DEF OnlineDevices, Online, TypeOK
  <2>. QED
    BY <1>1, <2>2
<1>5. CASE Restart
  <2>1. OnlineDevices' = {}
    BY <1>5 DEF Restart, OnlineDevices, Online
  <2>. QED
    BY <2>1, FS_EmptySet DEF OnlineFinite
<1>6. ASSUME NEW s \in Sessions, SessionStep(s) PROVE OnlineFinite'
  BY <1>2, <1>3, <1>4, <1>6
  DEF SessionStep, RefuseRegister, Read, RejectInbound, ReadFails, Leave, Write, WriteFails, Heartbeat,
      Unregister, HandleStateReport, HandleProfileReport, RefuseReport, online
<1>7. CASE AdminStep
  BY <1>2, <1>7
  DEF AdminStep, IssueConnectCommand, IssueDisconnectCommand, AutoConnectIdle, ApproveDevice, Kick, IssueQuery,
      PushConfig, PruneLinks, CreatePeering, RemovePeering, DeleteDevice, online
<1>. QED
  BY <1>2, <1>5, <1>6, <1>7 DEF Next, vars

LEMMA OnlineIsFinite == Spec => []OnlineFinite
<1>1. Init => OnlineDevices = {}
  BY DEF Init, OnlineDevices, Online
<1>2. Init => OnlineFinite
  BY <1>1, FS_EmptySet DEF OnlineFinite
<1>. QED
  BY <1>2, OnlineStep, TypeCorrect, PTL DEF Spec

\* While every pending device is online, the count is the devices online less
\* the pending ones.
LEMMA CountsOnline ==
    ASSUME TypeOK, PendingDevicesConsistent, OnlineFinite
    PROVE  /\ pendingDevices \subseteq OnlineDevices
           /\ IsFiniteSet(pendingDevices)
           /\ Cardinality(OnlineDevices) \in Nat /\ Cardinality(pendingDevices) \in Nat
           /\ ApprovedOnline = Cardinality(OnlineDevices) - Cardinality(pendingDevices)
<1>1. pendingDevices \subseteq OnlineDevices
  BY DEF TypeOK, PendingDevicesConsistent, OnlineDevices
<1>2. IsFiniteSet(pendingDevices)
  BY <1>1, FS_Subset DEF OnlineFinite
<1>3. {d \in pendingDevices : Online(d)} = pendingDevices
  BY DEF PendingDevicesConsistent
<1>. QED
  BY <1>1, <1>2, <1>3, FS_CardinalityType DEF OnlineFinite, ApprovedOnline, OnlineDevices

\* The read loop of a connection starts only by a registration.
LEMMA OnlyRegisterStarts ==
    ASSUME TypeOK, Next, NEW s \in Sessions, reader[s] = "registering", reader'[s] = "reading"
    PROVE  Register(s)
<1>1. ASSUME NEW x \in Sessions, SessionStep(x) PROVE Register(s)
  <2>1. CASE Register(x)
    <3>1. reader' = [reader EXCEPT ![x] = "reading"]
      BY <2>1 DEF Register
    <3>2. x = s
      BY <3>1 DEF TypeOK
    <3>. QED
      BY <2>1, <3>2
  <2>2. CASE RefuseRegister(x) \/ SessionEnded(x) \/ RejectInbound(x) \/ ReadFails(x) \/ Leave(x)
    <3>1. \E r \in {"gone", "leaving", "ended"} : reader' = [reader EXCEPT ![x] = r]
      BY <2>2 DEF RefuseRegister, SessionEnded, RejectInbound, ReadFails, Leave
    <3>. QED
      BY <3>1 DEF TypeOK
  <2>3. CASE (\E m \in Inbound(issued) : Read(x, m)) \/ Write(x) \/ WriteFails(x)
    BY <2>3 DEF Read, Write, WriteFails
  <2>4. CASE Heartbeat(x) \/ Unregister(x) \/ HandleStateReport(x) \/ HandleProfileReport(x)
    <3>1. UNCHANGED reader \/ \E r \in {"leaving", "silenced"} : reader' = [reader EXCEPT ![x] = r]
      BY <2>4 DEF Heartbeat, Unregister, HandleStateReport, HandleProfileReport, RefuseReport
    <3>. QED
      BY <3>1 DEF TypeOK
  <2>. QED
    BY <1>1, <2>1, <2>2, <2>3, <2>4 DEF SessionStep
<1>2. CASE AdminStep
  BY <1>2
  DEF AdminStep, IssueConnectCommand, IssueDisconnectCommand, AutoConnectIdle, ApproveDevice, Kick, IssueQuery,
      PushConfig, PruneLinks, CreatePeering, RemovePeering, DeleteDevice, session
<1>3. CASE Restart
  BY <1>3 DEF Restart
<1>. QED
  BY <1>1, <1>2, <1>3 DEF Next

LEMMA RegistrationWithinLimit ==
    ASSUME TypeOK, PendingDevicesConsistent, PendingDevicesConsistent', OnlineFinite,
           NEW s \in Sessions, Register(s)
    PROVE  ApprovedOnline' <= MaxConnections \/ ApprovedOnline' <= ApprovedOnline
<1> DEFINE d == Owner[s]
<1>1. /\ ~ConnectionLimit(d)
      /\ pendingDevices' = IF d \in devices THEN pendingDevices ELSE pendingDevices \cup {d}
      /\ current' = [current EXCEPT ![d] = s]
  BY DEF Register
<1>2. d \in Devices /\ OnlineDevices' = OnlineDevices \cup {d}
  BY <1>1, OwnerAssumption, AbsenceAssumption DEF OnlineDevices, Online, TypeOK
<1>3. /\ ApprovedOnline = Cardinality(OnlineDevices) - Cardinality(pendingDevices)
      /\ Cardinality(OnlineDevices) \in Nat /\ Cardinality(pendingDevices) \in Nat
      /\ IsFiniteSet(pendingDevices) /\ pendingDevices \subseteq OnlineDevices
  BY CountsOnline
<1>4. ApprovedOnline' = Cardinality(OnlineDevices') - Cardinality(pendingDevices')
  <2>1. {e \in pendingDevices' : Online(e)'} = pendingDevices'
    BY DEF PendingDevicesConsistent
  <2>. QED
    BY <2>1 DEF ApprovedOnline, OnlineDevices
<1>5. Cardinality(OnlineDevices') = IF Online(d) THEN Cardinality(OnlineDevices) ELSE Cardinality(OnlineDevices) + 1
  <2>1. Cardinality(OnlineDevices \cup {d})
           = IF d \in OnlineDevices THEN Cardinality(OnlineDevices) ELSE Cardinality(OnlineDevices) + 1
    BY FS_AddElement DEF OnlineFinite
  <2>2. d \in OnlineDevices <=> Online(d)
    BY <1>2 DEF OnlineDevices
  <2>. QED
    BY <1>2, <2>1, <2>2
<1>6. CASE d \in devices
  <2>1. pendingDevices' = pendingDevices
    BY <1>1, <1>6
  <2>2. CASE Online(d)
    BY <1>3, <1>4, <1>5, <2>1, <2>2
  <2>3. CASE ~Online(d)
    <3>1. ~(ApprovedOnline >= MaxConnections)
      BY <1>1, <1>6, <2>3 DEF ConnectionLimit
    <3>. QED
      BY <1>3, <1>4, <1>5, <2>1, <2>3, <3>1, LimitAssumption
  <2>. QED
    BY <2>2, <2>3
<1>7. CASE d \notin devices
  <2>1. pendingDevices' = pendingDevices \cup {d}
    BY <1>1, <1>7
  <2>2. /\ d \notin pendingDevices => Cardinality(pendingDevices') = Cardinality(pendingDevices) + 1
        /\ d \in pendingDevices => Cardinality(pendingDevices') = Cardinality(pendingDevices) /\ Online(d)
    BY <1>3, <2>1, FS_AddElement DEF OnlineDevices
  <2>. QED
    BY <1>3, <1>4, <1>5, <2>2
<1>. QED
  BY <1>6, <1>7

\* handleConnection's capacity check holds the approved devices online at or
\* below max_connections whenever a registration raises their number, also
\* when it replaces a connection or the device is not approved.
THEOREM RegistrationKeepsCapacity == Spec => RegisterKeepsCapacity
<1>1. TypeOK /\ PendingDevicesConsistent /\ PendingDevicesConsistent' /\ OnlineFinite /\ [Next]_vars =>
         [(\E s \in Sessions : reader[s] = "registering" /\ reader'[s] = "reading")
            => ApprovedOnline' <= MaxConnections \/ ApprovedOnline' <= ApprovedOnline]_vars
  BY OnlyRegisterStarts, RegistrationWithinLimit DEF vars
<1>. QED
  BY <1>1, TypeCorrect, PendingDevicesCorrect, OnlineIsFinite, PTL DEF Spec, RegisterKeepsCapacity
=============================================================================
