----------------------------- MODULE HubProofs -----------------------------
(***************************************************************************)
(* Proofs about Hub for every set of devices, connections, tokens and      *)
(* peering ids and every value of the limits.                              *)
(***************************************************************************)
EXTENDS Hub, TLAPS

----------------------------------------------------------------------------
(* Lemmas about pairs, links and messages *)

\* Both ends of a pair, and the other end of an end.
LEMMA PairEnds ==
    ASSUME NEW p \in Pairs
    PROVE  /\ p \subseteq Devices
           /\ \A d \in p : Other(p, d) \in p /\ Other(p, d) # d
           /\ \A d, e, f \in p : d # e => f = d \/ f = e
  BY DEF Pairs, Other

\* The methods of link.go keep a record a record.
LEMMA LinkTypes ==
    ASSUME NEW link \in LinkRecord, NEW t \in Tokens \cup {NoToken}, NEW r \in Reasons \cup {NoReason},
           NEW state \in LinkStates
    PROVE  /\ IssueConnect(link, t) \in LinkRecord
           /\ IssueDisconnect(link) \in LinkRecord
           /\ ReportSuccess(link, t) \in LinkRecord
           /\ ReportFailure(link, t, r) \in LinkRecord
           /\ AdoptClientReport(link, state, t) \in LinkRecord
  BY DEF LinkRecord, LinkStates, IssueConnect, IssueDisconnect, ReportSuccess, ReportFailure,
         AdoptClientReport, Set, Matches

\* The methods of link.go keep state and token paired.
LEMMA LinkPairing ==
    ASSUME NEW link \in LinkRecord, Paired(link),
           NEW t \in Tokens \cup {NoToken}, NEW r \in Reasons \cup {NoReason}, NEW state \in LinkStates
    PROVE  /\ t # NoToken => Paired(IssueConnect(link, t))
           /\ Paired(IssueDisconnect(link))
           /\ Paired(ReportSuccess(link, t))
           /\ Paired(ReportFailure(link, t, r))
           /\ Paired(AdoptClientReport(link, state, t))
  BY DEF LinkRecord, LinkStates, IssueConnect, IssueDisconnect, ReportSuccess, ReportFailure,
         AdoptClientReport, Set, Matches, Paired

LEMMA IdleLinkPaired == IdleLink \in LinkRecord /\ Paired(IdleLink)
  BY DEF IdleLink, LinkRecord, LinkStates, Paired

\* What a session may hold about the attempts ts is one of three shapes: a
\* snapshot pairs state and token, a transition names the attempt it ends.
LEMMA StateReportShape ==
    ASSUME NEW ts, NEW m \in Inbound(ts), m.type = "state_report"
    PROVE  /\ m.full \in BOOLEAN
           /\ DOMAIN m.entries \subseteq PeeringIds
           /\ \A id \in DOMAIN m.entries :
                 /\ m.entries[id] \in IF m.full THEN Snapshots(ts) ELSE Transitions(ts)
                 /\ m.entries[id].state \in LinkStates
                 /\ m.entries[id].token \in ts \cup {NoToken}
                 /\ m.entries[id].reason \in Reasons \cup {NoReason}
<1>1. m \in StateReports(ts)
  BY DEF Inbound, ProfileReports
<1>2. CASE m \in [type : {"state_report"}, full : {TRUE},
                  entries : UNION {[S -> Snapshots(ts)] : S \in SUBSET PeeringIds}]
  <2>1. PICK S \in SUBSET PeeringIds : m.entries \in [S -> Snapshots(ts)]
    BY <1>2
  <2>2. m.full = TRUE
    BY <1>2
  <2>3. \A id \in S : m.entries[id] \in Snapshots(ts)
    BY <2>1
  <2>4. \A e \in Snapshots(ts) :
           e.state \in LinkStates /\ e.token \in ts \cup {NoToken} /\ e.reason \in Reasons \cup {NoReason}
    BY DEF Snapshots, LinkStates
  <2>. QED
    BY <2>1, <2>2, <2>3, <2>4
<1>3. CASE m \in [type : {"state_report"}, full : {FALSE},
                  entries : UNION {[{id} -> Transitions(ts)] : id \in PeeringIds}]
  <2>1. PICK id \in PeeringIds : m.entries \in [{id} -> Transitions(ts)]
    BY <1>3
  <2>2. m.full = FALSE
    BY <1>3
  <2>3. \A i \in {id} : m.entries[i] \in Transitions(ts)
    BY <2>1
  <2>4. \A e \in Transitions(ts) :
           e.state \in LinkStates /\ e.token \in ts \cup {NoToken} /\ e.reason \in Reasons \cup {NoReason}
    BY DEF Transitions, LinkStates
  <2>. QED
    BY <2>1, <2>2, <2>3, <2>4
<1>. QED
  BY <1>1, <1>2, <1>3 DEF StateReports

LEMMA ProfileReportShape ==
    ASSUME NEW m \in Inbound(Tokens), m.type = "profile_report"
    PROVE  m.peering \in PeeringIds /\ m.token \in Tokens /\ m.profile \in Profiles
  BY DEF Inbound, StateReports, ProfileReports

\* The more attempts exist, the more a client can speak of.
LEMMA InboundGrows ==
    ASSUME NEW us, NEW ts \in SUBSET us
    PROVE  Inbound(ts) \subseteq Inbound(us)
<1>1. Snapshots(ts) \subseteq Snapshots(us) /\ Transitions(ts) \subseteq Transitions(us)
  BY DEF Snapshots, Transitions
<1>2. StateReports(ts) \subseteq StateReports(us)
  <2> SUFFICES ASSUME NEW m \in StateReports(ts) PROVE m \in StateReports(us)
    OBVIOUS
  <2>1. CASE m \in [type : {"state_report"}, full : {TRUE},
                    entries : UNION {[S -> Snapshots(ts)] : S \in SUBSET PeeringIds}]
    <3>1. PICK S \in SUBSET PeeringIds : m.entries \in [S -> Snapshots(ts)]
      BY <2>1
    <3>2. m.entries \in [S -> Snapshots(us)]
      BY <3>1, <1>1
    <3>3. m.entries \in UNION {[X -> Snapshots(us)] : X \in SUBSET PeeringIds}
      BY <3>2
    <3>. QED
      BY <2>1, <3>3 DEF StateReports
  <2>2. CASE m \in [type : {"state_report"}, full : {FALSE},
                    entries : UNION {[{id} -> Transitions(ts)] : id \in PeeringIds}]
    <3>1. PICK id \in PeeringIds : m.entries \in [{id} -> Transitions(ts)]
      BY <2>2
    <3>2. m.entries \in [{id} -> Transitions(us)]
      BY <3>1, <1>1
    <3>3. m.entries \in UNION {[{x} -> Transitions(us)] : x \in PeeringIds}
      BY <3>2
    <3>. QED
      BY <2>2, <3>3 DEF StateReports
  <2>. QED
    BY <2>1, <2>2 DEF StateReports
<1>3. ProfileReports(ts) \subseteq ProfileReports(us)
  BY DEF ProfileReports
<1>. QED
  BY <1>2, <1>3 DEF Inbound

----------------------------------------------------------------------------
(* Lemmas about deliveries *)

Mail == [Sessions -> Seq(Outbound)]

\* A session that survives a delivery has its messages appended, one that gets
\* nothing is untouched, one that does not survive has an empty queue.
LEMMA DeliverEffect ==
    ASSUME TypeOK, NEW STATE batch, batch \in Mail, Deliver(batch)
    PROVE  /\ queue' \in [Sessions -> Seq(Outbound)]
           /\ alive' \in [Sessions -> BOOLEAN]
           /\ \A s \in Sessions : alive'[s] => alive[s] /\ queue'[s] = queue[s] \o batch[s]
           /\ \A s \in Sessions : ~alive'[s] => queue'[s] = <<>>
           /\ \A s \in Sessions : batch[s] = <<>> /\ alive[s] => alive'[s] /\ queue'[s] = queue[s]
<1> DEFINE stalled(s) == batch[s] # <<>> /\ ~Fits(s, batch[s])
<1>1. /\ alive' = [s \in Sessions |-> alive[s] /\ ~stalled(s)]
      /\ queue' = [s \in Sessions |-> CASE ~alive[s] \/ stalled(s) -> <<>>
                                        [] OTHER                   -> queue[s] \o batch[s]]
  BY DEF Deliver
<1> HIDE DEF stalled
<1>2. \A s \in Sessions : queue[s] \in Seq(Outbound) /\ batch[s] \in Seq(Outbound) /\ alive[s] \in BOOLEAN
  BY DEF TypeOK, Mail
<1>3. \A s \in Sessions : queue[s] \o batch[s] \in Seq(Outbound) /\ <<>> \in Seq(Outbound)
  BY <1>2
<1>4. \A s \in Sessions : queue'[s] = IF ~alive[s] \/ stalled(s) THEN <<>> ELSE queue[s] \o batch[s]
  BY <1>1
<1>5. queue' \in [Sessions -> Seq(Outbound)]
  BY <1>1, <1>3
<1>6. \A s \in Sessions : alive'[s] = (alive[s] /\ ~stalled(s))
  BY <1>1
<1>7. alive' \in [Sessions -> BOOLEAN]
  BY <1>1, <1>2
<1>8. \A s \in Sessions : batch[s] = <<>> => ~stalled(s) /\ queue[s] \o batch[s] = queue[s]
  BY <1>2 DEF stalled
<1>. QED
  BY <1>4, <1>5, <1>6, <1>7, <1>8

\* Mail addressed to devices only reaches current sessions.
LEMMA ToCurrentMail ==
    ASSUME NEW STATE mail, mail \in [Devices -> Seq(Outbound)]
    PROVE  /\ ToCurrent(mail) \in Mail
           /\ \A s \in Sessions : ~IsCurrent(s) => ToCurrent(mail)[s] = <<>>
  BY OwnerAssumption DEF Mail, ToCurrent, IsCurrent

\* The messages the hub composes are well formed.
LEMMA MessageTypes ==
    ASSUME TypeOK
    PROVE  /\ \A d \in Devices : Config(d) \in Outbound
           /\ \A p \in Pairs, t \in Tokens : peering[p] # NoPeering =>
                 Connect(p, t) \in Outbound /\ Disconnect(p, t) \in Outbound
           /\ \A p \in Pairs, t \in Tokens, x \in Profiles \cup {NoProfile} :
                 peering[p] # NoPeering => PeerProfile(p, t, x) \in Outbound
           /\ \A type \in {"device_registered", "query", "duplicate_login", "error"} :
                 Plain(type) \in Outbound
<1>1. \A d \in Devices : Config(d) \in Outbound
  BY DEF TypeOK, Config, PairsOf, Outbound
<1>2. \A p \in Pairs, t \in Tokens : peering[p] # NoPeering =>
         Connect(p, t) \in Outbound /\ Disconnect(p, t) \in Outbound
  BY DEF TypeOK, Connect, Disconnect, Outbound
<1>3. \A p \in Pairs, t \in Tokens, x \in Profiles \cup {NoProfile} :
         peering[p] # NoPeering => PeerProfile(p, t, x) \in Outbound
  BY DEF TypeOK, PeerProfile, Outbound
<1>4. \A type \in {"device_registered", "query", "duplicate_login", "error"} : Plain(type) \in Outbound
  BY DEF Plain, Outbound
<1>. QED
  BY <1>1, <1>2, <1>3, <1>4

LEMMA EndEffect ==
    ASSUME TypeOK, NEW s \in Sessions, End(s)
    PROVE  /\ queue' \in [Sessions -> Seq(Outbound)]
           /\ alive' \in [Sessions -> BOOLEAN]
           /\ ~alive'[s] /\ queue'[s] = <<>>
           /\ \A x \in Sessions \ {s} : alive'[x] = alive[x] /\ queue'[x] = queue[x]
  BY DEF TypeOK, End

\* rejectSession appends the error or ends the session.
LEMMA RejectEffect ==
    ASSUME TypeOK, NEW s \in Sessions, RejectSession(s)
    PROVE  /\ queue' \in [Sessions -> Seq(Outbound)]
           /\ alive' \in [Sessions -> BOOLEAN]
           /\ \A x \in Sessions \ {s} : alive'[x] = alive[x] /\ queue'[x] = queue[x]
           /\ alive'[s] => alive[s] /\ queue'[s] = Append(queue[s], Plain("error"))
           /\ ~alive'[s] => queue'[s] = <<>>
<1>1. Plain("error") \in Outbound
  BY MessageTypes
<1>2. CASE alive[s] /\ Fits(s, <<Plain("error")>>)
  <2>1. /\ queue' = [queue EXCEPT ![s] = Append(queue[s], Plain("error"))]
        /\ alive' = alive
    BY <1>2 DEF RejectSession
  <2>2. queue \in [Sessions -> Seq(Outbound)] /\ alive \in [Sessions -> BOOLEAN]
    BY DEF TypeOK
  <2>3. Append(queue[s], Plain("error")) \in Seq(Outbound)
    BY <1>1, <2>2
  <2>. QED
    BY <1>2, <2>1, <2>2, <2>3
<1>3. CASE ~(alive[s] /\ Fits(s, <<Plain("error")>>))
  <2>1. End(s)
    BY <1>3 DEF RejectSession
  <2>. QED
    BY <2>1, EndEffect
<1>. QED
  BY <1>2, <1>3

----------------------------------------------------------------------------
(* Type correctness *)

LEMMA UncollectedType ==
    Uncollected \in [token : Tokens \cup {NoToken}, sides : [Devices -> Profiles \cup {NoProfile}]]
  BY DEF Uncollected

\* What Register sends: at most the new session and the replaced one get mail.
RegisterMail(s) ==
    [x \in Sessions |-> CASE x = s                 -> <<Plain("device_registered"), Config(Owner[s])>>
                          [] x = current[Owner[s]] -> <<Plain("duplicate_login")>>
                          [] OTHER                 -> <<>>]

LEMMA RegisterMailType ==
    ASSUME TypeOK, NEW s \in Sessions
    PROVE  RegisterMail(s) \in Mail
<1>1. Config(Owner[s]) \in Outbound /\ Plain("device_registered") \in Outbound /\ Plain("duplicate_login") \in Outbound
  BY MessageTypes, OwnerAssumption
<1>2. /\ <<Plain("device_registered"), Config(Owner[s])>> \in Seq(Outbound)
      /\ <<Plain("duplicate_login")>> \in Seq(Outbound)
      /\ <<>> \in Seq(Outbound)
  BY <1>1
<1>. QED
  BY <1>2 DEF RegisterMail, Mail

\* A collection stays well formed when a side joins it.
LEMMA CollectType ==
    ASSUME TypeOK, NEW p \in Pairs, NEW t \in Tokens, NEW d \in Devices, NEW x \in Profiles
    PROVE  Collect(p, t, d, x) \in [token : Tokens \cup {NoToken}, sides : [Devices -> Profiles \cup {NoProfile}]]
  BY UncollectedType DEF TypeOK, Collect, Uncollected

\* The messages AdoptProfile sends when the collection is complete.
ProfileMail(p, t, collected) ==
    [e \in Devices |-> IF e \in p THEN <<PeerProfile(p, t, collected.sides[Other(p, e)])>> ELSE <<>>]

LEMMA ProfileMailType ==
    ASSUME TypeOK, NEW p \in Pairs, NEW t \in Tokens, peering[p] # NoPeering,
           NEW STATE c, c \in [token : Tokens \cup {NoToken}, sides : [Devices -> Profiles \cup {NoProfile}]]
    PROVE  ProfileMail(p, t, c) \in [Devices -> Seq(Outbound)]
<1>1. \A e \in p : c.sides[Other(p, e)] \in Profiles \cup {NoProfile}
  BY PairEnds
<1>2. \A e \in p : PeerProfile(p, t, c.sides[Other(p, e)]) \in Outbound
  BY <1>1, MessageTypes
<1>3. \A e \in p : <<PeerProfile(p, t, c.sides[Other(p, e)])>> \in Seq(Outbound)
  BY <1>2
<1>. QED
  BY <1>3 DEF ProfileMail

\* One message to each end of a pair.
LEMMA PairMailType ==
    ASSUME NEW STATE m, m \in Outbound, NEW S
    PROVE  [d \in Devices |-> IF d \in S THEN <<m>> ELSE <<>>] \in [Devices -> Seq(Outbound)]
<1>1. <<m>> \in Seq(Outbound) /\ <<>> \in Seq(Outbound)
  OBVIOUS
<1>. QED
  BY <1>1

\* What one sweep of the retry sends.
LEMMA SweepMailType ==
    ASSUME TypeOK, NEW rank, NEW STATE mail, mail \in Sweep(rank),
           NEW attempt \in [Retryable -> Tokens]
    PROVE  [d \in Devices |-> [i \in DOMAIN mail[d] |-> Connect(mail[d][i], attempt[mail[d][i]])]]
              \in [Devices -> Seq(Outbound)]
<1> SUFFICES ASSUME NEW d \in Devices
             PROVE  [i \in DOMAIN mail[d] |-> Connect(mail[d][i], attempt[mail[d][i]])] \in Seq(Outbound)
  OBVIOUS
<1>1. mail[d] \in SeqOf(Retryable, Cardinality(Retryable))
  BY DEF Sweep
<1>2. PICK n \in 0 .. Cardinality(Retryable) : mail[d] \in [1 .. n -> Retryable]
  BY <1>1 DEF SeqOf
<1>3. n \in Nat
  BY <1>2
<1>4. \A i \in 1 .. n : Connect(mail[d][i], attempt[mail[d][i]]) \in Outbound
  BY <1>2, MessageTypes DEF Retryable, TypeOK
<1>. QED
  BY <1>2, <1>3, <1>4

\* The parts of TypeOK that most steps leave alone.
StoreType   == /\ devices \in SUBSET Devices
               /\ peering \in [Pairs -> PeeringIds \cup {NoPeering}]
               /\ spentIds \in SUBSET PeeringIds
OnlineType  == /\ current \in [Devices -> Sessions \cup {NoSession}]
               /\ pendingDevices \in SUBSET Devices
LinksType   == /\ links \in [Pairs -> LinkRecord]
               /\ tracked \in SUBSET Pairs
               /\ issued \in SUBSET Tokens
PendingType == pending \in [Pairs -> [token : Tokens \cup {NoToken}, sides : [Devices -> Profiles \cup {NoProfile}]]]
WriterType  == /\ queue \in [Sessions -> Seq(Outbound)]
               /\ alive \in [Sessions -> BOOLEAN]
ReaderType  == /\ reader \in [Sessions -> {"registering", "reading", "leaving", "silenced", "ended", "gone"}]
               /\ held \in [Sessions -> Inbound(Tokens) \cup {NoMessage}]

\* A step that replaces one collection keeps the type of all.
LEMMA PendingExcept ==
    ASSUME TypeOK, NEW p \in Pairs,
           NEW x \in [token : Tokens \cup {NoToken}, sides : [Devices -> Profiles \cup {NoProfile}]],
           pending' = [pending EXCEPT ![p] = x]
    PROVE  PendingType'
  BY DEF PendingType, TypeOK

LEMMA TypeParts ==
    TypeOK <=> StoreType /\ OnlineType /\ LinksType /\ PendingType /\ WriterType /\ ReaderType
  BY DEF TypeOK, StoreType, OnlineType, LinksType, PendingType, WriterType, ReaderType

LEMMA TypePartsNext ==
    TypeOK' <=> StoreType' /\ OnlineType' /\ LinksType' /\ PendingType' /\ WriterType' /\ ReaderType'
  BY DEF TypeOK, StoreType, OnlineType, LinksType, PendingType, WriterType, ReaderType

LEMMA TypeFrame ==
    ASSUME TypeOK
    PROVE  /\ UNCHANGED store => StoreType'
           /\ UNCHANGED online => OnlineType'
           /\ UNCHANGED <<links, tracked, issued>> => LinksType'
           /\ UNCHANGED pending => PendingType'
           /\ UNCHANGED <<queue, alive>> => WriterType'
           /\ UNCHANGED <<reader, held>> => ReaderType'
  BY DEF TypeOK, StoreType, OnlineType, LinksType, PendingType, WriterType, ReaderType, store, online

\* Every batch, ended session and rejection leaves queues and liveness typed.
LEMMA WriterFrame ==
    ASSUME TypeOK
    PROVE  /\ \A s \in Sessions : End(s) => WriterType'
           /\ \A s \in Sessions : RejectSession(s) => WriterType'
  BY EndEffect, RejectEffect DEF WriterType

\* A session step keeps every variable's type.
LEMMA SessionTypes ==
    ASSUME TypeOK, NEW s \in Sessions, SessionStep(s)
    PROVE  TypeOK'
<1> USE TypeFrame, WriterFrame
<1>1. CASE Register(s)
  <2>1. WriterType'
    <3>1. Deliver(RegisterMail(s))
      BY <1>1 DEF Register, RegisterMail
    <3>. QED
      BY <3>1, RegisterMailType, DeliverEffect DEF WriterType
  <2>2. OnlineType'
    <3>1. /\ current' = [current EXCEPT ![Owner[s]] = s]
          /\ pendingDevices' = IF Owner[s] \in devices THEN pendingDevices ELSE pendingDevices \cup {Owner[s]}
      BY <1>1 DEF Register
    <3>. QED
      BY <3>1, OwnerAssumption DEF OnlineType, TypeOK
  <2>3. ReaderType'
    BY <1>1 DEF Register, ReaderType, TypeOK
  <2>. QED
    BY <1>1, <2>1, <2>2, <2>3, TypePartsNext DEF Register, tables
<1>2. CASE RefuseRegister(s)
  <2>1. ReaderType'
    BY <1>2 DEF RefuseRegister, ReaderType, TypeOK
  <2>. QED
    BY <1>2, <2>1, TypePartsNext DEF RefuseRegister, tables
<1>3. CASE SessionEnded(s)
  <2>1. OnlineType'
    <3>1. CASE current[Owner[s]] = s
      BY <1>3, <3>1, OwnerAssumption DEF SessionEnded, OnlineType, TypeOK
    <3>2. CASE current[Owner[s]] # s
      BY <1>3, <3>2 DEF SessionEnded
    <3>. QED
      BY <3>1, <3>2
  <2>2. ReaderType'
    BY <1>3 DEF SessionEnded, ReaderType, TypeOK
  <2>. QED
    BY <1>3, <2>1, <2>2, TypePartsNext DEF SessionEnded, tables
<1>4. ASSUME NEW m \in Inbound(issued), Read(s, m) PROVE TypeOK'
  <2>1. m \in Inbound(Tokens)
    BY InboundGrows DEF TypeOK
  <2>2. ReaderType'
    BY <1>4, <2>1 DEF Read, ReaderType, TypeOK
  <2>. QED
    BY <1>4, <2>2, TypePartsNext DEF Read, tables
<1>5. CASE RejectInbound(s)
  <2>1. ReaderType'
    BY <1>5 DEF RejectInbound, ReaderType, TypeOK
  <2>. QED
    BY <1>5, <2>1, TypePartsNext DEF RejectInbound, tables
<1>6. CASE ReadFails(s)
  <2>1. ReaderType'
    BY <1>6 DEF ReadFails, ReaderType, TypeOK
  <2>. QED
    BY <1>6, <2>1, TypePartsNext DEF ReadFails, tables
<1>7. CASE Leave(s)
  <2>1. ReaderType'
    BY <1>7 DEF Leave, ReaderType, TypeOK
  <2>. QED
    BY <1>7, <2>1, TypePartsNext DEF Leave, tables
<1>8. CASE Write(s)
  <2>1. WriterType'
    <3>1. CASE ClosesAfter(Head(queue[s]))
      BY <1>8, <3>1 DEF Write
    <3>2. CASE ~ClosesAfter(Head(queue[s]))
      <4>1. Tail(queue[s]) \in Seq(Outbound)
        BY <1>8 DEF Write, TypeOK
      <4>. QED
        BY <1>8, <3>2, <4>1 DEF Write, WriterType, TypeOK
    <3>. QED
      BY <3>1, <3>2
  <2>. QED
    BY <1>8, <2>1, TypePartsNext DEF Write, tables
<1>9. CASE WriteFails(s)
  BY <1>9, TypePartsNext DEF WriteFails, tables
<1>10. CASE Heartbeat(s)
  <2>1. ReaderType'
    BY <1>10 DEF Heartbeat, Take, ReaderType, TypeOK
  <2>. QED
    BY <1>10, <2>1, TypePartsNext DEF Heartbeat, tables
<1>11. CASE Unregister(s)
  <2>1. ReaderType'
    BY <1>11 DEF Unregister, Take, ReaderType, TypeOK
  <2>. QED
    BY <1>11, <2>1, TypePartsNext DEF Unregister, tables
<1>12. CASE HandleStateReport(s)
  <2>1. held' \in [Sessions -> Inbound(Tokens) \cup {NoMessage}]
    BY <1>12 DEF HandleStateReport, Take, TypeOK
  <2>2. CASE ~IsCurrent(s) /\ RefuseReport(s)
    <3>1. ReaderType'
      BY <2>1, <2>2 DEF RefuseReport, ReaderType, TypeOK
    <3>. QED
      BY <2>2, <3>1, TypePartsNext DEF RefuseReport, tables
  <2>3. CASE IsCurrent(s) /\ ~(~IsCurrent(s) /\ RefuseReport(s))
    <3> DEFINE m == held[s]
               touched == Reported(Owner[s], DOMAIN m.entries)
    <3>1. m \in Inbound(Tokens) /\ m.type = "state_report"
      BY <1>12 DEF HandleStateReport, Holds, TypeOK
    <3>2. \A p \in touched : AdoptEntry(links[p], m.entries[peering[p]], m.full) \in LinkRecord
      <4> SUFFICES ASSUME NEW p \in touched
                   PROVE  AdoptEntry(links[p], m.entries[peering[p]], m.full) \in LinkRecord
        OBVIOUS
      <4>1. p \in Pairs /\ peering[p] \in DOMAIN m.entries /\ links[p] \in LinkRecord
        BY DEF Reported, PairsOf, TypeOK
      <4>. QED
        BY <3>1, <4>1, StateReportShape, LinkTypes DEF AdoptEntry
    <3>3. /\ links' = [p \in Pairs |-> IF p \in touched
                                       THEN AdoptEntry(links[p], m.entries[peering[p]], m.full)
                                       ELSE links[p]]
          /\ tracked' = tracked \cup touched
          /\ UNCHANGED <<store, pending, issued, online, queue, alive, reader>>
      BY <1>12, <2>3 DEF HandleStateReport
    <3>4. LinksType'
      BY <3>2, <3>3 DEF LinksType, TypeOK, Reported, PairsOf
    <3>5. ReaderType'
      BY <2>1, <3>3 DEF ReaderType, TypeOK
    <3>. QED
      BY <3>3, <3>4, <3>5, TypePartsNext
  <2>. QED
    BY <1>12, <2>2, <2>3 DEF HandleStateReport
<1>13. CASE HandleProfileReport(s)
  <2>1. held' \in [Sessions -> Inbound(Tokens) \cup {NoMessage}]
    BY <1>13 DEF HandleProfileReport, Take, TypeOK
  <2>2. CASE ~IsCurrent(s) /\ RefuseReport(s)
    <3>1. ReaderType'
      BY <2>1, <2>2 DEF RefuseReport, ReaderType, TypeOK
    <3>. QED
      BY <2>2, <3>1, TypePartsNext DEF RefuseReport, tables
  <2>3. CASE IsCurrent(s)
    <3> DEFINE m == held[s]
               d == Owner[s]
    <3>1. /\ m.peering \in PeeringIds /\ m.token \in Tokens /\ m.profile \in Profiles
      BY <1>13, ProfileReportShape DEF HandleProfileReport, Holds, TypeOK
    <3>2. /\ tracked' = tracked \cup Reported(d, {m.peering})
          /\ UNCHANGED <<store, links, issued, online, reader>>
      BY <1>13, <2>3 DEF HandleProfileReport
    <3>3. StoreType' /\ OnlineType' /\ LinksType' /\ ReaderType'
      BY <2>1, <3>2 DEF LinksType, ReaderType, TypeOK, Reported, PairsOf
    <3>4. ASSUME NEW p \in Reported(d, {m.peering}), AdoptProfile(p, m.token, d, m.profile)
          PROVE  PendingType' /\ WriterType'
      <4> DEFINE c == Collect(p, m.token, d, m.profile)
      <4>1. p \in Pairs /\ peering[p] # NoPeering /\ d \in Devices
        BY <3>1, OwnerAssumption, AbsenceAssumption DEF Reported, PairsOf
      <4>2. c \in [token : Tokens \cup {NoToken}, sides : [Devices -> Profiles \cup {NoProfile}]]
        BY <3>1, <4>1, CollectType
      <4>3. PendingType'
        <5>1. pending' = [pending EXCEPT ![p] = Uncollected] \/ pending' = [pending EXCEPT ![p] = c]
          BY <3>4 DEF AdoptProfile
        <5>. HIDE DEF c
        <5>. QED
          BY <4>1, <4>2, <5>1, UncollectedType, PendingExcept
      <4>4. CASE Complete(c)
        <5>1. Deliver(ToCurrent(ProfileMail(p, m.token, c)))
          BY <3>4, <4>4 DEF AdoptProfile, ProfileMail
        <5>2. ToCurrent(ProfileMail(p, m.token, c)) \in Mail
          BY <3>1, <4>1, <4>2, ProfileMailType, ToCurrentMail
        <5>. QED
          BY <4>3, <5>1, <5>2, DeliverEffect DEF WriterType
      <4>5. CASE ~Complete(c)
        BY <3>4, <4>3, <4>5 DEF AdoptProfile
      <4>. QED
        BY <4>4, <4>5
    <3>5. PendingType' /\ WriterType'
      BY <1>13, <2>3, <3>4 DEF HandleProfileReport
    <3>. QED
      BY <3>3, <3>5, TypePartsNext
  <2>. QED
    BY <1>13, <2>2, <2>3 DEF HandleProfileReport
<1>. QED
  BY <1>1, <1>2, <1>3, <1>4, <1>5, <1>6, <1>7, <1>8, <1>9, <1>10, <1>11, <1>12, <1>13 DEF SessionStep

\* An administrator's command keeps every variable's type.
LEMMA AdminTypes ==
    ASSUME TypeOK, AdminStep
    PROVE  TypeOK'
<1> USE TypeFrame
<1>1. ASSUME NEW p \in Pairs, IssueConnectCommand(p) PROVE TypeOK'
  <2>1. PICK t \in FreshTokens :
           /\ issued'  = issued \cup {t}
           /\ links'   = [links EXCEPT ![p] = IssueConnect(@, t)]
           /\ pending' = [pending EXCEPT ![p] = Uncollected]
           /\ Deliver(ToCurrent([d \in Devices |-> IF d \in p THEN <<Connect(p, t)>> ELSE <<>>]))
    BY <1>1 DEF IssueConnectCommand
  <2>2. t \in Tokens /\ Connect(p, t) \in Outbound
    BY <1>1, MessageTypes DEF FreshTokens, IssueConnectCommand
  <2>3. LinksType' /\ PendingType'
    <3>1. IssueConnect(links[p], t) \in LinkRecord
      BY <2>2, LinkTypes DEF TypeOK, LinkStates
    <3>. QED
      BY <1>1, <2>1, <2>2, <3>1, UncollectedType DEF IssueConnectCommand, LinksType, PendingType, TypeOK
  <2>4. WriterType'
    <3> DEFINE mail == [d \in Devices |-> IF d \in p THEN <<Connect(p, t)>> ELSE <<>>]
    <3>1. mail \in [Devices -> Seq(Outbound)]
      BY <2>2, PairMailType
    <3>2. ToCurrent(mail) \in Mail /\ Deliver(ToCurrent(mail))
      BY <2>1, <3>1, ToCurrentMail
    <3>. QED
      BY <3>2, DeliverEffect DEF WriterType
  <2>. QED
    BY <1>1, <2>3, <2>4, TypePartsNext DEF IssueConnectCommand
<1>2. ASSUME NEW p \in Pairs, IssueDisconnectCommand(p) PROVE TypeOK'
  <2>1. PICK t \in IF links[p].token = NoToken THEN FreshTokens ELSE {links[p].token} :
           /\ issued' = issued \cup {t}
           /\ Deliver(ToCurrent([d \in Devices |-> IF d \in p THEN <<Disconnect(p, t)>> ELSE <<>>]))
    BY <1>2 DEF IssueDisconnectCommand
  <2>2. t \in Tokens
    BY <2>1 DEF FreshTokens, TypeOK, LinkRecord
  <2>3. Disconnect(p, t) \in Outbound
    BY <1>2, <2>2, MessageTypes DEF IssueDisconnectCommand
  <2>4. LinksType'
    <3>1. IssueDisconnect(links[p]) \in LinkRecord
      BY LinkTypes DEF TypeOK, LinkStates
    <3>. QED
      BY <1>2, <2>1, <2>2, <3>1 DEF IssueDisconnectCommand, LinksType, TypeOK
  <2>5. WriterType'
    <3> DEFINE mail == [d \in Devices |-> IF d \in p THEN <<Disconnect(p, t)>> ELSE <<>>]
    <3>1. mail \in [Devices -> Seq(Outbound)]
      BY <2>3, PairMailType
    <3>2. ToCurrent(mail) \in Mail /\ Deliver(ToCurrent(mail))
      BY <2>1, <3>1, ToCurrentMail
    <3>. QED
      BY <3>2, DeliverEffect DEF WriterType
  <2>. QED
    BY <1>2, <2>4, <2>5, TypePartsNext DEF IssueDisconnectCommand
<1>3. CASE AutoConnectIdle
  <2>1. PICK rank \in Injection(Retryable, 1 .. Cardinality(Retryable)),
             attempt \in Injection(Retryable, FreshTokens) :
           /\ issued'  = issued \cup {attempt[p] : p \in Retryable}
           /\ links'   = [p \in Pairs |-> IF p \in Retryable THEN IssueConnect(links[p], attempt[p]) ELSE links[p]]
           /\ pending' = [p \in Pairs |-> IF p \in Retryable THEN Uncollected ELSE pending[p]]
           /\ \E mail \in Sweep(rank) :
                 Deliver(ToCurrent([d \in Devices |->
                     [i \in DOMAIN mail[d] |-> Connect(mail[d][i], attempt[mail[d][i]])]]))
    BY <1>3 DEF AutoConnectIdle
  <2>2. attempt \in [Retryable -> Tokens]
    BY DEF Injection, FreshTokens
  <2>3. LinksType' /\ PendingType'
    <3>1. \A p \in Retryable : IssueConnect(links[p], attempt[p]) \in LinkRecord
      BY <2>2, LinkTypes DEF TypeOK, LinkStates, Retryable
    <3>2. {attempt[p] : p \in Retryable} \subseteq Tokens
      BY <2>2
    <3>3. links' \in [Pairs -> LinkRecord] /\ issued' \in SUBSET Tokens
      BY <2>1, <3>1, <3>2 DEF TypeOK
    <3>4. tracked' \in SUBSET Pairs
      BY <1>3 DEF AutoConnectIdle, TypeOK
    <3>5. PendingType'
      BY <2>1, UncollectedType DEF PendingType, TypeOK
    <3>. QED
      BY <3>3, <3>4, <3>5 DEF LinksType
  <2>4. WriterType'
    <3>1. PICK mail \in Sweep(rank) :
             Deliver(ToCurrent([d \in Devices |->
                 [i \in DOMAIN mail[d] |-> Connect(mail[d][i], attempt[mail[d][i]])]]))
      BY <2>1
    <3> DEFINE connects == [d \in Devices |->
                 [i \in DOMAIN mail[d] |-> Connect(mail[d][i], attempt[mail[d][i]])]]
    <3>2. connects \in [Devices -> Seq(Outbound)]
      BY <2>2, SweepMailType
    <3>3. ToCurrent(connects) \in Mail /\ Deliver(ToCurrent(connects))
      BY <3>1, <3>2, ToCurrentMail
    <3>. QED
      BY <3>3, DeliverEffect DEF WriterType
  <2>. QED
    BY <1>3, <2>3, <2>4, TypePartsNext DEF AutoConnectIdle
<1>4. ASSUME NEW d \in Devices, ApproveDevice(d) PROVE TypeOK'
  BY <1>4 DEF ApproveDevice, TypeOK, tables, session
<1>5. ASSUME NEW d \in Devices, Kick(d) PROVE TypeOK'
  <2>1. current[d] \in Sessions
    BY <1>5 DEF Kick, Online, TypeOK
  <2>. QED
    BY <1>5, <2>1, WriterFrame, TypePartsNext DEF Kick, tables
<1>6. ASSUME NEW d \in Devices, IssueQuery(d) PROVE TypeOK'
  <2>1. Plain("query") \in Outbound
    BY MessageTypes
  <2>2. [e \in Devices |-> IF e = d THEN <<Plain("query")>> ELSE <<>>] \in [Devices -> Seq(Outbound)]
    BY <2>1
  <2>3. WriterType'
    BY <1>6, <2>2, ToCurrentMail, DeliverEffect DEF IssueQuery, WriterType
  <2>. QED
    BY <1>6, <2>3, TypePartsNext DEF IssueQuery, tables
<1>7. ASSUME NEW d \in Devices, PushConfig(d) PROVE TypeOK'
  <2>1. Config(d) \in Outbound
    BY MessageTypes
  <2>2. [e \in Devices |-> IF e = d THEN <<Config(d)>> ELSE <<>>] \in [Devices -> Seq(Outbound)]
    BY <2>1
  <2>3. WriterType'
    BY <1>7, <2>2, ToCurrentMail, DeliverEffect DEF PushConfig, WriterType
  <2>. QED
    BY <1>7, <2>3, TypePartsNext DEF PushConfig, tables
<1>8. ASSUME NEW ps \in SUBSET Pairs, PruneLinks(ps) PROVE TypeOK'
  <2>1. LinksType' /\ PendingType'
    BY <1>8, IdleLinkPaired, UncollectedType DEF PruneLinks, LinksType, PendingType, TypeOK
  <2>. QED
    BY <1>8, <2>1, TypePartsNext DEF PruneLinks, session
<1>9. ASSUME NEW p \in Pairs, RemovePeering(p) PROVE TypeOK'
  BY <1>9 DEF RemovePeering, TypeOK, tables, online, session
<1>10. ASSUME NEW p \in Pairs, NEW id \in PeeringIds, CreatePeering(p, id) PROVE TypeOK'
  BY <1>10 DEF CreatePeering, TypeOK, tables, online, session
<1>11. ASSUME NEW d \in Devices, DeleteDevice(d) PROVE TypeOK'
  BY <1>11 DEF DeleteDevice, TypeOK, tables, online, session
<1>. QED
  BY <1>1, <1>2, <1>3, <1>4, <1>5, <1>6, <1>7, <1>8, <1>9, <1>10, <1>11 DEF AdminStep

LEMMA RestartTypes == TypeOK /\ Restart => TypeOK'
  BY IdleLinkPaired, UncollectedType DEF TypeOK, Restart, store

LEMMA InitTypes == Init => TypeOK
  BY IdleLinkPaired, UncollectedType DEF Init, TypeOK

LEMMA TypeStep == TypeOK /\ [Next]_vars => TypeOK'
<1> SUFFICES ASSUME TypeOK, [Next]_vars PROVE TypeOK'
  OBVIOUS
<1>1. CASE UNCHANGED vars
  BY <1>1 DEF vars, TypeOK
<1>. QED
  BY <1>1, SessionTypes, AdminTypes, RestartTypes DEF Next

\* Every variable keeps its type in every behaviour, whatever clients report
\* and administrators ask.
THEOREM TypeCorrect == Spec => []TypeOK
  BY InitTypes, TypeStep, PTL DEF Spec
=============================================================================
