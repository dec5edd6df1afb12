---------------------------- MODULE ClientProofs ----------------------------
(***************************************************************************)
(* Theorems about Client: for any peerings and attempts, capacity of the   *)
(* event channel and depth of the connection.                              *)
(***************************************************************************)
EXTENDS Client, FiniteSetTheorems, TLAPS

----------------------------------------------------------------------------
(* Sequences *)

LEMMA HeadAndTail ==
    ASSUME NEW S, NEW s \in Seq(S), s # <<>>
    PROVE  /\ Head(s) \in S /\ Head(s) = s[1] /\ 1 \in DOMAIN s
           /\ Tail(s) \in Seq(S) /\ Len(Tail(s)) = Len(s) - 1 /\ Len(Tail(s)) < Len(s)
           /\ \A i \in DOMAIN Tail(s) : i + 1 \in DOMAIN s /\ Tail(s)[i] = s[i + 1] /\ i + 1 # 1
           /\ \A i \in DOMAIN s : i = 1 \/ (i - 1 \in DOMAIN Tail(s) /\ Tail(s)[i - 1] = s[i])
  OBVIOUS

LEMMA Prefix ==
    ASSUME NEW S, NEW s \in Seq(S), NEW n \in 0 .. Len(s)
    PROVE  /\ SubSeq(s, 1, n) \in Seq(S) /\ Len(SubSeq(s, 1, n)) = n
           /\ \A i \in DOMAIN SubSeq(s, 1, n) : i \in DOMAIN s /\ SubSeq(s, 1, n)[i] = s[i]
  OBVIOUS

LEMMA Joined ==
    ASSUME NEW S, NEW s \in Seq(S), NEW r \in Seq(S)
    PROVE  /\ s \o r \in Seq(S) /\ Len(s \o r) = Len(s) + Len(r)
           /\ \A i \in DOMAIN s : i \in DOMAIN (s \o r) /\ (s \o r)[i] = s[i]
           /\ \A i \in DOMAIN (s \o r) : \/ i \in DOMAIN s /\ (s \o r)[i] = s[i]
                                         \/ i - Len(s) \in DOMAIN r /\ (s \o r)[i] = r[i - Len(s)]
  OBVIOUS

LEMMA Appended ==
    ASSUME NEW S, NEW s \in Seq(S), NEW x \in S
    PROVE  /\ Append(s, x) \in Seq(S) /\ Len(Append(s, x)) = Len(s) + 1
           /\ \A i \in DOMAIN s : i \in DOMAIN Append(s, x) /\ Append(s, x)[i] = s[i]
           /\ \A i \in DOMAIN Append(s, x) : \/ i \in DOMAIN s /\ Append(s, x)[i] = s[i]
                                             \/ i = Len(s) + 1 /\ Append(s, x)[i] = x
  OBVIOUS

LEMMA Single ==
    ASSUME NEW S, NEW x \in S
    PROVE  <<x>> \in Seq(S) /\ DOMAIN <<x>> = {1} /\ <<x>>[1] = x /\ Len(<<x>>) = 1
  OBVIOUS

----------------------------------------------------------------------------
(* Types *)

Configs      == (SUBSET Peerings) \cup {NoNetwork}
Stages       == {"none", "probing", "waiting", "punching", "connected", "finished"}
Milestones   == [attempt : Tokens, kind : {"profile", "no profile", "connected", "failed"}]
Reported     == [state : LinkStates, token : Tokens \cup {NoToken}]
Snapshots    == UNION {[D -> Reported] : D \in SUBSET Peerings}
DownMessages == [type : {"config"}, peers : Configs] \cup [type : {"connect", "peer_profile"}, attempt : Tokens]
                \cup [type : {"disconnect"}, peering : Peerings] \cup [type : {"query", "error"}]
UpMessages   == [type : {"snapshot"}, links : Snapshots] \cup [type : {"event"}, event : Milestones]

ManagerType == /\ network \in Configs /\ stack \in BOOLEAN
               /\ workers \in [Peerings -> Tokens \cup {NoToken}] /\ plane \in [Peerings -> Tokens \cup {NoToken}]
               /\ \A p \in Peerings : workers[p] # NoToken => PeeringOf[workers[p]] = p
EventsType  == events \in Seq(Milestones) /\ Len(events) <= EventSlots
WorkersType == /\ stage \in [Tokens -> Stages]
               /\ connected \in SUBSET Tokens /\ cancelled \in SUBSET Tokens /\ profiled \in SUBSET Tokens
SessionType == /\ session \in {"down", "registered", "configured", "up", "exited"}
               /\ sending \in Milestones \cup {NoEvent} /\ answer \in Snapshots \cup {NoAnswer}
               /\ late \in Seq(DownMessages)
PipeType    == /\ down \in Seq(DownMessages) /\ up \in Seq(UpMessages)
               /\ session = "registered" => down # <<>> /\ Head(down).type = "config"
ServerType  == /\ online \in BOOLEAN /\ config \in Configs /\ Members(config) \cap spent = {}
               /\ record \in [Peerings -> LinkRecord] /\ \A p \in Peerings : Paired(record[p])
               /\ collected \in SUBSET Tokens /\ issued \in SUBSET Tokens

Types == ManagerType /\ EventsType /\ WorkersType /\ SessionType /\ PipeType /\ ServerType

LEMMA TypeFrame ==
    ASSUME Types
    PROVE  /\ UNCHANGED <<network, stack, workers, plane>> => ManagerType'
           /\ UNCHANGED events => EventsType'
           /\ UNCHANGED workerVars => WorkersType'
           /\ UNCHANGED sessionVars => SessionType'
           /\ UNCHANGED <<session, down, up>> => PipeType'
           /\ UNCHANGED serverVars => ServerType'
  BY DEF Types, ManagerType, EventsType, WorkersType, SessionType, PipeType, ServerType,
         workerVars, sessionVars, serverVars

\* The message at hand by its type.
LEMMA DownKinds ==
    ASSUME NEW m \in DownMessages
    PROVE  /\ m.type = "config" => m.peers \in Configs
           /\ m.type \in {"connect", "peer_profile"} => m.attempt \in Tokens
           /\ m.type = "disconnect" => m.peering \in Peerings
  BY DEF DownMessages

LEMMA UpKinds ==
    ASSUME NEW m \in UpMessages
    PROVE  /\ m.type = "snapshot" => m.links \in Snapshots
           /\ m.type = "event" => m.event \in Milestones
  BY DEF UpMessages

\* Events only join the channel, and only while there is room.
LEMMA EmitTypes ==
    ASSUME EventsType, NEW es \in Seq(Milestones), Emit(es)
    PROVE  /\ EventsType'
           /\ Lost(es) \subseteq {es[i].attempt : i \in DOMAIN es}
           /\ \A i \in DOMAIN events : i \in DOMAIN events' /\ events'[i] = events[i]
           /\ \A i \in DOMAIN events' : events'[i] \in {events[j] : j \in DOMAIN events} \cup {es[j] : j \in DOMAIN es}
           /\ \A j \in DOMAIN es : es[j].attempt \in Lost(es) \/ \E i \in DOMAIN events' : events'[i] = es[j]
<1>1. events \in Seq(Milestones) /\ Len(events) \in Nat /\ Len(events) <= EventSlots /\ Len(es) \in Nat /\ EventSlots \in Nat
  BY DepthAssumption DEF EventsType
<1>2. Room(es) \in 0 .. Len(es) /\ Len(events) + Room(es) <= EventSlots
  BY <1>1 DEF Room
<1>3. PICK n \in 0 .. Len(es) : n = Room(es)
  BY <1>2
<1> DEFINE some == SubSeq(es, 1, n)
<1>4. /\ some \in Seq(Milestones) /\ Len(some) = n
      /\ \A i \in DOMAIN some : i \in DOMAIN es /\ some[i] = es[i]
  BY Prefix
<1>5. events' = events \o some
  BY <1>3 DEF Emit
<1>6. DOMAIN some = 1 .. n /\ DOMAIN es = 1 .. Len(es)
  BY <1>4
<1>. HIDE DEF some
<1>7. /\ events' \in Seq(Milestones) /\ Len(events') = Len(events) + Len(some)
      /\ \A i \in DOMAIN events : i \in DOMAIN events' /\ events'[i] = events[i]
      /\ \A i \in DOMAIN events' : \/ i \in DOMAIN events /\ events'[i] = events[i]
                                   \/ i - Len(events) \in DOMAIN some /\ events'[i] = some[i - Len(events)]
  <2>1. events \in Seq(Milestones) /\ some \in Seq(Milestones)
    BY <1>1, <1>4
  <2>. QED
    BY ONLY <1>5, <2>1, Joined
<1>8. ASSUME NEW j \in DOMAIN es, j <= n PROVE \E i \in DOMAIN events' : events'[i] = es[j]
  <2>1. j \in DOMAIN some /\ some[j] = es[j]
    BY <1>4, <1>6, <1>8
  <2>2. Len(events) + j \in DOMAIN events' /\ events'[Len(events) + j] = some[j]
    BY <1>1, <1>4, <1>5, <2>1
  <2>. QED
    BY <2>1, <2>2
<1>9. ASSUME NEW j \in DOMAIN es, ~(j <= n) PROVE es[j].attempt \in Lost(es)
  BY <1>1, <1>3, <1>6, <1>9 DEF Lost
<1>10. EventsType'
  BY <1>1, <1>2, <1>3, <1>4, <1>7 DEF EventsType
<1>11. Lost(es) \subseteq {es[i].attempt : i \in DOMAIN es}
  BY <1>1, <1>2, <1>6 DEF Lost
<1>12. \A i \in DOMAIN events' : events'[i] \in {events[j] : j \in DOMAIN events} \cup {es[j] : j \in DOMAIN es}
  BY <1>4, <1>7
<1>. QED
  BY <1>7, <1>8, <1>9, <1>10, <1>11, <1>12

LEMMA EmitOne ==
    ASSUME NEW t \in Tokens, NEW kind \in {"profile", "no profile", "connected", "failed"}
    PROVE  /\ Event(t, kind) \in Milestones /\ Event(t, kind).attempt = t /\ Event(t, kind).kind = kind
           /\ <<Event(t, kind)>> \in Seq(Milestones)
           /\ DOMAIN <<Event(t, kind)>> = {1} /\ <<Event(t, kind)>>[1] = Event(t, kind)
<1>1. Event(t, kind) \in Milestones /\ Event(t, kind).attempt = t /\ Event(t, kind).kind = kind
  BY DEF Event, Milestones
<1>. QED
  BY ONLY <1>1, Single

\* Every method of Link returns a record whose token says whether it is idle.
LEMMA LinkKept ==
    ASSUME NEW link \in LinkRecord, Paired(link), NEW t \in Tokens
    PROVE  /\ IssueConnect(link, t) \in LinkRecord /\ Paired(IssueConnect(link, t))
           /\ IssueDisconnect(link) \in LinkRecord /\ Paired(IssueDisconnect(link))
           /\ ReportSuccess(link, t) \in LinkRecord /\ Paired(ReportSuccess(link, t))
           /\ \A r \in Reasons : ReportFailure(link, t, r) \in LinkRecord /\ Paired(ReportFailure(link, t, r))
           /\ \A l \in Reported : /\ AdoptClientReport(link, l.state, l.token) \in LinkRecord
                                  /\ Paired(AdoptClientReport(link, l.state, l.token))
           /\ IdleLink \in LinkRecord /\ Paired(IdleLink)
<1> USE TokenAssumption DEF LinkRecord, LinkStates, Paired
<1>1. IssueConnect(link, t) \in LinkRecord /\ Paired(IssueConnect(link, t))
  BY DEF IssueConnect, Set
<1>2. IssueDisconnect(link) \in LinkRecord /\ Paired(IssueDisconnect(link))
  BY DEF IssueDisconnect, Set
<1>3. ReportSuccess(link, t) \in LinkRecord /\ Paired(ReportSuccess(link, t))
  BY DEF ReportSuccess, Matches, Set
<1>4. \A r \in Reasons : ReportFailure(link, t, r) \in LinkRecord /\ Paired(ReportFailure(link, t, r))
  BY DEF ReportFailure, Matches, Set
<1>5. \A l \in Reported : /\ AdoptClientReport(link, l.state, l.token) \in LinkRecord
                          /\ Paired(AdoptClientReport(link, l.state, l.token))
  BY DEF AdoptClientReport, Set, Reported
<1>6. IdleLink \in LinkRecord /\ Paired(IdleLink)
  BY DEF IdleLink
<1>. QED
  BY <1>1, <1>2, <1>3, <1>4, <1>5, <1>6

LEMMA RecordType ==
    ASSUME Types, NEW p \in Peerings, NEW l \in LinkRecord, Paired(l), record' = [record EXCEPT ![p] = l]
    PROVE  record' \in [Peerings -> LinkRecord] /\ \A q \in Peerings : Paired(record'[q])
  BY DEF Types, ServerType

LEMMA WorkerTypes ==
    ASSUME Types, NEW t \in Tokens, WorkerStep(t)
    PROVE  Types'
<1>1. ASSUME NEW s \in Stages, NEW kind \in {"profile", "no profile", "connected", "failed"},
             Milestone(t, s, Event(t, kind)),
             connected' \in {connected, connected \cup {t}}, cancelled' \in {cancelled, cancelled \cup {t}}
      PROVE  Types'
  <2>1. EventsType'
    BY <1>1, EmitOne, EmitTypes DEF Milestone, Types
  <2>2. WorkersType'
    BY <1>1 DEF Milestone, Types, WorkersType
  <2>. QED
    BY <1>1, <2>1, <2>2, TypeFrame DEF Milestone, Types, pipeVars, sessionVars
<1>2. CASE ProbeDone(t) \/ ProbeCancelled(t)
  BY <1>1, <1>2 DEF ProbeDone, ProbeCancelled, Stages
<1>3. CASE Punched(t) \/ Fails(t)
  BY <1>1, <1>3 DEF Punched, Fails, Stages
<1>4. CASE BeginPunch(t) \/ Stops(t)
  <2>1. WorkersType'
    BY <1>4 DEF BeginPunch, Stops, Types, WorkersType, Stages
  <2>. QED
    BY <1>4, <2>1, TypeFrame DEF BeginPunch, Stops, Types, managerVars, pipeVars, sessionVars
<1>. QED
  BY <1>2, <1>3, <1>4 DEF WorkerStep

----------------------------------------------------------------------------
(* The manager's methods *)

\* The events of the survivors that a stack which cannot be opened fails.
LEMMA FailureEvents ==
    ASSUME Types, NEW c \in Configs, NEW es \in Failures(Survivors(c))
    PROVE  /\ es \in Seq(Milestones)
           /\ \A i \in DOMAIN es : es[i].kind = "failed" /\ \E p \in Peerings : workers[p] # NoToken /\ es[i] = Event(workers[p], "failed")
<1> DEFINE S == Survivors(c)
<1>1. S \in SUBSET Peerings /\ \A p \in S : workers[p] \in Tokens
  BY DEF Survivors, Members, Types, ManagerType, Configs
<1>2. IsFiniteSet(S) /\ Cardinality(S) \in Nat
  BY <1>1, FiniteAssumption, FS_Subset, FS_CardinalityType
<1>3. PICK q \in SetToSeqs(S) : es = [i \in DOMAIN q |-> Event(workers[q[i]], "failed")]
  BY DEF Failures
<1>4. q \in [1 .. Cardinality(S) -> S]
  BY <1>3 DEF SetToSeqs
<1>5. ASSUME NEW i \in 1 .. Cardinality(S)
      PROVE  /\ q[i] \in Peerings /\ workers[q[i]] \in Tokens /\ workers[q[i]] # NoToken
             /\ es[i] = Event(workers[q[i]], "failed") /\ es[i] \in Milestones /\ es[i].kind = "failed"
  <2>1. q[i] \in S /\ i \in DOMAIN q
    BY <1>4
  <2>2. q[i] \in Peerings /\ workers[q[i]] \in Tokens /\ workers[q[i]] # NoToken
    BY <1>1, <2>1, TokenAssumption
  <2>3. es[i] = Event(workers[q[i]], "failed")
    BY <1>3, <2>1
  <2>4. PICK t \in Tokens : t = workers[q[i]]
    BY <2>2
  <2>5. Event(t, "failed") \in Milestones /\ Event(t, "failed").kind = "failed"
    BY EmitOne
  <2>. QED
    BY <2>2, <2>3, <2>4, <2>5
<1>6. DOMAIN es = 1 .. Cardinality(S) /\ es = [i \in 1 .. Cardinality(S) |-> es[i]]
  BY <1>3, <1>4
<1>. QED
  BY <1>2, <1>5, <1>6

ManagerTypes == ManagerType' /\ EventsType' /\ WorkersType'

LEMMA StopTypes ==
    ASSUME Types, NEW ps \in SUBSET Peerings, StopWorkers(ps)
    PROVE  /\ cancelled' \in SUBSET Tokens /\ workers' \in [Peerings -> Tokens \cup {NoToken}]
           /\ \A p \in Peerings : workers'[p] # NoToken => p \notin ps /\ workers'[p] = workers[p] /\ PeeringOf[workers[p]] = p
           /\ Unregistered(ps) \in [Peerings -> Tokens \cup {NoToken}]
  BY DEF StopWorkers, Unregistered, Types, ManagerType, WorkersType

LEMMA ApplyConfigTypes ==
    ASSUME Types, NEW c \in Configs, ApplyConfig(c), connected' = connected
    PROVE  ManagerTypes
<1>1. WorkersType' <=> cancelled' \in SUBSET Tokens
  BY DEF ApplyConfig, Types, WorkersType
<1>2. NoWorkers \in [Peerings -> Tokens \cup {NoToken}] /\ Reattached(c) \in [Peerings -> Tokens \cup {NoToken}]
  BY DEF NoWorkers, Reattached, Types, ManagerType
<1>3. CASE UNCHANGED <<stack, workers, plane, events, cancelled>>
  BY <1>1, <1>3 DEF ApplyConfig, ManagerTypes, Types, ManagerType, EventsType, WorkersType
<1>4. ASSUME NEW ps \in SUBSET Peerings, StopWorkers(ps), plane' \in {NoWorkers, Reattached(c)}, stack' \in BOOLEAN, EventsType'
      PROVE  ManagerTypes
  <2>1. ManagerType'
    BY <1>2, <1>4, StopTypes DEF ApplyConfig, ManagerType
  <2>2. WorkersType'
    BY <1>1, <1>4, StopTypes
  <2>. QED
    BY <1>4, <2>1, <2>2 DEF ManagerTypes
<1>5. UNCHANGED events => EventsType'
  BY TypeFrame
<1>6. ASSUME NEW es \in Failures(Survivors(c)), Emit(es) PROVE EventsType'
  BY <1>6, FailureEvents, EmitTypes DEF Types
<1>7. Survivors(c) \subseteq Peerings
  BY DEF Survivors, Members, Types, ManagerType, Configs
<1>. QED
  BY <1>3, <1>4, <1>5, <1>6, <1>7 DEF ApplyConfig

LEMMA HandleConnectTypes ==
    ASSUME Types, NEW t \in Tokens, HandleConnect(t), connected' = connected
    PROVE  ManagerTypes
<1>1. PeeringOf[t] \in Peerings
  BY AttemptAssumption
<1>2. /\ plane' \in [Peerings -> Tokens \cup {NoToken}] /\ cancelled' \in SUBSET Tokens
      /\ network' = network /\ profiled' = profiled
      /\ workers' = [workers EXCEPT ![PeeringOf[t]] = t] \/ workers' = [workers EXCEPT ![PeeringOf[t]] = NoToken]
      /\ stack' \in BOOLEAN /\ (stage' = stage \/ stage' = [stage EXCEPT ![t] = "probing"])
  BY <1>1 DEF HandleConnect, Unregistered, Types, ManagerType, WorkersType
<1>3. ManagerType'
  BY <1>1, <1>2, TokenAssumption DEF Types, ManagerType
<1>4. WorkersType'
  BY <1>2 DEF Types, WorkersType, Stages
<1>5. EventsType'
  <2>1. UNCHANGED events \/ Emit(<<Event(t, "failed")>>)
    BY DEF HandleConnect
  <2>. QED
    BY <2>1, EmitOne, EmitTypes, TypeFrame DEF Types
<1>. QED
  BY <1>3, <1>4, <1>5 DEF ManagerTypes

LEMMA OtherMethodTypes ==
    ASSUME Types, connected' = connected
    PROVE  /\ \A p \in Peerings : HandleDisconnect(p) => ManagerTypes
           /\ \A t \in Tokens : HandlePeerProfile(t) => ManagerTypes
<1>1. ASSUME NEW p \in Peerings, HandleDisconnect(p) PROVE ManagerTypes
  <2>1. {p} \in SUBSET Peerings /\ StopWorkers({p}) /\ plane' = Unregistered({p}) /\ UNCHANGED <<network, stack, events, stage, profiled>>
    BY <1>1 DEF HandleDisconnect
  <2>2. ManagerType'
    BY <2>1, StopTypes DEF Types, ManagerType
  <2>3. WorkersType'
    BY <2>1, StopTypes DEF Types, WorkersType
  <2>. QED
    BY <2>1, <2>2, <2>3, TypeFrame DEF ManagerTypes
<1>2. ASSUME NEW t \in Tokens, HandlePeerProfile(t) PROVE ManagerTypes
  BY <1>2 DEF HandlePeerProfile, ManagerTypes, Types, ManagerType, WorkersType, EventsType
<1>. QED
  BY <1>1, <1>2

LEMMA HandleTypes ==
    ASSUME Types, NEW m \in DownMessages, Handle(m), connected' = connected
    PROVE  ManagerTypes
  BY DownKinds, ApplyConfigTypes, HandleConnectTypes, OtherMethodTypes DEF Handle

LEMMA ApplyEventTypes ==
    ASSUME Types, NEW e \in Milestones, ApplyEvent(e), UNCHANGED <<network, stack, stage, connected, profiled>>
    PROVE  ManagerType' /\ WorkersType'
<1> DEFINE p == PeeringOf[e.attempt]
<1>1. e.attempt \in Tokens /\ p \in Peerings
  BY AttemptAssumption DEF Milestones
<1>2. CASE plane' = [plane EXCEPT ![p] = IF @ = NoToken THEN e.attempt ELSE @] /\ UNCHANGED <<workers, cancelled>>
  BY <1>1, <1>2 DEF Types, ManagerType, WorkersType
<1>3. CASE StopWorkers({p}) /\ plane' = Unregistered({p})
  <2>1. {p} \in SUBSET Peerings
    BY <1>1
  <2>2. ManagerType'
    BY <1>3, <2>1, StopTypes DEF Types, ManagerType
  <2>. QED
    BY <1>3, <2>1, <2>2, StopTypes DEF Types, WorkersType
<1>4. CASE UNCHANGED <<workers, plane, cancelled>>
  BY <1>4 DEF Types, ManagerType, WorkersType
<1>. QED
  BY <1>2, <1>3, <1>4 DEF ApplyEvent

LEMMA ReportType == Types => StateReport \in Snapshots
<1> SUFFICES ASSUME Types PROVE StateReport \in Snapshots
  OBVIOUS
<1>1. Members(network) \in SUBSET Peerings
  BY DEF Types, ManagerType, Members, Configs
<1>2. \A t \in Tokens : State(t) \in Reported
  BY DEF State, Reported, LinkStates
<1>3. [state |-> "IDLE", token |-> NoToken] \in Reported
  BY DEF Reported, LinkStates
<1>4. \A p \in Members(network) : (IF workers[p] = NoToken THEN [state |-> "IDLE", token |-> NoToken] ELSE State(workers[p])) \in Reported
  BY <1>1, <1>2, <1>3 DEF Types, ManagerType
<1>5. StateReport \in [Members(network) -> Reported]
  BY <1>4 DEF StateReport
<1>. QED
  BY <1>1, <1>5 DEF Snapshots

----------------------------------------------------------------------------
(* The control session and the server *)

\* What is left to read, once the first message was taken.
LEMMA ManagerFrame ==
    ASSUME Types, ManagerTypes
    PROVE  UNCHANGED <<online, config, spent, record, collected, issued>> /\ SessionType' /\ PipeType' => Types'
  BY TypeFrame DEF Types, ManagerTypes, serverVars

LEMMA ReaderTypes ==
    ASSUME Types, Register \/ ReadInitialConfig \/ ReportInitialState \/ Read \/ ReadQuery \/ WriteAnswer
    PROVE  Types'
<1> USE DEF Types
<1>1. CASE Register
  <2>1. [type |-> "config", peers |-> config] \in DownMessages
    BY DEF DownMessages, ServerType
  <2>2. down' \in Seq(DownMessages) /\ down' # <<>> /\ Head(down').type = "config" /\ up' \in Seq(UpMessages)
    BY <1>1, <2>1 DEF Register
  <2>3. SessionType' /\ PipeType'
    BY <1>1, <2>2 DEF Register, SessionType, PipeType
  <2>4. ServerType'
    BY <1>1 DEF Register, ServerType
  <2>. QED
    BY <1>1, <2>3, <2>4, TypeFrame DEF Register, managerVars, workerVars
<1>2. CASE ReadInitialConfig
  <2>1. Head(down) \in DownMessages /\ Tail(down) \in Seq(DownMessages) /\ Head(down).type = "config"
    BY <1>2, HeadAndTail DEF ReadInitialConfig, PipeType
  <2>2. PICK c \in Configs : c = Head(down).peers
    BY <2>1, DownKinds
  <2>3. ManagerTypes
    BY <1>2, <2>2, ApplyConfigTypes DEF ReadInitialConfig
  <2>4. SessionType' /\ PipeType'
    BY <1>2, <2>1 DEF ReadInitialConfig, SessionType, PipeType
  <2>. QED
    BY <1>2, <2>3, <2>4, ManagerFrame DEF ReadInitialConfig, serverVars
<1>3. CASE ReportInitialState
  <2>1. [type |-> "snapshot", links |-> StateReport] \in UpMessages
    BY ReportType DEF UpMessages
  <2>2. SessionType' /\ PipeType'
    BY <1>3, <2>1, Appended DEF ReportInitialState, SessionType, PipeType
  <2>. QED
    BY <1>3, <2>2, TypeFrame DEF ReportInitialState, managerVars
<1>4. CASE Read
  <2>1. Head(down) \in DownMessages /\ Tail(down) \in Seq(DownMessages)
    BY <1>4, HeadAndTail DEF Read, PipeType
  <2>2. PICK m \in DownMessages : m = Head(down)
    BY <2>1
  <2>3. ManagerTypes
    BY <1>4, <2>2, HandleTypes DEF Read
  <2>4. SessionType' /\ PipeType'
    BY <1>4, <2>1 DEF Read, SessionType, PipeType, sessionVars
  <2>. QED
    BY <1>4, <2>3, <2>4, ManagerFrame DEF Read, serverVars
<1>5. CASE ReadQuery
  <2>1. Tail(down) \in Seq(DownMessages)
    BY <1>5, HeadAndTail DEF ReadQuery, PipeType
  <2>2. SessionType' /\ PipeType'
    BY <1>5, <2>1, ReportType DEF ReadQuery, SessionType, PipeType
  <2>. QED
    BY <1>5, <2>2, TypeFrame DEF ReadQuery, managerVars
<1>6. CASE WriteAnswer
  <2>1. [type |-> "snapshot", links |-> answer] \in UpMessages
    BY <1>6 DEF UpMessages, WriteAnswer, SessionType
  <2>2. SessionType' /\ PipeType'
    BY <1>6, <2>1, Appended DEF WriteAnswer, SessionType, PipeType
  <2>. QED
    BY <1>6, <2>2, TypeFrame DEF WriteAnswer, managerVars
<1>. QED
  BY <1>1, <1>2, <1>3, <1>4, <1>5, <1>6

LEMMA LoopTypes ==
    ASSUME Types, TakeEvent \/ WriteEvent
    PROVE  Types'
<1> USE DEF Types
<1>1. CASE TakeEvent
  <2>1. events \in Seq(Milestones) /\ events # <<>> /\ Len(events) <= EventSlots
    BY <1>1 DEF TakeEvent, EventsType
  <2>2. Head(events) \in Milestones /\ Tail(events) \in Seq(Milestones) /\ Len(Tail(events)) = Len(events) - 1
    BY <2>1, HeadAndTail
  <2>3. PICK e \in Milestones : e = Head(events)
    BY <2>2
  <2>4. ManagerType' /\ WorkersType'
    BY <1>1, <2>3, ApplyEventTypes DEF TakeEvent
  <2>5. EventsType'
    <3>1. Len(events) \in Nat /\ EventSlots \in Nat
      BY <2>1, DepthAssumption
    <3>. QED
      BY <1>1, <2>1, <2>2, <3>1 DEF TakeEvent, EventsType
  <2>6. SessionType'
    BY <1>1, <2>2 DEF TakeEvent, SessionType
  <2>. QED
    BY <1>1, <2>4, <2>5, <2>6, TypeFrame DEF TakeEvent, pipeVars
<1>2. CASE WriteEvent
  <2>1. [type |-> "event", event |-> sending] \in UpMessages
    BY <1>2 DEF WriteEvent, UpMessages, SessionType
  <2>2. SessionType' /\ PipeType'
    BY <1>2, <2>1, Appended DEF WriteEvent, SessionType, PipeType
  <2>. QED
    BY <1>2, <2>2, TypeFrame DEF WriteEvent, managerVars
<1>. QED
  BY <1>1, <1>2

\* What the reader of a lost session still has to handle: some of the first lines that were on their way.
LEMMA LinesLeft ==
    ASSUME Types, EndSession
    PROVE  /\ late' \in Seq(DownMessages)
           /\ \E n \in 0 .. Len(down) : late' = late \o SubSeq(down, 1, n)
           /\ \A i \in DOMAIN late : i \in DOMAIN late' /\ late'[i] = late[i]
           /\ \A i \in DOMAIN late' : \/ i \in DOMAIN late /\ late'[i] = late[i]
                                      \/ i - Len(late) \in DOMAIN down /\ late'[i] = down[i - Len(late)]
           /\ up' \in Seq(UpMessages)
           /\ \A i \in DOMAIN up' : i \in DOMAIN up /\ up'[i] = up[i]
<1>1. down \in Seq(DownMessages) /\ up \in Seq(UpMessages) /\ late \in Seq(DownMessages)
  BY DEF Types, PipeType, SessionType
<1>2. PICK n \in 0 .. Len(down) : late' = late \o SubSeq(down, 1, IF session = "up" THEN n ELSE 0)
  BY DEF EndSession
<1>3. PICK m \in 0 .. Len(down) : m = (IF session = "up" THEN n ELSE 0)
  BY <1>1
<1> DEFINE some == SubSeq(down, 1, m)
<1>4. some \in Seq(DownMessages) /\ \A i \in DOMAIN some : i \in DOMAIN down /\ some[i] = down[i]
  BY <1>1, Prefix
<1>5. late' = late \o some
  BY <1>2, <1>3
<1>6. PICK k \in 0 .. Len(up) : up' = SubSeq(up, 1, k)
  BY DEF EndSession
<1>7. up' \in Seq(UpMessages) /\ \A i \in DOMAIN up' : i \in DOMAIN up /\ up'[i] = up[i]
  BY <1>1, <1>6, Prefix
<1>8. \E j \in 0 .. Len(down) : late' = late \o SubSeq(down, 1, j)
  BY <1>5
<1>. HIDE DEF some
<1>9. /\ late' \in Seq(DownMessages)
      /\ \A i \in DOMAIN late : i \in DOMAIN late' /\ late'[i] = late[i]
      /\ \A i \in DOMAIN late' : \/ i \in DOMAIN late /\ late'[i] = late[i]
                                 \/ i - Len(late) \in DOMAIN some /\ late'[i] = some[i - Len(late)]
  <2>1. some \in Seq(DownMessages)
    BY <1>4
  <2>. QED
    BY ONLY <1>1, <1>5, <2>1, Joined
<1>. QED
  BY <1>4, <1>7, <1>8, <1>9

LEMMA EndingTypes ==
    ASSUME Types, EndSession \/ LateRead \/ Exit
    PROVE  Types'
<1> USE DEF Types
<1>1. CASE EndSession
  <2>1. late' \in Seq(DownMessages) /\ up' \in Seq(UpMessages)
    BY <1>1, LinesLeft
  <2>2. session' = "down" /\ sending' = NoEvent /\ answer' = NoAnswer /\ down' = <<>>
    BY <1>1 DEF EndSession
  <2>3. SessionType'
    BY <2>1, <2>2 DEF SessionType
  <2>4. PipeType'
    BY <2>1, <2>2 DEF PipeType
  <2>. QED
    BY <1>1, <2>3, <2>4, TypeFrame DEF EndSession, managerVars
<1>2. CASE LateRead
  <2>1. Head(late) \in DownMessages /\ Tail(late) \in Seq(DownMessages)
    BY <1>2, HeadAndTail DEF LateRead, SessionType
  <2>2. PICK m \in DownMessages : m = Head(late)
    BY <2>1
  <2>3. ManagerTypes
    BY <1>2, <2>2, HandleTypes DEF LateRead
  <2>4. SessionType' /\ PipeType'
    BY <1>2, <2>1 DEF LateRead, SessionType, PipeType, pipeVars
  <2>. QED
    BY <1>2, <2>3, <2>4, ManagerFrame DEF LateRead, serverVars
<1>3. CASE Exit
  <2>1. ManagerType'
    BY <1>3, StopTypes DEF Exit, ManagerType, NoWorkers
  <2>2. WorkersType'
    BY <1>3, StopTypes DEF Exit, WorkersType, Stages
  <2>3. EventsType'
    BY <1>3, DepthAssumption DEF Exit, EventsType
  <2>4. SessionType' /\ PipeType'
    BY <1>3 DEF Exit, SessionType, PipeType
  <2>. QED
    BY <1>3, <2>1, <2>2, <2>3, <2>4, TypeFrame DEF Exit
<1>. QED
  BY <1>1, <1>2, <1>3

\* What the server sends comes last, or is lost.
LEMMA SendTypes ==
    ASSUME Types, NEW m \in DownMessages, Send(m)
    PROVE  /\ down' \in Seq(DownMessages)
           /\ \A i \in DOMAIN down : i \in DOMAIN down' /\ down'[i] = down[i]
           /\ \A i \in DOMAIN down' : \/ i \in DOMAIN down /\ down'[i] = down[i]
                                      \/ Linked /\ i = Len(down) + 1 /\ down'[i] = m
           /\ Linked => Len(down) + 1 \in DOMAIN down' /\ down'[Len(down) + 1] = m
           /\ UNCHANGED <<session, up>> => PipeType'
<1>1. down \in Seq(DownMessages)
  BY DEF Types, PipeType
<1>2. CASE ~Linked
  BY <1>1, <1>2 DEF Send, Types, PipeType
<1>3. CASE Linked
  <2>1. down' = Append(down, m)
    BY <1>3 DEF Send
  <2>2. /\ down' \in Seq(DownMessages) /\ Len(down') = Len(down) + 1
        /\ \A i \in DOMAIN down : i \in DOMAIN down' /\ down'[i] = down[i]
        /\ \A i \in DOMAIN down' : \/ i \in DOMAIN down /\ down'[i] = down[i]
                                   \/ i = Len(down) + 1 /\ down'[i] = m
    BY ONLY <1>1, <2>1, Appended
  <2>3. Len(down) + 1 \in DOMAIN down' /\ down'[Len(down) + 1] = m
    BY <1>1, <2>1
  <2>4. down # <<>> => down' # <<>> /\ Head(down') = Head(down)
    BY <1>1, <2>1
  <2>5. UNCHANGED <<session, up>> => PipeType'
    BY <2>2, <2>4 DEF Types, PipeType
  <2>. QED
    BY <1>3, <2>2, <2>3, <2>5
<1>. QED
  BY <1>2, <1>3

LEMMA SetConfigTypes ==
    ASSUME Types, NEW c \in Configs, SetConfig(c)
    PROVE  Types'
<1>1. [type |-> "config", peers |-> c] \in DownMessages
  BY DEF DownMessages
<1>2. PipeType'
  <2>1. Send([type |-> "config", peers |-> c]) \/ UNCHANGED down
    BY DEF SetConfig
  <2>. QED
    BY <1>1, <2>1, SendTypes, TypeFrame DEF SetConfig, sessionVars
<1>3. ServerType'
  BY LinkKept DEF SetConfig, Types, ServerType, IdleLink, LinkRecord, LinkStates, Paired
<1>. QED
  BY <1>2, <1>3, TypeFrame DEF SetConfig, Types, managerVars

LEMMA CommandTypes ==
    ASSUME Types
    PROVE  /\ \A t \in Tokens : ConnectLink(t) \/ SendPeerProfile(t) => Types'
           /\ \A p \in Peerings : DisconnectLink(p) => Types'
           /\ Query => Types'
<1> USE DEF Types
<1>1. ASSUME NEW t \in Tokens, ConnectLink(t) PROVE Types'
  <2> DEFINE p == PeeringOf[t]
             m == [type |-> "connect", attempt |-> t]
  <2>1. m \in DownMessages /\ p \in Peerings /\ Send(m)
    BY <1>1, AttemptAssumption DEF DownMessages, ConnectLink
  <2>. HIDE DEF m
  <2>2. PipeType'
    BY <1>1, <2>1, SendTypes DEF ConnectLink, sessionVars
  <2>3. record' = [record EXCEPT ![p] = IssueConnect(record[p], t)] /\ record[p] \in LinkRecord /\ Paired(record[p])
    BY <1>1, <2>1 DEF ConnectLink, ServerType
  <2>4. IssueConnect(record[p], t) \in LinkRecord /\ Paired(IssueConnect(record[p], t))
    BY <2>3, LinkKept
  <2>5. record' \in [Peerings -> LinkRecord] /\ \A q \in Peerings : Paired(record'[q])
    BY <2>1, <2>3, <2>4, RecordType
  <2>6. ServerType'
    BY <1>1, <2>5 DEF ConnectLink, ServerType
  <2>. QED
    BY <1>1, <2>2, <2>6, TypeFrame DEF ConnectLink, managerVars
<1>2. ASSUME NEW t \in Tokens, SendPeerProfile(t) PROVE Types'
  <2> DEFINE m == [type |-> "peer_profile", attempt |-> t]
  <2>1. m \in DownMessages /\ Send(m)
    BY <1>2 DEF DownMessages, SendPeerProfile
  <2>. HIDE DEF m
  <2>2. PipeType'
    BY <1>2, <2>1, SendTypes DEF SendPeerProfile, sessionVars
  <2>3. ServerType'
    BY <1>2 DEF SendPeerProfile, ServerType
  <2>. QED
    BY <1>2, <2>2, <2>3, TypeFrame DEF SendPeerProfile, managerVars
<1>3. ASSUME NEW p \in Peerings, DisconnectLink(p) PROVE Types'
  <2> DEFINE m == [type |-> "disconnect", peering |-> p]
  <2>1. m \in DownMessages /\ Send(m)
    BY <1>3 DEF DownMessages, DisconnectLink
  <2>. HIDE DEF m
  <2>2. PipeType'
    BY <1>3, <2>1, SendTypes DEF DisconnectLink, sessionVars
  <2>3. record' = [record EXCEPT ![p] = IssueDisconnect(record[p])] /\ record[p] \in LinkRecord /\ Paired(record[p])
    BY <1>3 DEF DisconnectLink, ServerType
  <2>4. IssueDisconnect(record[p]) \in LinkRecord /\ Paired(IssueDisconnect(record[p]))
    BY <2>3 DEF IssueDisconnect, Set, LinkRecord, LinkStates, Paired
  <2>5. record' \in [Peerings -> LinkRecord] /\ \A q \in Peerings : Paired(record'[q])
    BY <2>3, <2>4, RecordType
  <2>6. ServerType'
    BY <1>3, <2>5 DEF DisconnectLink, ServerType
  <2>. QED
    BY <1>3, <2>2, <2>6, TypeFrame DEF DisconnectLink, managerVars
<1>4. ASSUME Query PROVE Types'
  <2> DEFINE m == [type |-> "query"]
  <2>1. m \in DownMessages /\ Send(m)
    BY <1>4 DEF DownMessages, Query
  <2>. HIDE DEF m
  <2>2. PipeType'
    BY <1>4, <2>1, SendTypes DEF Query, sessionVars
  <2>. QED
    BY <1>4, <2>2, TypeFrame DEF Query, managerVars
<1>. QED
  BY <1>1, <1>2, <1>3, <1>4

LEMMA ReportTypes ==
    ASSUME Types
    PROVE  /\ \A p \in Peerings : PeerReports(p) => Types'
           /\ ReadSnapshot \/ ReadEvent \/ ServerEnds => Types'
<1> USE DEF Types
<1>0. \A p \in Peerings : record[p] \in LinkRecord /\ Paired(record[p])
  BY DEF ServerType
<1>1. ASSUME NEW p \in Peerings, PeerReports(p) PROVE Types'
  <2>1. \E l \in LinkRecord : Paired(l) /\ record' = [record EXCEPT ![p] = l]
    <3>1. PICK t \in Tokens : \/ record' = [record EXCEPT ![p] = ReportSuccess(record[p], t)]
                             \/ \E r \in Reasons : record' = [record EXCEPT ![p] = ReportFailure(record[p], t, r)]
      BY <1>1 DEF PeerReports, ServerType
    <3>. QED
      BY <1>0, <3>1, LinkKept
  <2>2. record' \in [Peerings -> LinkRecord] /\ \A q \in Peerings : Paired(record'[q])
    BY <2>1, RecordType
  <2>3. ServerType'
    BY <1>1, <2>2 DEF PeerReports, ServerType
  <2>. QED
    BY <1>1, <2>3, TypeFrame DEF PeerReports, managerVars, pipeVars, sessionVars
<1>2. ASSUME ReadSnapshot PROVE Types'
  <2>1. Head(up) \in UpMessages /\ Tail(up) \in Seq(UpMessages) /\ Head(up).type = "snapshot"
    BY <1>2, HeadAndTail DEF ReadSnapshot, Reads, PipeType
  <2>2. PICK links \in Snapshots : links = Head(up).links
    BY <2>1, UpKinds
  <2>3. \A p \in DOMAIN links : links[p] \in Reported
    BY DEF Snapshots
  <2>4. PipeType'
    BY <1>2, <2>1 DEF ReadSnapshot, Reads, PipeType, sessionVars
  <2>5. record' = [p \in Peerings |-> IF p \in DOMAIN links \cap Members(config)
                                     THEN AdoptClientReport(record[p], links[p].state, links[p].token)
                                     ELSE record[p]]
    BY <1>2, <2>2 DEF ReadSnapshot
  <2>6. ASSUME NEW p \in Peerings, NEW t \in Tokens PROVE record'[p] \in LinkRecord /\ Paired(record'[p])
    BY <1>0, <2>3, <2>5, LinkKept
  <2>7. CASE Tokens = {}
    <3>1. \A p \in Peerings : \A l \in Reported : /\ AdoptClientReport(record[p], l.state, l.token) \in LinkRecord
                                                  /\ Paired(AdoptClientReport(record[p], l.state, l.token))
      BY <1>0 DEF AdoptClientReport, Set, Reported, LinkRecord, LinkStates, Paired
    <3>2. \A p \in Peerings : record'[p] \in LinkRecord /\ Paired(record'[p])
      BY <1>0, <2>3, <2>5, <3>1
    <3>3. ServerType'
      BY <1>2, <2>5, <3>2 DEF ReadSnapshot, ServerType
    <3>. QED
      BY <1>2, <2>4, <3>3, TypeFrame DEF ReadSnapshot, managerVars
  <2>8. CASE Tokens # {}
    <3>1. ServerType'
      BY <1>2, <2>5, <2>6, <2>8 DEF ReadSnapshot, ServerType
    <3>. QED
      BY <1>2, <2>4, <3>1, TypeFrame DEF ReadSnapshot, managerVars
  <2>. QED
    BY <2>7, <2>8
<1>3. ASSUME ReadEvent PROVE Types'
  <2>1. Head(up) \in UpMessages /\ Tail(up) \in Seq(UpMessages) /\ Head(up).type = "event" /\ up' = Tail(up)
    BY <1>3, HeadAndTail DEF ReadEvent, Reads, PipeType
  <2>2. PICK e \in Milestones : e = Head(up).event
    BY <2>1, UpKinds
  <2>3. PICK t \in Tokens, p \in Peerings : t = e.attempt /\ p = PeeringOf[t]
    BY AttemptAssumption DEF Milestones
  <2>4. PipeType'
    <3>1. CASE UNCHANGED down
      BY <1>3, <2>1, <3>1 DEF ReadEvent, PipeType, sessionVars
    <3>2. CASE Send([type |-> "error"])
      <4>1. [type |-> "error"] \in DownMessages
        BY DEF DownMessages
      <4>2. down' \in Seq(DownMessages) /\ (down # <<>> => down' # <<>> /\ Head(down') = Head(down))
        <5>1. down \in Seq(DownMessages)
          BY DEF PipeType
        <5>. QED
          BY <3>2, <4>1, <5>1 DEF Send
      <4>. QED
        BY <1>3, <2>1, <4>2 DEF ReadEvent, PipeType, sessionVars
    <3>. QED
      BY <1>3, <3>1, <3>2 DEF ReadEvent
  <2>5. online' \in BOOLEAN /\ collected' \in SUBSET Tokens
    BY <1>3, <2>2, <2>3 DEF ReadEvent, ServerType
  <2>6. UNCHANGED record \/ \E l \in LinkRecord : Paired(l) /\ record' = [record EXCEPT ![p] = l]
    <3>1. \/ UNCHANGED record
          \/ record' = [record EXCEPT ![p] = ReportSuccess(record[p], t)]
          \/ \E r \in Reasons : record' = [record EXCEPT ![p] = ReportFailure(record[p], t, r)]
      BY <1>3, <2>2, <2>3 DEF ReadEvent, ServerType
    <3>. QED
      BY <1>0, <3>1, LinkKept
  <2>7. record' \in [Peerings -> LinkRecord] /\ \A q \in Peerings : Paired(record'[q])
    BY <2>6, RecordType DEF ServerType
  <2>8. ServerType'
    BY <1>3, <2>5, <2>7 DEF ReadEvent, ServerType
  <2>. QED
    BY <1>3, <2>4, <2>8, TypeFrame DEF ReadEvent, managerVars
<1>4. ASSUME ServerEnds PROVE Types'
  <2>1. PipeType'
    BY <1>4 DEF ServerEnds, PipeType, sessionVars
  <2>2. ServerType'
    BY <1>4 DEF ServerEnds, ServerType
  <2>. QED
    BY <1>4, <2>1, <2>2, TypeFrame DEF ServerEnds, managerVars
<1>. QED
  BY <1>1, <1>2, <1>3, <1>4

LEMMA InitTypes == Init => Types
<1> SUFFICES ASSUME Init PROVE Types
  OBVIOUS
<1>1. ManagerType
  BY DEF Init, ManagerType, NoWorkers, Configs
<1>3. EventsType
  BY DepthAssumption DEF Init, EventsType
<1>4. WorkersType
  BY DEF Init, WorkersType, Stages
<1>5. SessionType /\ PipeType
  BY DEF Init, SessionType, PipeType
<1>2. ServerType
  BY DEF Init, ServerType, Configs, IdleLink, LinkRecord, LinkStates, Paired
<1>. QED
  BY <1>1, <1>2, <1>3, <1>4, <1>5 DEF Types

LEMMA TypesStep == Types /\ [Next]_vars => Types'
<1> SUFFICES ASSUME Types, [Next]_vars PROVE Types'
  OBVIOUS
<1>1. ASSUME NEW t \in Tokens, WorkerStep(t) PROVE Types'
  BY <1>1, WorkerTypes
<1>2. CASE SessionStep
  BY <1>2, ReaderTypes, LoopTypes, EndingTypes DEF SessionStep
<1>3. CASE ServerStep
  BY <1>3, SetConfigTypes, CommandTypes, ReportTypes DEF ServerStep, Configs
<1>4. CASE UNCHANGED vars
  BY <1>4, TypeFrame DEF vars, managerVars, pipeVars, sessionVars, Types
<1>. QED
  BY <1>1, <1>2, <1>3, <1>4 DEF Next

LEMMA TypesHold == Spec => []Types
  BY InitTypes, TypesStep, PTL DEF Spec

----------------------------------------------------------------------------
(* Attempts are issued by the server, and a worker that runs was told of one *)

WorkersIssued ==
    /\ connected \subseteq issued /\ cancelled \subseteq issued /\ profiled \subseteq issued
    /\ \A t \in Tokens : stage[t] # "none" => t \in issued
    /\ \A t \in connected : stage[t] # "none"
    /\ \A p \in Peerings : workers[p] # NoToken => stage[workers[p]] # "none"
EventsIssued == \A i \in DOMAIN events : events[i].attempt \in issued
ReportsIssued == /\ sending # NoEvent => sending.attempt \in issued
                 /\ \A i \in DOMAIN up : up[i].type = "event" => up[i].event.attempt \in issued
                 /\ collected \subseteq issued
LinesIssued  == /\ \A i \in DOMAIN down : down[i].type = "connect" => down[i].attempt \in issued
                /\ \A i \in DOMAIN late : late[i].type = "connect" => late[i].attempt \in issued

IssuedInv == Types /\ WorkersIssued /\ EventsIssued /\ ReportsIssued /\ LinesIssued

LEMMA IssuedFrame ==
    ASSUME IssuedInv, issued \subseteq issued'
    PROVE  /\ UNCHANGED <<connected, cancelled, profiled, stage, workers>> => WorkersIssued'
           /\ UNCHANGED events => EventsIssued'
           /\ UNCHANGED <<sending, up, collected>> => ReportsIssued'
           /\ UNCHANGED <<down, late>> => LinesIssued'
<1>1. UNCHANGED <<connected, cancelled, profiled, stage, workers>> => WorkersIssued'
  BY DEF IssuedInv, WorkersIssued
<1>2. UNCHANGED events => EventsIssued'
  BY DEF IssuedInv, EventsIssued
<1>3. UNCHANGED <<sending, up, collected>> => ReportsIssued'
  BY DEF IssuedInv, ReportsIssued
<1>4. UNCHANGED <<down, late>> => LinesIssued'
  BY DEF IssuedInv, LinesIssued
<1>. QED
  BY <1>1, <1>2, <1>3, <1>4

\* Workers only leave, and only those that left are stopped.
Leaving == /\ \A p \in Peerings : workers'[p] \in {workers[p], NoToken}
           /\ \A t \in cancelled' : t \in cancelled \/ \E q \in Peerings : t = workers[q] /\ t # NoToken /\ workers'[q] = NoToken

LEMMA StopLeaves ==
    ASSUME Types, NEW ps \in SUBSET Peerings, StopWorkers(ps)
    PROVE  Leaving
  BY DEF StopWorkers, Leaving, Types, ManagerType

LEMMA ApplyConfigShape ==
    ASSUME Types, NEW c \in Configs, ApplyConfig(c)
    PROVE  /\ Leaving /\ UNCHANGED <<stage, profiled>>
           /\ UNCHANGED events \/ \E es \in Failures(Survivors(c)) : Emit(es)
<1>1. Survivors(c) \in SUBSET Peerings /\ Peerings \ Survivors(c) \in SUBSET Peerings /\ Peerings \in SUBSET Peerings
  BY DEF Survivors, Members, Types, ManagerType, Configs
<1>2. CASE UNCHANGED <<workers, events, cancelled>>
  BY <1>2 DEF ApplyConfig, Leaving
<1>3. ASSUME StopWorkers(Peerings) \/ StopWorkers(Peerings \ Survivors(c)) PROVE Leaving
  BY <1>1, <1>3, StopLeaves
<1>. QED
  BY <1>2, <1>3 DEF ApplyConfig

LEMMA LeavingIssued ==
    ASSUME IssuedInv, Leaving, UNCHANGED <<stage, profiled, connected>>, issued' = issued
    PROVE  WorkersIssued'
<1>1. \A q \in Peerings : workers[q] # NoToken => workers[q] \in Tokens /\ workers[q] \in issued
  BY DEF IssuedInv, WorkersIssued, Types, ManagerType
<1>2. cancelled' \subseteq issued'
  BY <1>1 DEF Leaving, IssuedInv, WorkersIssued
<1>. QED
  BY <1>2 DEF Leaving, IssuedInv, WorkersIssued

LEMMA EmitIssued ==
    ASSUME IssuedInv, issued' = issued, NEW es \in Seq(Milestones), Emit(es), \A i \in DOMAIN es : es[i].attempt \in issued
    PROVE  EventsIssued'
<1>1. \A i \in DOMAIN events' : events'[i] \in {events[j] : j \in DOMAIN events} \cup {es[j] : j \in DOMAIN es}
  BY EmitTypes DEF IssuedInv, Types
<1>. QED
  BY <1>1 DEF IssuedInv, EventsIssued

LEMMA FailuresIssued ==
    ASSUME IssuedInv, issued' = issued, NEW c \in Configs, NEW es \in Failures(Survivors(c)), Emit(es)
    PROVE  EventsIssued'
<1>1. es \in Seq(Milestones)
  BY FailureEvents DEF IssuedInv
<1>2. ASSUME NEW i \in DOMAIN es PROVE es[i].attempt \in issued
  <2>1. PICK p \in Peerings : workers[p] # NoToken /\ es[i] = Event(workers[p], "failed")
    BY FailureEvents DEF IssuedInv
  <2>2. PICK t \in Tokens : t = workers[p]
    BY <2>1 DEF IssuedInv, Types, ManagerType
  <2>3. Event(t, "failed").attempt = t
    BY EmitOne
  <2>. QED
    BY <2>1, <2>2, <2>3 DEF IssuedInv, WorkersIssued
<1>. QED
  BY <1>1, <1>2, EmitIssued

LEMMA HandleIssued ==
    ASSUME IssuedInv, NEW m \in DownMessages, Handle(m), UNCHANGED <<connected, issued>>,
           m.type = "connect" => m.attempt \in issued
    PROVE  WorkersIssued' /\ EventsIssued'
<1>0. Types
  BY DEF IssuedInv
<1>1. ASSUME NEW c \in Configs, ApplyConfig(c) PROVE WorkersIssued' /\ EventsIssued'
  <2>1. Leaving /\ UNCHANGED <<stage, profiled>> /\ (UNCHANGED events \/ \E es \in Failures(Survivors(c)) : Emit(es))
    BY <1>0, <1>1, ApplyConfigShape
  <2>. QED
    BY <2>1, LeavingIssued, FailuresIssued, IssuedFrame
<1>2. ASSUME NEW t \in Tokens, t \in issued, HandleConnect(t) PROVE WorkersIssued' /\ EventsIssued'
  <2>1. PeeringOf[t] \in Peerings
    BY AttemptAssumption
  <2>2. UNCHANGED events \/ Emit(<<Event(t, "failed")>>)
    BY <1>2 DEF HandleConnect
  <2>3. EventsIssued'
    <3>1. Event(t, "failed").attempt = t /\ DOMAIN <<Event(t, "failed")>> = {1} /\ <<Event(t, "failed")>>[1] = Event(t, "failed")
          /\ <<Event(t, "failed")>> \in Seq(Milestones)
      BY EmitOne
    <3>2. \A i \in DOMAIN <<Event(t, "failed")>> : <<Event(t, "failed")>>[i].attempt \in issued
      BY <1>2, <3>1
    <3>. QED
      BY <2>2, <3>1, <3>2, EmitIssued, IssuedFrame
  <2>4. \A q \in Peerings : workers[q] # NoToken => workers[q] \in Tokens /\ workers[q] \in issued
    BY DEF IssuedInv, WorkersIssued, Types, ManagerType
  <2>5. cancelled' \subseteq issued'
    BY <1>2, <2>1, <2>4 DEF HandleConnect, IssuedInv, WorkersIssued
  <2>6. \/ stage' = stage /\ workers' = [workers EXCEPT ![PeeringOf[t]] = NoToken]
        \/ stage' = [stage EXCEPT ![t] = "probing"] /\ workers' = [workers EXCEPT ![PeeringOf[t]] = t]
    BY <1>2 DEF HandleConnect
  <2>7. WorkersIssued'
    BY <1>2, <2>1, <2>5, <2>6, TokenAssumption DEF HandleConnect, IssuedInv, WorkersIssued, Types, ManagerType, WorkersType
  <2>. QED
    BY <2>3, <2>7
<1>3. ASSUME NEW p \in Peerings, HandleDisconnect(p) PROVE WorkersIssued' /\ EventsIssued'
  <2>1. {p} \in SUBSET Peerings /\ StopWorkers({p}) /\ UNCHANGED <<events, stage, profiled>>
    BY <1>3 DEF HandleDisconnect
  <2>2. Leaving
    BY <1>0, <2>1, StopLeaves
  <2>. QED
    BY <2>1, <2>2, LeavingIssued, IssuedFrame
<1>4. ASSUME NEW t \in Tokens, HandlePeerProfile(t) PROVE WorkersIssued' /\ EventsIssued'
  <2>1. PeeringOf[t] \in Peerings
    BY AttemptAssumption
  <2>2. profiled' \subseteq issued'
    BY <1>4, <2>1, TokenAssumption DEF HandlePeerProfile, IssuedInv, WorkersIssued, Types, ManagerType
  <2>. QED
    BY <1>4, <2>2, IssuedFrame DEF HandlePeerProfile, IssuedInv, WorkersIssued
<1>. QED
  BY <1>1, <1>2, <1>3, <1>4, DownKinds DEF Handle

LEMMA WorkerIssued ==
    ASSUME IssuedInv, NEW t \in Tokens, WorkerStep(t)
    PROVE  IssuedInv'
<1>0. Types /\ Types' /\ UNCHANGED <<workers, sessionVars, pipeVars, serverVars>>
  BY WorkerTypes DEF IssuedInv, WorkerStep, ProbeDone, ProbeCancelled, BeginPunch, Punched, Fails, Stops, Milestone, managerVars
<1>1. ReportsIssued' /\ LinesIssued'
  BY <1>0, IssuedFrame DEF sessionVars, pipeVars, serverVars
<1>2. stage[t] # "none" /\ t \in issued /\ issued' = issued
  BY <1>0 DEF WorkerStep, ProbeDone, ProbeCancelled, BeginPunch, Punched, Fails, Stops, IssuedInv, WorkersIssued, serverVars
<1>3. /\ \E s \in Stages \ {"none"} : stage' = [stage EXCEPT ![t] = s]
      /\ connected' \in {connected, connected \cup {t}} /\ cancelled' \in {cancelled, cancelled \cup {t}}
      /\ profiled' \in {profiled, profiled \ {t}}
  BY DEF WorkerStep, ProbeDone, ProbeCancelled, BeginPunch, Punched, Fails, Stops, Milestone, Stages
<1>4. WorkersIssued'
  BY <1>0, <1>2, <1>3 DEF IssuedInv, WorkersIssued, Types, WorkersType
<1>5. UNCHANGED events \/ \E kind \in {"profile", "no profile", "connected", "failed"} : Emit(<<Event(t, kind)>>)
  BY DEF WorkerStep, ProbeDone, ProbeCancelled, BeginPunch, Punched, Fails, Stops, Milestone, managerVars
<1>6. ASSUME NEW kind \in {"profile", "no profile", "connected", "failed"}, Emit(<<Event(t, kind)>>) PROVE EventsIssued'
  <2>1. /\ Event(t, kind).attempt = t /\ <<Event(t, kind)>> \in Seq(Milestones)
        /\ DOMAIN <<Event(t, kind)>> = {1} /\ <<Event(t, kind)>>[1] = Event(t, kind)
    BY EmitOne
  <2>2. \A i \in DOMAIN <<Event(t, kind)>> : <<Event(t, kind)>>[i].attempt \in issued
    BY <1>2, <2>1
  <2>. QED
    BY <1>2, <1>6, <2>1, <2>2, EmitIssued
<1>. QED
  BY <1>0, <1>1, <1>2, <1>4, <1>5, <1>6, IssuedFrame DEF IssuedInv

LEMMA ReaderIssued ==
    ASSUME IssuedInv, Register \/ ReadInitialConfig \/ ReportInitialState \/ Read \/ ReadQuery \/ WriteAnswer
    PROVE  IssuedInv'
<1>0. Types /\ Types'
  BY ReaderTypes DEF IssuedInv
<1>1. CASE Register
  <2>1. UNCHANGED <<issued, collected, sending, late, managerVars, workerVars>> /\ up' = <<>>
        /\ down' = <<[type |-> "config", peers |-> config]>>
    BY <1>1 DEF Register
  <2>2. LinesIssued'
    BY <2>1 DEF IssuedInv, LinesIssued
  <2>3. ReportsIssued'
    BY <2>1 DEF IssuedInv, ReportsIssued
  <2>. QED
    BY <1>0, <2>1, <2>2, <2>3, IssuedFrame DEF IssuedInv, managerVars, workerVars
<1>2. CASE ReadInitialConfig \/ Read
  <2>1. /\ down # <<>> /\ down' = Tail(down) /\ UNCHANGED <<issued, connected, sending, up, late, collected>>
        /\ \/ ApplyConfig(Head(down).peers) /\ session = "registered"
           \/ Handle(Head(down))
    BY <1>2 DEF ReadInitialConfig, Read, sessionVars, serverVars
  <2>2. Head(down) \in DownMessages /\ (session = "registered" => Head(down).type = "config")
    BY <1>0, <2>1, HeadAndTail DEF Types, PipeType
  <2>3. PICK m \in DownMessages : m = Head(down)
    BY <2>2
  <2>4. Handle(m)
    BY <2>1, <2>2, <2>3 DEF Handle
  <2>5. /\ Head(down) = down[1] /\ 1 \in DOMAIN down
        /\ \A i \in DOMAIN Tail(down) : i + 1 \in DOMAIN down /\ Tail(down)[i] = down[i + 1]
    BY <1>0, <2>1, HeadAndTail DEF Types, PipeType
  <2>6. m.type = "connect" => m.attempt \in issued
    BY <2>3, <2>5 DEF IssuedInv, LinesIssued
  <2>7. LinesIssued'
    BY <2>1, <2>5 DEF IssuedInv, LinesIssued
  <2>. QED
    BY <1>0, <2>1, <2>4, <2>6, <2>7, HandleIssued, IssuedFrame DEF IssuedInv
<1>3. CASE ReadQuery
  <2>1. /\ \A i \in DOMAIN Tail(down) : i + 1 \in DOMAIN down /\ Tail(down)[i] = down[i + 1]
    BY <1>0, <1>3, HeadAndTail DEF Types, PipeType, ReadQuery
  <2>2. LinesIssued'
    BY <1>3, <2>1 DEF IssuedInv, LinesIssued, ReadQuery, serverVars
  <2>. QED
    BY <1>0, <1>3, <2>2, IssuedFrame DEF IssuedInv, managerVars, workerVars, serverVars, ReadQuery
<1>4. CASE ReportInitialState \/ WriteAnswer
  <2>1. \E links : up' = Append(up, [type |-> "snapshot", links |-> links]) /\ [type |-> "snapshot", links |-> links] \in UpMessages
    <3>1. StateReport \in Snapshots /\ (answer # NoAnswer => answer \in Snapshots)
      BY <1>0, ReportType DEF Types, SessionType
    <3>2. \/ up' = Append(up, [type |-> "snapshot", links |-> StateReport])
          \/ answer # NoAnswer /\ up' = Append(up, [type |-> "snapshot", links |-> answer])
      BY <1>4 DEF ReportInitialState, WriteAnswer
    <3>3. \A l \in Snapshots : [type |-> "snapshot", links |-> l] \in UpMessages
      BY DEF UpMessages
    <3>. QED
      BY <3>1, <3>2, <3>3
  <2>2. PICK l \in UpMessages : l.type = "snapshot" /\ up' = Append(up, l)
    BY <2>1
  <2>3. \A i \in DOMAIN up' : \/ i \in DOMAIN up /\ up'[i] = up[i]
                              \/ i = Len(up) + 1 /\ up'[i] = l
    BY <1>0, <2>2, Appended DEF Types, PipeType
  <2>4. UNCHANGED <<managerVars, workerVars, serverVars, sending, late, down>>
    BY <1>4 DEF ReportInitialState, WriteAnswer
  <2>5. ReportsIssued'
    BY <2>2, <2>3, <2>4 DEF IssuedInv, ReportsIssued, serverVars
  <2>. QED
    BY <1>0, <2>4, <2>5, IssuedFrame DEF IssuedInv, managerVars, workerVars, serverVars
<1>. QED
  BY <1>1, <1>2, <1>3, <1>4

\* What an event changes is about the attempt it names.
LEMMA ApplyEventShape ==
    ASSUME Types, NEW e \in Milestones, ApplyEvent(e)
    PROVE  Leaving
<1>1. PeeringOf[e.attempt] \in Peerings
  BY AttemptAssumption DEF Milestones
<1>2. CASE UNCHANGED <<workers, cancelled>>
  BY <1>2 DEF Leaving
<1>3. CASE StopWorkers({PeeringOf[e.attempt]})
  BY <1>1, <1>3, StopLeaves
<1>. QED
  BY <1>2, <1>3 DEF ApplyEvent

LEMMA LoopIssued ==
    ASSUME IssuedInv, TakeEvent \/ WriteEvent
    PROVE  IssuedInv'
<1>0. Types /\ Types'
  BY LoopTypes DEF IssuedInv
<1>1. CASE TakeEvent
  <2>1. /\ Head(events) \in Milestones /\ Head(events) = events[1] /\ 1 \in DOMAIN events
        /\ \A i \in DOMAIN Tail(events) : i + 1 \in DOMAIN events /\ Tail(events)[i] = events[i + 1]
    BY <1>0, <1>1, HeadAndTail DEF Types, EventsType, TakeEvent
  <2>2. PICK e \in Milestones : e = Head(events)
    BY <2>1
  <2>3. Leaving
    BY <1>0, <1>1, <2>2, ApplyEventShape DEF TakeEvent
  <2>4. WorkersIssued'
    BY <1>1, <2>3, LeavingIssued DEF TakeEvent, serverVars
  <2>5. EventsIssued' /\ ReportsIssued'
    BY <1>1, <2>1 DEF TakeEvent, IssuedInv, EventsIssued, ReportsIssued, pipeVars, serverVars
  <2>. QED
    BY <1>0, <1>1, <2>4, <2>5, IssuedFrame DEF TakeEvent, IssuedInv, pipeVars, serverVars
<1>2. CASE WriteEvent
  <2>1. PICK m \in UpMessages : m = [type |-> "event", event |-> sending] /\ m.event = sending
    <3>1. [type |-> "event", event |-> sending] \in UpMessages
      BY <1>0, <1>2 DEF WriteEvent, UpMessages, Types, SessionType
    <3>. QED
      BY <3>1
  <2>2. \A i \in DOMAIN up' : \/ i \in DOMAIN up /\ up'[i] = up[i]
                              \/ i = Len(up) + 1 /\ up'[i] = m
    BY <1>0, <1>2, <2>1, Appended DEF WriteEvent, Types, PipeType
  <2>3. ReportsIssued'
    BY <1>2, <2>1, <2>2 DEF WriteEvent, IssuedInv, ReportsIssued, serverVars
  <2>. QED
    BY <1>0, <1>2, <2>3, IssuedFrame DEF WriteEvent, IssuedInv, managerVars, workerVars, serverVars
<1>. QED
  BY <1>1, <1>2

LEMMA EndingIssued ==
    ASSUME IssuedInv, EndSession \/ LateRead \/ Exit
    PROVE  IssuedInv'
<1>0. Types /\ Types'
  BY EndingTypes DEF IssuedInv
<1>1. CASE EndSession
  <2>1. ReportsIssued' /\ LinesIssued'
    BY <1>0, <1>1, LinesLeft DEF EndSession, IssuedInv, ReportsIssued, LinesIssued, serverVars
  <2>. QED
    BY <1>0, <1>1, <2>1, IssuedFrame DEF EndSession, IssuedInv, managerVars, workerVars, serverVars
<1>2. CASE LateRead
  <2>1. /\ Head(late) \in DownMessages /\ Head(late) = late[1] /\ 1 \in DOMAIN late
        /\ \A i \in DOMAIN Tail(late) : i + 1 \in DOMAIN late /\ Tail(late)[i] = late[i + 1]
    BY <1>0, <1>2, HeadAndTail DEF Types, SessionType, LateRead
  <2>2. PICK m \in DownMessages : m = Head(late)
    BY <2>1
  <2>3. WorkersIssued' /\ EventsIssued'
    BY <1>2, <2>1, <2>2, HandleIssued DEF LateRead, IssuedInv, LinesIssued, serverVars
  <2>4. LinesIssued'
    BY <1>2, <2>1 DEF LateRead, IssuedInv, LinesIssued, pipeVars, serverVars
  <2>. QED
    BY <1>0, <1>2, <2>3, <2>4, IssuedFrame DEF LateRead, IssuedInv, pipeVars, serverVars
<1>3. CASE Exit
  <2>1. /\ UNCHANGED <<connected, profiled, issued, up, collected>>
        /\ \A t \in Tokens : (stage[t] = "none") = (stage'[t] = "none")
        /\ workers' = [p \in Peerings |-> NoToken]
        /\ cancelled' = cancelled \cup ({workers[p] : p \in Peerings} \ {NoToken})
        /\ sending' = NoEvent /\ late' = <<>> /\ down' = <<>> /\ events' = <<>>
    BY <1>3 DEF Exit, StopWorkers, serverVars
  <2>2. cancelled' \subseteq issued'
    BY <1>0, <2>1 DEF IssuedInv, WorkersIssued, Types, ManagerType
  <2>3. WorkersIssued'
    BY <1>0, <2>1, <2>2 DEF IssuedInv, WorkersIssued, Types, WorkersType
  <2>4. EventsIssued' /\ ReportsIssued' /\ LinesIssued'
    BY <2>1 DEF IssuedInv, EventsIssued, ReportsIssued, LinesIssued
  <2>. QED
    BY <1>0, <2>3, <2>4 DEF IssuedInv
<1>. QED
  BY <1>1, <1>2, <1>3

\* What the server sends, by its type.
LEMMA Sendable ==
    /\ \A c \in Configs : \E m \in DownMessages : m = [type |-> "config", peers |-> c] /\ m.type = "config" /\ m.peers = c
    /\ \A t \in Tokens : \E m \in DownMessages : m = [type |-> "connect", attempt |-> t] /\ m.type = "connect" /\ m.attempt = t
    /\ \A t \in Tokens : \E m \in DownMessages : m = [type |-> "peer_profile", attempt |-> t] /\ m.type = "peer_profile"
    /\ \A p \in Peerings : \E m \in DownMessages : m = [type |-> "disconnect", peering |-> p] /\ m.type = "disconnect" /\ m.peering = p
    /\ \E m \in DownMessages : m = [type |-> "query"] /\ m.type = "query"
    /\ \E m \in DownMessages : m = [type |-> "error"] /\ m.type = "error"
<1>1. ASSUME NEW c \in Configs PROVE \E m \in DownMessages : m = [type |-> "config", peers |-> c] /\ m.type = "config" /\ m.peers = c
  <2>1. [type |-> "config", peers |-> c] \in DownMessages
    BY DEF DownMessages
  <2>. WITNESS [type |-> "config", peers |-> c] \in DownMessages
  <2>. QED
    OBVIOUS
<1>2. ASSUME NEW t \in Tokens PROVE \E m \in DownMessages : m = [type |-> "connect", attempt |-> t] /\ m.type = "connect" /\ m.attempt = t
  <2>1. [type |-> "connect", attempt |-> t] \in DownMessages
    BY DEF DownMessages
  <2>. WITNESS [type |-> "connect", attempt |-> t] \in DownMessages
  <2>. QED
    OBVIOUS
<1>3. ASSUME NEW t \in Tokens PROVE \E m \in DownMessages : m = [type |-> "peer_profile", attempt |-> t] /\ m.type = "peer_profile"
  <2>1. [type |-> "peer_profile", attempt |-> t] \in DownMessages
    BY DEF DownMessages
  <2>. WITNESS [type |-> "peer_profile", attempt |-> t] \in DownMessages
  <2>. QED
    OBVIOUS
<1>4. ASSUME NEW p \in Peerings PROVE \E m \in DownMessages : m = [type |-> "disconnect", peering |-> p] /\ m.type = "disconnect" /\ m.peering = p
  <2>1. [type |-> "disconnect", peering |-> p] \in DownMessages
    BY DEF DownMessages
  <2>. WITNESS [type |-> "disconnect", peering |-> p] \in DownMessages
  <2>. QED
    OBVIOUS
<1>5. \E m \in DownMessages : m = [type |-> "query"] /\ m.type = "query"
  <2>1. [type |-> "query"] \in DownMessages
    BY DEF DownMessages
  <2>. WITNESS [type |-> "query"] \in DownMessages
  <2>. QED
    OBVIOUS
<1>6. \E m \in DownMessages : m = [type |-> "error"] /\ m.type = "error"
  <2>1. [type |-> "error"] \in DownMessages
    BY DEF DownMessages
  <2>. WITNESS [type |-> "error"] \in DownMessages
  <2>. QED
    OBVIOUS
<1>. QED
  BY <1>1, <1>2, <1>3, <1>4, <1>5, <1>6

LEMMA SendIssued ==
    ASSUME IssuedInv, NEW m \in DownMessages, Send(m), issued \subseteq issued', UNCHANGED late,
           m.type = "connect" => m.attempt \in issued'
    PROVE  LinesIssued'
<1>1. \A i \in DOMAIN down' : \/ i \in DOMAIN down /\ down'[i] = down[i]
                              \/ Linked /\ i = Len(down) + 1 /\ down'[i] = m
  BY SendTypes DEF IssuedInv
<1>. QED
  BY <1>1 DEF IssuedInv, LinesIssued

LEMMA ServerIssued ==
    ASSUME IssuedInv, ServerStep
    PROVE  IssuedInv'
<1>0. Types /\ Types'
  BY SetConfigTypes, CommandTypes, ReportTypes DEF ServerStep, Configs, IssuedInv
<1>1. ASSUME NEW c \in Configs, SetConfig(c) PROVE IssuedInv'
  <2>1. PICK m \in DownMessages : m = [type |-> "config", peers |-> c] /\ m.type = "config"
    BY Sendable
  <2>2. LinesIssued'
    BY <1>1, <2>1, SendIssued, IssuedFrame DEF SetConfig, sessionVars
  <2>. QED
    BY <1>0, <1>1, <2>2, IssuedFrame DEF SetConfig, IssuedInv, managerVars, workerVars, sessionVars
<1>2. ASSUME NEW t \in Tokens, ConnectLink(t) PROVE IssuedInv'
  <2>1. PICK m \in DownMessages : m = [type |-> "connect", attempt |-> t] /\ m.attempt = t
    BY Sendable
  <2>2. issued \subseteq issued' /\ t \in issued'
    BY <1>2 DEF ConnectLink
  <2>3. LinesIssued'
    BY <1>2, <2>1, <2>2, SendIssued DEF ConnectLink, sessionVars
  <2>. QED
    BY <1>0, <1>2, <2>2, <2>3, IssuedFrame DEF ConnectLink, IssuedInv, managerVars, workerVars, sessionVars
<1>3. ASSUME NEW t \in Tokens, SendPeerProfile(t) PROVE IssuedInv'
  <2>1. PICK m \in DownMessages : m = [type |-> "peer_profile", attempt |-> t] /\ m.type = "peer_profile"
    BY Sendable
  <2>2. LinesIssued'
    BY <1>3, <2>1, SendIssued DEF SendPeerProfile, sessionVars
  <2>3. ReportsIssued'
    BY <1>3 DEF SendPeerProfile, IssuedInv, ReportsIssued, sessionVars
  <2>. QED
    BY <1>0, <1>3, <2>2, <2>3, IssuedFrame DEF SendPeerProfile, IssuedInv, managerVars, workerVars, sessionVars
<1>4. ASSUME NEW p \in Peerings, DisconnectLink(p) PROVE IssuedInv'
  <2>1. PICK m \in DownMessages : m = [type |-> "disconnect", peering |-> p] /\ m.type = "disconnect"
    BY Sendable
  <2>2. LinesIssued'
    BY <1>4, <2>1, SendIssued DEF DisconnectLink, sessionVars
  <2>. QED
    BY <1>0, <1>4, <2>2, IssuedFrame DEF DisconnectLink, IssuedInv, managerVars, workerVars, sessionVars
<1>5. CASE Query
  <2>1. PICK m \in DownMessages : m = [type |-> "query"] /\ m.type = "query"
    BY Sendable
  <2>2. LinesIssued'
    BY <1>5, <2>1, SendIssued DEF Query, sessionVars, serverVars
  <2>. QED
    BY <1>0, <1>5, <2>2, IssuedFrame DEF Query, IssuedInv, managerVars, workerVars, sessionVars, serverVars
<1>6. ASSUME NEW p \in Peerings, PeerReports(p) PROVE IssuedInv'
  BY <1>0, <1>6, IssuedFrame DEF PeerReports, IssuedInv, managerVars, workerVars, sessionVars, pipeVars
<1>7. CASE ReadSnapshot
  <2>1. \A i \in DOMAIN up' : i + 1 \in DOMAIN up /\ up'[i] = up[i + 1]
    BY <1>0, <1>7, HeadAndTail DEF Types, PipeType, ReadSnapshot, Reads
  <2>2. ReportsIssued'
    BY <1>7, <2>1 DEF ReadSnapshot, IssuedInv, ReportsIssued, sessionVars
  <2>. QED
    BY <1>0, <1>7, <2>2, IssuedFrame DEF ReadSnapshot, IssuedInv, managerVars, workerVars, sessionVars
<1>8. CASE ReadEvent
  <2>1. /\ 1 \in DOMAIN up /\ up[1] = Head(up) /\ Head(up).type = "event"
        /\ \A i \in DOMAIN up' : i + 1 \in DOMAIN up /\ up'[i] = up[i + 1]
    <3>1. up \in Seq(UpMessages) /\ up # <<>> /\ up' = Tail(up) /\ Head(up).type = "event"
      BY <1>0, <1>8 DEF Types, PipeType, ReadEvent, Reads
    <3>. QED
      BY <3>1, HeadAndTail
  <2>2. collected' \subseteq issued'
    BY <1>8, <2>1 DEF ReadEvent, IssuedInv, ReportsIssued
  <2>3. ReportsIssued'
    BY <1>8, <2>1, <2>2 DEF ReadEvent, IssuedInv, ReportsIssued, sessionVars
  <2>4. PICK m \in DownMessages : m = [type |-> "error"] /\ m.type = "error"
    BY Sendable
  <2>5. LinesIssued'
    BY <1>8, <2>4, SendIssued, IssuedFrame DEF ReadEvent, sessionVars
  <2>. QED
    BY <1>0, <1>8, <2>3, <2>5, IssuedFrame DEF ReadEvent, IssuedInv, managerVars, workerVars, sessionVars
<1>9. CASE ServerEnds
  <2>1. ReportsIssued'
    BY <1>9 DEF ServerEnds, IssuedInv, ReportsIssued, sessionVars
  <2>. QED
    BY <1>0, <1>9, <2>1, IssuedFrame DEF ServerEnds, IssuedInv, managerVars, workerVars, sessionVars
<1>. QED
  BY <1>1, <1>2, <1>3, <1>4, <1>5, <1>6, <1>7, <1>8, <1>9 DEF ServerStep, Configs

LEMMA IssuedHolds == Spec => []IssuedInv
<1>1. Init => IssuedInv
  BY InitTypes DEF Init, IssuedInv, WorkersIssued, EventsIssued, ReportsIssued, LinesIssued, NoWorkers
<1>2. IssuedInv /\ [Next]_vars => IssuedInv'
  <2> SUFFICES ASSUME IssuedInv, [Next]_vars PROVE IssuedInv'
    OBVIOUS
  <2>1. CASE UNCHANGED vars
    <3>1. Types'
      BY <2>1, TypesStep DEF IssuedInv
    <3>. QED
      BY <2>1, <3>1, IssuedFrame DEF vars, managerVars, workerVars, pipeVars, sessionVars, serverVars, IssuedInv
  <2>. QED
    BY <2>1, WorkerIssued, ReaderIssued, LoopIssued, EndingIssued, ServerIssued DEF Next, SessionStep
<1>. QED
  BY <1>1, <1>2, PTL DEF Spec

\* The client's goroutines, its channels, the lines in the pipe and the server's
\* record keep their types, and buffers their sizes, whatever session is lost when.
THEOREM ClientTypes == Spec => []ClientTypeOK
<1>1. IssuedInv => ClientTypeOK
  BY DEF IssuedInv, WorkersIssued, ReportsIssued, Types, ManagerType, EventsType, WorkersType, SessionType, ServerType,
         ClientTypeOK, Configs, Stages
<1>. QED
  BY <1>1, IssuedHolds, PTL

----------------------------------------------------------------------------
(* The queues of the data plane are those of the current tunnels *)

PlaneFollows == \A p \in Peerings :
    /\ workers[p] # NoToken => stack
    /\ plane[p] # NoToken => stack /\ plane[p] = workers[p] /\ plane[p] \in connected
    /\ \/ workers[p] \notin connected \/ workers[p] \in unplugged \/ plane[p] = workers[p]
       \/ \E i \in DOMAIN events : events[i] = Event(workers[p], "connected")
ConnectedEvents == \A i \in DOMAIN events : events[i].kind = "connected" => events[i].attempt \in connected

\* A command is handled once: its worker has not begun, and no other line is about the same attempt.
Connects(ms, i, t) == i \in DOMAIN ms /\ ms[i].type = "connect" /\ ms[i].attempt = t
Once(ms) == \A t \in Tokens : \A i \in DOMAIN ms : Connects(ms, i, t) =>
                stage[t] = "none" /\ \A j \in DOMAIN ms : Connects(ms, j, t) => j = i
Apart    == \A t \in Tokens : \A i \in DOMAIN late, j \in DOMAIN down : ~(Connects(late, i, t) /\ Connects(down, j, t))
LinesOnce == Once(down) /\ Once(late) /\ Apart

QueueInv == PlaneFollows /\ ConnectedEvents /\ LinesOnce

\* Messages that were taken from the front, or were already there, are handled once still.
LEMMA OnceKept ==
    ASSUME NEW ms, NEW ns, Once(ms), \A t \in Tokens : stage[t] = "none" => stage'[t] = "none",
           \E d \in {0, 1} : \A i \in DOMAIN ns : i + d \in DOMAIN ms /\ ns[i] = ms[i + d],
           DOMAIN ns \subseteq Nat, DOMAIN ms \subseteq Nat
    PROVE  \A t \in Tokens : \A i \in DOMAIN ns : Connects(ns, i, t) =>
                stage'[t] = "none" /\ \A j \in DOMAIN ns : Connects(ns, j, t) => j = i
<1>1. PICK d \in {0, 1} : \A i \in DOMAIN ns : i + d \in DOMAIN ms /\ ns[i] = ms[i + d]
  OBVIOUS
<1>2. ASSUME NEW t \in Tokens, NEW i \in DOMAIN ns, Connects(ns, i, t), NEW j \in DOMAIN ns, Connects(ns, j, t)
      PROVE  stage'[t] = "none" /\ j = i
  <2>1. Connects(ms, i + d, t) /\ Connects(ms, j + d, t) /\ i + d \in DOMAIN ms /\ j + d \in DOMAIN ms
    BY <1>1, <1>2 DEF Connects
  <2>2. stage[t] = "none" /\ j + d = i + d
    BY <2>1 DEF Once
  <2>3. i \in Nat /\ j \in Nat /\ d \in Nat
    OBVIOUS
  <2>. QED
    BY <2>2, <2>3
<1>. QED
  BY <1>2

LEMMA EventsGrow ==
    ASSUME Types, ConnectedEvents, NEW es \in Seq(Milestones), Emit(es), connected \subseteq connected',
           \A i \in DOMAIN es : es[i].kind = "connected" => es[i].attempt \in connected'
    PROVE  /\ ConnectedEvents'
           /\ \A e : (\E i \in DOMAIN events : events[i] = e) => \E i \in DOMAIN events' : events'[i] = e
<1>1. /\ \A i \in DOMAIN events : i \in DOMAIN events' /\ events'[i] = events[i]
      /\ \A i \in DOMAIN events' : events'[i] \in {events[j] : j \in DOMAIN events} \cup {es[j] : j \in DOMAIN es}
  BY EmitTypes DEF Types
<1>. QED
  BY <1>1 DEF ConnectedEvents

EventsStay == \A e : (\E i \in DOMAIN events : events[i] = e) => \E i \in DOMAIN events' : events'[i] = e

\* A peering whose worker and queue are untouched.
LEMMA PlaneKept ==
    ASSUME PlaneFollows, NEW p \in Peerings, workers'[p] = workers[p], plane'[p] = plane[p], stack => stack',
           EventsStay, connected' = connected, unplugged' = unplugged
    PROVE  /\ workers'[p] # NoToken => stack'
           /\ plane'[p] # NoToken => stack' /\ plane'[p] = workers'[p] /\ plane'[p] \in connected'
           /\ \/ workers'[p] \notin connected' \/ workers'[p] \in unplugged' \/ plane'[p] = workers'[p]
              \/ \E i \in DOMAIN events' : events'[i] = Event(workers'[p], "connected")
<1>1. /\ workers[p] # NoToken => stack
      /\ plane[p] # NoToken => stack /\ plane[p] = workers[p] /\ plane[p] \in connected
      /\ \/ workers[p] \notin connected \/ workers[p] \in unplugged \/ plane[p] = workers[p]
         \/ \E i \in DOMAIN events : events[i] = Event(workers[p], "connected")
  BY DEF PlaneFollows
<1>2. (\E i \in DOMAIN events : events[i] = Event(workers[p], "connected"))
        => \E i \in DOMAIN events' : events'[i] = Event(workers[p], "connected")
  BY DEF EventsStay
<1>. QED
  BY <1>1, <1>2

\* A peering without a worker, or whose tunnel is not up, and without a queue.
LEMMA NoQueue ==
    ASSUME Types, NEW p \in Peerings, plane'[p] = NoToken, connected' = connected,
           workers'[p] = NoToken \/ (workers'[p] \notin connected /\ stack')
    PROVE  /\ workers'[p] # NoToken => stack'
           /\ plane'[p] # NoToken => stack' /\ plane'[p] = workers'[p] /\ plane'[p] \in connected'
           /\ \/ workers'[p] \notin connected' \/ workers'[p] \in unplugged' \/ plane'[p] = workers'[p]
              \/ \E i \in DOMAIN events' : events'[i] = Event(workers'[p], "connected")
  BY TokenAssumption DEF Types, WorkersType

LEMMA FailuresQuiet ==
    ASSUME Types, ConnectedEvents, connected' = connected
    PROVE  /\ \A c \in Configs : \A es \in Failures(Survivors(c)) : Emit(es) => ConnectedEvents' /\ EventsStay
           /\ \A t \in Tokens : Emit(<<Event(t, "failed")>>) => ConnectedEvents' /\ EventsStay
           /\ UNCHANGED events => ConnectedEvents' /\ EventsStay
<1>1. ASSUME NEW c \in Configs, NEW es \in Failures(Survivors(c)), Emit(es) PROVE ConnectedEvents' /\ EventsStay
  <2>1. es \in Seq(Milestones) /\ \A i \in DOMAIN es : es[i].kind = "failed"
    BY FailureEvents
  <2>. QED
    BY <1>1, <2>1, EventsGrow DEF EventsStay
<1>2. ASSUME NEW t \in Tokens, Emit(<<Event(t, "failed")>>) PROVE ConnectedEvents' /\ EventsStay
  <2>1. /\ Event(t, "failed").kind = "failed" /\ <<Event(t, "failed")>> \in Seq(Milestones)
        /\ DOMAIN <<Event(t, "failed")>> = {1} /\ <<Event(t, "failed")>>[1] = Event(t, "failed")
    BY EmitOne
  <2>2. \A i \in DOMAIN <<Event(t, "failed")>> : <<Event(t, "failed")>>[i].kind # "connected"
    BY <2>1
  <2>. QED
    BY <1>2, <2>1, <2>2, EventsGrow DEF EventsStay
<1>3. UNCHANGED events => ConnectedEvents' /\ EventsStay
  BY DEF ConnectedEvents, EventsStay
<1>. QED
  BY <1>1, <1>2, <1>3

LEMMA ApplyConfigQueues ==
    ASSUME Types, PlaneFollows, ConnectedEvents, NEW c \in Configs, ApplyConfig(c), UNCHANGED <<connected, unplugged>>
    PROVE  PlaneFollows' /\ ConnectedEvents'
<1>1. ConnectedEvents' /\ EventsStay
  BY FailuresQuiet DEF ApplyConfig
<1>2. CASE UNCHANGED <<stack, workers, plane, events>>
  BY <1>1, <1>2 DEF PlaneFollows
<1>3. CASE StopWorkers(Peerings) /\ plane' = NoWorkers
  <2>1. \A p \in Peerings : workers'[p] = NoToken /\ plane'[p] = NoToken
    BY <1>3 DEF StopWorkers, NoWorkers
  <2>. QED
    BY <1>1, <2>1, NoQueue DEF PlaneFollows
<1>4. CASE StopWorkers(Peerings \ Survivors(c)) /\ stack' = TRUE /\ plane' = Reattached(c)
  <2>1. \A p \in Peerings : /\ workers'[p] = IF p \in Survivors(c) THEN workers[p] ELSE NoToken
                            /\ plane'[p] = IF p \in Survivors(c) /\ workers[p] \in connected THEN workers[p] ELSE NoToken
    BY <1>4 DEF StopWorkers, Reattached
  <2>2. NoToken \notin connected
    BY TokenAssumption DEF Types, WorkersType
  <2>. QED
    BY <1>1, <1>4, <2>1, <2>2 DEF PlaneFollows
<1>. QED
  BY <1>2, <1>3, <1>4 DEF ApplyConfig

LEMMA HandleConnectQueues ==
    ASSUME IssuedInv, PlaneFollows, ConnectedEvents, NEW t \in Tokens, HandleConnect(t), stage[t] = "none",
           UNCHANGED <<connected, unplugged>>
    PROVE  PlaneFollows' /\ ConnectedEvents'
<1>0. Types /\ PeeringOf[t] \in Peerings /\ t \notin connected
  BY AttemptAssumption DEF IssuedInv, WorkersIssued
<1>1. ConnectedEvents' /\ EventsStay
  BY <1>0, FailuresQuiet DEF HandleConnect
<1>2. \/ stack' = TRUE /\ workers' = [workers EXCEPT ![PeeringOf[t]] = t]
      \/ stack' = stack /\ workers' = [workers EXCEPT ![PeeringOf[t]] = NoToken]
  BY DEF HandleConnect
<1>3. \A p \in Peerings : plane'[p] = IF p = PeeringOf[t] /\ workers[p] # NoToken THEN NoToken ELSE plane[p]
  BY DEF HandleConnect, Unregistered
<1>4. plane'[PeeringOf[t]] = NoToken
  BY <1>0, <1>3 DEF PlaneFollows
<1>5. ASSUME NEW p \in Peerings, p # PeeringOf[t] PROVE workers'[p] = workers[p] /\ plane'[p] = plane[p] /\ (stack => stack')
  BY <1>0, <1>2, <1>3, <1>5 DEF Types, ManagerType
<1>6. workers'[PeeringOf[t]] = NoToken \/ (workers'[PeeringOf[t]] \notin connected /\ stack')
  BY <1>0, <1>2 DEF Types, ManagerType
<1>7. PlaneFollows'
  <2> SUFFICES ASSUME NEW p \in Peerings
               PROVE  /\ workers'[p] # NoToken => stack'
                      /\ plane'[p] # NoToken => stack' /\ plane'[p] = workers'[p] /\ plane'[p] \in connected'
                      /\ \/ workers'[p] \notin connected' \/ workers'[p] \in unplugged' \/ plane'[p] = workers'[p]
                         \/ \E i \in DOMAIN events' : events'[i] = Event(workers'[p], "connected")
    BY DEF PlaneFollows
  <2>1. CASE p = PeeringOf[t]
    BY <1>0, <1>4, <1>6, <2>1, NoQueue
  <2>2. CASE p # PeeringOf[t]
    BY <1>1, <1>5, <2>2, PlaneKept
  <2>. QED
    BY <2>1, <2>2
<1>. QED
  BY <1>1, <1>7

\* The worker of one peering is stopped, and its queue with it.
LEMMA StopOneQueues ==
    ASSUME Types, PlaneFollows, NEW p \in Peerings, StopWorkers({p}), plane' = Unregistered({p}), UNCHANGED <<stack, connected, unplugged>>
    PROVE  EventsStay => PlaneFollows'
<1> SUFFICES ASSUME EventsStay, NEW q \in Peerings
             PROVE  /\ workers'[q] # NoToken => stack'
                    /\ plane'[q] # NoToken => stack' /\ plane'[q] = workers'[q] /\ plane'[q] \in connected'
                    /\ \/ workers'[q] \notin connected' \/ workers'[q] \in unplugged' \/ plane'[q] = workers'[q]
                       \/ \E i \in DOMAIN events' : events'[i] = Event(workers'[q], "connected")
  BY DEF PlaneFollows
<1>1. /\ workers'[q] = IF q = p THEN NoToken ELSE workers[q]
      /\ plane'[q] = IF q = p /\ workers[q] # NoToken THEN NoToken ELSE plane[q]
  BY DEF StopWorkers, Unregistered
<1>2. CASE q = p
  <2>1. plane'[q] = NoToken
    BY <1>1, <1>2 DEF PlaneFollows
  <2>. QED
    BY <1>1, <1>2, <2>1, NoQueue
<1>3. CASE q # p
  BY <1>1, <1>3, PlaneKept
<1>. QED
  BY <1>2, <1>3

LEMMA HandleQueues ==
    ASSUME IssuedInv, PlaneFollows, ConnectedEvents, NEW m \in DownMessages, Handle(m),
           m.type = "connect" => stage[m.attempt] = "none", UNCHANGED <<connected, unplugged>>
    PROVE  /\ PlaneFollows' /\ ConnectedEvents'
           /\ \A t \in Tokens : stage[t] = "none" => stage'[t] = "none" \/ (m.type = "connect" /\ t = m.attempt)
<1>0. Types
  BY DEF IssuedInv
<1>1. ASSUME NEW c \in Configs, ApplyConfig(c) PROVE PlaneFollows' /\ ConnectedEvents' /\ UNCHANGED stage
  BY <1>0, <1>1, ApplyConfigQueues DEF ApplyConfig
<1>2. ASSUME NEW t \in Tokens, HandleConnect(t), stage[t] = "none" 
      PROVE  PlaneFollows' /\ ConnectedEvents' /\ \A u \in Tokens : u # t => stage'[u] = stage[u]
  <2>1. \A u \in Tokens : u # t => stage'[u] = stage[u]
    BY <1>0, <1>2 DEF HandleConnect, Types, WorkersType
  <2>. QED
    BY <1>2, <2>1, HandleConnectQueues
<1>3. ASSUME NEW p \in Peerings, HandleDisconnect(p) PROVE PlaneFollows' /\ ConnectedEvents' /\ UNCHANGED stage
  <2>1. StopWorkers({p}) /\ plane' = Unregistered({p}) /\ UNCHANGED <<stack, events, stage>>
    BY <1>3 DEF HandleDisconnect
  <2>2. ConnectedEvents' /\ EventsStay
    BY <1>0, <2>1, FailuresQuiet
  <2>. QED
    BY <1>0, <2>1, <2>2, StopOneQueues
<1>4. ASSUME NEW t \in Tokens, HandlePeerProfile(t) PROVE PlaneFollows' /\ ConnectedEvents' /\ UNCHANGED stage
  BY <1>4 DEF HandlePeerProfile, PlaneFollows, ConnectedEvents
<1>5. ASSUME m.type = "config" PROVE m.peers \in Configs /\ m.type # "connect"
  BY <1>5, DownKinds
<1>6. ASSUME m.type = "connect" PROVE m.attempt \in Tokens /\ stage[m.attempt] = "none"
  BY <1>6, DownKinds
<1>. QED
  BY <1>1, <1>2, <1>3, <1>4, <1>5, <1>6, DownKinds DEF Handle

LEMMA QueueFrame ==
    ASSUME QueueInv
    PROVE  /\ UNCHANGED <<workers, stack, plane, connected, unplugged, events>> => PlaneFollows' /\ ConnectedEvents'
           /\ UNCHANGED <<stage, down, late>> => LinesOnce'
<1>1. UNCHANGED <<workers, stack, plane, connected, unplugged, events>> => PlaneFollows' /\ ConnectedEvents'
  BY DEF QueueInv, PlaneFollows, ConnectedEvents
<1>2. UNCHANGED <<stage, down, late>> => LinesOnce'
  BY DEF QueueInv, LinesOnce, Once, Apart, Connects
<1>. QED
  BY <1>1, <1>2

\* Lines that were there, or were taken from the front, or moved to the reader of the session that is lost.
LEMMA LinesKept ==
    ASSUME Types, Types', LinesOnce, \A t \in Tokens : stage[t] = "none" => stage'[t] = "none"
    PROVE  /\ UNCHANGED <<down, late>> => LinesOnce'
           /\ down # <<>> /\ down' = Tail(down) /\ late' = late => LinesOnce'
           /\ late # <<>> /\ late' = Tail(late) /\ down' = down => LinesOnce'
           /\ (\A i \in DOMAIN down' : down'[i].type # "connect") /\ late' \in {late, <<>>} => LinesOnce'
<1>1. /\ DOMAIN down \subseteq Nat /\ DOMAIN late \subseteq Nat /\ DOMAIN down' \subseteq Nat /\ DOMAIN late' \subseteq Nat
      /\ down # <<>> => \A i \in DOMAIN Tail(down) : i + 1 \in DOMAIN down /\ Tail(down)[i] = down[i + 1]
      /\ late # <<>> => \A i \in DOMAIN Tail(late) : i + 1 \in DOMAIN late /\ Tail(late)[i] = late[i + 1]
  <2>1. down \in Seq(DownMessages) /\ late \in Seq(DownMessages) /\ down' \in Seq(DownMessages) /\ late' \in Seq(DownMessages)
    BY DEF Types, PipeType, SessionType
  <2>2. DOMAIN down \subseteq Nat /\ DOMAIN late \subseteq Nat /\ DOMAIN down' \subseteq Nat /\ DOMAIN late' \subseteq Nat
    BY <2>1
  <2>. QED
    BY <2>1, <2>2, HeadAndTail
<1>2. UNCHANGED <<down, late>> => LinesOnce'
  BY DEF LinesOnce, Once, Apart, Connects
<1>3. ASSUME down # <<>>, down' = Tail(down), late' = late PROVE LinesOnce'
  <2>1. \E d \in {0, 1} : \A i \in DOMAIN down' : i + d \in DOMAIN down /\ down'[i] = down[i + d]
    BY <1>1, <1>3
  <2>2. Once(down)'
    BY <1>1, <2>1, OnceKept DEF LinesOnce, Once, Connects
  <2>3. Once(late)' /\ Apart'
    BY <1>1, <1>3 DEF LinesOnce, Once, Apart, Connects
  <2>. QED
    BY <2>2, <2>3 DEF LinesOnce
<1>4. ASSUME late # <<>>, late' = Tail(late), down' = down PROVE LinesOnce'
  <2>1. \E d \in {0, 1} : \A i \in DOMAIN late' : i + d \in DOMAIN late /\ late'[i] = late[i + d]
    BY <1>1, <1>4
  <2>2. Once(late)'
    BY <1>1, <2>1, OnceKept DEF LinesOnce, Once, Connects
  <2>3. Once(down)' /\ Apart'
    BY <1>1, <1>4 DEF LinesOnce, Once, Apart, Connects
  <2>. QED
    BY <2>2, <2>3 DEF LinesOnce
<1>5. ASSUME \A i \in DOMAIN down' : down'[i].type # "connect", late' \in {late, <<>>} PROVE LinesOnce'
  <2>1. Once(down)' /\ Apart'
    BY <1>5 DEF Once, Apart, Connects
  <2>2. Once(late)'
    BY <1>5 DEF LinesOnce, Once, Connects
  <2>. QED
    BY <2>1, <2>2 DEF LinesOnce
<1>. QED
  BY <1>2, <1>3, <1>4, <1>5

LEMMA WorkerQueues ==
    ASSUME IssuedInv, QueueInv, NEW t \in Tokens, WorkerStep(t)
    PROVE  QueueInv'
<1>0. Types /\ UNCHANGED <<workers, stack, plane, down, late>>
  BY DEF IssuedInv, WorkerStep, ProbeDone, ProbeCancelled, BeginPunch, Punched, Fails, Stops, Milestone, managerVars, pipeVars, sessionVars
<1>1. stage[t] # "none" /\ \E s \in Stages : stage' = [stage EXCEPT ![t] = s]
  BY DEF WorkerStep, ProbeDone, ProbeCancelled, BeginPunch, Punched, Fails, Stops, Milestone, Stages
<1>2. LinesOnce'
  <2>1. \A u \in Tokens : stage[u] = "none" => stage'[u] = "none"
    BY <1>0, <1>1 DEF Types, WorkersType
  <2>. QED
    BY <1>0, <2>1, WorkerTypes, LinesKept DEF QueueInv
<1>3. ASSUME NEW kind \in {"profile", "no profile", "failed"}, Emit(<<Event(t, kind)>>), connected' = connected,
             unplugged' = unplugged \cup Unheard(Event(t, kind))
      PROVE  PlaneFollows' /\ ConnectedEvents'
  <2>1. /\ Event(t, kind).kind = kind /\ Event(t, kind).attempt = t /\ <<Event(t, kind)>> \in Seq(Milestones)
        /\ DOMAIN <<Event(t, kind)>> = {1} /\ <<Event(t, kind)>>[1] = Event(t, kind)
    <3>1. kind \in {"profile", "no profile", "connected", "failed"}
      BY <1>3
    <3>. QED
      BY ONLY <3>1, EmitOne
  <2>2. \A i \in DOMAIN <<Event(t, kind)>> : <<Event(t, kind)>>[i].kind # "connected"
    BY <2>1
  <2>3. ConnectedEvents' /\ EventsStay
    BY <1>0, <1>3, <2>1, <2>2, EventsGrow DEF QueueInv, EventsStay
  <2>4. unplugged' = unplugged
    BY <1>3, <2>1 DEF Unheard
  <2>5. PlaneFollows'
    BY <1>0, <1>3, <2>3, <2>4, PlaneKept DEF PlaneFollows, QueueInv
  <2>. QED
    BY <2>3, <2>5
<1>4. ASSUME Punched(t) PROVE PlaneFollows' /\ ConnectedEvents'
  <2> DEFINE e == Event(t, "connected")
  <2>1. /\ e.kind = "connected" /\ e.attempt = t /\ <<e>> \in Seq(Milestones)
        /\ DOMAIN <<e>> = {1} /\ <<e>>[1] = e
    BY EmitOne
  <2>2. Emit(<<e>>) /\ connected' = connected \cup {t} /\ unplugged' = unplugged \cup Unheard(e)
    BY <1>4 DEF Punched, Milestone
  <2>3. \A i \in DOMAIN <<e>> : <<e>>[i].kind = "connected" => <<e>>[i].attempt \in connected'
    BY <2>1, <2>2
  <2>4. ConnectedEvents' /\ EventsStay
    BY <1>0, <2>1, <2>2, <2>3, EventsGrow DEF QueueInv, EventsStay
  <2>5. t \in unplugged' \/ \E i \in DOMAIN events' : events'[i] = e
    <3>1. \A j \in DOMAIN <<e>> : <<e>>[j].attempt \in Lost(<<e>>) \/ \E i \in DOMAIN events' : events'[i] = <<e>>[j]
      BY <1>0, <2>1, <2>2, EmitTypes DEF Types
    <3>2. t \in Lost(<<e>>) \/ \E i \in DOMAIN events' : events'[i] = e
      BY <2>1, <3>1
    <3>3. Unheard(e) = Lost(<<e>>)
      BY <2>1 DEF Unheard
    <3>. QED
      BY <2>2, <3>2, <3>3
  <2>. HIDE DEF e
  <2>6. ASSUME NEW p \in Peerings
        PROVE  /\ workers'[p] # NoToken => stack'
               /\ plane'[p] # NoToken => stack' /\ plane'[p] = workers'[p] /\ plane'[p] \in connected'
               /\ \/ workers'[p] \notin connected' \/ workers'[p] \in unplugged' \/ plane'[p] = workers'[p]
                  \/ \E i \in DOMAIN events' : events'[i] = Event(workers'[p], "connected")
    <3>1. workers'[p] = workers[p] /\ plane'[p] = plane[p] /\ stack' = stack /\ connected \subseteq connected' /\ unplugged \subseteq unplugged'
      BY <1>0, <2>2
    <3>2. /\ workers[p] # NoToken => stack
          /\ plane[p] # NoToken => stack /\ plane[p] = workers[p] /\ plane[p] \in connected
      BY DEF QueueInv, PlaneFollows
    <3>3. CASE workers[p] = t
      BY <2>5, <3>1, <3>2, <3>3 DEF e
    <3>4. CASE workers[p] # t
      <4>1. workers[p] \in connected' => workers[p] \in connected
        BY <2>2, <3>4
      <4>2. \/ workers[p] \notin connected \/ workers[p] \in unplugged \/ plane[p] = workers[p]
            \/ \E i \in DOMAIN events : events[i] = Event(workers[p], "connected")
        BY DEF QueueInv, PlaneFollows
      <4>3. (\E i \in DOMAIN events : events[i] = Event(workers[p], "connected"))
              => \E i \in DOMAIN events' : events'[i] = Event(workers[p], "connected")
        BY <2>4 DEF EventsStay
      <4>. QED
        BY <3>1, <3>2, <4>1, <4>2, <4>3
    <3>. QED
      BY <3>3, <3>4
  <2>. QED
    BY <2>4, <2>6 DEF PlaneFollows
<1>5. CASE BeginPunch(t) \/ Stops(t)
  BY <1>2, <1>5, QueueFrame DEF BeginPunch, Stops, managerVars, lossVars, QueueInv
<1>6. CASE ProbeDone(t) \/ ProbeCancelled(t) \/ Fails(t)
  <2>1. connected' = connected /\ \E kind \in {"profile", "no profile", "failed"} :
            Emit(<<Event(t, kind)>>) /\ unplugged' = unplugged \cup Unheard(Event(t, kind))
    BY <1>6 DEF ProbeDone, ProbeCancelled, Fails, Milestone
  <2>. QED
    BY <1>2, <1>3, <2>1 DEF QueueInv
<1>. QED
  BY <1>2, <1>4, <1>5, <1>6 DEF WorkerStep, QueueInv

LEMMA ReaderQueues ==
    ASSUME IssuedInv, QueueInv, Register \/ ReadInitialConfig \/ ReportInitialState \/ Read \/ ReadQuery \/ WriteAnswer
    PROVE  QueueInv'
<1>0. Types /\ Types'
  BY ReaderTypes DEF IssuedInv
<1>1. CASE Register
  <2>1. LinesOnce'
    <3>1. \A i \in DOMAIN down' : down'[i].type # "connect"
      BY <1>1 DEF Register
    <3>. QED
      BY <1>0, <1>1, <3>1, LinesKept DEF Register, QueueInv, workerVars
  <2>. QED
    BY <1>1, <2>1, QueueFrame DEF Register, managerVars, workerVars, lossVars, QueueInv
<1>2. CASE ReadInitialConfig
  <2>1. Head(down) \in DownMessages /\ Head(down).type = "config"
    BY <1>0, <1>2, HeadAndTail DEF Types, PipeType, ReadInitialConfig
  <2>2. PICK m \in DownMessages : m = Head(down) /\ m.type = "config"
    BY <2>1
  <2>3. Handle(m)
    BY <1>2, <2>2 DEF ReadInitialConfig, Handle
  <2>4. PlaneFollows' /\ ConnectedEvents' /\ \A t \in Tokens : stage[t] = "none" => stage'[t] = "none"
    BY <1>2, <2>2, <2>3, HandleQueues DEF ReadInitialConfig, QueueInv
  <2>5. LinesOnce'
    BY <1>0, <1>2, <2>4, LinesKept DEF ReadInitialConfig, QueueInv
  <2>. QED
    BY <2>4, <2>5 DEF QueueInv
<1>3. CASE Read
  <2>1. /\ down # <<>> /\ down' = Tail(down) /\ late' = late /\ UNCHANGED <<connected, unplugged>>
    BY <1>3 DEF Read, sessionVars
  <2>2. /\ Head(down) \in DownMessages /\ Head(down) = down[1] /\ 1 \in DOMAIN down
        /\ \A i \in DOMAIN down' : i + 1 \in DOMAIN down /\ down'[i] = down[i + 1] /\ i + 1 # 1
    BY <1>0, <2>1, HeadAndTail DEF Types, PipeType
  <2>3. PICK m \in DownMessages : m = Head(down)
    BY <2>2
  <2>4. m.type = "connect" => m.attempt \in Tokens /\ Connects(down, 1, m.attempt)
    BY <2>2, <2>3, DownKinds DEF Connects
  <2>5. m.type = "connect" => stage[m.attempt] = "none"
    BY <2>2, <2>4 DEF QueueInv, LinesOnce, Once
  <2>6. /\ PlaneFollows' /\ ConnectedEvents'
        /\ \A t \in Tokens : stage[t] = "none" => stage'[t] = "none" \/ (m.type = "connect" /\ t = m.attempt)
    BY <1>3, <2>1, <2>3, <2>5, HandleQueues DEF Read, QueueInv
  <2>7. ASSUME NEW t \in Tokens, NEW i \in DOMAIN down', Connects(down', i, t)
        PROVE  stage'[t] = "none" /\ \A j \in DOMAIN down' : Connects(down', j, t) => j = i
    <3>1. i + 1 \in DOMAIN down /\ Connects(down, i + 1, t)
      BY <2>2, <2>7 DEF Connects
    <3>2. stage[t] = "none" /\ \A k \in DOMAIN down : Connects(down, k, t) => k = i + 1
      BY <3>1 DEF QueueInv, LinesOnce, Once
    <3>3. ~(m.type = "connect" /\ t = m.attempt)
      BY <2>2, <2>4, <2>7, <3>2
    <3>4. ASSUME NEW j \in DOMAIN down', Connects(down', j, t) PROVE j = i
      <4>1. j + 1 \in DOMAIN down /\ Connects(down, j + 1, t)
        BY <2>2, <3>4 DEF Connects
      <4>2. i \in Nat /\ j \in Nat
        BY <1>0 DEF Types, PipeType
      <4>. QED
        BY <3>2, <4>1, <4>2
    <3>. QED
      BY <2>6, <3>2, <3>3, <3>4
  <2>8. ASSUME NEW t \in Tokens, NEW i \in DOMAIN late, Connects(late, i, t)
        PROVE  stage'[t] = "none" /\ (\A j \in DOMAIN late : Connects(late, j, t) => j = i)
               /\ \A j \in DOMAIN down' : ~Connects(down', j, t)
    <3>1. stage[t] = "none" /\ (\A j \in DOMAIN late : Connects(late, j, t) => j = i) /\ \A j \in DOMAIN down : ~Connects(down, j, t)
      BY <2>8 DEF QueueInv, LinesOnce, Once, Apart
    <3>. QED
      BY <2>2, <2>4, <2>6, <3>1 DEF Connects
  <2>9. LinesOnce'
    BY <2>1, <2>7, <2>8 DEF LinesOnce, Once, Apart, Connects
  <2>. QED
    BY <2>6, <2>9 DEF QueueInv
<1>4. CASE ReadQuery
  <2>1. LinesOnce'
    BY <1>0, <1>4, LinesKept DEF ReadQuery, QueueInv, workerVars
  <2>. QED
    BY <1>4, <2>1, QueueFrame DEF ReadQuery, managerVars, workerVars, lossVars, QueueInv
<1>5. CASE ReportInitialState \/ WriteAnswer
  BY <1>5, QueueFrame DEF ReportInitialState, WriteAnswer, managerVars, workerVars, lossVars, QueueInv
<1>. QED
  BY <1>1, <1>2, <1>3, <1>4, <1>5

LEMMA LoopQueues ==
    ASSUME IssuedInv, QueueInv, TakeEvent \/ WriteEvent
    PROVE  QueueInv'
<1>0. Types
  BY DEF IssuedInv
<1>1. CASE TakeEvent
  <2>1. /\ Head(events) \in Milestones /\ Head(events) = events[1] /\ 1 \in DOMAIN events
        /\ \A i \in DOMAIN events' : i + 1 \in DOMAIN events /\ events'[i] = events[i + 1]
        /\ \A i \in DOMAIN events : i = 1 \/ (i - 1 \in DOMAIN events' /\ events'[i - 1] = events[i])
    BY <1>0, <1>1, HeadAndTail DEF Types, EventsType, TakeEvent
  <2>2. PICK e \in Milestones : e = events[1]
    BY <2>1
  <2>3. PICK p \in Peerings : p = PeeringOf[e.attempt] /\ e.attempt \in Tokens
    BY AttemptAssumption DEF Milestones
  <2>4. ApplyEvent(e) /\ UNCHANGED <<stack, connected, unplugged>>
    BY <1>1, <2>1, <2>2 DEF TakeEvent, lossVars
  <2>5. ConnectedEvents'
    BY <2>1, <2>4 DEF QueueInv, ConnectedEvents
  <2>6. e.kind = "connected" => e.attempt \in connected
    BY <2>1, <2>2 DEF QueueInv, ConnectedEvents
  <2>7. LinesOnce'
    BY <1>1, QueueFrame DEF TakeEvent, pipeVars
  <2>8. ASSUME NEW q \in Peerings
        PROVE  /\ workers[q] # NoToken => stack /\ PeeringOf[workers[q]] = q
               /\ plane[q] # NoToken => stack /\ plane[q] = workers[q] /\ plane[q] \in connected
               /\ \/ workers[q] \notin connected \/ workers[q] \in unplugged \/ plane[q] = workers[q]
                  \/ e = Event(workers[q], "connected")
                  \/ \E i \in DOMAIN events' : events'[i] = Event(workers[q], "connected")
    BY <1>0, <2>1, <2>2 DEF QueueInv, PlaneFollows, Types, ManagerType
  <2>9. \A q \in Peerings : e = Event(workers[q], "connected") => e.kind = "connected" /\ e.attempt = workers[q]
    BY DEF Event
  <2>10. NoToken \notin connected
    BY <1>0, TokenAssumption DEF Types, WorkersType
  <2>11. CASE e.kind = "connected" /\ workers[p] = e.attempt /\ stack
    <3>1. UNCHANGED workers /\ \A q \in Peerings : plane'[q] = IF q = p /\ plane[p] = NoToken THEN e.attempt ELSE plane[q]
      BY <1>0, <2>3, <2>4, <2>11 DEF ApplyEvent, Types, ManagerType
    <3>2. plane'[p] = e.attempt
      BY <2>8, <2>11, <3>1
    <3>3. \A q \in Peerings : e = Event(workers[q], "connected") => q = p
      BY <2>3, <2>8, <2>9, <2>10, TokenAssumption
    <3>. QED
      BY <2>4, <2>5, <2>6, <2>7, <2>8, <2>11, <3>1, <3>2, <3>3 DEF QueueInv, PlaneFollows
  <2>12. CASE e.kind = "failed" /\ workers[p] = e.attempt
    <3>1. \A q \in Peerings : /\ workers'[q] = IF q = p THEN NoToken ELSE workers[q]
                              /\ plane'[q] = IF q = p THEN NoToken ELSE plane[q]
      BY <2>3, <2>4, <2>12, TokenAssumption DEF ApplyEvent, StopWorkers, Unregistered
    <3>. QED
      BY <2>4, <2>5, <2>7, <2>8, <2>9, <2>10, <2>12, <3>1 DEF QueueInv, PlaneFollows
  <2>13. CASE ~(e.kind = "connected" /\ workers[p] = e.attempt /\ stack) /\ ~(e.kind = "failed" /\ workers[p] = e.attempt)
    <3>1. UNCHANGED <<workers, plane>>
      BY <2>3, <2>4, <2>13 DEF ApplyEvent
    <3>2. \A q \in Peerings : e # Event(workers[q], "connected")
      BY <2>3, <2>8, <2>9, <2>13, TokenAssumption
    <3>. QED
      BY <2>4, <2>5, <2>7, <2>8, <3>1, <3>2 DEF QueueInv, PlaneFollows
  <2>. QED
    BY <2>11, <2>12, <2>13
<1>2. CASE WriteEvent
  BY <1>2, QueueFrame DEF WriteEvent, managerVars, workerVars, lossVars, QueueInv
<1>. QED
  BY <1>1, <1>2

LEMMA EndingQueues ==
    ASSUME IssuedInv, QueueInv, EndSession \/ LateRead \/ Exit
    PROVE  QueueInv'
<1>0. Types /\ Types'
  BY EndingTypes DEF IssuedInv
<1>1. CASE EndSession
  <2>1. /\ \A i \in DOMAIN late' : \/ i \in DOMAIN late /\ late'[i] = late[i]
                                   \/ i - Len(late) \in DOMAIN down /\ late'[i] = down[i - Len(late)]
        /\ down' = <<>> /\ stage' = stage
    BY <1>0, <1>1, LinesLeft DEF EndSession, workerVars
  <2>2. DOMAIN late' \subseteq Nat /\ Len(late) \in Nat
    BY <1>0 DEF Types, SessionType
  <2>3. ASSUME NEW t \in Tokens, NEW i \in DOMAIN late', Connects(late', i, t)
        PROVE  stage[t] = "none" /\ \A j \in DOMAIN late' : Connects(late', j, t) => j = i
    <3>1. CASE i \in DOMAIN late /\ late'[i] = late[i]
      <4>1. Connects(late, i, t)
        BY <2>3, <3>1 DEF Connects
      <4>2. stage[t] = "none" /\ (\A j \in DOMAIN late : Connects(late, j, t) => j = i) /\ \A j \in DOMAIN down : ~Connects(down, j, t)
        BY <3>1, <4>1 DEF QueueInv, LinesOnce, Once, Apart
      <4>. QED
        BY <2>1, <4>2 DEF Connects
    <3>2. CASE i - Len(late) \in DOMAIN down /\ late'[i] = down[i - Len(late)]
      <4>1. Connects(down, i - Len(late), t)
        BY <2>3, <3>2 DEF Connects
      <4>2. stage[t] = "none" /\ (\A j \in DOMAIN down : Connects(down, j, t) => j = i - Len(late)) /\ \A j \in DOMAIN late : ~Connects(late, j, t)
        BY <3>2, <4>1 DEF QueueInv, LinesOnce, Once, Apart
      <4>3. ASSUME NEW j \in DOMAIN late', Connects(late', j, t) PROVE j = i
        <5>1. j - Len(late) \in DOMAIN down /\ Connects(down, j - Len(late), t)
          BY <2>1, <4>2, <4>3 DEF Connects
        <5>2. j - Len(late) = i - Len(late) /\ i \in Nat /\ j \in Nat
          BY <2>2, <4>2, <5>1
        <5>. QED
          BY <2>2, <5>2
      <4>. QED
        BY <4>2, <4>3
    <3>. QED
      BY <2>1, <2>3, <3>1, <3>2
  <2>4. LinesOnce'
    BY <2>1, <2>3 DEF LinesOnce, Once, Apart, Connects
  <2>. QED
    BY <1>1, <2>4, QueueFrame DEF EndSession, managerVars, workerVars, QueueInv
<1>2. CASE LateRead
  <2>1. late # <<>> /\ late' = Tail(late) /\ down' = down /\ UNCHANGED <<connected, unplugged>>
    BY <1>2 DEF LateRead, pipeVars
  <2>2. /\ Head(late) \in DownMessages /\ Head(late) = late[1] /\ 1 \in DOMAIN late
        /\ \A i \in DOMAIN late' : i + 1 \in DOMAIN late /\ late'[i] = late[i + 1] /\ i + 1 # 1
    BY <1>0, <2>1, HeadAndTail DEF Types, SessionType
  <2>3. PICK m \in DownMessages : m = Head(late)
    BY <2>2
  <2>4. m.type = "connect" => m.attempt \in Tokens /\ Connects(late, 1, m.attempt)
    BY <2>2, <2>3, DownKinds DEF Connects
  <2>5. m.type = "connect" => stage[m.attempt] = "none"
    BY <2>2, <2>4 DEF QueueInv, LinesOnce, Once
  <2>6. /\ PlaneFollows' /\ ConnectedEvents'
        /\ \A t \in Tokens : stage[t] = "none" => stage'[t] = "none" \/ (m.type = "connect" /\ t = m.attempt)
    BY <1>2, <2>1, <2>3, <2>5, HandleQueues DEF LateRead, QueueInv
  <2>7. ASSUME NEW t \in Tokens, NEW i \in DOMAIN late', Connects(late', i, t)
        PROVE  /\ stage'[t] = "none" /\ \A j \in DOMAIN late' : Connects(late', j, t) => j = i
               /\ \A j \in DOMAIN down : ~Connects(down, j, t)
    <3>1. i + 1 \in DOMAIN late /\ Connects(late, i + 1, t)
      BY <2>2, <2>7 DEF Connects
    <3>2. /\ stage[t] = "none" /\ \A k \in DOMAIN late : Connects(late, k, t) => k = i + 1
          /\ \A j \in DOMAIN down : ~Connects(down, j, t)
      BY <3>1 DEF QueueInv, LinesOnce, Once, Apart
    <3>3. ~(m.type = "connect" /\ t = m.attempt)
      BY <2>2, <2>4, <2>7, <3>2
    <3>4. ASSUME NEW j \in DOMAIN late', Connects(late', j, t) PROVE j = i
      <4>1. j + 1 \in DOMAIN late /\ Connects(late, j + 1, t)
        BY <2>2, <3>4 DEF Connects
      <4>2. i \in Nat /\ j \in Nat
        BY <1>0 DEF Types, SessionType
      <4>. QED
        BY <3>2, <4>1, <4>2
    <3>. QED
      BY <2>6, <3>2, <3>3, <3>4
  <2>8. ASSUME NEW t \in Tokens, NEW j \in DOMAIN down, Connects(down, j, t)
        PROVE  stage'[t] = "none" /\ (\A i \in DOMAIN down : Connects(down, i, t) => i = j)
    <3>1. stage[t] = "none" /\ (\A i \in DOMAIN down : Connects(down, i, t) => i = j) /\ ~Connects(late, 1, t)
      BY <2>2, <2>8 DEF QueueInv, LinesOnce, Once, Apart
    <3>. QED
      BY <2>4, <2>6, <3>1
  <2>9. LinesOnce'
    BY <2>1, <2>7, <2>8 DEF LinesOnce, Once, Apart, Connects
  <2>. QED
    BY <2>6, <2>9 DEF QueueInv
<1>3. CASE Exit
  <2>1. /\ UNCHANGED <<connected, unplugged>> /\ events' = <<>> /\ down' = <<>> /\ late' = <<>>
        /\ plane' = NoWorkers /\ workers' = [p \in Peerings |-> NoToken]
        /\ \A t \in Tokens : stage[t] = "none" => stage'[t] = "none"
    BY <1>3 DEF Exit, StopWorkers, lossVars
  <2>2. LinesOnce'
    BY <1>0, <2>1, LinesKept DEF QueueInv
  <2>3. NoToken \notin connected
    BY <1>0, TokenAssumption DEF Types, WorkersType
  <2>4. PlaneFollows' /\ ConnectedEvents'
    BY <2>1, <2>3 DEF PlaneFollows, ConnectedEvents, NoWorkers
  <2>. QED
    BY <2>2, <2>4 DEF QueueInv
<1>. QED
  BY <1>1, <1>2, <1>3

LEMMA SendOnce ==
    ASSUME IssuedInv, QueueInv, NEW m \in DownMessages, Send(m), UNCHANGED <<stage, late>>,
           m.type = "connect" => m.attempt \notin issued
    PROVE  LinesOnce'
<1>1. \A i \in DOMAIN down' : \/ i \in DOMAIN down /\ down'[i] = down[i]
                              \/ Linked /\ i = Len(down) + 1 /\ down'[i] = m
  BY SendTypes DEF IssuedInv
<1>2. ASSUME NEW t \in Tokens, t \notin issued
      PROVE  stage[t] = "none" /\ (\A i \in DOMAIN down : ~Connects(down, i, t)) /\ (\A i \in DOMAIN late : ~Connects(late, i, t))
  BY <1>2 DEF IssuedInv, WorkersIssued, LinesIssued, Connects
<1>3. ASSUME NEW t \in Tokens, NEW i \in DOMAIN down', Connects(down', i, t)
      PROVE  /\ stage[t] = "none" /\ \A j \in DOMAIN down' : Connects(down', j, t) => j = i
             /\ \A j \in DOMAIN late : ~Connects(late, j, t)
  <2>1. CASE t \in issued
    <3>1. \A j \in DOMAIN down' : Connects(down', j, t) => j \in DOMAIN down /\ Connects(down, j, t)
      BY <1>1, <2>1 DEF Connects
    <3>. QED
      BY <1>3, <3>1 DEF QueueInv, LinesOnce, Once, Apart
  <2>2. CASE t \notin issued
    <3>1. \A j \in DOMAIN down' : Connects(down', j, t) => j = Len(down) + 1
      BY <1>1, <1>2, <2>2 DEF Connects
    <3>. QED
      BY <1>2, <1>3, <2>2, <3>1
  <2>. QED
    BY <2>1, <2>2
<1>. QED
  BY <1>3 DEF QueueInv, LinesOnce, Once, Apart, Connects

LEMMA ServerQueues ==
    ASSUME IssuedInv, QueueInv, ServerStep
    PROVE  QueueInv'
<1>1. UNCHANGED <<managerVars, workerVars, sessionVars, unplugged>>
  BY DEF ServerStep, SetConfig, ConnectLink, SendPeerProfile, DisconnectLink, PeerReports, Query, ReadSnapshot, ReadEvent, ServerEnds, lossVars
<1>2. UNCHANGED down \/ \E m \in DownMessages : Send(m) /\ (m.type = "connect" => m.attempt \notin issued)
  <2>1. ASSUME NEW c \in Configs, SetConfig(c)
        PROVE  UNCHANGED down \/ \E m \in DownMessages : Send(m) /\ (m.type = "connect" => m.attempt \notin issued)
    BY <2>1, Sendable DEF SetConfig
  <2>2. ASSUME NEW t \in Tokens, ConnectLink(t) \/ SendPeerProfile(t)
        PROVE  \E m \in DownMessages : Send(m) /\ (m.type = "connect" => m.attempt \notin issued)
    BY <2>2, Sendable DEF ConnectLink, SendPeerProfile
  <2>3. ASSUME NEW p \in Peerings, DisconnectLink(p)
        PROVE  \E m \in DownMessages : Send(m) /\ (m.type = "connect" => m.attempt \notin issued)
    BY <2>3, Sendable DEF DisconnectLink
  <2>4. ASSUME Query PROVE \E m \in DownMessages : Send(m) /\ (m.type = "connect" => m.attempt \notin issued)
    BY <2>4, Sendable DEF Query
  <2>5. ASSUME ReadEvent PROVE UNCHANGED down \/ \E m \in DownMessages : Send(m) /\ (m.type = "connect" => m.attempt \notin issued)
    <3>1. UNCHANGED down \/ Send([type |-> "error"])
      BY <2>5 DEF ReadEvent
    <3>2. PICK m \in DownMessages : m = [type |-> "error"] /\ m.type = "error"
      BY Sendable
    <3>. QED
      BY <3>1, <3>2
  <2>6. ASSUME NEW p \in Peerings, PeerReports(p) \/ ReadSnapshot \/ ServerEnds PROVE UNCHANGED down
    BY <2>6 DEF PeerReports, pipeVars, ReadSnapshot, ServerEnds
  <2>7. ReadSnapshot \/ ServerEnds => UNCHANGED down
    BY DEF ReadSnapshot, ServerEnds
  <2>. QED
    BY <2>1, <2>2, <2>3, <2>4, <2>5, <2>6, <2>7 DEF ServerStep, Configs
<1>3. LinesOnce'
  BY <1>1, <1>2, SendOnce, QueueFrame DEF workerVars, sessionVars
<1>. QED
  BY <1>1, <1>3, QueueFrame DEF managerVars, workerVars, QueueInv

LEMMA QueueHolds == Spec => []QueueInv
<1>1. Init => QueueInv
  BY DEF Init, QueueInv, PlaneFollows, ConnectedEvents, LinesOnce, Once, Apart, NoWorkers, Connects
<1>2. IssuedInv /\ QueueInv /\ [Next]_vars => QueueInv'
  <2> SUFFICES ASSUME IssuedInv, QueueInv, [Next]_vars PROVE QueueInv'
    OBVIOUS
  <2>1. CASE UNCHANGED vars
    BY <2>1, QueueFrame DEF vars, managerVars, workerVars, pipeVars, sessionVars, lossVars, QueueInv
  <2>. QED
    BY <2>1, WorkerQueues, ReaderQueues, LoopQueues, EndingQueues, ServerQueues DEF Next, SessionStep
<1>. QED
  BY <1>1, <1>2, IssuedHolds, PTL DEF Spec

\* manager.go: the plane has a queue exactly for the tunnels that are up, through
\* rebuilt stacks, replaced attempts and milestones read late, except for a
\* WorkerConnected that found the event channel full.
THEOREM QueuesFollowWorkers == Spec => []QueuesMatchWorkers
<1>1. QueueInv => QueuesMatchWorkers
  BY DEF QueueInv, PlaneFollows, QueuesMatchWorkers
<1>. QED
  BY <1>1, QueueHolds, PTL

----------------------------------------------------------------------------
(* The configuration and the links, as both ends know them *)

\* A configuration loses peerings and gains none: every one that is on its way,
\* or was applied in this session, has the peerings of the present one.
Covers(ms) == \A i \in DOMAIN ms : ms[i].type = "config" => Members(config) \subseteq Members(ms[i].peers)
CoverInv   == /\ \A p \in Peerings : p \in Members(config) \/ p \in spent
              /\ Covers(down) /\ Covers(late)
              /\ session \in {"configured", "up"} => Members(config) \subseteq Members(network)

\* A snapshot speaks of them all, and of an attempt where it belongs.
Told(links) == /\ Members(config) \subseteq DOMAIN links
               /\ \A p \in DOMAIN links : /\ links[p].state = "IDLE" <=> links[p].token = NoToken
                                          /\ links[p].token # NoToken => PeeringOf[links[p].token] = p
ToldInv == /\ answer # NoAnswer => Told(answer)
           /\ \A i \in DOMAIN up : up[i].type = "snapshot" => Told(up[i].links)
           /\ \A p \in Peerings : record[p].token # NoToken => PeeringOf[record[p].token] = p

\* The last configuration on its way is the server's; if none is, it has been applied.
LastConfig == \E i \in DOMAIN down : /\ down[i].type = "config" /\ down[i].peers = config
                                     /\ \A j \in DOMAIN down : down[j].type = "config" => j <= i
ConfigRead == network = config /\ \A i \in DOMAIN down : down[i].type # "config"
FollowInv  == /\ online /\ session = "registered" => LastConfig
              /\ online /\ session \in {"configured", "up"} /\ ~stray => LastConfig \/ ConfigRead

ConfigInv == CoverInv /\ ToldInv /\ FollowInv

\* What a message does to the configuration.
LEMMA HandleNetwork ==
    ASSUME NEW m, Handle(m)
    PROVE  network' = (IF m.type = "config" THEN m.peers ELSE network)
  BY DEF Handle, ApplyConfig, HandleConnect, HandleDisconnect, HandlePeerProfile

LEMMA CoverFrame ==
    ASSUME CoverInv, UNCHANGED <<config, spent>>
    PROVE  /\ UNCHANGED <<down, late, session, network>> => CoverInv'
           /\ UNCHANGED <<session, network, late>> => (Covers(down)' => CoverInv')
<1>1. UNCHANGED <<down, late, session, network>> => CoverInv'
  BY DEF CoverInv, Covers
<1>2. UNCHANGED <<session, network, late>> => (Covers(down)' => CoverInv')
  BY DEF CoverInv, Covers
<1>. QED
  BY <1>1, <1>2

LEMMA SessionCovers ==
    ASSUME Types, CoverInv, SessionStep
    PROVE  CoverInv'
<1>0. UNCHANGED <<config, spent>>
  BY DEF SessionStep, Register, ReadInitialConfig, ReportInitialState, Read, ReadQuery, WriteAnswer, TakeEvent, WriteEvent,
         EndSession, LateRead, Exit, serverVars
<1>1. ASSUME down # <<>>, NEW m, m = Head(down), down' = Tail(down)
      PROVE  Covers(down)' /\ (m.type = "config" => Members(config) \subseteq Members(m.peers))
  <2>1. /\ Head(down) = down[1] /\ 1 \in DOMAIN down
        /\ \A i \in DOMAIN down' : i + 1 \in DOMAIN down /\ down'[i] = down[i + 1]
    BY <1>1, HeadAndTail DEF Types, PipeType
  <2>. QED
    BY <1>0, <1>1, <2>1 DEF CoverInv, Covers
<1>2. CASE Register
  BY <1>0, <1>2 DEF Register, CoverInv, Covers
<1>3. CASE ReadInitialConfig
  <2>1. Head(down).type = "config" /\ down # <<>> /\ down' = Tail(down) /\ network' = Head(down).peers /\ late' = late
    BY <1>3 DEF ReadInitialConfig, ApplyConfig, Types, PipeType
  <2>. QED
    BY <1>0, <1>1, <2>1 DEF CoverInv, Covers
<1>4. CASE Read
  <2>1. down # <<>> /\ down' = Tail(down) /\ UNCHANGED <<session, late>> /\ Handle(Head(down))
    BY <1>4 DEF Read, sessionVars
  <2>2. PICK m : m = Head(down)
    OBVIOUS
  <2>3. network' = (IF m.type = "config" THEN m.peers ELSE network)
    BY <2>1, <2>2, HandleNetwork
  <2>. QED
    BY <1>0, <1>1, <2>1, <2>2, <2>3 DEF CoverInv, Covers
<1>5. CASE ReadQuery
  BY <1>0, <1>1, <1>5, CoverFrame DEF ReadQuery, managerVars
<1>6. CASE ReportInitialState
  BY <1>0, <1>6 DEF ReportInitialState, CoverInv, Covers, managerVars
<1>7. CASE WriteAnswer \/ TakeEvent \/ WriteEvent
  BY <1>0, <1>7, CoverFrame DEF WriteAnswer, TakeEvent, WriteEvent, managerVars, pipeVars
<1>8. CASE EndSession
  <2>1. /\ \A i \in DOMAIN late' : \/ i \in DOMAIN late /\ late'[i] = late[i]
                                   \/ i - Len(late) \in DOMAIN down /\ late'[i] = down[i - Len(late)]
        /\ down' = <<>> /\ session' = "down"
    BY <1>8, LinesLeft DEF EndSession
  <2>. QED
    BY <1>0, <2>1 DEF CoverInv, Covers
<1>9. CASE LateRead
  <2>1. /\ Head(late) = late[1] /\ 1 \in DOMAIN late
        /\ \A i \in DOMAIN late' : i + 1 \in DOMAIN late /\ late'[i] = late[i + 1]
    BY <1>9, HeadAndTail DEF Types, SessionType, LateRead
  <2>2. UNCHANGED <<session, down>> /\ Handle(Head(late))
    BY <1>9 DEF LateRead, pipeVars
  <2>3. PICK m : m = Head(late)
    OBVIOUS
  <2>4. network' = (IF m.type = "config" THEN m.peers ELSE network)
    BY <2>2, <2>3, HandleNetwork
  <2>. QED
    BY <1>0, <2>1, <2>2, <2>3, <2>4 DEF CoverInv, Covers
<1>10. CASE Exit
  BY <1>0, <1>10 DEF Exit, CoverInv, Covers
<1>. QED
  BY <1>2, <1>3, <1>4, <1>5, <1>6, <1>7, <1>8, <1>9, <1>10 DEF SessionStep

LEMMA SetConfigCovers ==
    ASSUME Types, CoverInv, NEW c \in Configs, SetConfig(c)
    PROVE  CoverInv' /\ Members(c) \subseteq Members(config)
<1>1. PICK m \in DownMessages : m = [type |-> "config", peers |-> c] /\ m.type = "config" /\ m.peers = c
  BY Sendable
<1>2. UNCHANGED down \/ Send(m)
  BY <1>1 DEF SetConfig
<1>3. \A i \in DOMAIN down' : (i \in DOMAIN down /\ down'[i] = down[i]) \/ down'[i] = m
  BY <1>2, SendTypes
<1>4. Members(c) \in SUBSET Peerings /\ Members(c) \cap spent = {} /\ config' = c
      /\ spent' = spent \cup (Members(config) \ Members(c)) /\ UNCHANGED <<late, network, session>>
  BY DEF SetConfig, Members, Configs, managerVars, sessionVars
<1>5. Members(c) \subseteq Members(config)
  BY <1>4 DEF CoverInv
<1>6. Covers(down)' /\ Covers(late)'
  BY <1>1, <1>3, <1>4, <1>5 DEF CoverInv, Covers
<1>. QED
  BY <1>4, <1>5, <1>6 DEF CoverInv

LEMMA ServerCovers ==
    ASSUME Types, CoverInv, ServerStep
    PROVE  CoverInv'
<1>1. ASSUME NEW m \in DownMessages, Send(m), m.type # "config", UNCHANGED <<config, spent, session, network, late>>
      PROVE  CoverInv'
  <2>1. \A i \in DOMAIN down' : (i \in DOMAIN down /\ down'[i] = down[i]) \/ down'[i] = m
    BY <1>1, SendTypes
  <2>2. Covers(down)'
    BY <1>1, <2>1 DEF CoverInv, Covers
  <2>. QED
    BY <1>1, <2>2, CoverFrame
<1>2. ASSUME NEW c \in Configs, SetConfig(c) PROVE CoverInv'
  BY <1>2, SetConfigCovers
<1>3. ASSUME NEW t \in Tokens, ConnectLink(t) \/ SendPeerProfile(t) PROVE CoverInv'
  BY <1>1, <1>3, Sendable DEF ConnectLink, SendPeerProfile, managerVars, sessionVars
<1>4. ASSUME NEW p \in Peerings, DisconnectLink(p) PROVE CoverInv'
  BY <1>1, <1>4, Sendable DEF DisconnectLink, managerVars, sessionVars
<1>5. ASSUME Query PROVE CoverInv'
  BY <1>1, <1>5, Sendable DEF Query, managerVars, sessionVars, serverVars
<1>6. ASSUME NEW p \in Peerings, PeerReports(p) PROVE CoverInv'
  BY <1>6, CoverFrame DEF PeerReports, managerVars, sessionVars, pipeVars
<1>7. ASSUME ReadSnapshot \/ ServerEnds PROVE CoverInv'
  BY <1>7, CoverFrame DEF ReadSnapshot, ServerEnds, managerVars, sessionVars
<1>8. ASSUME ReadEvent PROVE CoverInv'
  <2>1. UNCHANGED down \/ Send([type |-> "error"])
    BY <1>8 DEF ReadEvent
  <2>2. UNCHANGED <<config, spent, session, network, late>>
    BY <1>8 DEF ReadEvent, managerVars, sessionVars
  <2>3. PICK m \in DownMessages : m = [type |-> "error"] /\ m.type = "error"
    BY Sendable
  <2>. QED
    BY <1>1, <2>1, <2>2, <2>3, CoverFrame
<1>. QED
  BY <1>2, <1>3, <1>4, <1>5, <1>6, <1>7, <1>8 DEF ServerStep, Configs

\* What the methods of Link make of the token.
LEMMA LinkTokens ==
    ASSUME NEW link \in LinkRecord, Paired(link), NEW t \in Tokens
    PROVE  /\ IssueConnect(link, t).token = t
           /\ IssueDisconnect(link).token = NoToken
           /\ ReportSuccess(link, t).token = link.token
           /\ \A r \in Reasons : ReportFailure(link, t, r).token = IF link.token = t THEN NoToken ELSE link.token
           /\ \A s \in LinkStates, u \in Tokens \cup {NoToken} :
                 (s = "IDLE" <=> u = NoToken) => AdoptClientReport(link, s, u).token = u
<1> USE TokenAssumption DEF LinkRecord, LinkStates, Paired
<1>1. IssueConnect(link, t).token = t
  BY DEF IssueConnect, Set
<1>2. IssueDisconnect(link).token = NoToken
  BY DEF IssueDisconnect, Set
<1>3. ReportSuccess(link, t).token = link.token
  BY DEF ReportSuccess, Matches, Set
<1>4. \A r \in Reasons : ReportFailure(link, t, r).token = IF link.token = t THEN NoToken ELSE link.token
  BY DEF ReportFailure, Matches, Set
<1>5. ASSUME NEW s \in LinkStates, NEW u \in Tokens \cup {NoToken}, s = "IDLE" <=> u = NoToken
      PROVE  AdoptClientReport(link, s, u).token = u
  BY <1>5 DEF AdoptClientReport, Set
<1>. QED
  BY <1>1, <1>2, <1>3, <1>4, <1>5

LEMMA ReportTold ==
    ASSUME Types, Members(config) \subseteq Members(network)
    PROVE  Told(StateReport)
<1>1. Members(network) \in SUBSET Peerings
  BY DEF Types, ManagerType, Members, Configs
<1>2. DOMAIN StateReport = Members(network)
  BY DEF StateReport
<1>3. ASSUME NEW p \in Members(network)
      PROVE  /\ StateReport[p].state = "IDLE" <=> StateReport[p].token = NoToken
             /\ StateReport[p].token # NoToken => PeeringOf[StateReport[p].token] = p
  <2>1. StateReport[p] = IF workers[p] = NoToken THEN [state |-> "IDLE", token |-> NoToken] ELSE State(workers[p])
    BY <1>3 DEF StateReport
  <2>2. p \in Peerings /\ (workers[p] # NoToken => workers[p] \in Tokens /\ PeeringOf[workers[p]] = p)
    BY <1>1 DEF Types, ManagerType
  <2>. QED
    BY <2>1, <2>2 DEF State
<1>. QED
  BY <1>2, <1>3 DEF Told

LEMMA ToldFrame ==
    ASSUME ToldInv, Members(config') \subseteq Members(config)
    PROVE  /\ \A links : Told(links) => Told(links)'
           /\ UNCHANGED <<answer, up, record>> => ToldInv'
<1>1. \A links : Told(links) => Told(links)'
  BY DEF Told
<1>. QED
  BY <1>1 DEF ToldInv

LEMMA SessionTold ==
    ASSUME Types, CoverInv, ToldInv, SessionStep
    PROVE  ToldInv'
<1>0. UNCHANGED <<config, record>>
  BY DEF SessionStep, Register, ReadInitialConfig, ReportInitialState, Read, ReadQuery, WriteAnswer, TakeEvent, WriteEvent,
         EndSession, LateRead, Exit, serverVars
<1>1. \A links : Told(links) => Told(links)'
  BY <1>0, ToldFrame
<1>2. ASSUME NEW links, Told(links), [type |-> "snapshot", links |-> links] \in UpMessages,
             up' = Append(up, [type |-> "snapshot", links |-> links]), answer' \in {answer, NoAnswer}
      PROVE  ToldInv'
  <2> DEFINE m == [type |-> "snapshot", links |-> links]
  <2>1. m \in UpMessages /\ m.links = links
    BY <1>2
  <2>. HIDE DEF m
  <2>2. \A i \in DOMAIN up' : (i \in DOMAIN up /\ up'[i] = up[i]) \/ up'[i] = m
    BY <1>2, <2>1, Appended DEF m, Types, PipeType
  <2>3. answer' # NoAnswer => Told(answer)'
    BY <1>1, <1>2 DEF ToldInv
  <2>4. (\A i \in DOMAIN up : up[i].type = "snapshot" => Told(up[i].links))'
    BY <1>0, <1>2, <2>1, <2>2 DEF ToldInv, Told
  <2>. QED
    BY <1>0, <2>3, <2>4 DEF ToldInv
<1>3. CASE Register
  BY <1>0, <1>1, <1>3 DEF Register, ToldInv
<1>4. CASE ReadInitialConfig \/ Read \/ TakeEvent \/ LateRead
  <2>1. UNCHANGED <<answer, up>>
    BY <1>4 DEF ReadInitialConfig, Read, TakeEvent, LateRead, sessionVars, pipeVars
  <2>. QED
    BY <1>0, <2>1, ToldFrame
<1>5. CASE ReportInitialState
  <2>1. Told(StateReport)
    BY <1>5, ReportTold DEF ReportInitialState, CoverInv
  <2>2. [type |-> "snapshot", links |-> StateReport] \in UpMessages
    BY ReportType DEF UpMessages
  <2>. QED
    BY <1>2, <1>5, <2>1, <2>2 DEF ReportInitialState
<1>6. CASE ReadQuery
  <2>1. Told(StateReport)
    BY <1>6, ReportTold DEF ReadQuery, CoverInv
  <2>. QED
    BY <1>0, <1>1, <1>6, <2>1 DEF ReadQuery, ToldInv
<1>7. CASE WriteAnswer
  <2>1. [type |-> "snapshot", links |-> answer] \in UpMessages
    BY <1>7 DEF WriteAnswer, UpMessages, Types, SessionType
  <2>. QED
    BY <1>2, <1>7, <2>1 DEF WriteAnswer, ToldInv
<1>8. CASE WriteEvent
  <2>1. PICK m \in UpMessages : m = [type |-> "event", event |-> sending] /\ m.type = "event"
    <3>1. [type |-> "event", event |-> sending] \in UpMessages
      BY <1>8 DEF WriteEvent, UpMessages, Types, SessionType
    <3>. QED
      BY <3>1
  <2>2. \A i \in DOMAIN up' : (i \in DOMAIN up /\ up'[i] = up[i]) \/ up'[i] = m
    BY <1>8, <2>1, Appended DEF WriteEvent, Types, PipeType
  <2>3. answer' # NoAnswer => Told(answer)'
    BY <1>1, <1>8 DEF WriteEvent, ToldInv
  <2>4. (\A i \in DOMAIN up : up[i].type = "snapshot" => Told(up[i].links))'
    BY <1>0, <2>1, <2>2 DEF ToldInv, Told
  <2>. QED
    BY <1>0, <2>3, <2>4 DEF ToldInv
<1>9. CASE EndSession \/ Exit
  <2>1. answer' = NoAnswer /\ \A i \in DOMAIN up' : i \in DOMAIN up /\ up'[i] = up[i]
    BY <1>9, LinesLeft DEF EndSession, Exit
  <2>2. (\A i \in DOMAIN up : up[i].type = "snapshot" => Told(up[i].links))'
    BY <1>0, <2>1 DEF ToldInv, Told
  <2>. QED
    BY <1>0, <2>1, <2>2 DEF ToldInv
<1>. QED
  BY <1>3, <1>4, <1>5, <1>6, <1>7, <1>8, <1>9 DEF SessionStep

\* The reports of the client, and of the other side, name no other attempt; a snapshot names those it was told of.
LEMMA RecordMoves ==
    ASSUME Types, ToldInv
    PROVE  /\ \A q \in Peerings : PeerReports(q) => \A p \in Peerings : record'[p].token \in {record[p].token, NoToken}
           /\ ReadEvent => \A p \in Peerings : record'[p].token \in {record[p].token, NoToken}
           /\ ReadSnapshot => \A p \in Peerings :
                 record'[p].token = IF p \in DOMAIN Head(up).links \cap Members(config)
                                    THEN Head(up).links[p].token ELSE record[p].token
<1>0. \A p \in Peerings : record[p] \in LinkRecord /\ Paired(record[p])
  BY DEF Types, ServerType
<1>1. ASSUME NEW q \in Peerings, NEW t \in Tokens,
             \/ record' = [record EXCEPT ![q] = ReportSuccess(record[q], t)]
             \/ \E r \in Reasons : record' = [record EXCEPT ![q] = ReportFailure(record[q], t, r)]
      PROVE  \A p \in Peerings : record'[p].token \in {record[p].token, NoToken}
  BY <1>0, <1>1, LinkTokens DEF Types, ServerType
<1>2. ASSUME NEW q \in Peerings, PeerReports(q)
      PROVE  \A p \in Peerings : record'[p].token \in {record[p].token, NoToken}
  <2>1. PICK t \in Tokens : \/ record' = [record EXCEPT ![q] = ReportSuccess(record[q], t)]
                          \/ \E r \in Reasons : record' = [record EXCEPT ![q] = ReportFailure(record[q], t, r)]
    BY <1>2 DEF PeerReports, Types, ServerType
  <2>. QED
    BY <1>1, <2>1
<1>3. ASSUME ReadEvent PROVE \A p \in Peerings : record'[p].token \in {record[p].token, NoToken}
  <2>1. up \in Seq(UpMessages) /\ up # <<>> /\ Head(up).type = "event"
    BY <1>3 DEF ReadEvent, Reads, Types, PipeType
  <2>2. Head(up) \in UpMessages
    BY <2>1, HeadAndTail
  <2>3. PICK e \in Milestones : e = Head(up).event
    BY <2>1, <2>2, UpKinds
  <2>4. PICK t \in Tokens, q \in Peerings : t = e.attempt /\ q = PeeringOf[t]
    BY AttemptAssumption DEF Milestones
  <2>5. \/ UNCHANGED record
        \/ record' = [record EXCEPT ![q] = ReportSuccess(record[q], t)]
        \/ \E r \in Reasons : record' = [record EXCEPT ![q] = ReportFailure(record[q], t, r)]
    BY <1>3, <2>3, <2>4 DEF ReadEvent, Types, ServerType
  <2>. QED
    BY <1>1, <2>4, <2>5
<1>4. ASSUME ReadSnapshot, NEW p \in Peerings
      PROVE  record'[p].token = IF p \in DOMAIN Head(up).links \cap Members(config)
                                THEN Head(up).links[p].token ELSE record[p].token
  <2>1. up \in Seq(UpMessages) /\ up # <<>> /\ Head(up).type = "snapshot"
    BY <1>4 DEF ReadSnapshot, Reads, Types, PipeType
  <2>2. Head(up) \in UpMessages /\ Head(up) = up[1] /\ 1 \in DOMAIN up
    BY <2>1, HeadAndTail
  <2>3. PICK links \in Snapshots : links = Head(up).links
    BY <2>1, <2>2, UpKinds
  <2>4. Told(links)
    BY <2>1, <2>2, <2>3 DEF ToldInv
  <2>5. record'[p] = IF p \in DOMAIN links \cap Members(config)
                     THEN AdoptClientReport(record[p], links[p].state, links[p].token) ELSE record[p]
    BY <1>4, <2>3 DEF ReadSnapshot
  <2>6. \A q \in DOMAIN links : links[q].state \in LinkStates /\ links[q].token \in Tokens \cup {NoToken}
    BY DEF Snapshots, Reported
  <2>7. ASSUME p \in DOMAIN links
        PROVE  AdoptClientReport(record[p], links[p].state, links[p].token).token = links[p].token
    BY <1>0, <2>4, <2>6, <2>7 DEF AdoptClientReport, Set, Told, LinkRecord, Paired
  <2>. QED
    BY <2>3, <2>5, <2>7
<1>. QED
  BY <1>2, <1>3, <1>4

LEMMA ServerTold ==
    ASSUME Types, CoverInv, ToldInv, ServerStep
    PROVE  ToldInv'
<1>0. \A p \in Peerings : record[p] \in LinkRecord /\ Paired(record[p])
  BY DEF Types, ServerType
<1>1. ASSUME NEW c \in Configs, SetConfig(c) PROVE ToldInv'
  <2>1. Members(config') \subseteq Members(config) /\ UNCHANGED <<answer, up>>
    BY <1>1, SetConfigCovers DEF SetConfig, sessionVars
  <2>2. \A p \in Peerings : record'[p].token \in {record[p].token, NoToken}
    BY <1>1 DEF SetConfig, IdleLink
  <2>3. \A links : Told(links) => Told(links)'
    BY <2>1, ToldFrame
  <2>. QED
    BY <2>1, <2>2, <2>3 DEF ToldInv
<1>2. ASSUME UNCHANGED <<config, answer, up>>,
             \A p \in Peerings : record'[p].token # NoToken => PeeringOf[record'[p].token] = p
      PROVE  ToldInv'
  <2>1. \A links : Told(links) => Told(links)'
    BY <1>2, ToldFrame
  <2>. QED
    BY <1>2, <2>1 DEF ToldInv
<1>3. ASSUME UNCHANGED <<config, answer>>, up # <<>>, up' = Tail(up),
             \A p \in Peerings : record'[p].token # NoToken => PeeringOf[record'[p].token] = p
      PROVE  ToldInv'
  <2>1. \A i \in DOMAIN up' : i + 1 \in DOMAIN up /\ up'[i] = up[i + 1]
    BY <1>3, HeadAndTail DEF Types, PipeType
  <2>2. \A links : Told(links) => Told(links)'
    BY <1>3, ToldFrame
  <2>3. (answer' # NoAnswer => Told(answer)') /\ (\A i \in DOMAIN up : up[i].type = "snapshot" => Told(up[i].links))'
    BY <1>3, <2>1 DEF ToldInv, Told
  <2>. QED
    BY <1>3, <2>3 DEF ToldInv
<1>4. ASSUME NEW t \in Tokens, ConnectLink(t) PROVE ToldInv'
  <2>1. \A p \in Peerings : record'[p] = IF p = PeeringOf[t] THEN IssueConnect(record[p], t) ELSE record[p]
    BY <1>4 DEF ConnectLink, Types, ServerType
  <2>2. \A p \in Peerings : record'[p].token # NoToken => PeeringOf[record'[p].token] = p
    BY <1>0, <2>1, LinkTokens DEF ToldInv
  <2>. QED
    BY <1>2, <1>4, <2>2 DEF ConnectLink, sessionVars
<1>5. ASSUME NEW p \in Peerings, DisconnectLink(p) PROVE ToldInv'
  <2>1. \A q \in Peerings : record'[q] = IF q = p THEN IssueDisconnect(record[q]) ELSE record[q]
    BY <1>5 DEF DisconnectLink, Types, ServerType
  <2>2. \A q \in Peerings : record'[q].token # NoToken => PeeringOf[record'[q].token] = q
    BY <1>0, <2>1 DEF ToldInv, IssueDisconnect, Set, LinkRecord
  <2>. QED
    BY <1>2, <1>5, <2>2 DEF DisconnectLink, sessionVars
<1>6. ASSUME NEW p \in Peerings, PeerReports(p) PROVE ToldInv'
  <2>1. \A q \in Peerings : record'[q].token # NoToken => PeeringOf[record'[q].token] = q
    BY <1>6, RecordMoves DEF ToldInv
  <2>. QED
    BY <1>2, <1>6, <2>1 DEF PeerReports, sessionVars, pipeVars
<1>7. ASSUME ReadSnapshot PROVE ToldInv'
  <2>1. up # <<>> /\ up' = Tail(up) /\ Head(up) = up[1] /\ 1 \in DOMAIN up /\ up[1].type = "snapshot"
    BY <1>7, HeadAndTail DEF ReadSnapshot, Reads, Types, PipeType
  <2>2. Told(Head(up).links)
    BY <2>1 DEF ToldInv
  <2>3. \A q \in Peerings : record'[q].token # NoToken => PeeringOf[record'[q].token] = q
    BY <1>7, <2>2, RecordMoves DEF ToldInv, Told
  <2>. QED
    BY <1>3, <1>7, <2>1, <2>3 DEF ReadSnapshot, sessionVars
<1>8. ASSUME ReadEvent PROVE ToldInv'
  <2>1. \A q \in Peerings : record'[q].token # NoToken => PeeringOf[record'[q].token] = q
    BY <1>8, RecordMoves DEF ToldInv
  <2>. QED
    BY <1>3, <1>8, <2>1 DEF ReadEvent, Reads, sessionVars
<1>9. ASSUME ServerEnds PROVE ToldInv'
  <2>1. \A links : Told(links) => Told(links)'
    BY <1>9, ToldFrame DEF ServerEnds
  <2>. QED
    BY <1>9, <2>1 DEF ServerEnds, ToldInv, sessionVars
<1>10. ASSUME NEW t \in Tokens, SendPeerProfile(t) \/ Query PROVE ToldInv'
  BY <1>10, ToldFrame DEF SendPeerProfile, Query, sessionVars, serverVars
<1>11. ASSUME Query PROVE ToldInv'
  BY <1>11, ToldFrame DEF Query, sessionVars, serverVars
<1>. QED
  BY <1>1, <1>4, <1>5, <1>6, <1>7, <1>8, <1>9, <1>10, <1>11 DEF ServerStep, Configs

\* Taking the first message: what is left, and what it was, follow the server still.
LEMMA TakeFollows ==
    ASSUME Types, config' = config, down # <<>>, down' = Tail(down), NEW m, m = Head(down),
           LastConfig \/ ConfigRead, network' = (IF m.type = "config" THEN m.peers ELSE network)
    PROVE  LastConfig' \/ ConfigRead'
<1>1. /\ m = down[1] /\ 1 \in DOMAIN down /\ DOMAIN down \subseteq Nat /\ DOMAIN down' \subseteq Nat
      /\ \A i \in DOMAIN down' : i + 1 \in DOMAIN down /\ down'[i] = down[i + 1] /\ i + 1 # 1
      /\ \A i \in DOMAIN down : i = 1 \/ (i - 1 \in DOMAIN down' /\ down'[i - 1] = down[i])
  <2>1. down \in Seq(DownMessages) /\ down' \in Seq(DownMessages)
    BY HeadAndTail DEF Types, PipeType
  <2>2. DOMAIN down \subseteq Nat /\ DOMAIN down' \subseteq Nat
    BY <2>1
  <2>. QED
    BY <2>1, <2>2, HeadAndTail
<1>2. CASE ConfigRead
  BY <1>1, <1>2 DEF ConfigRead
<1>3. CASE LastConfig
  <2>1. PICK i \in DOMAIN down : /\ down[i].type = "config" /\ down[i].peers = config
                                 /\ \A j \in DOMAIN down : down[j].type = "config" => j <= i
    BY <1>3 DEF LastConfig
  <2>2. CASE i = 1
    <3>1. \A j \in DOMAIN down' : down'[j].type # "config"
      <4>1. SUFFICES ASSUME NEW j \in DOMAIN down', down'[j].type = "config" PROVE FALSE
        OBVIOUS
      <4>2. j + 1 \in DOMAIN down /\ j \in Nat /\ j + 1 # 1 /\ j + 1 <= 1
        BY <1>1, <2>1, <2>2, <4>1
      <4>. QED
        BY <4>2
    <3>. QED
      BY <1>1, <2>1, <2>2, <3>1 DEF ConfigRead
  <2>3. CASE i # 1
    <3>1. i - 1 \in DOMAIN down' /\ down'[i - 1] = down[i]
      BY <1>1, <2>3
    <3>2. ASSUME NEW j \in DOMAIN down', down'[j].type = "config" PROVE j <= i - 1
      <4>1. j + 1 <= i /\ j \in Nat /\ i \in Nat
        BY <1>1, <2>1, <3>2
      <4>. QED
        BY <4>1
    <3>. QED
      BY <2>1, <3>1, <3>2 DEF LastConfig
  <2>. QED
    BY <2>2, <2>3
<1>. QED
  BY <1>2, <1>3

LEMMA SendFollows ==
    ASSUME Types, NEW m \in DownMessages, Send(m), Linked, LastConfig \/ ConfigRead, network' = network
    PROVE  /\ m.type # "config" /\ config' = config => (LastConfig => LastConfig') /\ (ConfigRead => ConfigRead')
           /\ m.type = "config" /\ config' = m.peers => LastConfig'
<1>1. /\ \A i \in DOMAIN down : i \in DOMAIN down' /\ down'[i] = down[i]
      /\ \A i \in DOMAIN down' : (i \in DOMAIN down /\ down'[i] = down[i]) \/ (i = Len(down) + 1 /\ down'[i] = m)
      /\ Len(down) + 1 \in DOMAIN down' /\ down'[Len(down) + 1] = m
  BY SendTypes
<1>2. DOMAIN down = 1 .. Len(down) /\ Len(down) \in Nat
  BY DEF Types, PipeType
<1>3. m.type # "config" /\ config' = config => (LastConfig => LastConfig') /\ (ConfigRead => ConfigRead')
  BY <1>1 DEF LastConfig, ConfigRead
<1>4. ASSUME m.type = "config", config' = m.peers PROVE LastConfig'
  <2>1. \A j \in DOMAIN down' : j <= Len(down) + 1
    BY <1>1, <1>2
  <2>. QED
    BY <1>1, <1>4, <2>1 DEF LastConfig
<1>. QED
  BY <1>3, <1>4

LEMMA FollowFrame ==
    ASSUME FollowInv, UNCHANGED <<config, online, down>>
    PROVE  /\ UNCHANGED <<network, session, stray>> => FollowInv'
           /\ network' = network /\ session \in {"configured", "up"} /\ session' \in {"configured", "up"} /\ stray' = stray => FollowInv'
<1>1. (LastConfig => LastConfig') /\ (UNCHANGED network /\ ConfigRead => ConfigRead')
  BY DEF LastConfig, ConfigRead
<1>. QED
  BY <1>1 DEF FollowInv

LEMMA SessionFollows ==
    ASSUME Types, FollowInv, SessionStep
    PROVE  FollowInv'
<1>0. config' = config /\ (online' = online \/ Register)
  BY DEF SessionStep, Register, ReadInitialConfig, ReportInitialState, Read, ReadQuery, WriteAnswer, TakeEvent, WriteEvent,
         EndSession, LateRead, Exit, serverVars
<1>1. CASE Register
  <2>1. LastConfig'
    <3>1. DOMAIN down' = {1} /\ down'[1] = [type |-> "config", peers |-> config] /\ 1 <= 1
      BY <1>1 DEF Register
    <3>. QED
      BY <1>0, <3>1 DEF LastConfig
  <2>. QED
    BY <2>1 DEF FollowInv
<1>2. SUFFICES ASSUME online' = online, ~Register PROVE FollowInv'
  BY <1>0, <1>1
<1>3. CASE ReadInitialConfig
  <2>1. /\ session = "registered" /\ session' = "configured" /\ down # <<>> /\ down' = Tail(down)
        /\ network' = Head(down).peers /\ Head(down).type = "config"
    BY <1>3 DEF ReadInitialConfig, ApplyConfig, Types, PipeType
  <2>2. online => LastConfig
    BY <2>1 DEF FollowInv
  <2>3. online => LastConfig' \/ ConfigRead'
    BY <1>0, <1>2, <2>1, <2>2, TakeFollows
  <2>. QED
    BY <1>0, <1>2, <2>1, <2>3 DEF FollowInv
<1>4. CASE Read \/ ReadQuery
  <2>1. /\ session = "up" /\ session' = "up" /\ stray' = stray /\ down # <<>> /\ down' = Tail(down)
        /\ Handle(Head(down)) \/ (network' = network /\ Head(down).type = "query")
    BY <1>4 DEF Read, ReadQuery, sessionVars, managerVars, lossVars
  <2>2. PICK m : m = Head(down)
    OBVIOUS
  <2>3. network' = (IF m.type = "config" THEN m.peers ELSE network)
    BY <2>1, <2>2, HandleNetwork
  <2>4. LastConfig \/ ConfigRead => LastConfig' \/ ConfigRead'
    BY <1>0, <1>2, <2>1, <2>2, <2>3, TakeFollows
  <2>. QED
    BY <1>0, <1>2, <2>1, <2>4 DEF FollowInv
<1>5. CASE ReportInitialState \/ WriteAnswer \/ TakeEvent \/ WriteEvent
  <2>1. /\ UNCHANGED <<down, stray, network>>
        /\ UNCHANGED session \/ (session = "configured" /\ session' = "up")
    BY <1>5 DEF ReportInitialState, WriteAnswer, TakeEvent, WriteEvent, managerVars, lossVars, pipeVars
  <2>. QED
    BY <1>0, <1>2, <2>1, FollowFrame
<1>6. CASE EndSession \/ Exit
  BY <1>6 DEF EndSession, Exit, FollowInv
<1>7. CASE LateRead
  <2>1. UNCHANGED <<down, session>> /\ (session \in {"configured", "up"} => stray' = TRUE)
    BY <1>7 DEF LateRead, pipeVars
  <2>2. LastConfig => LastConfig'
    BY <1>0, <1>2, <2>1 DEF LastConfig
  <2>. QED
    BY <1>0, <1>2, <2>1, <2>2 DEF FollowInv
<1>. QED
  BY <1>2, <1>3, <1>4, <1>5, <1>6, <1>7 DEF SessionStep

LEMMA ServerFollows ==
    ASSUME Types, FollowInv, ServerStep
    PROVE  FollowInv'
<1>0. UNCHANGED <<network, session, stray>>
  BY DEF ServerStep, SetConfig, ConnectLink, SendPeerProfile, DisconnectLink, PeerReports, Query, ReadSnapshot, ReadEvent,
         ServerEnds, managerVars, sessionVars, lossVars
<1>1. ASSUME NEW m \in DownMessages, Send(m), online' = online,
             \/ m.type # "config" /\ config' = config
             \/ m.type = "config" /\ config' = m.peers
      PROVE  FollowInv'
  <2>1. session \in {"registered", "configured", "up"} => Linked
    BY DEF Linked
  <2>2. Linked /\ (LastConfig \/ ConfigRead) => (LastConfig => LastConfig') /\ (LastConfig' \/ ConfigRead')
    BY <1>0, <1>1, SendFollows
  <2>. QED
    BY <1>0, <1>1, <2>1, <2>2 DEF FollowInv
<1>2. ASSUME NEW c \in Configs, SetConfig(c) PROVE FollowInv'
  <2>1. CASE online
    <3>1. PICK m \in DownMessages : m = [type |-> "config", peers |-> c] /\ m.type = "config" /\ m.peers = c
      BY Sendable
    <3>. QED
      BY <1>1, <1>2, <2>1, <3>1 DEF SetConfig
  <2>2. CASE ~online
    BY <1>2, <2>2 DEF SetConfig, FollowInv
  <2>. QED
    BY <2>1, <2>2
<1>3. ASSUME NEW t \in Tokens, ConnectLink(t) \/ SendPeerProfile(t) PROVE FollowInv'
  BY <1>1, <1>3, Sendable DEF ConnectLink, SendPeerProfile
<1>4. ASSUME NEW p \in Peerings, DisconnectLink(p) PROVE FollowInv'
  BY <1>1, <1>4, Sendable DEF DisconnectLink
<1>5. ASSUME Query PROVE FollowInv'
  BY <1>1, <1>5, Sendable DEF Query, serverVars
<1>6. ASSUME NEW p \in Peerings, PeerReports(p) PROVE FollowInv'
  BY <1>0, <1>6, FollowFrame DEF PeerReports, pipeVars
<1>7. ASSUME ReadSnapshot PROVE FollowInv'
  BY <1>0, <1>7, FollowFrame DEF ReadSnapshot, Reads
<1>8. ASSUME ReadEvent PROVE FollowInv'
  <2>1. online' = FALSE \/ (UNCHANGED <<down, online>> /\ config' = config)
    BY <1>8 DEF ReadEvent
  <2>. QED
    BY <1>0, <2>1, FollowFrame DEF FollowInv
<1>9. ASSUME ServerEnds PROVE FollowInv'
  BY <1>9 DEF ServerEnds, FollowInv
<1>. QED
  BY <1>2, <1>3, <1>4, <1>5, <1>6, <1>7, <1>8, <1>9 DEF ServerStep, Configs

LEMMA ConfigHolds == Spec => []ConfigInv
<1>1. Init => ConfigInv
  <2> SUFFICES ASSUME Init PROVE ConfigInv
    OBVIOUS
  <2>1. \A p \in Peerings : p \in Members(config)
    BY NetworkAssumption DEF Init, Members
  <2>. QED
    BY <2>1 DEF Init, ConfigInv, CoverInv, Covers, ToldInv, FollowInv, IdleLink
<1>2. IssuedInv /\ ConfigInv /\ [Next]_vars => ConfigInv'
  <2> SUFFICES ASSUME IssuedInv, ConfigInv, [Next]_vars PROVE ConfigInv'
    OBVIOUS
  <2>0. Types /\ CoverInv /\ ToldInv /\ FollowInv
    BY DEF IssuedInv, ConfigInv
  <2>1. CASE SessionStep
    BY <2>0, <2>1, SessionCovers, SessionTold, SessionFollows DEF ConfigInv
  <2>2. CASE ServerStep
    BY <2>0, <2>2, ServerCovers, ServerTold, ServerFollows DEF ConfigInv
  <2>3. ASSUME UNCHANGED <<network, session, answer, late, pipeVars, serverVars, stray>> PROVE ConfigInv'
    BY <2>0, <2>3, CoverFrame, ToldFrame, FollowFrame DEF ConfigInv, serverVars, pipeVars
  <2>4. ASSUME NEW t \in Tokens, WorkerStep(t) PROVE ConfigInv'
    BY <2>3, <2>4 DEF WorkerStep, ProbeDone, ProbeCancelled, BeginPunch, Punched, Fails, Stops, Milestone, managerVars, sessionVars, lossVars
  <2>. QED
    BY <2>1, <2>2, <2>3, <2>4 DEF Next, vars, managerVars, sessionVars, lossVars
<1>. QED
  BY <1>1, <1>2, IssuedHolds, PTL DEF Spec

----------------------------------------------------------------------------
(* What becomes of an attempt that the server remembers *)

\* A worker that was stopped is not the current one, unless it has ended by itself.
CancelledInv == /\ \A t \in cancelled : stage[t] # "none"
                /\ \A p \in Peerings : workers[p] # NoToken /\ workers[p] \in cancelled => stage[workers[p]] = "finished"

\* Message m ends attempt t of peering p.
Replaces(m, p, t) == \/ m.type = "connect" /\ PeeringOf[m.attempt] = p /\ m.attempt # t
                     \/ m.type = "disconnect" /\ m.peering = p

FailureComes(t) == \/ \E i \in DOMAIN events : events[i] = Event(t, "failed")
                   \/ sending = Event(t, "failed")
                   \/ \E i \in DOMAIN up : up[i].type = "event" /\ up[i].event = Event(t, "failed")
Runs(p, t)      == /\ workers[p] = t /\ stage[t] # "finished"
                   /\ \A i \in DOMAIN down : ~Replaces(down[i], p, t)
StillToRun(p, t) == \E i \in DOMAIN down : /\ Connects(down, i, t)
                                           /\ \A j \in DOMAIN down : Replaces(down[j], p, t) => j < i
Accounted(p, t) == FailureComes(t) \/ Runs(p, t) \/ StillToRun(p, t)

\* The server has the client's report, and the client has been following the server.
Settled == /\ online /\ session = "up" /\ ~stray /\ answer = NoAnswer
           /\ \A i \in DOMAIN up : up[i].type # "snapshot"

\* The attempt of a record is the client's, or is on its way to it, or its end is
\* on its way to the server.
RecordInv == Settled => \A p \in Members(config) :
                 record[p].token # NoToken /\ record[p].token \notin misled => Accounted(p, record[p].token)

LEMMA LeavingCancelled ==
    ASSUME IssuedInv, CancelledInv, Leaving, UNCHANGED stage
    PROVE  CancelledInv'
<1>1. \A q \in Peerings : workers[q] # NoToken => workers[q] \in Tokens /\ stage[workers[q]] # "none" /\ PeeringOf[workers[q]] = q
  BY DEF IssuedInv, WorkersIssued, Types, ManagerType
<1>2. \A t \in cancelled' : stage'[t] # "none"
  BY <1>1 DEF Leaving, CancelledInv
<1>3. ASSUME NEW p \in Peerings, workers'[p] # NoToken, workers'[p] \in cancelled' PROVE stage'[workers'[p]] = "finished"
  <2>1. workers'[p] = workers[p]
    BY <1>3 DEF Leaving
  <2>2. ASSUME NEW q \in Peerings, workers[p] = workers[q], workers'[q] = NoToken PROVE FALSE
    BY <1>1, <1>3, <2>1, <2>2
  <2>3. workers[p] \in cancelled
    BY <1>3, <2>1, <2>2 DEF Leaving
  <2>. QED
    BY <1>3, <2>1, <2>3 DEF CancelledInv
<1>. QED
  BY <1>2, <1>3 DEF CancelledInv

LEMMA HandleCancelled ==
    ASSUME IssuedInv, CancelledInv, NEW m \in DownMessages, Handle(m), m.type = "connect" => stage[m.attempt] = "none"
    PROVE  CancelledInv'
<1>0. Types
  BY DEF IssuedInv
<1>1. ASSUME NEW c \in Configs, ApplyConfig(c) PROVE CancelledInv'
  BY <1>0, <1>1, ApplyConfigShape, LeavingCancelled
<1>2. ASSUME NEW p \in Peerings, HandleDisconnect(p) PROVE CancelledInv'
  <2>1. Leaving /\ UNCHANGED stage
    BY <1>0, <1>2, StopLeaves DEF HandleDisconnect
  <2>. QED
    BY <2>1, LeavingCancelled
<1>3. ASSUME NEW t \in Tokens, HandleConnect(t), stage[t] = "none" PROVE CancelledInv'
  <2>1. PeeringOf[t] \in Peerings /\ t \notin cancelled
    BY <1>3, AttemptAssumption DEF CancelledInv
  <2>2. \A q \in Peerings : workers[q] # NoToken => /\ workers[q] \in Tokens /\ stage[workers[q]] # "none"
                                                    /\ PeeringOf[workers[q]] = q /\ workers[q] # t
    BY <1>3 DEF IssuedInv, WorkersIssued, Types, ManagerType
  <2>3. cancelled' = cancelled \cup ({workers[PeeringOf[t]]} \ {NoToken})
    BY <1>3 DEF HandleConnect
  <2>4. \A u \in Tokens : u # t => stage'[u] = stage[u]
    BY <1>0, <1>3 DEF HandleConnect, Types, WorkersType
  <2>5. \A q \in Peerings : workers'[q] = IF q = PeeringOf[t] THEN workers'[q] ELSE workers[q]
    BY <1>0, <1>3, <2>1 DEF HandleConnect, Types, ManagerType
  <2>6. workers'[PeeringOf[t]] \in {t, NoToken}
    BY <1>0, <1>3, <2>1 DEF HandleConnect, Types, ManagerType
  <2>7. t \notin cancelled' /\ cancelled' \subseteq Tokens
    BY <1>0, <2>1, <2>2, <2>3 DEF Types, WorkersType
  <2>8. \A u \in cancelled' : stage'[u] # "none"
    <3>1. \A u \in cancelled' : stage[u] # "none" /\ u # t /\ u \in Tokens
      BY <2>1, <2>2, <2>3, <2>7 DEF CancelledInv
    <3>. QED
      BY <2>4, <3>1
  <2>9. ASSUME NEW p \in Peerings, workers'[p] # NoToken, workers'[p] \in cancelled' PROVE stage'[workers'[p]] = "finished"
    <3>1. p # PeeringOf[t] /\ workers'[p] = workers[p]
      BY <2>5, <2>6, <2>7, <2>9
    <3>2. workers[p] # workers[PeeringOf[t]]
      BY <2>1, <2>2, <2>9, <3>1
    <3>3. workers[p] \in cancelled
      BY <2>3, <2>9, <3>1, <3>2
    <3>. QED
      BY <2>2, <2>4, <2>9, <3>1, <3>3 DEF CancelledInv
  <2>. QED
    BY <2>8, <2>9 DEF CancelledInv
<1>4. ASSUME NEW t \in Tokens, HandlePeerProfile(t) PROVE CancelledInv'
  BY <1>4 DEF HandlePeerProfile, CancelledInv
<1>. QED
  BY <1>1, <1>2, <1>3, <1>4, DownKinds DEF Handle

\* The message at hand is handled for the first time.
LEMMA HandledOnce ==
    ASSUME IssuedInv, QueueInv
    PROVE  /\ ReadInitialConfig => Head(down) \in DownMessages /\ Handle(Head(down)) /\ Head(down).type # "connect"
           /\ Read => Head(down) \in DownMessages /\ (Head(down).type = "connect" => stage[Head(down).attempt] = "none")
           /\ LateRead => Head(late) \in DownMessages /\ (Head(late).type = "connect" => stage[Head(late).attempt] = "none")
<1>0. down \in Seq(DownMessages) /\ late \in Seq(DownMessages)
  BY DEF IssuedInv, Types, PipeType, SessionType
<1>1. ASSUME ReadInitialConfig PROVE Head(down) \in DownMessages /\ Handle(Head(down)) /\ Head(down).type # "connect"
  <2>1. Head(down) \in DownMessages /\ Head(down).type = "config" /\ ApplyConfig(Head(down).peers)
    BY <1>0, <1>1, HeadAndTail DEF ReadInitialConfig, IssuedInv, Types, PipeType
  <2>. QED
    BY <2>1 DEF Handle
<1>2. ASSUME Read PROVE Head(down) \in DownMessages /\ (Head(down).type = "connect" => stage[Head(down).attempt] = "none")
  <2>1. Head(down) \in DownMessages /\ Head(down) = down[1] /\ 1 \in DOMAIN down
    BY <1>0, <1>2, HeadAndTail DEF Read
  <2>2. PICK m \in DownMessages : m = down[1]
    BY <2>1
  <2>3. m.type = "connect" => m.attempt \in Tokens /\ Connects(down, 1, m.attempt)
    BY <2>1, <2>2, DownKinds DEF Connects
  <2>. QED
    BY <2>1, <2>2, <2>3 DEF QueueInv, LinesOnce, Once
<1>3. ASSUME LateRead PROVE Head(late) \in DownMessages /\ (Head(late).type = "connect" => stage[Head(late).attempt] = "none")
  <2>1. Head(late) \in DownMessages /\ Head(late) = late[1] /\ 1 \in DOMAIN late
    BY <1>0, <1>3, HeadAndTail DEF LateRead
  <2>2. PICK m \in DownMessages : m = late[1]
    BY <2>1
  <2>3. m.type = "connect" => m.attempt \in Tokens /\ Connects(late, 1, m.attempt)
    BY <2>1, <2>2, DownKinds DEF Connects
  <2>. QED
    BY <2>1, <2>2, <2>3 DEF QueueInv, LinesOnce, Once
<1>. QED
  BY <1>1, <1>2, <1>3

LEMMA CancelledStep ==
    ASSUME IssuedInv, QueueInv, CancelledInv, [Next]_vars
    PROVE  CancelledInv'
<1>0. Types
  BY DEF IssuedInv
<1>1. ASSUME NEW t \in Tokens, WorkerStep(t) PROVE CancelledInv'
  <2>1. stage[t] \notin {"none", "finished"} /\ workers' = workers
    BY <1>1 DEF WorkerStep, ProbeDone, ProbeCancelled, BeginPunch, Punched, Fails, Stops, Milestone, managerVars
  <2>2. \/ cancelled' = cancelled /\ \E s \in Stages \ {"none"} : stage' = [stage EXCEPT ![t] = s]
        \/ cancelled' = cancelled \cup {t} /\ stage' = [stage EXCEPT ![t] = "finished"]
    BY <1>1 DEF WorkerStep, ProbeDone, ProbeCancelled, BeginPunch, Punched, Fails, Stops, Milestone, Stages
  <2>3. \A p \in Peerings : workers[p] # NoToken => workers[p] \in Tokens
    BY <1>0 DEF Types, ManagerType
  <2>. QED
    BY <1>0, <2>1, <2>2, <2>3 DEF CancelledInv, Types, WorkersType
<1>2. ASSUME ReadInitialConfig \/ Read \/ LateRead PROVE CancelledInv'
  <2>1. \E m \in DownMessages : Handle(m) /\ (m.type = "connect" => stage[m.attempt] = "none")
    BY <1>2, HandledOnce DEF Read, LateRead
  <2>. QED
    BY <2>1, HandleCancelled
<1>3. ASSUME TakeEvent PROVE CancelledInv'
  <2>1. Head(events) \in Milestones
    BY <1>0, <1>3, HeadAndTail DEF TakeEvent, Types, EventsType
  <2>2. Leaving /\ UNCHANGED stage
    BY <1>0, <1>3, <2>1, ApplyEventShape DEF TakeEvent
  <2>. QED
    BY <2>2, LeavingCancelled
<1>4. ASSUME Exit PROVE CancelledInv'
  <2>1. /\ \A p \in Peerings : workers'[p] = NoToken
        /\ \A t \in Tokens : stage'[t] = "none" => stage[t] = "none"
        /\ cancelled' = cancelled \cup ({workers[p] : p \in Peerings} \ {NoToken})
    BY <1>4 DEF Exit, StopWorkers
  <2>2. \A p \in Peerings : workers[p] # NoToken => workers[p] \in Tokens /\ stage[workers[p]] # "none"
    BY <1>0 DEF IssuedInv, WorkersIssued, Types, ManagerType
  <2>. QED
    BY <1>0, <2>1, <2>2 DEF CancelledInv, Types, WorkersType
<1>5. ASSUME UNCHANGED <<managerVars, workerVars>> PROVE CancelledInv'
  BY <1>5 DEF CancelledInv, managerVars, workerVars
<1>6. ASSUME Register \/ ReportInitialState \/ ReadQuery \/ WriteAnswer \/ WriteEvent \/ EndSession PROVE CancelledInv'
  BY <1>5, <1>6 DEF Register, ReportInitialState, ReadQuery, WriteAnswer, WriteEvent, EndSession
<1>7. ASSUME ServerStep PROVE CancelledInv'
  BY <1>5, <1>7 DEF ServerStep, SetConfig, ConnectLink, SendPeerProfile, DisconnectLink, PeerReports, Query, ReadSnapshot, ReadEvent, ServerEnds
<1>. QED
  BY <1>1, <1>2, <1>3, <1>4, <1>5, <1>6, <1>7 DEF Next, SessionStep, vars

\* RecordInv of the next state, for one record.
LEMMA RecordGoal ==
    ASSUME Settled' => \A p \in Members(config') : \A t :
               t = record'[p].token /\ t # NoToken /\ t \notin misled' => Accounted(p, t)'
    PROVE  RecordInv'
<1> SUFFICES ASSUME Settled', NEW p \in Members(config'), record'[p].token # NoToken, record'[p].token \notin misled'
             PROVE  Accounted(p, record[p].token)'
  BY DEF RecordInv
<1>1. PICK t : t = record'[p].token
  OBVIOUS
<1>2. Accounted(p, t)'
  BY <1>1
<1>. QED
  BY <1>1, <1>2 DEF Accounted, FailureComes, Runs, StillToRun, Replaces, Connects

\* ... and of the present one.
LEMMA RecordFact ==
    ASSUME IssuedInv, ConfigInv, RecordInv, Settled, NEW p \in Members(config), NEW t,
           t = record[p].token, t # NoToken, t \notin misled
    PROVE  Accounted(p, t) /\ p \in Peerings /\ t \in Tokens /\ PeeringOf[t] = p
<1>1. p \in Peerings
  BY DEF IssuedInv, Types, ServerType, Members, Configs
<1>2. t \in Tokens
  BY <1>1 DEF IssuedInv, Types, ServerType, LinkRecord
<1>. QED
  BY <1>1, <1>2 DEF RecordInv, ConfigInv, ToldInv

LEMMA AccountedKept ==
    ASSUME NEW p, NEW t, Accounted(p, t), EventsStay, UNCHANGED <<sending, up, down>>,
           workers[p] = t /\ stage[t] # "finished" => workers'[p] = t /\ stage'[t] # "finished"
    PROVE  Accounted(p, t)'
<1>1. FailureComes(t) => FailureComes(t)'
  BY DEF FailureComes, EventsStay
<1>2. Runs(p, t) => Runs(p, t)'
  BY DEF Runs, Replaces
<1>3. StillToRun(p, t) => StillToRun(p, t)'
  BY DEF StillToRun, Connects, Replaces
<1>. QED
  BY <1>1, <1>2, <1>3 DEF Accounted

LEMMA RecordFrame ==
    ASSUME RecordInv, UNCHANGED <<online, session, stray, answer, up, config, record, misled, events, sending, workers, stage, down>>
    PROVE  RecordInv'
  BY DEF RecordInv, Settled, Accounted, FailureComes, Runs, StillToRun, Replaces, Connects

LEMMA WorkerRecord ==
    ASSUME IssuedInv, QueueInv, ConfigInv, CancelledInv, RecordInv, NEW u \in Tokens, WorkerStep(u)
    PROVE  RecordInv'
<1>0. Types /\ ConnectedEvents
  BY DEF IssuedInv, QueueInv
<1>1. UNCHANGED <<online, session, stray, answer, up, config, record, sending, workers, down>>
  BY DEF WorkerStep, ProbeDone, ProbeCancelled, BeginPunch, Punched, Fails, Stops, Milestone, managerVars, sessionVars, pipeVars,
         serverVars, lossVars
<1>2. Settled' => Settled
  BY <1>1 DEF Settled
<1>3. EventsStay /\ misled \subseteq misled'
  <2>1. ASSUME NEW kind \in {"profile", "no profile", "connected", "failed"}, Emit(<<Event(u, kind)>>) PROVE EventsStay
    <3>1. <<Event(u, kind)>> \in Seq(Milestones)
      BY EmitOne
    <3>. QED
      BY <1>0, <2>1, <3>1, EmitTypes DEF EventsStay, Types
  <2>2. /\ misled \subseteq misled'
        /\ UNCHANGED events \/ \E kind \in {"profile", "no profile", "connected", "failed"} : Emit(<<Event(u, kind)>>)
    BY DEF WorkerStep, ProbeDone, ProbeCancelled, BeginPunch, Punched, Fails, Stops, Milestone, managerVars, lossVars
  <2>. QED
    BY <2>1, <2>2 DEF EventsStay
<1>4. ASSUME NEW p \in Members(config'), NEW t, t = record'[p].token, t # NoToken, t \notin misled', Settled' PROVE Accounted(p, t)'
  <2>1. Accounted(p, t) /\ p \in Peerings /\ t \in Tokens /\ PeeringOf[t] = p
    BY <1>1, <1>2, <1>3, <1>4, RecordFact
  <2>2. CASE u # t \/ stage'[t] # "finished"
    <3>1. stage[t] # "finished" => stage'[t] # "finished"
      <4>1. \E s : stage' = [stage EXCEPT ![u] = s]
        BY DEF WorkerStep, ProbeDone, ProbeCancelled, BeginPunch, Punched, Fails, Stops, Milestone
      <4>. QED
        BY <1>0, <2>1, <2>2, <4>1 DEF Types, WorkersType
    <3>. QED
      BY <1>1, <1>3, <2>1, <3>1, AccountedKept
  <2>3. CASE u = t /\ Fails(t)
    <3>1. /\ <<Event(t, "failed")>> \in Seq(Milestones) /\ DOMAIN <<Event(t, "failed")>> = {1}
          /\ <<Event(t, "failed")>>[1] = Event(t, "failed") /\ Event(t, "failed").attempt = t
      BY <2>1, EmitOne
    <3>2. Emit(<<Event(t, "failed")>>) /\ misled' = misled \cup Lost(<<Event(t, "failed")>>)
      BY <2>3 DEF Fails, Milestone
    <3>3. \A j \in DOMAIN <<Event(t, "failed")>> : \/ <<Event(t, "failed")>>[j].attempt \in Lost(<<Event(t, "failed")>>)
                                                   \/ \E i \in DOMAIN events' : events'[i] = <<Event(t, "failed")>>[j]
      BY <1>0, <3>1, <3>2, EmitTypes DEF Types
    <3>4. t \in Lost(<<Event(t, "failed")>>) \/ \E i \in DOMAIN events' : events'[i] = Event(t, "failed")
      BY <3>1, <3>3
    <3>. QED
      BY <1>4, <3>2, <3>4 DEF Accounted, FailureComes
  <2>4. CASE u = t /\ Stops(t)
    <3>1. t \in cancelled /\ stage[t] # "finished" /\ UNCHANGED events
      BY <2>4 DEF Stops, managerVars
    <3>2. workers[p] # t
      BY <1>4, <2>1, <3>1 DEF CancelledInv
    <3>. QED
      BY <1>1, <1>3, <2>1, <3>2, AccountedKept
  <2>5. u = t /\ ~Fails(t) /\ ~Stops(t) => stage'[t] # "finished"
    BY <1>0, <2>1 DEF WorkerStep, ProbeDone, ProbeCancelled, BeginPunch, Punched, Milestone, Types, WorkersType
  <2>. QED
    BY <2>2, <2>3, <2>4, <2>5
<1>. QED
  BY <1>4, RecordGoal

\* Every survivor is failed when the new stack cannot be opened.
LEMMA AllFail ==
    ASSUME Types, NEW c \in Configs, NEW es \in Failures(Survivors(c)), NEW p \in Survivors(c)
    PROVE  \E i \in DOMAIN es : es[i] = Event(workers[p], "failed")
<1> DEFINE S == Survivors(c)
           n == Cardinality(S)
<1>1. S \in SUBSET Peerings
  BY DEF Survivors, Members, Types, ManagerType, Configs
<1>2. IsFiniteSet(S) /\ n \in Nat
  BY <1>1, FiniteAssumption, FS_Subset, FS_CardinalityType
<1>3. PICK q \in SetToSeqs(S) : es = [i \in DOMAIN q |-> Event(workers[q[i]], "failed")]
  BY DEF Failures
<1>4. q \in [1 .. n -> S] /\ \A i, j \in 1 .. n : i # j => q[i] # q[j]
  BY <1>3 DEF SetToSeqs
<1>5. IsFiniteSet(1 .. n) /\ Cardinality(1 .. n) = n
  BY <1>2, FS_Interval
<1>6. q \in Injection(1 .. n, S)
  BY <1>4 DEF Injection, IsInjective
<1>7. q \in Surjection(1 .. n, S)
  BY <1>2, <1>5, <1>6, FS_Injection
<1>8. PICK i \in 1 .. n : q[i] = p
  BY <1>7 DEF Surjection
<1>. QED
  BY <1>3, <1>4, <1>8

LEMMA FailureSaid ==
    ASSUME Types, NEW t, NEW es \in Seq(Milestones), Emit(es), misled' = misled \cup Lost(es),
           \E j \in DOMAIN es : es[j] = Event(t, "failed"), Event(t, "failed").attempt = t
    PROVE  t \in misled' \/ FailureComes(t)'
<1>1. PICK j \in DOMAIN es : es[j] = Event(t, "failed")
  OBVIOUS
<1>2. es[j].attempt \in Lost(es) \/ \E i \in DOMAIN events' : events'[i] = es[j]
  BY EmitTypes DEF Types
<1>. QED
  BY <1>1, <1>2 DEF FailureComes

\* No message takes an event back, or lets one be heard that was not.
LEMMA HandleEvents ==
    ASSUME Types, ConnectedEvents, NEW m \in DownMessages, Handle(m), connected' = connected
    PROVE  EventsStay /\ misled \subseteq misled'
<1>1. ASSUME NEW c \in Configs, ApplyConfig(c) PROVE EventsStay /\ misled \subseteq misled'
  BY <1>1, FailuresQuiet DEF ApplyConfig
<1>2. ASSUME NEW t \in Tokens, HandleConnect(t) PROVE EventsStay /\ misled \subseteq misled'
  BY <1>2, FailuresQuiet DEF HandleConnect
<1>3. ASSUME NEW p \in Peerings, HandleDisconnect(p) PROVE EventsStay /\ misled \subseteq misled'
  BY <1>3, FailuresQuiet DEF HandleDisconnect
<1>4. ASSUME NEW t \in Tokens, HandlePeerProfile(t) PROVE EventsStay /\ misled \subseteq misled'
  BY <1>4, FailuresQuiet DEF HandlePeerProfile
<1>. QED
  BY <1>1, <1>2, <1>3, <1>4, DownKinds DEF Handle

\* A worker whose peering stays keeps running, or is failed aloud.
LEMMA SurvivorRuns ==
    ASSUME Types, NEW c \in Configs, ApplyConfig(c), NEW p \in Members(c), p \in Members(network),
           NEW t \in Tokens, workers[p] = t, t \notin misled'
    PROVE  FailureComes(t)' \/ workers'[p] = t
<1>1. p \in Peerings /\ c # NoNetwork /\ p \in Survivors(c)
  BY TokenAssumption DEF Members, Configs, Survivors
<1>2. CASE UNCHANGED workers
  BY <1>2
<1>3. CASE StopWorkers(Peerings \ Survivors(c))
  BY <1>1, <1>3 DEF StopWorkers
<1>4. ASSUME NEW es \in Failures(Survivors(c)), Emit(es), misled' = misled \cup Lost(es) PROVE FailureComes(t)'
  <2>1. es \in Seq(Milestones) /\ \E i \in DOMAIN es : es[i] = Event(t, "failed")
    BY <1>1, FailureEvents, AllFail
  <2>2. Event(t, "failed").attempt = t
    BY EmitOne
  <2>. QED
    BY <1>4, <2>1, <2>2, FailureSaid
<1>. QED
  BY <1>1, <1>2, <1>3, <1>4 DEF ApplyConfig

\* A command that is handled starts the worker, or is failed aloud.
LEMMA ConnectRuns ==
    ASSUME Types, NEW t \in Tokens, HandleConnect(t), network # NoNetwork, t \notin misled'
    PROVE  FailureComes(t)' \/ (workers'[PeeringOf[t]] = t /\ stage'[t] # "finished")
<1>1. PeeringOf[t] \in Peerings
  BY AttemptAssumption
<1>2. CASE workers' = [workers EXCEPT ![PeeringOf[t]] = t] /\ stage' = [stage EXCEPT ![t] = "probing"]
  BY <1>1, <1>2 DEF Types, ManagerType, WorkersType
<1>3. ASSUME Emit(<<Event(t, "failed")>>), misled' = misled \cup Lost(<<Event(t, "failed")>>) PROVE FailureComes(t)'
  <2>1. /\ <<Event(t, "failed")>> \in Seq(Milestones) /\ Event(t, "failed").attempt = t
        /\ DOMAIN <<Event(t, "failed")>> = {1} /\ <<Event(t, "failed")>>[1] = Event(t, "failed")
    BY EmitOne
  <2>2. \E j \in DOMAIN <<Event(t, "failed")>> : <<Event(t, "failed")>>[j] = Event(t, "failed")
    BY <2>1
  <2>. QED
    BY <1>3, <2>1, <2>2, FailureSaid
<1>. QED
  BY <1>2, <1>3 DEF HandleConnect

\* The first line is taken.
LEMMA AccountedTaken ==
    ASSUME Types, NEW p, NEW t, down # <<>>, down' = Tail(down), EventsStay, UNCHANGED <<sending, up>>, Accounted(p, t),
           Runs(p, t) \/ Connects(down, 1, t) => FailureComes(t)' \/ (workers'[p] = t /\ stage'[t] # "finished")
    PROVE  Accounted(p, t)'
<1>1. /\ 1 \in DOMAIN down /\ DOMAIN down \subseteq Nat /\ DOMAIN down' \subseteq Nat
      /\ \A i \in DOMAIN down' : i + 1 \in DOMAIN down /\ down'[i] = down[i + 1]
      /\ \A i \in DOMAIN down : i = 1 \/ (i - 1 \in DOMAIN down' /\ down'[i - 1] = down[i])
  <2>1. down \in Seq(DownMessages) /\ down' \in Seq(DownMessages)
    BY HeadAndTail DEF Types, PipeType
  <2>2. DOMAIN down \subseteq Nat /\ DOMAIN down' \subseteq Nat
    BY <2>1
  <2>. QED
    BY <2>1, <2>2, HeadAndTail
<1>2. CASE FailureComes(t)
  <2>1. FailureComes(t)'
    BY <1>2 DEF FailureComes, EventsStay
  <2>. QED
    BY <2>1 DEF Accounted
<1>3. CASE Runs(p, t)
  <2>1. \A i \in DOMAIN down' : ~Replaces(down[i], p, t)'
    BY <1>1, <1>3 DEF Runs, Replaces
  <2>2. FailureComes(t)' \/ Runs(p, t)'
    BY <1>3, <2>1 DEF Runs
  <2>. QED
    BY <2>2 DEF Accounted
<1>4. CASE StillToRun(p, t)
  <2>1. PICK i \in DOMAIN down : Connects(down, i, t) /\ \A j \in DOMAIN down : Replaces(down[j], p, t) => j < i
    BY <1>4 DEF StillToRun
  <2>2. CASE i = 1
    <3>1. ASSUME NEW j \in DOMAIN down', Replaces(down'[j], p, t) PROVE FALSE
      <4>1. j + 1 < 1 /\ j \in Nat
        BY <1>1, <2>1, <2>2, <3>1
      <4>. QED
        BY <4>1
    <3>2. FailureComes(t)' \/ Runs(p, t)'
      BY <2>1, <2>2, <3>1 DEF Runs, Replaces
    <3>. QED
      BY <3>2 DEF Accounted
  <2>3. CASE i # 1
    <3>1. i - 1 \in DOMAIN down' /\ down'[i - 1] = down[i]
      BY <1>1, <2>3
    <3>2. ASSUME NEW j \in DOMAIN down', Replaces(down'[j], p, t) PROVE j < i - 1
      <4>1. j + 1 < i /\ j \in Nat /\ i \in Nat
        BY <1>1, <2>1, <3>2
      <4>. QED
        BY <4>1
    <3>3. StillToRun(p, t)'
      BY <2>1, <3>1, <3>2 DEF StillToRun, Connects, Replaces
    <3>. QED
      BY <3>3 DEF Accounted
  <2>. QED
    BY <2>2, <2>3
<1>. QED
  BY <1>2, <1>3, <1>4 DEF Accounted

LEMMA ReadRecord ==
    ASSUME IssuedInv, QueueInv, ConfigInv, RecordInv, Read \/ ReadQuery
    PROVE  RecordInv'
<1>0. Types /\ ConnectedEvents /\ CoverInv
  BY DEF IssuedInv, QueueInv, ConfigInv
<1>1. /\ UNCHANGED <<online, session, stray, up, config, record, sending, connected>> /\ answer = NoAnswer /\ session = "up"
      /\ down # <<>> /\ down' = Tail(down)
      /\ Handle(Head(down)) \/ UNCHANGED <<managerVars, workerVars, misled>>
  BY DEF Read, ReadQuery, sessionVars, serverVars, lossVars, workerVars
<1>2. Head(down) \in DownMessages /\ Head(down) = down[1] /\ 1 \in DOMAIN down
  BY <1>0, <1>1, HeadAndTail DEF Types, PipeType
<1>3. PICK m \in DownMessages : m = down[1] /\ m = Head(down)
  BY <1>2
<1>4. EventsStay /\ misled \subseteq misled'
  <2>1. CASE Handle(m)
    BY <1>0, <1>1, <2>1, HandleEvents
  <2>2. CASE UNCHANGED <<managerVars, workerVars, misled>>
    BY <2>2 DEF EventsStay, managerVars
  <2>. QED
    BY <1>1, <1>3, <2>1, <2>2
<1>5. Settled' => Settled
  BY <1>1 DEF Settled
<1>6. ASSUME NEW p \in Members(config'), NEW t, t = record'[p].token, t # NoToken, t \notin misled', Settled' PROVE Accounted(p, t)'
  <2>1. Accounted(p, t) /\ p \in Peerings /\ t \in Tokens /\ PeeringOf[t] = p
    BY <1>1, <1>4, <1>5, <1>6, RecordFact
  <2>2. p \in Members(network) /\ network # NoNetwork
    BY <1>0, <1>1, <1>6 DEF CoverInv, Members
  <2>3. CASE UNCHANGED <<managerVars, workerVars, misled>> /\ ~Handle(m)
    <3>1. m.type = "query" /\ ~Connects(down, 1, t)
      BY <1>1, <1>3, <2>3 DEF Read, ReadQuery, Connects
    <3>2. Runs(p, t) => workers'[p] = t /\ stage'[t] # "finished"
      BY <2>3 DEF Runs, managerVars, workerVars
    <3>. QED
      BY <1>0, <1>1, <1>4, <2>1, <3>1, <3>2, AccountedTaken
  <2>4. CASE Handle(m)
    <3>1. ASSUME Connects(down, 1, t) PROVE FailureComes(t)' \/ (workers'[p] = t /\ stage'[t] # "finished")
      <4>1. HandleConnect(t)
        BY <1>3, <2>4, <3>1 DEF Connects, Handle
      <4>. QED
        BY <1>0, <1>6, <2>1, <2>2, <4>1, ConnectRuns
    <3>2. ASSUME Runs(p, t), ~Connects(down, 1, t) PROVE FailureComes(t)' \/ (workers'[p] = t /\ stage'[t] # "finished")
      <4>1. workers[p] = t /\ stage[t] # "finished" /\ ~Replaces(m, p, t)
        BY <1>2, <1>3, <3>2 DEF Runs
      <4>2. ASSUME NEW c \in Configs, m.type = "config", c = m.peers, ApplyConfig(c)
            PROVE  FailureComes(t)' \/ (workers'[p] = t /\ stage'[t] # "finished")
        <5>1. p \in Members(c)
          BY <1>0, <1>1, <1>2, <1>3, <1>6, <4>2 DEF CoverInv, Covers
        <5>2. FailureComes(t)' \/ workers'[p] = t
          BY <1>0, <1>6, <2>1, <2>2, <4>1, <4>2, <5>1, SurvivorRuns
        <5>. QED
          BY <4>1, <4>2, <5>2 DEF ApplyConfig
      <4>3. ASSUME NEW u \in Tokens, m.type = "connect", u = m.attempt, HandleConnect(u)
            PROVE  workers'[p] = t /\ stage'[t] # "finished"
        <5>1. u # t /\ PeeringOf[u] # p /\ PeeringOf[u] \in Peerings
          BY <1>2, <1>3, <3>2, <4>1, <4>3, AttemptAssumption DEF Connects, Replaces
        <5>. QED
          BY <1>0, <2>1, <4>1, <4>3, <5>1 DEF HandleConnect, Types, ManagerType, WorkersType
      <4>4. ASSUME NEW q \in Peerings, m.type = "disconnect", q = m.peering, HandleDisconnect(q)
            PROVE  workers'[p] = t /\ stage'[t] # "finished"
        BY <2>1, <4>1, <4>4 DEF Replaces, HandleDisconnect, StopWorkers
      <4>5. ASSUME NEW u \in Tokens, HandlePeerProfile(u) PROVE workers'[p] = t /\ stage'[t] # "finished"
        BY <4>1, <4>5 DEF HandlePeerProfile
      <4>. QED
        BY <2>4, <4>2, <4>3, <4>4, <4>5, DownKinds DEF Handle
    <3>. QED
      BY <1>0, <1>1, <1>4, <2>1, <3>1, <3>2, AccountedTaken
  <2>. QED
    BY <1>1, <1>3, <2>3, <2>4
<1>. QED
  BY <1>6, RecordGoal

LEMMA LoopRecord ==
    ASSUME IssuedInv, ConfigInv, RecordInv, TakeEvent \/ WriteEvent
    PROVE  RecordInv'
<1>0. Types /\ NoEvent \notin Milestones
  BY EventAssumption DEF IssuedInv, Milestones
<1>1. CASE TakeEvent
  <2>1. /\ UNCHANGED <<online, session, stray, answer, up, down, config, record, misled, stage, stack, network, connected, profiled>>
        /\ sending = NoEvent /\ events # <<>> /\ events' = Tail(events) /\ sending' = Head(events)
    BY <1>1 DEF TakeEvent, pipeVars, serverVars, lossVars
  <2>2. /\ Head(events) \in Milestones /\ Head(events) = events[1] /\ 1 \in DOMAIN events
        /\ \A i \in DOMAIN events : i = 1 \/ (i - 1 \in DOMAIN events' /\ events'[i - 1] = events[i])
    BY <1>0, <2>1, HeadAndTail DEF Types, EventsType
  <2>3. PICK e \in Milestones : e = Head(events)
    BY <2>2
  <2>4. PICK q \in Peerings : q = PeeringOf[e.attempt]
    BY AttemptAssumption DEF Milestones
  <2>5. Settled' => Settled
    BY <2>1 DEF Settled
  <2>6. ASSUME NEW p \in Members(config'), NEW t, t = record'[p].token, t # NoToken, t \notin misled', Settled' PROVE Accounted(p, t)'
    <3>1. Accounted(p, t) /\ p \in Peerings /\ t \in Tokens /\ PeeringOf[t] = p
      BY <2>1, <2>5, <2>6, RecordFact
    <3>2. Event(t, "failed") \in Milestones
      BY <3>1, EmitOne
    <3>3. CASE FailureComes(t)
      <4>1. sending # Event(t, "failed")
        BY <1>0, <2>1, <3>2
      <4>2. FailureComes(t)'
        BY <2>1, <2>2, <3>3, <4>1 DEF FailureComes
      <4>. QED
        BY <4>2 DEF Accounted
    <3>4. CASE Runs(p, t)
      <4>1. CASE workers'[p] = workers[p]
        <5>1. Runs(p, t)'
          BY <2>1, <3>4, <4>1 DEF Runs, Replaces
        <5>. QED
          BY <5>1 DEF Accounted
      <4>2. CASE workers'[p] # workers[p]
        <5>1. e.kind = "failed" /\ workers[q] = e.attempt /\ p = q
          BY <1>1, <2>3, <2>4, <3>1, <4>2 DEF TakeEvent, ApplyEvent, StopWorkers
        <5>2. e = Event(t, "failed")
          BY <3>4, <5>1 DEF Runs, Event, Milestones
        <5>3. FailureComes(t)'
          BY <2>1, <2>3, <5>2 DEF FailureComes
        <5>. QED
          BY <5>3 DEF Accounted
      <4>. QED
        BY <4>1, <4>2
    <3>5. CASE StillToRun(p, t)
      <4>1. StillToRun(p, t)'
        BY <2>1, <3>5 DEF StillToRun, Connects, Replaces
      <4>. QED
        BY <4>1 DEF Accounted
    <3>. QED
      BY <3>1, <3>3, <3>4, <3>5 DEF Accounted
  <2>. QED
    BY <2>6, RecordGoal
<1>2. CASE WriteEvent
  <2>1. /\ UNCHANGED <<online, session, stray, answer, down, config, record, misled, stage, workers, events>>
        /\ sending # NoEvent /\ up' = Append(up, [type |-> "event", event |-> sending])
    BY <1>2 DEF WriteEvent, managerVars, workerVars, serverVars, lossVars
  <2>2. PICK m \in UpMessages : m = [type |-> "event", event |-> sending] /\ m.type = "event" /\ m.event = sending
    <3>1. [type |-> "event", event |-> sending] \in UpMessages
      BY <1>0, <2>1 DEF UpMessages, Types, SessionType
    <3>. QED
      BY <3>1
  <2>3. up \in Seq(UpMessages) /\ up' = Append(up, m)
    BY <1>0, <2>1, <2>2 DEF Types, PipeType
  <2>4. /\ \A i \in DOMAIN up : i \in DOMAIN up' /\ up'[i] = up[i]
        /\ Len(up) + 1 \in DOMAIN up' /\ up'[Len(up) + 1] = m
    <3>1. \A i \in DOMAIN up : i \in DOMAIN up' /\ up'[i] = up[i]
      BY ONLY <2>3, Appended
    <3>. QED
      BY <2>3, <3>1
  <2>5. Settled' => Settled
    BY <2>1, <2>4 DEF Settled
  <2>6. ASSUME NEW p \in Members(config'), NEW t, t = record'[p].token, t # NoToken, t \notin misled', Settled' PROVE Accounted(p, t)'
    <3>1. Accounted(p, t)
      BY <2>1, <2>5, <2>6, RecordFact
    <3>2. FailureComes(t) => FailureComes(t)'
      BY <2>1, <2>2, <2>4 DEF FailureComes
    <3>3. (Runs(p, t) => Runs(p, t)') /\ (StillToRun(p, t) => StillToRun(p, t)')
      BY <2>1 DEF Runs, StillToRun, Connects, Replaces
    <3>. QED
      BY <3>1, <3>2, <3>3 DEF Accounted
  <2>. QED
    BY <2>6, RecordGoal
<1>. QED
  BY <1>1, <1>2

\* Between sessions, and before the first snapshot was read, nothing is promised.
LEMMA UnsettledRecord ==
    ASSUME IssuedInv, Register \/ ReadInitialConfig \/ ReportInitialState \/ WriteAnswer \/ EndSession \/ LateRead \/ Exit
    PROVE  RecordInv'
<1>1. CASE ReportInitialState \/ WriteAnswer
  <2>1. \E l \in Snapshots : up' = Append(up, [type |-> "snapshot", links |-> l])
    BY <1>1, ReportType DEF ReportInitialState, WriteAnswer, IssuedInv, Types, SessionType
  <2>2. PICK m \in UpMessages : m.type = "snapshot" /\ up' = Append(up, m)
    <3>1. \A l \in Snapshots : [type |-> "snapshot", links |-> l] \in UpMessages /\ [type |-> "snapshot", links |-> l].type = "snapshot"
      BY DEF UpMessages
    <3>. QED
      BY <2>1, <3>1
  <2>3. Len(up) + 1 \in DOMAIN up' /\ up'[Len(up) + 1] = m
    BY <2>2 DEF IssuedInv, Types, PipeType
  <2>4. ~Settled'
    BY <2>2, <2>3 DEF Settled
  <2>. QED
    BY <2>4 DEF RecordInv
<1>2. CASE LateRead
  <2>1. ~Settled'
    BY <1>2 DEF LateRead, Settled
  <2>. QED
    BY <2>1 DEF RecordInv
<1>3. CASE Register \/ ReadInitialConfig \/ EndSession \/ Exit
  <2>1. ~Settled'
    BY <1>3 DEF Register, ReadInitialConfig, EndSession, Exit, Settled
  <2>. QED
    BY <2>1 DEF RecordInv
<1>. QED
  BY <1>1, <1>2, <1>3

\* What the server sends about another link leaves an attempt accounted for.
LEMMA SendRecord ==
    ASSUME Types, RecordInv, NEW m \in DownMessages, Send(m), NEW p, NEW t, Accounted(p, t), ~Replaces(m, p, t),
           UNCHANGED <<workers, stage, events, sending, up>>
    PROVE  Accounted(p, t)'
<1>1. /\ \A i \in DOMAIN down : i \in DOMAIN down' /\ down'[i] = down[i]
      /\ \A i \in DOMAIN down' : (i \in DOMAIN down /\ down'[i] = down[i]) \/ down'[i] = m
  BY SendTypes
<1>2. FailureComes(t) => FailureComes(t)'
  BY DEF FailureComes
<1>3. Runs(p, t) => Runs(p, t)'
  BY <1>1 DEF Runs, Replaces
<1>4. StillToRun(p, t) => StillToRun(p, t)'
  BY <1>1 DEF StillToRun, Connects, Replaces
<1>. QED
  BY <1>2, <1>3, <1>4 DEF Accounted

LEMMA CommandRecord ==
    ASSUME IssuedInv, ConfigInv, RecordInv
    PROVE  /\ \A c \in Configs : SetConfig(c) => RecordInv'
           /\ \A t \in Tokens : ConnectLink(t) \/ SendPeerProfile(t) => RecordInv'
           /\ \A p \in Peerings : DisconnectLink(p) => RecordInv'
           /\ Query => RecordInv'
<1>0. Types /\ CoverInv /\ \A p \in Peerings : record[p] \in LinkRecord /\ Paired(record[p])
  BY DEF IssuedInv, ConfigInv, Types, ServerType
<1>1. ASSUME NEW m \in DownMessages, Send(m),
             UNCHANGED <<workers, stage, events, sending, up, online, session, stray, answer, misled>>,
             \A p \in Members(config') : \A t : t = record'[p].token /\ t # NoToken =>
                 p \in Members(config) /\ (StillToRun(p, t)' \/ (record[p].token = t /\ (p \in Peerings /\ t \in Tokens /\ PeeringOf[t] = p => ~Replaces(m, p, t))))
      PROVE  RecordInv'
  <2>1. Settled' => Settled
    BY <1>1 DEF Settled
  <2>2. ASSUME NEW p \in Members(config'), NEW t, t = record'[p].token, t # NoToken, t \notin misled', Settled' PROVE Accounted(p, t)'
    <3>1. CASE StillToRun(p, t)'
      BY <3>1 DEF Accounted
    <3>2. CASE p \in Members(config) /\ record[p].token = t /\ (p \in Peerings /\ t \in Tokens /\ PeeringOf[t] = p => ~Replaces(m, p, t))
      <4>1. Accounted(p, t) /\ p \in Peerings /\ t \in Tokens /\ PeeringOf[t] = p
        BY <1>1, <2>1, <2>2, <3>2, RecordFact
      <4>. QED
        BY <1>0, <1>1, <3>2, <4>1, SendRecord
    <3>. QED
      BY <1>1, <2>2, <3>1, <3>2
  <2>. QED
    BY <2>2, RecordGoal
<1>2. ASSUME NEW c \in Configs, SetConfig(c) PROVE RecordInv'
  <2>1. UNCHANGED <<managerVars, workerVars, sessionVars, up, online, misled, stray>> /\ config' = c /\ Members(c) \subseteq Members(config)
    BY <1>0, <1>2, SetConfigCovers DEF SetConfig
  <2>2. \A p \in Members(c) : p \in Peerings /\ record'[p] = record[p]
    BY <1>2 DEF SetConfig, Members, Configs
  <2>3. PICK m \in DownMessages : m = [type |-> "config", peers |-> c] /\ m.type = "config" /\ m.peers = c
    BY Sendable
  <2>4. CASE online
    <3>1. Send(m)
      BY <1>2, <2>3, <2>4 DEF SetConfig
    <3>2. \A p, t : ~Replaces(m, p, t)
      BY <2>3 DEF Replaces
    <3>. QED
      BY <1>1, <2>1, <2>2, <3>1, <3>2 DEF managerVars, workerVars, sessionVars
  <2>5. CASE ~online
    BY <2>1, <2>5 DEF RecordInv, Settled
  <2>. QED
    BY <2>4, <2>5
<1>3. ASSUME NEW u \in Tokens, ConnectLink(u) PROVE RecordInv'
  <2>1. UNCHANGED <<managerVars, workerVars, sessionVars, up, online, config, misled, stray>> /\ online
    BY <1>3 DEF ConnectLink, lossVars
  <2>2. PICK m \in DownMessages : m = [type |-> "connect", attempt |-> u] /\ m.type = "connect" /\ m.attempt = u
    BY Sendable
  <2>3. Send(m)
    BY <1>3, <2>2 DEF ConnectLink
  <2>4. \A p \in Peerings : record'[p] = IF p = PeeringOf[u] THEN IssueConnect(record[p], u) ELSE record[p]
    BY <1>0, <1>3 DEF ConnectLink, Types, ServerType
  <2>5. \A p \in Peerings : record'[p].token = IF p = PeeringOf[u] THEN u ELSE record[p].token
    BY <1>0, <2>4, LinkTokens
  <2>6. Members(config) \subseteq Peerings
    BY <1>0 DEF Types, ServerType, Members, Configs
  <2>7. Linked => StillToRun(PeeringOf[u], u)'
    <3>1. SUFFICES ASSUME Linked PROVE StillToRun(PeeringOf[u], u)'
      OBVIOUS
    <3>2. /\ \A i \in DOMAIN down' : (i \in DOMAIN down /\ down'[i] = down[i]) \/ (i = Len(down) + 1 /\ down'[i] = m)
          /\ Len(down) + 1 \in DOMAIN down' /\ down'[Len(down) + 1] = m
      BY <1>0, <2>3, <3>1, SendTypes
    <3>3. DOMAIN down = 1 .. Len(down) /\ Len(down) \in Nat
      BY <1>0 DEF Types, PipeType
    <3>4. \A j \in DOMAIN down' : Replaces(down'[j], PeeringOf[u], u) => j < Len(down) + 1
      BY <2>2, <3>2, <3>3 DEF Replaces
    <3>. QED
      BY <2>2, <3>2, <3>4 DEF StillToRun, Connects, Replaces
  <2>8. \A p, t : p # PeeringOf[u] => ~Replaces(m, p, t)
    BY <2>2 DEF Replaces
  <2>9. CASE Linked
    BY <1>1, <2>1, <2>3, <2>5, <2>6, <2>7, <2>8, <2>9 DEF managerVars, workerVars, sessionVars
  <2>10. CASE ~Linked
    BY <2>1, <2>10 DEF RecordInv, Settled, Linked, sessionVars
  <2>. QED
    BY <2>9, <2>10
<1>4. ASSUME NEW u \in Tokens, SendPeerProfile(u) PROVE RecordInv'
  <2>1. PICK m \in DownMessages : m = [type |-> "peer_profile", attempt |-> u] /\ m.type = "peer_profile"
    BY Sendable
  <2>2. \A p, t : ~Replaces(m, p, t)
    BY <2>1 DEF Replaces
  <2>. QED
    BY <1>1, <1>4, <2>1, <2>2 DEF SendPeerProfile, managerVars, workerVars, sessionVars, lossVars
<1>5. ASSUME NEW q \in Peerings, DisconnectLink(q) PROVE RecordInv'
  <2>1. PICK m \in DownMessages : m = [type |-> "disconnect", peering |-> q] /\ m.type = "disconnect" /\ m.peering = q
    BY Sendable
  <2>2. \A p, t : p # q => ~Replaces(m, p, t)
    BY <2>1 DEF Replaces
  <2>3. \A p \in Peerings : record'[p].token = IF p = q THEN NoToken ELSE record[p].token
    <3>1. \A p \in Peerings : record'[p] = IF p = q THEN IssueDisconnect(record[p]) ELSE record[p]
      BY <1>0, <1>5 DEF DisconnectLink, Types, ServerType
    <3>. QED
      BY <1>0, <3>1 DEF IssueDisconnect, Set, LinkRecord
  <2>4. Members(config) \subseteq Peerings
    BY <1>0 DEF Types, ServerType, Members, Configs
  <2>. QED
    BY <1>1, <1>5, <2>1, <2>2, <2>3, <2>4 DEF DisconnectLink, managerVars, workerVars, sessionVars
<1>6. ASSUME Query PROVE RecordInv'
  <2>1. PICK m \in DownMessages : m = [type |-> "query"] /\ m.type = "query"
    BY Sendable
  <2>2. \A p, t : ~Replaces(m, p, t)
    BY <2>1 DEF Replaces
  <2>. QED
    BY <1>1, <1>6, <2>1, <2>2 DEF Query, managerVars, workerVars, sessionVars, serverVars
<1>. QED
  BY <1>2, <1>3, <1>4, <1>5, <1>6

\* The server takes the first report.
LEMMA ReportTaken ==
    ASSUME Types, Reads("snapshot") \/ Reads("event")
    PROVE  /\ Head(up) \in UpMessages /\ Head(up) = up[1] /\ 1 \in DOMAIN up
           /\ \A i \in DOMAIN up : i = 1 \/ (i - 1 \in DOMAIN up' /\ up'[i - 1] = up[i])
<1>1. up \in Seq(UpMessages) /\ up # <<>> /\ up' = Tail(up)
  BY DEF Reads, Types, PipeType
<1>. QED
  BY <1>1, HeadAndTail

LEMMA AccountedRead ==
    ASSUME Types, NEW p, NEW t, Accounted(p, t), Reads("snapshot") \/ Reads("event"),
           ~(up[1].type = "event" /\ up[1].event = Event(t, "failed")),
           UNCHANGED <<workers, stage, events, sending, down>>
    PROVE  Accounted(p, t)'
<1>1. \A i \in DOMAIN up : i = 1 \/ (i - 1 \in DOMAIN up' /\ up'[i - 1] = up[i])
  BY ReportTaken
<1>2. FailureComes(t) => FailureComes(t)'
  BY <1>1 DEF FailureComes
<1>3. (Runs(p, t) => Runs(p, t)') /\ (StillToRun(p, t) => StillToRun(p, t)')
  BY DEF Runs, StillToRun, Connects, Replaces
<1>. QED
  BY <1>2, <1>3 DEF Accounted

\* A snapshot that nothing overtook speaks of an attempt that is accounted for.
LEMMA UpToDate ==
    ASSUME IssuedInv, NEW p \in Peerings, NEW t \in Tokens, NEW s, ~Overtaken(p, t, s), PeeringOf[t] = p
    PROVE  FailureComes(t) \/ Runs(p, t)
<1>1. down \in Seq(DownMessages) /\ up \in Seq(UpMessages)
  BY DEF IssuedInv, Types, PipeType
<1> DEFINE Heard == /\ Event(t, "failed") \notin ToSet(events) \cup {sending}
                    /\ [type |-> "event", event |-> Event(t, "failed")] \notin ToSet(up)
           Gone  == \/ workers[p] # t \/ stage[t] = "finished"
                    \/ \E u \in Tokens \ {t} : PeeringOf[u] = p /\ [type |-> "connect", attempt |-> u] \in ToSet(down)
                    \/ [type |-> "disconnect", peering |-> p] \in ToSet(down)
<1>2. ~Heard \/ ~Gone
  BY DEF Overtaken
<1>3. ASSUME ~Heard PROVE FailureComes(t)
  <2>1. CASE Event(t, "failed") \in ToSet(events) \cup {sending}
    BY <2>1 DEF ToSet, FailureComes
  <2>2. CASE [type |-> "event", event |-> Event(t, "failed")] \in ToSet(up)
    <3>1. PICK i \in DOMAIN up : up[i] = [type |-> "event", event |-> Event(t, "failed")]
      BY <2>2 DEF ToSet
    <3>2. up[i].type = "event" /\ up[i].event = Event(t, "failed")
      BY <3>1
    <3>. QED
      BY <3>2 DEF FailureComes
  <2>. QED
    BY <1>3, <2>1, <2>2
<1>4. ASSUME ~Gone PROVE Runs(p, t)
  <2>1. ASSUME NEW i \in DOMAIN down, Replaces(down[i], p, t) PROVE FALSE
    <3>1. PICK m \in DownMessages : m = down[i]
      BY <1>1
    <3>2. m \in ToSet(down)
      BY <3>1 DEF ToSet
    <3>3. CASE m.type = "connect" /\ PeeringOf[m.attempt] = p /\ m.attempt # t
      <4>1. m = [type |-> "connect", attempt |-> m.attempt] /\ m.attempt \in Tokens
        BY <3>3 DEF DownMessages
      <4>. QED
        BY <1>4, <3>2, <3>3, <4>1
    <3>4. CASE m.type = "disconnect" /\ m.peering = p
      <4>1. m = [type |-> "disconnect", peering |-> p]
        BY <3>4 DEF DownMessages
      <4>. QED
        BY <1>4, <3>2, <4>1
    <3>. QED
      BY <2>1, <3>1, <3>3, <3>4 DEF Replaces
  <2>. QED
    BY <1>4, <2>1 DEF Runs
<1>. QED
  BY <1>2, <1>3, <1>4

LEMMA SnapshotRecord ==
    ASSUME IssuedInv, ConfigInv, ReadSnapshot
    PROVE  RecordInv'
<1>0. Types /\ ToldInv /\ Reads("snapshot")
  BY DEF IssuedInv, ConfigInv, ReadSnapshot
<1>1. UNCHANGED <<managerVars, workerVars, sessionVars, down, config>>
  BY DEF ReadSnapshot
<1>2. Head(up) = up[1] /\ 1 \in DOMAIN up /\ Head(up) \in UpMessages /\ Head(up).type = "snapshot"
  BY <1>0, ReportTaken DEF Reads
<1>3. PICK links \in Snapshots : links = Head(up).links
  BY <1>2, UpKinds
<1>4. Told(links)
  BY <1>0, <1>2, <1>3 DEF ToldInv
<1>5. misled' = misled \cup {links[p].token : p \in {q \in DOMAIN links : Outdated(q, links[q])}}
  BY <1>3 DEF ReadSnapshot
<1>6. ASSUME NEW p \in Members(config'), NEW t, t = record'[p].token, t # NoToken, t \notin misled', Settled' PROVE Accounted(p, t)'
  <2>1. p \in Members(config) /\ p \in Peerings /\ p \in DOMAIN links
    BY <1>0, <1>1, <1>4, <1>6 DEF Told, Types, ServerType, Members, Configs
  <2>2. t = links[p].token
    BY <1>0, <1>3, <1>6, <2>1, RecordMoves
  <2>3. t \in Tokens /\ PeeringOf[t] = p
    <3>1. links[p] \in Reported
      BY <2>1 DEF Snapshots
    <3>. QED
      BY <1>4, <1>6, <2>1, <2>2, <3>1 DEF Told, Reported
  <2>4. ~Overtaken(p, t, links[p].state)
    BY <1>5, <1>6, <2>1, <2>2 DEF Outdated
  <2>5. Accounted(p, t)
    BY <2>1, <2>3, <2>4, UpToDate DEF Accounted
  <2>. QED
    BY <1>0, <1>1, <1>2, <2>5, AccountedRead DEF managerVars, workerVars, sessionVars
<1>. QED
  BY <1>6, RecordGoal

LEMMA EventRecord ==
    ASSUME IssuedInv, ConfigInv, RecordInv, ReadEvent
    PROVE  RecordInv'
<1>0. Types /\ ToldInv /\ Reads("event")
  BY DEF IssuedInv, ConfigInv, ReadEvent
<1>1. UNCHANGED <<managerVars, workerVars, sessionVars, config, misled, stray>>
  BY DEF ReadEvent, lossVars
<1>2. Head(up) = up[1] /\ 1 \in DOMAIN up /\ Head(up) \in UpMessages /\ Head(up).type = "event"
      /\ \A i \in DOMAIN up : i = 1 \/ (i - 1 \in DOMAIN up' /\ up'[i - 1] = up[i])
  BY <1>0, ReportTaken DEF Reads
<1>3. PICK e \in Milestones : e = Head(up).event
  BY <1>2, UpKinds
<1>4. online' = FALSE \/ (UNCHANGED <<down, online>>)
  BY DEF ReadEvent
<1>5. online' /\ Settled' => Settled /\ UNCHANGED <<down, online>>
  BY <1>1, <1>2, <1>4 DEF Settled, sessionVars
<1>6. ASSUME NEW p \in Members(config'), NEW t, t = record'[p].token, t # NoToken, t \notin misled', Settled' PROVE Accounted(p, t)'
  <2>1. online' /\ Settled /\ UNCHANGED <<down, online>>
    BY <1>5, <1>6 DEF Settled
  <2>2. p \in Peerings /\ p \in Members(config)
    BY <1>0, <1>1, <1>6 DEF Types, ServerType, Members, Configs
  <2>3. record[p].token = t
    BY <1>0, <1>6, <2>2, RecordMoves
  <2>4. Accounted(p, t) /\ t \in Tokens /\ PeeringOf[t] = p
    BY <1>1, <1>6, <2>1, <2>2, <2>3, RecordFact
  <2>5. ASSUME e = Event(t, "failed") PROVE FALSE
    <3>1. e.kind = "failed" /\ e.attempt = t
      BY <2>4, <2>5, EmitOne
    <3>2. PICK r \in Reasons : record' = [record EXCEPT ![p] = ReportFailure(record[p], t, r)]
      BY <1>3, <2>4, <3>1 DEF ReadEvent
    <3>3. record'[p] = ReportFailure(record[p], t, r) /\ record[p] \in LinkRecord /\ Paired(record[p])
      BY <1>0, <2>2, <3>2 DEF Types, ServerType
    <3>4. record'[p].token = NoToken
      BY <2>3, <2>4, <3>3, LinkTokens
    <3>. QED
      BY <1>6, <3>4
  <2>. QED
    BY <1>0, <1>1, <1>2, <1>3, <2>1, <2>4, <2>5, AccountedRead DEF managerVars, workerVars, sessionVars
<1>. QED
  BY <1>6, RecordGoal

LEMMA ServerRecord ==
    ASSUME IssuedInv, ConfigInv, RecordInv, ServerStep
    PROVE  RecordInv'
<1>0. Types /\ ToldInv
  BY DEF IssuedInv, ConfigInv
<1>1. ASSUME NEW q \in Peerings, PeerReports(q) PROVE RecordInv'
  <2>1. UNCHANGED <<managerVars, workerVars, sessionVars, pipeVars, online, config, misled, stray>>
    BY <1>1 DEF PeerReports
  <2>2. ASSUME NEW p \in Members(config'), NEW t, t = record'[p].token, t # NoToken, t \notin misled', Settled' PROVE Accounted(p, t)'
    <3>1. p \in Peerings /\ p \in Members(config) /\ Settled
      BY <1>0, <2>1, <2>2 DEF Types, ServerType, Members, Configs, Settled, sessionVars, pipeVars
    <3>2. record[p].token = t
      BY <1>0, <1>1, <2>2, <3>1, RecordMoves
    <3>3. Accounted(p, t)
      BY <2>1, <2>2, <3>1, <3>2, RecordFact
    <3>. QED
      BY <2>1, <3>3, AccountedKept DEF EventsStay, managerVars, workerVars, sessionVars, pipeVars
  <2>. QED
    BY <2>2, RecordGoal
<1>2. CASE ServerEnds
  BY <1>2 DEF ServerEnds, RecordInv, Settled
<1>. QED
  BY <1>1, <1>2, CommandRecord, SnapshotRecord, EventRecord DEF ServerStep, Configs

LEMMA RecordHolds == Spec => [](CancelledInv /\ RecordInv)
<1>1. Init => CancelledInv /\ RecordInv
  BY DEF Init, CancelledInv, RecordInv, Settled
<1>2. IssuedInv /\ QueueInv /\ ConfigInv /\ CancelledInv /\ RecordInv /\ [Next]_vars => (CancelledInv /\ RecordInv)'
  <2> SUFFICES ASSUME IssuedInv, QueueInv, ConfigInv, CancelledInv, RecordInv, [Next]_vars PROVE RecordInv'
    BY CancelledStep
  <2>1. CASE SessionStep
    BY <2>1, ReadRecord, LoopRecord, UnsettledRecord DEF SessionStep
  <2>2. CASE UNCHANGED vars
    BY <2>2, RecordFrame DEF vars, managerVars, workerVars, sessionVars, pipeVars, serverVars, lossVars
  <2>. QED
    BY <2>1, <2>2, WorkerRecord, ServerRecord DEF Next
<1>. QED
  BY <1>1, <1>2, IssuedHolds, QueueHolds, ConfigHolds, PTL DEF Spec

\* control.go and manager.go: once everything on its way has been read, the client
\* runs the server's configuration, and the attempt of every link the server shows
\* as under way or up, whatever sessions were lost and attempts replaced before.
THEOREM QuietEndsAgree == Spec => []QuietMeansAgreed
<1>1. IssuedInv /\ ConfigInv /\ RecordInv => QuietMeansAgreed
  <2> SUFFICES ASSUME IssuedInv, ConfigInv, RecordInv, Quiet, ~stray
               PROVE  /\ network = config
                      /\ \A p \in Members(config) : record[p].state # "IDLE" /\ record[p].token \notin misled
                            => workers[p] = record[p].token /\ stage[workers[p]] # "finished"
    BY DEF QuietMeansAgreed
  <2>1. network = config
    BY DEF Quiet, ConfigInv, FollowInv, LastConfig, ConfigRead
  <2>2. ASSUME NEW p \in Members(config), record[p].state # "IDLE", record[p].token \notin misled
        PROVE  workers[p] = record[p].token /\ stage[workers[p]] # "finished"
    <3>1. Settled
      BY DEF Settled, Quiet
    <3>2. record[p].token # NoToken
      BY <2>2 DEF IssuedInv, Types, ServerType, Members, Configs, Paired
    <3>3. PICK t : t = record[p].token
      OBVIOUS
    <3>4. Accounted(p, t) /\ t \in Tokens
      BY <2>2, <3>1, <3>2, <3>3, RecordFact
    <3>5. Event(t, "failed") # NoEvent
      <4>1. Event(t, "failed") \in Milestones
        BY <3>4, EmitOne
      <4>. QED
        BY <4>1, EventAssumption DEF Milestones
    <3>6. ~FailureComes(t) /\ ~StillToRun(p, t)
      BY <3>5 DEF Quiet, FailureComes, StillToRun
    <3>. QED
      BY <3>3, <3>4, <3>6 DEF Accounted, Runs
  <2>. QED
    BY <2>1, <2>2
<1>. QED
  BY <1>1, IssuedHolds, ConfigHolds, RecordHolds, PTL

=============================================================================
