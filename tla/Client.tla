------------------------------- MODULE Client -------------------------------
(***************************************************************************)
(* A client and what the server remembers of it: the control session       *)
(* (src/internal/client/control.go), the manager (manager.go), the stages  *)
(* of a link worker (worker.go) and the data stack (dataplane.go), with    *)
(* the connection to the server and the server's record of every link      *)
(* (LinkState).  How a worker punches is Punch, how the plane moves        *)
(* packets is DataPlane, how the server serves many clients is Hub.        *)
(*                                                                         *)
(* A peering has one peer, and the addresses of its ends never change: a   *)
(* device that leaves its network loses its peerings, and a new peering    *)
(* has a new id.  A configuration is therefore the set of its peerings, or *)
(* NoNetwork, and the plane is indexed by peering.  Nothing configured yet *)
(* is NoNetwork: there is nothing to keep either way.                      *)
(***************************************************************************)
EXTENDS LinkState, Naturals, Sequences, SequencesExt, FiniteSets

CONSTANTS
    Peerings,
    PeeringOf,   \* the peering of every attempt, named by its token
    NoNetwork, NoEvent, NoAnswer,
    EventSlots,  \* capacity of the event channel (64)
    PipeDepth,   \* bound: messages in flight, either way
    LateLines,   \* bound: lines left to the reader of a lost session
    MaxMoves     \* bound: sessions lost, and changes that no attempt asked for

\* An attempt is at one peering, and a configuration has finitely many; neither
\* sentinel is one of the values it stands beside.
ASSUME AttemptAssumption == PeeringOf \in [Tokens -> Peerings]
ASSUME FiniteAssumption  == IsFiniteSet(Peerings)
ASSUME NetworkAssumption == \A ps \in SUBSET Peerings : NoNetwork # ps
ASSUME EventAssumption   == NoEvent \notin [attempt : Tokens, kind : {"profile", "no profile", "connected", "failed"}]
ASSUME DepthAssumption   == EventSlots \in Nat \ {0} /\ PipeDepth \in Nat \ {0} /\ LateLines \in Nat
                            /\ MaxMoves \in Nat

VARIABLES
    \* the manager
    network,    \* the configuration applied last
    stack,      \* the data stack is open
    workers,    \* the current attempt of a peering
    plane,      \* the attempt whose queue the data plane has for it
    events,     \* the event channel
    \* the workers
    stage,      \* of an attempt's worker
    connected,  \* attempts that completed the handshake
    cancelled,  \* attempts that were stopped
    profiled,   \* attempts that were handed their peer's profile
    \* the control session
    session,    \* down, registered, configured, up; exited
    sending,    \* the event its loop has applied and not yet written
    answer,     \* the snapshot its reader has taken and not yet written
    late,       \* what the reader of a lost session has yet to handle
    \* the connection
    down, up,
    \* the server
    online,
    config,     \* the client's configuration
    spent,      \* peerings that were removed
    record,     \* the link records
    collected,  \* attempts for which the client's profile is in
    issued,
    \* history, kept by no code
    unplugged, \* attempts whose connection was never heard of: the channel was full
    misled,    \* attempts whose milestone the server was not told of, see below
    stray,     \* the reader of a lost session acted on a new one
    moves      \* of the world so far

managerVars == <<network, stack, workers, plane, events>>
workerVars  == <<stage, connected, cancelled, profiled>>
sessionVars == <<session, sending, answer, late>>
pipeVars    == <<down, up>>
serverVars  == <<online, config, spent, record, collected, issued>>
lossVars    == <<unplugged, misled, stray, moves>>
vars == <<managerVars, workerVars, sessionVars, pipeVars, serverVars, lossVars>>

Move == moves < MaxMoves /\ moves' = moves + 1

NoWorkers == [p \in Peerings |-> NoToken]

Init ==
    /\ network = NoNetwork /\ stack = FALSE
    /\ workers = NoWorkers /\ plane = NoWorkers /\ events = <<>>
    /\ stage = [t \in Tokens |-> "none"]
    /\ connected = {} /\ cancelled = {} /\ profiled = {}
    /\ session = "down" /\ sending = NoEvent /\ answer = NoAnswer /\ late = <<>>
    /\ down = <<>> /\ up = <<>>
    /\ online = FALSE /\ config = Peerings /\ spent = {}
    /\ record = [p \in Peerings |-> IdleLink] /\ collected = {} /\ issued = {}
    /\ unplugged = {} /\ misled = {} /\ stray = FALSE /\ moves = 0

----------------------------------------------------------------------------
(* Milestones *)

Event(t, kind) == [attempt |-> t, kind |-> kind]

\* A mutant of Room: the channel has no capacity.
RoomForAll(es) == Len(es)

\* emit and emitFailure: a full channel drops the event.
Room(es)   == IF Len(events) + Len(es) <= EventSlots THEN Len(es) ELSE EventSlots - Len(events)
Emit(es)   == events' = events \o SubSeq(es, 1, Room(es))
Lost(es)   == {es[i].attempt : i \in Room(es) + 1 .. Len(es)}
Unheard(e) == IF e.kind = "connected" THEN Lost(<<e>>) ELSE {}

----------------------------------------------------------------------------
(* A link worker *)

\* A worker goes to stage s and emits e.
Milestone(t, s, e) ==
    /\ stage' = [stage EXCEPT ![t] = s]
    /\ Emit(<<e>>)
    /\ misled' = misled \cup Lost(<<e>>) /\ unplugged' = unplugged \cup Unheard(e)
    /\ UNCHANGED <<network, stack, workers, plane, profiled, sessionVars, pipeVars,
                   serverVars, stray, moves>>

ProbeDone(t) ==
    /\ stage[t] = "probing"
    /\ Milestone(t, "waiting", Event(t, "profile"))
    /\ UNCHANGED <<connected, cancelled>>

\* The probe was cancelled: no profile and no reason either.
ProbeCancelled(t) ==
    /\ stage[t] = "probing" /\ t \in cancelled
    /\ Milestone(t, "waiting", Event(t, "no profile"))
    /\ UNCHANGED <<connected, cancelled>>

BeginPunch(t) ==
    /\ stage[t] = "waiting" /\ t \in profiled
    /\ stage' = [stage EXCEPT ![t] = "punching"]
    /\ profiled' = profiled \ {t}
    /\ UNCHANGED <<managerVars, connected, cancelled, sessionVars, pipeVars, serverVars, lossVars>>

\* A stopped worker may complete a handshake that was on its way.
Punched(t) ==
    /\ stage[t] = "punching"
    /\ connected' = connected \cup {t}
    /\ Milestone(t, "connected", Event(t, "connected"))
    /\ UNCHANGED cancelled

\* A mutant of Fails: nothing limits the wait for the peer's profile.
FailsUnlessWaiting(t) ==
    /\ stage[t] \in {"probing", "punching", "connected"}
    /\ Milestone(t, "finished", Event(t, "failed"))
    /\ cancelled' = cancelled \cup {t}
    /\ UNCHANGED connected

\* The probe, the wait or the punch ran out of time, no socket could be had, both
\* NATs are variable, or the tunnel went silent.
Fails(t) ==
    /\ stage[t] \in {"probing", "waiting", "punching", "connected"}
    /\ Milestone(t, "finished", Event(t, "failed"))
    /\ cancelled' = cancelled \cup {t}
    /\ UNCHANGED connected

Stops(t) ==
    /\ stage[t] \in {"waiting", "punching", "connected"} /\ t \in cancelled
    /\ stage' = [stage EXCEPT ![t] = "finished"]
    /\ UNCHANGED <<managerVars, connected, cancelled, profiled, sessionVars, pipeVars, serverVars, lossVars>>

\* currentState.
State(t) == CASE stage[t] = "connected"                       -> [state |-> "CONNECTED", token |-> t]
              [] stage[t] \in {"probing", "waiting", "punching"} -> [state |-> "CONNECTING", token |-> t]
              [] OTHER                                        -> [state |-> "IDLE", token |-> NoToken]

----------------------------------------------------------------------------
(* The manager; every method holds its mutex *)

Members(c) == IF c = NoNetwork THEN {} ELSE c

\* The workers and the queues of ps are stopped.
StopWorkers(ps) ==
    /\ cancelled' = cancelled \cup ({workers[p] : p \in ps} \ {NoToken})
    /\ workers'   = [p \in Peerings |-> IF p \in ps THEN NoToken ELSE workers[p]]

Unregistered(ps) == [p \in Peerings |-> IF p \in ps /\ workers[p] # NoToken THEN NoToken ELSE plane[p]]

Survivors(c) == {p \in Members(network) \cap Members(c) : workers[p] # NoToken}

\* A mutant of Reattached: the new plane has no queue yet.
ReattachedLater(c) == NoWorkers

\* The plane of a new stack serves the survivors whose tunnel is up.
Reattached(c) == [p \in Peerings |-> IF p \in Survivors(c) /\ workers[p] \in connected
                                     THEN workers[p] ELSE NoToken]

Failures(ps) == {[i \in DOMAIN q |-> Event(workers[q[i]], "failed")] : q \in SetToSeqs(ps)}

ApplyConfig(c) ==
    /\ network' = c
    /\ \/ c = network /\ UNCHANGED <<stack, workers, plane, events, cancelled, misled>>
       \/ /\ c # network /\ c = NoNetwork
          /\ StopWorkers(Peerings)
          /\ stack' = FALSE /\ plane' = NoWorkers
          /\ UNCHANGED <<events, misled>>
       \/ /\ c # network /\ c # NoNetwork
          /\ StopWorkers(Peerings \ Survivors(c))
          /\ stack' = TRUE /\ plane' = Reattached(c)
          /\ UNCHANGED <<events, misled>>
       \/ /\ c # network /\ c # NoNetwork   \* the new stack cannot be opened
          /\ StopWorkers(Peerings)
          /\ stack' = FALSE /\ plane' = NoWorkers
          /\ \E es \in Failures(Survivors(c)) : Emit(es) /\ misled' = misled \cup Lost(es)
    /\ UNCHANGED <<stage, profiled>>

\* A CONNECT replaces the worker of its peering; it opens a stack that could not
\* be opened before, or fails at once.
HandleConnect(t) ==
    LET p == PeeringOf[t]
    IN /\ cancelled' = cancelled \cup ({workers[p]} \ {NoToken})
       /\ plane' = Unregistered({p})
       /\ \/ /\ stack \/ network # NoNetwork
             /\ stack' = TRUE
             /\ workers' = [workers EXCEPT ![p] = t]
             /\ stage' = [stage EXCEPT ![t] = "probing"]
             /\ UNCHANGED <<events, misled>>
          \/ /\ ~stack
             /\ workers' = [workers EXCEPT ![p] = NoToken]
             /\ Emit(<<Event(t, "failed")>>) /\ misled' = misled \cup Lost(<<Event(t, "failed")>>)
             /\ UNCHANGED <<stack, stage>>
       /\ UNCHANGED <<network, profiled>>

HandleDisconnect(p) ==
    /\ StopWorkers({p}) /\ plane' = Unregistered({p})
    /\ UNCHANGED <<network, stack, events, stage, profiled, misled>>

HandlePeerProfile(t) ==
    /\ profiled' = IF workers[PeeringOf[t]] = t THEN profiled \cup {t} ELSE profiled
    /\ UNCHANGED <<network, stack, workers, plane, events, stage, cancelled, misled>>

\* A milestone counts for the current worker only; a queue that is there stays.
ApplyEvent(e) ==
    LET p       == PeeringOf[e.attempt]
        current == workers[p] = e.attempt
    IN \/ /\ e.kind = "connected" /\ current /\ stack
          /\ plane' = [plane EXCEPT ![p] = IF @ = NoToken THEN e.attempt ELSE @]
          /\ UNCHANGED <<workers, cancelled>>
       \/ /\ e.kind = "failed" /\ current
          /\ StopWorkers({p}) /\ plane' = Unregistered({p})
       \/ /\ e.kind \in {"profile", "no profile"} \/ ~current \/ (e.kind = "connected" /\ ~stack)
          /\ UNCHANGED <<workers, plane, cancelled>>

\* A mutant of StateReport: the workers are listed, not the configuration.
StateReportOfWorkers ==
    [p \in {q \in Peerings : workers[q] # NoToken} |-> State(workers[p])]

StateReport ==
    [p \in Members(network) |->
        IF workers[p] = NoToken THEN [state |-> "IDLE", token |-> NoToken] ELSE State(workers[p])]

----------------------------------------------------------------------------
(* The control session *)

Linked == session \in {"registered", "configured", "up"}

\* What the server writes is lost on a connection the client has left.
Send(m) == down' = IF Linked THEN Append(down, m) ELSE down

Writable == Len(up) < PipeDepth

\* The client dials and registers; the server replaces the session it may still
\* have, and answers with the configuration first.
Register ==
    /\ session = "down"
    /\ session' = "registered" /\ online' = TRUE
    /\ down' = <<[type |-> "config", peers |-> config]>> /\ up' = <<>>
    /\ UNCHANGED <<managerVars, workerVars, sending, answer, late, config, spent, record, collected,
                   issued, lossVars>>

ReadInitialConfig ==
    /\ session = "registered" /\ down # <<>>
    /\ ApplyConfig(Head(down).peers)
    /\ down' = Tail(down) /\ session' = "configured"
    /\ stray' = FALSE
    /\ UNCHANGED <<connected, sending, answer, late, up, serverVars, unplugged, moves>>

ReportInitialState ==
    /\ session = "configured" /\ Writable
    /\ up' = Append(up, [type |-> "snapshot", links |-> StateReport])
    /\ session' = "up"
    /\ misled' = {}
    /\ UNCHANGED <<managerVars, workerVars, sending, answer, late, down, serverVars, unplugged, stray, moves>>

\* The messages that change the manager, alike for every reader.
Handle(m) ==
    \/ m.type = "config"       /\ ApplyConfig(m.peers)
    \/ m.type = "connect"      /\ HandleConnect(m.attempt)
    \/ m.type = "disconnect"   /\ HandleDisconnect(m.peering)
    \/ m.type = "peer_profile" /\ HandlePeerProfile(m.attempt)

Read ==
    /\ session = "up" /\ answer = NoAnswer /\ down # <<>>
    /\ down' = Tail(down)
    /\ Handle(Head(down))
    /\ UNCHANGED <<connected, sessionVars, up, serverVars, unplugged, stray, moves>>

\* A QUERY: the snapshot is taken under the mutex of the manager, and written
\* under that of the connection.
ReadQuery ==
    /\ session = "up" /\ answer = NoAnswer /\ down # <<>>
    /\ Head(down).type = "query"
    /\ down' = Tail(down)
    /\ answer' = StateReport
    /\ UNCHANGED <<managerVars, workerVars, session, sending, late, up, serverVars, lossVars>>

WriteAnswer ==
    /\ session = "up" /\ answer # NoAnswer /\ Writable
    /\ up' = Append(up, [type |-> "snapshot", links |-> answer])
    /\ answer' = NoAnswer
    /\ UNCHANGED <<managerVars, workerVars, session, sending, late, down, serverVars, lossVars>>

TakeEvent ==
    /\ session = "up" /\ sending = NoEvent /\ events # <<>>
    /\ ApplyEvent(Head(events))
    /\ events' = Tail(events) /\ sending' = Head(events)
    /\ UNCHANGED <<network, stack, stage, connected, profiled, session, answer, late, pipeVars,
                   serverVars, lossVars>>

WriteEvent ==
    /\ session = "up" /\ sending # NoEvent /\ Writable
    /\ up' = Append(up, [type |-> "event", event |-> sending])
    /\ sending' = NoEvent
    /\ UNCHANGED <<managerVars, workerVars, session, answer, late, down, serverVars, lossVars>>

\* The connection breaks, the server ends the session, or a write fails.  Some of
\* what was written arrives; lines that were received stay with the old reader, up
\* to one that ends it: the answer to a QUERY cannot be written any more.
EndSession ==
    /\ Linked
    /\ Move \/ (~online /\ UNCHANGED moves)
    /\ session' = "down" /\ sending' = NoEvent /\ answer' = NoAnswer
    /\ \E n \in 0 .. Len(down) :
          /\ late' = late \o SubSeq(down, 1, IF session = "up" THEN n ELSE 0)
          /\ Len(late') <= LateLines
          /\ \A i \in DOMAIN late' : late'[i].type \notin {"query", "error"}
    /\ down' = <<>>
    /\ \E n \in 0 .. Len(up) : up' = SubSeq(up, 1, n)
    /\ UNCHANGED <<managerVars, workerVars, serverVars, unplugged, misled, stray>>

LateRead ==
    /\ late # <<>>
    /\ Handle(Head(late))
    /\ late' = Tail(late)
    /\ stray' = (stray \/ session \in {"configured", "up"})
    /\ UNCHANGED <<connected, session, sending, answer, pipeVars, serverVars, unplugged, moves>>

\* A signal, or another connection of the same identity: Manager.Close, and the
\* process ends with all of its workers.
Exit ==
    /\ session # "exited"
    /\ session' = "exited" /\ sending' = NoEvent /\ answer' = NoAnswer /\ late' = <<>>
    /\ StopWorkers(Peerings) /\ plane' = NoWorkers /\ stack' = FALSE
    /\ stage' = [t \in Tokens |-> IF stage[t] = "none" THEN "none" ELSE "finished"]
    /\ events' = <<>> /\ down' = <<>>
    /\ UNCHANGED <<network, connected, profiled, up, serverVars, lossVars>>

----------------------------------------------------------------------------
(* The server, as far as this client meets it *)

SendRoom == ~Linked \/ Len(down) < PipeDepth

\* A peering is made or removed, or the device joins or leaves its network; the
\* record of a removed peering is forgotten.
SetConfig(c) ==
    /\ Move
    /\ c # config /\ SendRoom
    /\ Members(c) \cap spent = {}
    /\ config' = c /\ spent' = spent \cup (Members(config) \ Members(c))
    /\ record' = [p \in Peerings |-> IF p \in Members(c) THEN record[p] ELSE IdleLink]
    /\ IF online THEN Send([type |-> "config", peers |-> c]) ELSE UNCHANGED down
    /\ UNCHANGED <<managerVars, workerVars, sessionVars, up, online, collected, issued, unplugged, misled, stray>>

\* A token is random: which of the unused ones it is makes no difference.
Fresh(p) == CHOOSE t \in Tokens \ issued : PeeringOf[t] = p

ConnectLink(t) ==
    /\ online /\ SendRoom /\ t \notin issued /\ PeeringOf[t] \in Members(config)
    /\ t = Fresh(PeeringOf[t])
    /\ issued' = issued \cup {t}
    /\ record' = [record EXCEPT ![PeeringOf[t]] = IssueConnect(@, t)]
    /\ Send([type |-> "connect", attempt |-> t])
    /\ UNCHANGED <<managerVars, workerVars, sessionVars, up, online, config, spent, collected, lossVars>>

DisconnectLink(p) ==
    /\ Move
    /\ online /\ SendRoom /\ p \in Members(config)
    /\ record' = [record EXCEPT ![p] = IssueDisconnect(@)]
    /\ Send([type |-> "disconnect", peering |-> p])
    /\ UNCHANGED <<managerVars, workerVars, sessionVars, up, online, config, spent, collected, issued, unplugged, misled, stray>>

Query ==
    /\ Move
    /\ online /\ SendRoom
    /\ Send([type |-> "query"])
    /\ UNCHANGED <<managerVars, workerVars, sessionVars, up, serverVars, unplugged, misled, stray>>

\* The profile of the other side is in as well.
SendPeerProfile(t) ==
    /\ online /\ SendRoom /\ t \in collected
    /\ collected' = collected \ {t}
    /\ Send([type |-> "peer_profile", attempt |-> t])
    /\ UNCHANGED <<managerVars, workerVars, sessionVars, up, online, config, spent, record, issued, lossVars>>

\* The other side reports.
PeerReports(p) ==
    /\ Move
    /\ \E t \in Tokens : \/ record' = [record EXCEPT ![p] = ReportSuccess(@, t)]
                         \/ \E r \in Reasons : record' = [record EXCEPT ![p] = ReportFailure(@, t, r)]
    /\ record' # record
    /\ UNCHANGED <<managerVars, workerVars, sessionVars, pipeVars, online, config, spent, collected,
                   issued, unplugged, misled, stray>>

Reads(type) == online /\ up # <<>> /\ Head(up).type = type /\ up' = Tail(up)

\* A snapshot says that the client is at attempt t of p, in a state; it is not any
\* more, or will be told otherwise, and no event on its way will say so.
Overtaken(p, t, state) ==
    LET Heard(kind) == /\ Event(t, kind) \notin ToSet(events) \cup {sending}
                       /\ [type |-> "event", event |-> Event(t, kind)] \notin ToSet(up)
    IN \/ /\ Heard("failed")
          /\ \/ workers[p] # t \/ stage[t] = "finished"
             \/ \E u \in Tokens \ {t} : PeeringOf[u] = p /\ [type |-> "connect", attempt |-> u] \in ToSet(down)
             \/ [type |-> "disconnect", peering |-> p] \in ToSet(down)
       \/ state = "CONNECTING" /\ stage[t] = "connected" /\ Heard("connected")

Outdated(p, l) == l.token # NoToken /\ Overtaken(p, l.token, l.state)

\* A snapshot overwrites the records of the peerings that still are.
ReadSnapshot ==
    /\ Reads("snapshot")
    /\ LET links == Head(up).links
       IN record' = [p \in Peerings |-> IF p \in DOMAIN links \cap Members(config)
                                        THEN AdoptClientReport(record[p], links[p].state, links[p].token)
                                        ELSE record[p]]
          /\ misled' = misled \cup {links[p].token : p \in {q \in DOMAIN links : Outdated(q, links[q])}}
    /\ UNCHANGED <<managerVars, workerVars, sessionVars, down, online, config, spent, collected, issued,
                   unplugged, stray, moves>>

\* A profile that is none does not validate: the session is rejected.
ReadEvent ==
    /\ Reads("event")
    /\ LET e == Head(up).event
           t == e.attempt
           p == PeeringOf[t]
       IN \/ /\ e.kind = "no profile"
             /\ online' = FALSE /\ Send([type |-> "error"])
             /\ UNCHANGED <<record, collected>>
          \/ /\ e.kind = "profile"
             /\ collected' = IF record[p].state = "CONNECTING" /\ record[p].token = t
                             THEN collected \cup {t} ELSE collected
             /\ UNCHANGED <<down, online, record>>
          \/ /\ e.kind = "connected"
             /\ record' = [record EXCEPT ![p] = ReportSuccess(@, t)]
             /\ UNCHANGED <<down, online, collected>>
          \/ /\ e.kind = "failed"
             /\ \E r \in Reasons : record' = [record EXCEPT ![p] = ReportFailure(@, t, r)]
             /\ UNCHANGED <<down, online, collected>>
    /\ UNCHANGED <<managerVars, workerVars, sessionVars, config, spent, issued, lossVars>>

\* The server's end of the session: a read that fails, a kick, a full queue.
ServerEnds ==
    /\ Move
    /\ online
    /\ online' = FALSE /\ up' = <<>>
    /\ UNCHANGED <<managerVars, workerVars, sessionVars, down, config, spent, record, collected, issued, unplugged, misled, stray>>

----------------------------------------------------------------------------
WorkerStep(t) ==
    ProbeDone(t) \/ ProbeCancelled(t) \/ BeginPunch(t) \/ Punched(t) \/ Fails(t) \/ Stops(t)

SessionStep ==
    \/ Register \/ ReadInitialConfig \/ ReportInitialState
    \/ Read \/ ReadQuery \/ WriteAnswer \/ TakeEvent \/ WriteEvent
    \/ EndSession \/ LateRead \/ Exit

ServerStep ==
    \/ \E c \in (SUBSET Peerings) \cup {NoNetwork} : SetConfig(c)
    \/ \E t \in Tokens : ConnectLink(t) \/ SendPeerProfile(t)
    \/ \E p \in Peerings : DisconnectLink(p) \/ PeerReports(p)
    \/ Query \/ ReadSnapshot \/ ReadEvent \/ ServerEnds

Next == (\E t \in Tokens : WorkerStep(t)) \/ SessionStep \/ ServerStep

Spec == Init /\ [][Next]_vars

ReaderStep == Register \/ ReadInitialConfig \/ ReportInitialState \/ Read \/ ReadQuery \/ WriteAnswer
LoopStep   == TakeEvent \/ WriteEvent
ServerRead == ReadSnapshot \/ ReadEvent

\* A worker's timers run out until it is connected, and it sees that it was stopped;
\* the client dials again and again, both of its loops run, the server reads, and an end that was closed is
\* noticed.  No command is sure to be issued, and no session is sure to last.
Fairness ==
    /\ \A t \in Tokens : WF_vars(stage[t] # "connected" /\ WorkerStep(t)) /\ WF_vars(Stops(t))
    /\ WF_vars(ReaderStep) /\ WF_vars(LoopStep) /\ WF_vars(ServerRead)
    /\ WF_vars(~online /\ EndSession)

FairSpec == Spec /\ Fairness

----------------------------------------------------------------------------
(* Invariants *)

ClientTypeOK ==
    /\ network \in (SUBSET Peerings) \cup {NoNetwork} /\ stack \in BOOLEAN
    /\ workers \in [Peerings -> Tokens \cup {NoToken}] /\ plane \in [Peerings -> Tokens \cup {NoToken}]
    /\ Len(events) <= EventSlots
    /\ stage \in [Tokens -> {"none", "probing", "waiting", "punching", "connected", "finished"}]
    /\ connected \subseteq issued /\ cancelled \subseteq issued /\ profiled \subseteq issued
    /\ session \in {"down", "registered", "configured", "up", "exited"}
    /\ record \in [Peerings -> LinkRecord] /\ \A p \in Peerings : Paired(record[p])
    /\ config \in (SUBSET Peerings) \cup {NoNetwork}
    /\ Members(config) \cap spent = {}
    /\ issued \subseteq Tokens /\ collected \subseteq issued /\ online \in BOOLEAN

\* manager.go: the data plane sends for the current worker of a peering and no
\* other, only while the stack is open and only once its tunnel is up; and a
\* tunnel that is up has its queue as soon as its milestone was read, a rebuilt
\* stack, a replaced attempt and a late milestone notwithstanding, unless that
\* milestone found the channel full.
QueuesMatchWorkers ==
    \A p \in Peerings :
        /\ plane[p] # NoToken => stack /\ plane[p] = workers[p] /\ plane[p] \in connected
        /\ \/ workers[p] \notin connected \/ workers[p] \in unplugged \/ plane[p] = workers[p]
           \/ \E i \in DOMAIN events : events[i] = Event(workers[p], "connected")

Quiet == /\ session = "up" /\ online /\ sending = NoEvent /\ answer = NoAnswer
         /\ down = <<>> /\ up = <<>> /\ events = <<>> /\ late = <<>>

\* control.go and manager.go: once everything on its way has been read, the client
\* runs the configuration of the server, and a link that the server shows as
\* connecting or connected is the attempt the client is at, and has not failed.
\* Set apart is what the code lets go wrong: a snapshot that a command or an event
\* overtook, a failure that found the channel full after the first report of the
\* session, and a reader of a lost session that acted on the one after it.
QuietMeansAgreed ==
    Quiet /\ ~stray =>
        /\ network = config
        /\ \A p \in Members(config) :
              record[p].state # "IDLE" /\ record[p].token \notin misled =>
                  workers[p] = record[p].token /\ stage[workers[p]] # "finished"

\* worker.go, run: the event "profile complete" carries a profile.
OnlyRealProfiles ==
    \A i \in DOMAIN up : up[i].type = "event" => up[i].event.kind # "no profile"

----------------------------------------------------------------------------
(* Liveness *)

Connecting(t) == LET r == record[PeeringOf[t]] IN r.state = "CONNECTING" /\ r.token = t

\* worker.go, manager.go and control.go: no link is left CONNECTING.  Whether or not
\* the peer's profile comes, whatever is lost with a session, and however commands,
\* timers and milestones interleave, the server hears how the attempt ended, unless
\* the client is gone for good or the end is one of those set apart above.
NoLinkHangs ==
    \A t \in Tokens : Connecting(t) ~> ~Connecting(t) \/ t \in misled \/ stray \/ session = "exited"
=============================================================================
