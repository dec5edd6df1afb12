---------------------------- MODULE ServerProofs ----------------------------
(***************************************************************************)
(* Theorems about ServerProcess: for any connections, requests, sweeps,    *)
(* ports and calls, and whichever way the process comes to its end.        *)
(***************************************************************************)
EXTENDS ServerProcess, HubCommandsProofs

----------------------------------------------------------------------------
(* The owner and its callers: a step of the process is one of HubCommands *)

LEMMA ServerCallsAre ==
    /\ \A c \in Connections : Registration(c) \in Calls /\ Ending(c) \in Calls
    /\ \A r \in Requests : Command(r) \in Calls
    /\ \A n \in Sweeps : Sweep(n) \in Calls
  BY ServerCallAssumption DEF ServerCalls

LEMMA HubStep == [Next]_vars => [HubNext]_hubVars
<1> SUFFICES ASSUME [Next]_vars PROVE HubNext \/ UNCHANGED hubVars
  OBVIOUS
<1>1. ASSUME NEW c \in Calls, Call(c) PROVE HubNext
  BY <1>1 DEF Call, HubNext, CallStep
<1>2. CASE UNCHANGED vars
  BY <1>2 DEF vars
<1>3. CASE MainStep
  <2>1. CASE DeferredHub
    BY <2>1 DEF DeferredHub, HubNext
  <2>2. CASE MainStep /\ ~DeferredHub
    BY <2>2 DEF MainStep, ListenControl, ListenAdmin, Select, Shutdown, DeferredReflector, DeferredSignal,
                DeferredStore, Exited
  <2>. QED
    BY <1>3, <2>1, <2>2
<1>4. CASE ReflectorStep
  BY <1>4 DEF ReflectorStep, Bind, Adopt, ServeReturns, CloseReturns, Watch, ReadFails
<1>5. CASE Signal \/ CloseListener \/ ServeFails
  BY <1>5 DEF Signal, CloseListener, ServeFails
<1>6. CASE OwnerEnds
  BY <1>6 DEF OwnerEnds, HubNext
<1>7. CASE OwnerWorks
  BY <1>7 DEF OwnerWorks, HubNext
<1>8. ASSUME NEW n \in Sweeps, Tick(n) PROVE HubNext
  BY <1>1, <1>8, ServerCallsAre DEF Tick
<1>9. ASSUME NEW c \in Calls, CallEnds(c) \/ Cancel(c) PROVE HubNext
  BY <1>9 DEF CallEnds, Cancel, HubNext, CallStep
<1>10. ASSUME NEW i \in Ports, ReplyFails(i) PROVE UNCHANGED hubVars
  BY <1>10 DEF ReplyFails
<1>11. ASSUME NEW c \in Connections, ConnectionStep(c) PROVE HubNext \/ UNCHANGED hubVars
  BY <1>1, <1>11, ServerCallsAre DEF ConnectionStep, Accept, Disconnect, SessionEnded
<1>12. ASSUME NEW r \in Requests, RequestStep(r) PROVE HubNext \/ UNCHANGED hubVars
  BY <1>1, <1>12, ServerCallsAre DEF RequestStep, BeginRequest, Ask, EndRequest
<1>. QED
  BY <1>2, <1>3, <1>4, <1>5, <1>6, <1>7, <1>8, <1>9, <1>10, <1>11, <1>12 DEF Next

LEMMA OwnerHolds == Spec => []HubInv
<1>1. Init => HubInv
  BY HubInvInit DEF Init
<1>. QED
  BY <1>1, HubStep, HubInvNext, PTL DEF Spec

\* hub.go, submit, within the process that starts and stops the hub: an error
\* means that the command had no effect, nil that it was performed once, whoever
\* calls while main takes the process apart.
THEOREM ServerKeepsItsPromise == Spec => PromiseKept
<1>1. Init => HubInit
  BY DEF Init
<1>2. HubInv /\ [HubNext]_hubVars => [Promise!Next]_Answer
  BY PromiseNext
<1>. QED
  BY <1>1, <1>2, HubStep, OwnerHolds, PromiseInit, PTL DEF Spec, PromiseKept, Promise!Spec

\* Once the owner has ended it takes nothing more, and what was executed stays so.
Performed(c) == call[c] \in {"executed", "ok"}

EndedIdle == owner = "ended" => Free

LEMMA EndedStep ==
    HubInv /\ EndedIdle /\ [HubNext]_hubVars =>
       /\ EndedIdle'
       /\ owner = "ended" => owner' = "ended" /\ \A c \in Calls : Performed(c)' <=> Performed(c)
       /\ owner # "ended" /\ owner' = "ended" => UNCHANGED call
<1> SUFFICES ASSUME HubInv, EndedIdle, [HubNext]_hubVars
             PROVE  /\ EndedIdle'
                    /\ owner = "ended" => owner' = "ended" /\ \A c \in Calls : Performed(c)' <=> Performed(c)
                    /\ owner # "ended" /\ owner' = "ended" => UNCHANGED call
  OBVIOUS
<1> USE CallAssumption DEF HubInv, HubTypeOK, Handed, Steps, Free, EndedIdle, Performed
<1>1. ASSUME NEW c \in Calls, CallStep(c) PROVE UNCHANGED <<owner, executing>> /\ \A d \in Calls : Performed(d)' <=> Performed(d)
  BY <1>1 DEF CallStep, Submit, Refuse, GiveUp, Return
<1>2. ASSUME NEW c \in Calls, OwnerStep(c) PROVE owner # "ended" /\ UNCHANGED owner
  BY <1>2 DEF OwnerStep, Take, Execute
<1>3. CASE Drain \/ End \/ Stop
  BY <1>3 DEF Drain, End, Stop
<1>4. CASE UNCHANGED hubVars
  BY <1>4 DEF hubVars
<1>. QED
  BY <1>1, <1>2, <1>3, <1>4 DEF HubNext

LEMMA EndedHolds == Spec => []EndedIdle
<1>1. Init => EndedIdle
  BY DEF Init, HubInit, EndedIdle
<1>. QED
  BY <1>1, HubStep, OwnerHolds, EndedStep, PTL DEF Spec

----------------------------------------------------------------------------
(* main and its deferred calls *)

HasStarted == main \in {"admin", "waiting", "shutdown"}
HasUnwound == main \in {"unwinding", "exited"}

\* What is still deferred tells how far the process has come down.
MainInv ==
    /\ main = "control" => deferred = <<"hub", "store">>
    /\ HasStarted => deferred = <<"reflector", "signal", "hub", "store">>
    /\ main = "exited" => deferred = <<>>
    /\ deferred \in {<<>>, <<"store">>} => owner = "ended"
    /\ ~storeOpen => deferred = <<>>
    /\ HasUnwound /\ code = 0 => admin = "down" /\ \A r \in Requests : request[r] # "running"

\* The reflector's sockets: which of them may be open where it is.
ReflectorInv ==
    /\ main = "control" => listening = "off"
    /\ listening = "off" => \A i \in Ports : socket[i] = "none"
    /\ listening \in {"off", "binding", "bound"} => held = {} /\ \A i \in Ports : port[i] = "off"
    /\ listening = "serving" => held = Ports \/ \A i \in Ports : socket[i] # "open"
    /\ \A i \in Ports : /\ port[i] = "ended" => socket[i] # "open"
                        /\ port[i] = "failed" => \A j \in Ports : socket[j] # "open"
    /\ listening = "returned" => \A i \in Ports : socket[i] # "open"
    /\ closing = "finished" => listening = "returned"
    /\ deferred \in {<<>>, <<"store">>, <<"hub", "store">>, <<"signal", "hub", "store">>} =>
          listening = "off" \/ closing = "finished"

SessionsClosed == owner = "ended" => \A c \in Connections : InTable(c) => connection[c] = "closed"

\* The parts of ServerTypeOK.
ProcType == /\ main \in {"control", "admin", "waiting", "shutdown", "unwinding", "exited"}
            /\ deferred \in {<<>>, <<"store">>, <<"hub", "store">>, <<"signal", "hub", "store">>,
                             <<"reflector", "signal", "hub", "store">>}
            /\ code \in {0, 1}
FlagType == /\ cancelled \in BOOLEAN /\ storeOpen \in BOOLEAN
            /\ accepting \in BOOLEAN /\ serveErr \in BOOLEAN /\ stopped \in BOOLEAN
ConnType == connection \in [Connections -> {"none", "open", "closed"}]
AdmType  == /\ admin \in {"off", "serving", "down"}
            /\ request \in [Requests -> {"none", "running", "done"}]
RefType  == /\ listening \in {"off", "binding", "bound", "serving", "returned"}
            /\ socket \in [Ports -> {"none", "open", "closed"}]
            /\ port \in [Ports -> {"off", "serving", "ended", "failed"}]
            /\ held \in {{}, Ports}
            /\ closing \in {"no", "waiting", "finished"}
            /\ watcher \in {"off", "watching", "closing"}
            /\ reflectorErr \in {"none", "nil", "error"}

LEMMA ServerTypeParts ==
    HubTypeOK /\ ProcType /\ FlagType /\ ConnType /\ AdmType /\ RefType => ServerTypeOK
  BY DEF ServerTypeOK, ProcType, FlagType, ConnType, AdmType, RefType

LEMMA DeferredTails ==
    /\ Head(<<"store">>) = "store" /\ Tail(<<"store">>) = <<>>
    /\ Head(<<"hub", "store">>) = "hub" /\ Tail(<<"hub", "store">>) = <<"store">>
    /\ Head(<<"signal", "hub", "store">>) = "signal" /\ Tail(<<"signal", "hub", "store">>) = <<"hub", "store">>
    /\ Head(<<"reflector", "signal", "hub", "store">>) = "reflector"
    /\ Tail(<<"reflector", "signal", "hub", "store">>) = <<"signal", "hub", "store">>
  OBVIOUS

LEMMA Concatenation ==
    ASSUME NEW D, NEW a \in Seq(D), NEW b \in Seq(D)
    PROVE  /\ a \o b \in Seq(D) /\ Len(a \o b) = Len(a) + Len(b)
           /\ \A i \in 1 .. Len(a) : (a \o b)[i] = a[i]
           /\ \A i \in 1 .. Len(b) : (a \o b)[Len(a) + i] = b[i]
  OBVIOUS

LEMMA TwoAndTwo ==
    ASSUME NEW D, NEW a \in Seq(D), NEW b \in Seq(D), NEW c \in Seq(D), Len(a) = 2, Len(b) = 2, Len(c) = 4,
           a[1] = c[1], a[2] = c[2], b[1] = c[3], b[2] = c[4]
    PROVE  a \o b = c
<1>1. /\ a \o b \in Seq(D) /\ Len(a \o b) = Len(a) + Len(b)
      /\ \A i \in 1 .. Len(a) : (a \o b)[i] = a[i]
      /\ \A i \in 1 .. Len(b) : (a \o b)[Len(a) + i] = b[i]
  BY ONLY Concatenation, a \in Seq(D), b \in Seq(D)
<1>2. Len(a \o b) = 4
  BY <1>1
<1>3. (a \o b)[1] = a[1] /\ (a \o b)[2] = a[2] /\ (a \o b)[3] = b[1] /\ (a \o b)[4] = b[2]
  <2>1. /\ 1 \in 1 .. Len(a) /\ 2 \in 1 .. Len(a) /\ 1 \in 1 .. Len(b) /\ 2 \in 1 .. Len(b)
        /\ Len(a) + 1 = 3 /\ Len(a) + 2 = 4
    OBVIOUS
  <2>. QED
    BY ONLY <1>1, <2>1
<1>4. \A i \in 1 .. 4 : i \in {1, 2, 3, 4}
  OBVIOUS
<1>5. \A i \in 1 .. 4 : (a \o b)[i] = c[i]
  BY <1>3, <1>4
<1>. QED
  BY <1>1, <1>2, <1>5

LEMMA DeferredAll == <<"reflector", "signal">> \o <<"hub", "store">> = <<"reflector", "signal", "hub", "store">>
<1> DEFINE a == <<"reflector", "signal">>
           b == <<"hub", "store">>
           c == <<"reflector", "signal", "hub", "store">>
           D == {"reflector", "signal", "hub", "store"}
<1>1. a \in Seq(D) /\ b \in Seq(D) /\ c \in Seq(D)
  OBVIOUS
<1>2. Len(a) = 2 /\ Len(b) = 2 /\ Len(c) = 4 /\ a[1] = c[1] /\ a[2] = c[2] /\ b[1] = c[3] /\ b[2] = c[4]
  OBVIOUS
<1>. HIDE DEF a, b, c, D
<1>3. a \o b = c
  BY <1>1, <1>2, TwoAndTwo
<1>. QED
  BY <1>3 DEF a, b, c

\* What is popped is the deferred call that was made.
LEMMA WhatIsDeferred ==
    ASSUME ProcType
    PROVE  /\ Unwinding("reflector") => deferred = <<"reflector", "signal", "hub", "store">>
           /\ Unwinding("signal") => deferred = <<"signal", "hub", "store">>
           /\ Unwinding("hub") => deferred = <<"hub", "store">>
           /\ Unwinding("store") => deferred = <<"store">>
  BY DeferredTails DEF ProcType, Unwinding

LEMMA FlagStep == FlagType /\ [Next]_vars => FlagType'
<1> SUFFICES ASSUME FlagType, [Next]_vars PROVE FlagType'
  OBVIOUS
<1> USE DEF FlagType
<1>1. CASE UNCHANGED vars
  BY <1>1 DEF vars, procVars, ctlVars, refVars
<1>2. CASE ListenControl \/ ListenAdmin \/ Select \/ Shutdown
  BY <1>2 DEF ListenControl, ListenAdmin, Select, Shutdown, ctlVars, refVars
<1>3. CASE DeferredReflector \/ DeferredSignal \/ DeferredHub \/ DeferredStore \/ Exited
  BY <1>3 DEF DeferredReflector, DeferredSignal, DeferredHub, DeferredStore, Exited, BeginClose, CloseSockets,
              ctlVars, refVars
<1>4. CASE ReflectorStep
  BY <1>4 DEF ReflectorStep, Bind, Adopt, ServeReturns, CloseReturns, Watch, ReadFails, BeginClose, CloseSockets,
              procVars, ctlVars
<1>5. CASE Signal \/ CloseListener \/ ServeFails
  BY <1>5 DEF Signal, CloseListener, ServeFails, procVars, ctlVars, refVars
<1>6. CASE OwnerEnds \/ OwnerWorks
  BY <1>6 DEF OwnerEnds, OwnerWorks, others, procVars, ctlVars, refVars
<1>7. ASSUME NEW n \in Sweeps, Tick(n) PROVE FlagType'
  BY <1>7 DEF Tick, procVars, ctlVars, refVars
<1>8. ASSUME NEW c \in Calls, CallEnds(c) \/ Cancel(c) PROVE FlagType'
  BY <1>8 DEF CallEnds, Cancel, others, procVars, ctlVars, refVars
<1>9. ASSUME NEW i \in Ports, ReplyFails(i) PROVE FlagType'
  BY <1>9 DEF ReplyFails, CloseSockets, procVars, ctlVars
<1>10. ASSUME NEW c \in Connections, ConnectionStep(c) PROVE FlagType'
  BY <1>10 DEF ConnectionStep, Accept, Disconnect, SessionEnded, procVars, ctlVars, refVars
<1>11. ASSUME NEW r \in Requests, RequestStep(r) PROVE FlagType'
  BY <1>11 DEF RequestStep, BeginRequest, Ask, EndRequest, procVars, ctlVars, refVars
<1>. QED
  BY <1>1, <1>2, <1>3, <1>4, <1>5, <1>6, <1>7, <1>8, <1>9, <1>10, <1>11 DEF Next, MainStep

\* What main does to its own state, and to what it defers; an owner that has
\* ended stays so.
LEMMA MainInvStep ==
    /\ ProcType /\ AdmType /\ MainInv /\ [Next]_vars
    /\ (owner = "ended" => owner' = "ended")
    => ProcType' /\ AdmType' /\ MainInv'
<1> SUFFICES ASSUME ProcType, AdmType, MainInv, [Next]_vars, owner = "ended" => owner' = "ended"
             PROVE  ProcType' /\ AdmType' /\ MainInv'
  OBVIOUS
<1> USE DEF AdmType, MainInv, HasStarted, HasUnwound
<1>1. CASE UNCHANGED <<main, deferred, code, storeOpen, admin, request>>
  BY <1>1 DEF ProcType
<1>2. CASE ListenControl
  <2>1. CASE Exit(1) /\ UNCHANGED deferred
    BY <1>2, <2>1 DEF ListenControl, Exit, ProcType, admVars
  <2>2. CASE main' = "admin" /\ deferred' = <<"reflector", "signal">> \o deferred /\ UNCHANGED code
    <3>1. deferred' = <<"reflector", "signal", "hub", "store">>
      BY <1>2, <2>2, DeferredAll DEF ListenControl
    <3>2. <<"reflector", "signal", "hub", "store">> \notin {<<>>, <<"store">>}
      OBVIOUS
    <3>3. UNCHANGED <<storeOpen, admin, request>> /\ storeOpen
      BY <1>2 DEF ListenControl, admVars
    <3>. QED
      BY <2>2, <3>1, <3>2, <3>3 DEF ProcType
  <2>. QED
    BY <1>2, <2>1, <2>2 DEF ListenControl
<1>3. CASE ListenAdmin
  BY <1>3 DEF ListenAdmin, Exit, ProcType
<1>4. CASE Select
  BY <1>4 DEF Select, Exit, ProcType, admVars
<1>5. CASE Shutdown
  BY <1>5 DEF Shutdown, ProcType
<1>6. CASE DeferredReflector \/ DeferredSignal
  <2>1. /\ main = "unwinding" /\ UNCHANGED <<main, code, storeOpen, admin, request>>
        /\ \/ UNCHANGED deferred
           \/ Unwinding("reflector") /\ deferred' = Tail(deferred)
           \/ Unwinding("signal") /\ deferred' = Tail(deferred)
    BY <1>6 DEF DeferredReflector, DeferredSignal, Popped, Unwinding, admVars
  <2>2. \/ UNCHANGED deferred
        \/ deferred = <<"reflector", "signal", "hub", "store">> /\ deferred' = <<"signal", "hub", "store">>
        \/ deferred = <<"signal", "hub", "store">> /\ deferred' = <<"hub", "store">>
    BY <2>1, WhatIsDeferred, DeferredTails
  <2>3. CASE UNCHANGED deferred
    BY <1>1, <2>1, <2>3
  <2>4. CASE /\ deferred # <<>> /\ deferred' \in {<<"signal", "hub", "store">>, <<"hub", "store">>}
    <3>1. \A d \in {<<"signal", "hub", "store">>, <<"hub", "store">>} : d \notin {<<>>, <<"store">>}
      OBVIOUS
    <3>. QED
      BY <2>1, <2>4, <3>1 DEF ProcType
  <2>. QED
    BY <2>2, <2>3, <2>4
<1>7. CASE DeferredHub \/ DeferredStore
  BY <1>7, WhatIsDeferred, DeferredTails DEF DeferredHub, DeferredStore, Popped, Unwinding, ProcType, admVars, hubVars
<1>8. CASE Exited
  BY <1>8 DEF Exited, ProcType, admVars
<1>9. CASE ReflectorStep
  BY <1>1, <1>9 DEF ReflectorStep, Bind, Adopt, ServeReturns, CloseReturns, Watch, ReadFails, procVars, admVars
<1>10. CASE Signal \/ CloseListener
  BY <1>1, <1>10 DEF Signal, CloseListener, procVars, admVars
<1>11. CASE ServeFails
  <2>1. UNCHANGED <<main, deferred, code, storeOpen, request>> /\ admin' \in {admin, "down"}
    BY <1>11 DEF ServeFails, procVars
  <2>. QED
    BY <2>1 DEF ProcType
<1>12. CASE OwnerEnds \/ OwnerWorks
  BY <1>1, <1>12 DEF OwnerEnds, OwnerWorks, others, procVars, admVars
<1>13. ASSUME NEW n \in Sweeps, Tick(n) PROVE ProcType' /\ AdmType' /\ MainInv'
  BY <1>1, <1>13 DEF Tick, procVars, admVars
<1>14. ASSUME NEW c \in Calls, CallEnds(c) \/ Cancel(c) PROVE ProcType' /\ AdmType' /\ MainInv'
  BY <1>1, <1>14 DEF CallEnds, Cancel, others, procVars, admVars
<1>15. ASSUME NEW i \in Ports, ReplyFails(i) PROVE ProcType' /\ AdmType' /\ MainInv'
  BY <1>1, <1>15 DEF ReplyFails, procVars, admVars
<1>16. ASSUME NEW c \in Connections, ConnectionStep(c) PROVE ProcType' /\ AdmType' /\ MainInv'
  BY <1>1, <1>16 DEF ConnectionStep, Accept, Disconnect, SessionEnded, procVars, admVars
<1>17. ASSUME NEW r \in Requests, RequestStep(r) PROVE ProcType' /\ AdmType' /\ MainInv'
  <2>1. UNCHANGED <<main, deferred, code, storeOpen, admin>>
    BY <1>17 DEF RequestStep, BeginRequest, Ask, EndRequest, procVars, admVars
  <2>2. UNCHANGED request \/ request' = [request EXCEPT ![r] = "done"]
        \/ (admin = "serving" /\ request' = [request EXCEPT ![r] = "running"])
    BY <1>17 DEF RequestStep, BeginRequest, Ask, EndRequest, admVars
  <2>. QED
    BY <2>1, <2>2 DEF ProcType
<1>. QED
  BY <1>1, <1>2, <1>3, <1>4, <1>5, <1>6, <1>7, <1>8, <1>9, <1>10, <1>11, <1>12, <1>13, <1>14, <1>15, <1>16, <1>17
  DEF Next, MainStep, vars, procVars, admVars

----------------------------------------------------------------------------
(* The probe reflector *)

LEMMA ClosedSockets ==
    ASSUME RefType, NEW is \in SUBSET Ports
    PROVE  /\ Closed(is) \in [Ports -> {"none", "open", "closed"}]
           /\ \A i \in Ports : Closed(is)[i] = "open" => socket[i] = "open" /\ i \notin is
           /\ \A i \in Ports : socket[i] = "none" => Closed(is)[i] = "none"
  BY DEF RefType, Closed

\* Close, and a reply that fails, leave no socket of the read loops open.
LEMMA SocketsClosed ==
    ASSUME RefType, ReflectorInv, CloseSockets
    PROVE  /\ socket' \in [Ports -> {"none", "open", "closed"}] /\ held' = {}
           /\ \A i \in Ports : socket'[i] = "open" => socket[i] = "open"
           /\ \A i \in Ports : socket[i] = "none" => socket'[i] = "none"
           /\ listening \in {"serving", "returned"} => \A i \in Ports : socket'[i] # "open"
<1>1. held \in SUBSET Ports
  BY DEF RefType
<1>2. socket' = Closed(held) /\ held' = {}
  BY DEF CloseSockets
<1>. QED
  BY <1>1, <1>2, ClosedSockets DEF ReflectorInv

LEMMA ReflectorInvStep ==
    ProcType /\ RefType /\ MainInv /\ ReflectorInv /\ [Next]_vars => RefType' /\ ReflectorInv'
<1> SUFFICES ASSUME ProcType, RefType, MainInv, ReflectorInv, [Next]_vars PROVE RefType' /\ ReflectorInv'
  OBVIOUS
<1>1. CASE UNCHANGED <<refVars, deferred>> /\ (main' = "control" => main = "control")
  BY <1>1 DEF refVars, RefType, ReflectorInv
<1>2. CASE Bind
  <2>1. /\ listening = "binding" /\ UNCHANGED <<main, deferred, port, stopped, held, closing, watcher>>
        /\ socket' \in [Ports -> {"none", "open", "closed"}]
        /\ listening' \in {"binding", "bound", "returned"} /\ reflectorErr' \in {"none", "nil", "error"}
        /\ listening' = "returned" => socket' = Closed(Ports)
    BY <1>2, ClosedSockets DEF Bind, RefType, procVars
  <2>2. listening' = "returned" => \A i \in Ports : socket'[i] # "open"
    BY <2>1, ClosedSockets
  <2>. QED
    BY <2>1, <2>2 DEF RefType, ReflectorInv
<1>3. CASE Adopt
  <2>1. CASE socket' = Closed(Ports) /\ listening' = "returned" /\ reflectorErr' = "nil" /\ UNCHANGED <<held, port, watcher>>
    BY <1>3, <2>1, ClosedSockets DEF Adopt, RefType, ReflectorInv, procVars
  <2>2. CASE held' = Ports /\ port' = [i \in Ports |-> "serving"] /\ watcher' = "watching" /\ listening' = "serving"
             /\ UNCHANGED <<socket, reflectorErr>>
    BY <1>3, <2>2 DEF Adopt, RefType, ReflectorInv, procVars
  <2>. QED
    BY <1>3, <2>1, <2>2 DEF Adopt
<1>4. ASSUME NEW i \in Ports, ReadFails(i) PROVE RefType' /\ ReflectorInv'
  BY <1>4 DEF ReadFails, RefType, ReflectorInv, procVars
<1>5. ASSUME NEW i \in Ports, ReplyFails(i) PROVE RefType' /\ ReflectorInv'
  <2>1. /\ port[i] = "serving" /\ port' = [port EXCEPT ![i] = "failed"]
        /\ UNCHANGED <<main, deferred, listening, closing, watcher, reflectorErr>>
    BY <1>5 DEF ReplyFails, procVars
  <2>2. listening \in {"serving", "returned"}
    BY <2>1 DEF RefType, ReflectorInv
  <2>3. /\ socket' \in [Ports -> {"none", "open", "closed"}] /\ held' = {}
        /\ \A j \in Ports : socket'[j] # "open"
    BY <1>5, <2>2, SocketsClosed DEF ReplyFails
  <2>. QED
    BY <2>1, <2>2, <2>3 DEF RefType, ReflectorInv
<1>6. CASE ServeReturns
  <2>1. \A i \in Ports : socket[i] # "open"
    BY <1>6 DEF ServeReturns, ReflectorInv
  <2>. QED
    BY <1>6, <2>1 DEF ServeReturns, RefType, ReflectorInv, procVars
<1>7. CASE CloseReturns
  BY <1>7 DEF CloseReturns, RefType, ReflectorInv, procVars
<1>8. ASSUME BeginClose, UNCHANGED <<main, deferred, listening, port, reflectorErr>>, watcher' \in {watcher, "closing"}
      PROVE  RefType' /\ ReflectorInv'
  <2>1. /\ socket' \in [Ports -> {"none", "open", "closed"}] /\ held' = {}
        /\ \A i \in Ports : socket'[i] = "open" => socket[i] = "open"
        /\ \A i \in Ports : socket[i] = "none" => socket'[i] = "none"
        /\ listening \in {"serving", "returned"} => \A i \in Ports : socket'[i] # "open"
    BY <1>8, SocketsClosed DEF BeginClose
  <2>2. closing = "no" /\ closing' = "waiting"
    BY <1>8 DEF BeginClose
  <2>. QED
    BY <1>8, <2>1, <2>2 DEF RefType, ReflectorInv
<1>9. CASE Watch
  <2>1. CASE BeginClose
    <3>1. UNCHANGED <<main, deferred, listening, port, reflectorErr>> /\ watcher' \in {watcher, "closing"}
      BY <1>9, <2>1 DEF Watch, procVars, BeginClose, CloseSockets
    <3>. QED
      BY <1>8, <2>1, <3>1
  <2>2. CASE UNCHANGED <<closing, stopped, socket, held>>
    BY <1>9, <2>2 DEF Watch, procVars, RefType, ReflectorInv
  <2>. QED
    BY <1>9, <2>1, <2>2 DEF Watch
<1>10. CASE ListenControl
  <2>1. UNCHANGED <<socket, port, stopped, held, closing, watcher, reflectorErr>> /\ main = "control"
    BY <1>10 DEF ListenControl
  <2>2. CASE UNCHANGED <<deferred, listening>>
    BY <1>1, <1>10, <2>1, <2>2 DEF refVars, ListenControl, Exit
  <2>3. CASE listening' = "binding" /\ deferred' = <<"reflector", "signal">> \o deferred
    <3>1. deferred' = <<"reflector", "signal", "hub", "store">>
      BY <2>1, <2>3, DeferredAll DEF MainInv
    <3>2. \A d \in {<<>>, <<"store">>, <<"hub", "store">>, <<"signal", "hub", "store">>} :
             d # <<"reflector", "signal", "hub", "store">>
      OBVIOUS
    <3>3. listening = "off" /\ main' = "admin"
      BY <1>10, <2>1, <2>3 DEF ListenControl, Exit, ReflectorInv
    <3>. QED
      BY <2>1, <2>3, <3>1, <3>2, <3>3 DEF RefType, ReflectorInv
  <2>. QED
    BY <1>10, <2>2, <2>3 DEF ListenControl
<1>11. CASE DeferredReflector
  <2>1. CASE BeginClose /\ UNCHANGED deferred
    BY <1>8, <1>11, <2>1 DEF DeferredReflector
  <2>2. CASE closing = "finished" /\ UNCHANGED <<closing, stopped, socket, held>>
    BY <1>11, <2>2 DEF DeferredReflector, RefType, ReflectorInv
  <2>. QED
    BY <1>11, <2>1, <2>2 DEF DeferredReflector
<1>12. CASE DeferredSignal \/ DeferredHub \/ DeferredStore
  <2>1. /\ UNCHANGED <<main, refVars>>
        /\ deferred \in {<<"store">>, <<"hub", "store">>, <<"signal", "hub", "store">>}
    BY <1>12, WhatIsDeferred DEF DeferredSignal, DeferredHub, DeferredStore
  <2>. QED
    BY <2>1 DEF refVars, RefType, ReflectorInv
<1>13. CASE ListenAdmin \/ Select \/ Shutdown \/ Exited
  BY <1>1, <1>13 DEF ListenAdmin, Select, Shutdown, Exited, Exit
<1>14. CASE Signal \/ CloseListener \/ ServeFails \/ OwnerEnds \/ OwnerWorks
  BY <1>1, <1>14 DEF Signal, CloseListener, ServeFails, OwnerEnds, OwnerWorks, others, procVars
<1>15. ASSUME NEW n \in Sweeps, Tick(n) PROVE RefType' /\ ReflectorInv'
  BY <1>1, <1>15 DEF Tick, procVars
<1>16. ASSUME NEW c \in Calls, CallEnds(c) \/ Cancel(c) PROVE RefType' /\ ReflectorInv'
  BY <1>1, <1>16 DEF CallEnds, Cancel, others, procVars
<1>17. ASSUME NEW c \in Connections, ConnectionStep(c) PROVE RefType' /\ ReflectorInv'
  BY <1>1, <1>17 DEF ConnectionStep, Accept, Disconnect, SessionEnded, procVars
<1>18. ASSUME NEW r \in Requests, RequestStep(r) PROVE RefType' /\ ReflectorInv'
  BY <1>1, <1>18 DEF RequestStep, BeginRequest, Ask, EndRequest, procVars
<1>. QED
  BY <1>1, <1>2, <1>3, <1>4, <1>5, <1>6, <1>7, <1>9, <1>10, <1>11, <1>12, <1>13, <1>14, <1>15, <1>16, <1>17, <1>18
  DEF Next, MainStep, ReflectorStep, vars, procVars

----------------------------------------------------------------------------
(* Control connections *)


LEMMA ConnectionsStep ==
    ASSUME ConnType, SessionsClosed, [Next]_vars,
           owner = "ended" => owner' = "ended" /\ \A c \in Calls : Performed(c)' <=> Performed(c),
           owner # "ended" /\ owner' = "ended" => UNCHANGED call
    PROVE  ConnType' /\ SessionsClosed'
<1> DEFINE Stays == /\ connection' \in [Connections -> {"none", "open", "closed"}]
                    /\ \A c \in Connections : connection[c] = "closed" => connection'[c] = "closed"
                    /\ owner' = "ended" => owner = "ended"
<1>1. ASSUME Stays PROVE ConnType' /\ SessionsClosed'
  <2>1. ASSUME owner = "ended", NEW c \in Connections, InTable(c)' PROVE InTable(c)
    <3>1. Registration(c) \in Calls /\ Ending(c) \in Calls
      BY ServerCallsAre
    <3>2. Performed(Registration(c))' <=> Performed(Registration(c))
      BY <2>1, <3>1
    <3>3. Performed(Ending(c))' <=> Performed(Ending(c))
      BY <2>1, <3>1
    <3>. QED
      BY <2>1, <3>2, <3>3 DEF InTable, Performed
  <2>. QED
    BY <1>1, <2>1 DEF ConnType, SessionsClosed
<1>2. CASE UNCHANGED <<connection, owner>>
  BY <1>1, <1>2 DEF ConnType
<1>3. CASE OwnerEnds
  <2>1. owner # "ended" /\ owner' = "ended"
    BY <1>3 DEF OwnerEnds, End
  <2>2. call' = call /\ connection' = [c \in Connections |-> IF InTable(c) THEN "closed" ELSE connection[c]]
    BY <1>3, <2>1 DEF OwnerEnds
  <2>3. \A c \in Connections : InTable(c)' <=> InTable(c)
    BY <2>2 DEF InTable, Registration, Ending
  <2>. QED
    BY <2>2, <2>3 DEF ConnType, SessionsClosed
<1>4. CASE OwnerWorks
  BY <1>1, <1>4 DEF OwnerWorks, others, ctlVars, Drain, OwnerStep, Take, Execute, ConnType
<1>5. CASE DeferredHub
  BY <1>1, <1>5 DEF DeferredHub, Stop, ctlVars, hubVars, ConnType
<1>6. CASE ListenControl \/ ListenAdmin \/ Select \/ Shutdown \/ DeferredReflector \/ DeferredSignal
           \/ DeferredStore \/ Exited
  BY <1>2, <1>6 DEF ListenControl, ListenAdmin, Select, Shutdown, DeferredReflector, DeferredSignal,
                    DeferredStore, Exited, hubVars, ctlVars
<1>7. CASE ReflectorStep \/ \E i \in Ports : ReplyFails(i)
  BY <1>2, <1>7 DEF ReflectorStep, Bind, Adopt, ServeReturns, CloseReturns, Watch, ReadFails, ReplyFails,
                    hubVars, ctlVars
<1>8. CASE Signal \/ CloseListener \/ ServeFails
  BY <1>2, <1>8 DEF Signal, CloseListener, ServeFails, hubVars, ctlVars
<1>9. ASSUME NEW c \in Calls, CallEnds(c) \/ Cancel(c) PROVE ConnType' /\ SessionsClosed'
  BY <1>2, <1>9 DEF CallEnds, Cancel, Refuse, Return, GiveUp, others, ctlVars
<1>10. ASSUME NEW n \in Sweeps, Tick(n) PROVE ConnType' /\ SessionsClosed'
  BY <1>2, <1>10 DEF Tick, Call, Submit, ctlVars
<1>11. ASSUME NEW r \in Requests, RequestStep(r) PROVE ConnType' /\ SessionsClosed'
  BY <1>2, <1>11 DEF RequestStep, BeginRequest, Ask, EndRequest, Call, Submit, hubVars, ctlVars
<1>12. ASSUME NEW c \in Connections, ConnectionStep(c) PROVE ConnType' /\ SessionsClosed'
  <2>1. CASE Accept(c)
    BY <1>1, <2>1 DEF Accept, Call, Submit, ConnType
  <2>2. CASE Disconnect(c)
    BY <1>1, <2>2 DEF Disconnect, hubVars, ConnType
  <2>3. CASE SessionEnded(c)
    BY <1>2, <2>3 DEF SessionEnded, Call, Submit, ctlVars
  <2>. QED
    BY <1>12, <2>1, <2>2, <2>3 DEF ConnectionStep
<1>13. CASE UNCHANGED vars
  BY <1>2, <1>13 DEF vars, hubVars, ctlVars
<1>. QED
  BY <1>3, <1>4, <1>5, <1>6, <1>7, <1>8, <1>9, <1>10, <1>11, <1>12, <1>13 DEF Next, MainStep

----------------------------------------------------------------------------
(* The theorems *)

ServerInv == /\ ProcType /\ FlagType /\ ConnType /\ AdmType /\ RefType
             /\ MainInv /\ ReflectorInv /\ SessionsClosed

LEMMA ServerInvInit == Init => ServerInv
<1> SUFFICES ASSUME Init PROVE ServerInv
  OBVIOUS
<1>1. ProcType /\ ConnType /\ AdmType
  BY DEF Init, ProcType, ConnType, AdmType
<1>2. FlagType
  BY DEF Init, FlagType
<1>3. RefType
  BY DEF Init, RefType
<1>4. MainInv
  <2>1. <<"hub", "store">> \notin {<<>>, <<"store">>}
    OBVIOUS
  <2>. QED
    BY <2>1 DEF Init, MainInv, HasStarted, HasUnwound
<1>5. ReflectorInv
  BY DEF Init, ReflectorInv
<1>6. SessionsClosed
  BY DEF Init, HubInit, SessionsClosed
<1>. QED
  BY <1>1, <1>2, <1>3, <1>4, <1>5, <1>6 DEF ServerInv

LEMMA ServerInvStep == ServerInv /\ HubInv /\ EndedIdle /\ [Next]_vars => ServerInv'
<1> SUFFICES ASSUME ServerInv, HubInv, EndedIdle, [Next]_vars PROVE ServerInv'
  OBVIOUS
<1>1. /\ owner = "ended" => owner' = "ended" /\ \A c \in Calls : Performed(c)' <=> Performed(c)
      /\ owner # "ended" /\ owner' = "ended" => UNCHANGED call
  BY HubStep, EndedStep
<1>2. FlagType'
  BY FlagStep DEF ServerInv
<1>3. ProcType' /\ AdmType' /\ MainInv'
  BY <1>1, MainInvStep DEF ServerInv
<1>4. RefType' /\ ReflectorInv'
  BY ReflectorInvStep DEF ServerInv
<1>5. ConnType' /\ SessionsClosed'
  BY <1>1, ConnectionsStep DEF ServerInv
<1>. QED
  BY <1>2, <1>3, <1>4, <1>5 DEF ServerInv

LEMMA ServerHolds == Spec => [](ServerInv /\ HubInv /\ EndedIdle)
  BY ServerInvInit, ServerInvStep, OwnerHolds, EndedHolds, PTL DEF Spec

\* Every variable keeps its type; what is left deferred is always a suffix of
\* the calls the process deferred while it was assembled.
THEOREM ServerTypes == Spec => []ServerTypeOK
<1>1. ServerInv /\ HubInv => ServerTypeOK
  BY ServerTypeParts DEF ServerInv, HubInv
<1>. QED
  BY <1>1, ServerHolds, PTL

\* main.go: the store is closed after everything that uses it, however the
\* process comes to its end: no command executes after it, and an orderly
\* shutdown leaves no request that could.
THEOREM StoreIsLast == Spec => []StoreOutlivesItsUsers
<1>1. ServerInv /\ EndedIdle => StoreOutlivesItsUsers
  <2> SUFFICES ASSUME ServerInv, EndedIdle, ~storeOpen PROVE StoreOutlivesItsUsers
    BY DEF StoreOutlivesItsUsers
  <2>1. deferred = <<>> /\ owner = "ended"
    BY DEF ServerInv, MainInv
  <2>2. main \in {"unwinding", "exited"}
    <3>1. <<"hub", "store">> # <<>> /\ <<"reflector", "signal", "hub", "store">> # <<>>
      OBVIOUS
    <3>. QED
      BY <2>1, <3>1 DEF ServerInv, ProcType, MainInv, HasStarted
  <2>. QED
    BY <2>1, <2>2 DEF ServerInv, MainInv, HasUnwound, EndedIdle, Free, StoreOutlivesItsUsers
<1>. QED
  BY <1>1, ServerHolds, PTL

\* main.go, probe_reflector.go, hub.go: when the process has exited no probe port
\* is open, a start that failed half way included; and once the owner has ended
\* no session keeps its connection.
THEOREM NothingStaysOpen == Spec => []NothingLeftOpen
<1>1. ServerInv => NothingLeftOpen
  <2> SUFFICES ASSUME ServerInv PROVE NothingLeftOpen
    OBVIOUS
  <2>1. ASSUME main = "exited", NEW i \in Ports PROVE socket[i] # "open"
    <3>1. listening = "off" \/ closing = "finished"
      BY <2>1 DEF ServerInv, MainInv, ReflectorInv
    <3>. QED
      BY <3>1 DEF ServerInv, ReflectorInv
  <2>. QED
    BY <2>1 DEF ServerInv, SessionsClosed, NothingLeftOpen
<1>. QED
  BY <1>1, ServerHolds, PTL
=============================================================================
