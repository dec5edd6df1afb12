--------------------------- MODULE ServerProcess ---------------------------
(***************************************************************************)
(* The server process from the moment its hub runs to its exit             *)
(* (src/cmd/server/main.go), with the goroutines that main starts and      *)
(* waits for: the owner (HubCommands), the probe reflector                 *)
(* (src/internal/server/probe_reflector.go), the accept loop of the        *)
(* control server (control.go), the HTTP server of the administrator and   *)
(* the automatic retry (autoretry.go).                                     *)
(*                                                                         *)
(* A call of submit is a registration, the end of a session, the command   *)
(* of an HTTP request or a sweep.  main's select takes any case that is    *)
(* ready.                                                                  *)
(***************************************************************************)
EXTENDS HubCommands, Sequences, FiniteSets

CONSTANTS
    Connections, \* control connections
    Requests,    \* HTTP requests
    Sweeps,      \* sweeps of the automatic retry, each one call
    Ports,       \* the probe ports, 1 .. probeSocketCount
    MaxCalls     \* bound: calls of submit in a behaviour

Registration(c) == <<"register", c>>
Ending(c)       == <<"ended", c>>
Command(r)      == <<"request", r>>
Sweep(n)        == <<"sweep", n>>

ServerCalls == {Registration(c) : c \in Connections} \cup {Ending(c) : c \in Connections}
                \cup {Command(r) : r \in Requests} \cup {Sweep(n) : n \in Sweeps}
Impatient   == {Command(r) : r \in Requests} \cup {Sweep(n) : n \in Sweeps}

ASSUME ServerCallAssumption ==
    Calls = ServerCalls /\ Cancellable = Impatient /\ MaxCalls \in Nat

VARIABLES
    main,       \* where run() is
    deferred,   \* its deferred calls, the last one first
    code,       \* the exit code, once decided
    cancelled,  \* the signal context is done
    storeOpen,
    connection, \* control connections: none, open, closed
    accepting,  \* the control listener is open
    serveErr,   \* the accept loop or the HTTP server has failed
    admin,      \* the HTTP server: off, serving, down
    request,    \* HTTP requests: none, running, done
    \* the probe reflector
    listening,  \* where ListenAndServe is
    socket,     \* the sockets it bound
    port,       \* the read loop of every port
    stopped,    \* Close has come
    held,       \* the sockets Close would close
    closing,    \* where the one execution of Close is
    watcher,    \* the goroutine that closes on the end of the context
    reflectorErr \* what ListenAndServe returned

procVars == <<main, deferred, code, cancelled>>
ctlVars  == <<connection, accepting, serveErr>>
admVars  == <<admin, request>>
refVars  == <<listening, socket, port, stopped, held, closing, watcher, reflectorErr>>
vars     == <<hubVars, procVars, storeOpen, ctlVars, admVars, refVars>>

\* A goroutine calls submit, within the bound.
Call(c) == Submit(c) /\ Cardinality({d \in Calls : call[d] # "idle"}) < MaxCalls

Answered(c) == call[c] \in {"ok", "refused"}
Running     == main # "exited"

Init ==
    /\ HubInit
    /\ main = "control" /\ deferred = <<"hub", "store">> /\ code = 0 /\ cancelled = FALSE
    /\ storeOpen = TRUE
    /\ connection = [c \in Connections |-> "none"] /\ accepting = FALSE /\ serveErr = FALSE
    /\ admin = "off" /\ request = [r \in Requests |-> "none"]
    /\ listening = "off" /\ socket = [i \in Ports |-> "none"]
    /\ port = [i \in Ports |-> "off"] /\ stopped = FALSE /\ held = {}
    /\ closing = "no" /\ watcher = "off" /\ reflectorErr = "none"

----------------------------------------------------------------------------
(* The probe reflector *)

\* The sockets of is are closed.
Closed(is) == [i \in Ports |-> IF i \in is /\ socket[i] = "open" THEN "closed" ELSE socket[i]]

CloseSockets == stopped' = TRUE /\ socket' = Closed(held) /\ held' = {}

\* A mutant of Bind: a port that cannot be bound leaves the others open.
BindLeaksPorts ==
    /\ Running /\ listening = "binding"
    /\ \E i \in Ports :
          /\ socket[i] = "none" /\ \A j \in 1 .. i - 1 : socket[j] # "none"
          /\ \/ /\ socket' = [socket EXCEPT ![i] = "open"]
                /\ listening' = IF i + 1 \in Ports THEN "binding" ELSE "bound"
                /\ UNCHANGED reflectorErr
             \/ /\ UNCHANGED socket
                /\ listening' = "returned" /\ reflectorErr' = "error"
    /\ UNCHANGED <<hubVars, procVars, storeOpen, ctlVars, admVars, port, stopped, held, closing, watcher>>

\* The ports are bound in order; one that cannot be bound fails the whole.
Bind ==
    /\ Running /\ listening = "binding"
    /\ \E i \in Ports :
          /\ socket[i] = "none" /\ \A j \in 1 .. i - 1 : socket[j] # "none"
          /\ \/ /\ socket' = [socket EXCEPT ![i] = "open"]
                /\ listening' = IF i + 1 \in Ports THEN "binding" ELSE "bound"
                /\ UNCHANGED reflectorErr
             \/ /\ socket' = Closed(Ports)
                /\ listening' = "returned" /\ reflectorErr' = "error"
    /\ UNCHANGED <<hubVars, procVars, storeOpen, ctlVars, admVars, port, stopped, held, closing, watcher>>

\* A Close that came first found nothing to close.
Adopt ==
    /\ Running /\ listening = "bound"
    /\ \/ /\ stopped
          /\ socket' = Closed(Ports)
          /\ listening' = "returned" /\ reflectorErr' = "nil"
          /\ UNCHANGED <<held, port, watcher>>
       \/ /\ ~stopped
          /\ held' = Ports /\ port' = [i \in Ports |-> "serving"]
          /\ watcher' = "watching" /\ listening' = "serving"
          /\ UNCHANGED <<socket, reflectorErr>>
    /\ UNCHANGED <<hubVars, procVars, storeOpen, ctlVars, admVars, stopped, closing>>

ReadFails(i) ==
    /\ Running /\ port[i] = "serving" /\ socket[i] = "closed"
    /\ port' = [port EXCEPT ![i] = "ended"]
    /\ UNCHANGED <<hubVars, procVars, storeOpen, ctlVars, admVars, listening, socket, stopped, held, closing, watcher, reflectorErr>>

\* A mutant of ReplyFails: the other ports go on.
FailAlone(i) ==
    /\ Running /\ port[i] = "serving"
    /\ port' = [port EXCEPT ![i] = "failed"]
    /\ UNCHANGED <<hubVars, procVars, storeOpen, ctlVars, admVars, listening, socket, stopped, held, closing, watcher, reflectorErr>>

\* The echo to a probe fails, perhaps because the port was closed since: the
\* other ports are closed too.
ReplyFails(i) ==
    /\ Running /\ port[i] = "serving"
    /\ port' = [port EXCEPT ![i] = "failed"]
    /\ CloseSockets
    /\ UNCHANGED <<hubVars, procVars, storeOpen, ctlVars, admVars, listening, closing, watcher, reflectorErr>>

\* Every read loop is over: done and watchDone are closed.
ServeReturns ==
    /\ Running /\ listening = "serving"
    /\ \A i \in Ports : port[i] \in {"ended", "failed"}
    /\ listening' = "returned"
    /\ reflectorErr' = IF \E i \in Ports : port[i] = "failed" THEN "error" ELSE "nil"
    /\ UNCHANGED <<hubVars, procVars, storeOpen, ctlVars, admVars, socket, port, stopped, held, closing, watcher>>

\* Close runs once; whoever comes later waits for that execution.
BeginClose == closing = "no" /\ closing' = "waiting" /\ CloseSockets

CloseReturns ==
    /\ Running /\ closing = "waiting" /\ listening = "returned"
    /\ closing' = "finished"
    /\ UNCHANGED <<hubVars, procVars, storeOpen, ctlVars, admVars, listening, socket, port, stopped, held, watcher, reflectorErr>>

Watch ==
    /\ Running /\ watcher = "watching"
    /\ \/ cancelled /\ watcher' = "closing" /\ (BeginClose \/ (closing # "no" /\ UNCHANGED <<closing, stopped, socket, held>>))
       \/ listening = "returned" /\ watcher' = "off" /\ UNCHANGED <<closing, stopped, socket, held>>
    /\ UNCHANGED <<hubVars, procVars, storeOpen, ctlVars, admVars, listening, port, reflectorErr>>

ReflectorStep == Bind \/ Adopt \/ ServeReturns \/ CloseReturns \/ Watch
                 \/ \E i \in Ports : ReadFails(i)

----------------------------------------------------------------------------
(* run(): assembling, waiting, taking apart *)

Exit(c) == main' = "unwinding" /\ code' = c

\* A mutant of ListenControl: the end of the signal context is deferred last.
ListenControlSwapped ==
    /\ main = "control"
    /\ \/ Exit(1) /\ UNCHANGED <<deferred, accepting, listening>>
       \/ /\ main' = "admin" /\ accepting' = TRUE
          /\ deferred' = <<"signal", "reflector">> \o deferred
          /\ listening' = "binding"
          /\ UNCHANGED code
    /\ UNCHANGED <<hubVars, cancelled, storeOpen, connection, serveErr, admVars, socket, port,
                   stopped, held, closing, watcher, reflectorErr>>

\* control.Listen, then signal.NotifyContext and the reflector's goroutine.
ListenControl ==
    /\ main = "control"
    /\ \/ Exit(1) /\ UNCHANGED <<deferred, accepting, listening>>
       \/ /\ main' = "admin" /\ accepting' = TRUE
          /\ deferred' = <<"reflector", "signal">> \o deferred
          /\ listening' = "binding"
          /\ UNCHANGED code
    /\ UNCHANGED <<hubVars, cancelled, storeOpen, connection, serveErr, admVars, socket, port,
                   stopped, held, closing, watcher, reflectorErr>>

\* The administrator's listener; with it, serve() starts every server.
ListenAdmin ==
    /\ main = "admin"
    /\ \/ Exit(1) /\ UNCHANGED admin
       \/ main' = "waiting" /\ admin' = "serving" /\ UNCHANGED code
    /\ UNCHANGED <<hubVars, deferred, cancelled, storeOpen, ctlVars, request, refVars>>

Signal ==
    /\ main \in {"admin", "waiting"} /\ ~cancelled
    /\ cancelled' = TRUE
    /\ UNCHANGED <<hubVars, main, deferred, code, storeOpen, ctlVars, admVars, refVars>>

\* The reflector ends without an error only because it was closed.
Select ==
    /\ main = "waiting"
    /\ \/ (cancelled \/ reflectorErr = "nil") /\ main' = "shutdown" /\ UNCHANGED code
       \/ (serveErr \/ reflectorErr = "error") /\ Exit(1)
    /\ UNCHANGED <<hubVars, deferred, cancelled, storeOpen, ctlVars, admVars, refVars>>

\* A mutant of Shutdown: the requests that run are not waited for.
ShutdownAtOnce ==
    /\ main = "shutdown"
    /\ admin' = "down" /\ main' = "unwinding"
    /\ UNCHANGED <<hubVars, deferred, code, cancelled, storeOpen, ctlVars, request, refVars>>

\* adminServer.Shutdown: no new request, then wait for those that run.
Shutdown ==
    /\ main = "shutdown"
    /\ admin' = "down"
    /\ \/ admin = "serving" /\ UNCHANGED main
       \/ /\ admin = "down" /\ \A r \in Requests : request[r] # "running"
          /\ main' = "unwinding"
    /\ UNCHANGED <<hubVars, deferred, code, cancelled, storeOpen, ctlVars, request, refVars>>

Unwinding(d) == main = "unwinding" /\ deferred # <<>> /\ Head(deferred) = d
Popped       == deferred' = Tail(deferred)

DeferredReflector ==
    /\ Unwinding("reflector")
    /\ \/ BeginClose /\ UNCHANGED deferred
       \/ closing = "finished" /\ Popped /\ UNCHANGED <<closing, stopped, socket, held>>
    /\ UNCHANGED <<hubVars, main, code, cancelled, storeOpen, ctlVars, admVars, listening, port, watcher, reflectorErr>>

DeferredSignal ==
    /\ Unwinding("signal")
    /\ cancelled' = TRUE /\ Popped
    /\ UNCHANGED <<hubVars, main, code, storeOpen, ctlVars, admVars, refVars>>

\* A mutant of DeferredHub: the owner is told to stop and not waited for.
DeferredHubUnawaited ==
    /\ Unwinding("hub")
    /\ Stop /\ Popped
    /\ UNCHANGED <<main, code, cancelled, storeOpen, ctlVars, admVars, refVars>>

\* owner.Close: close the stop channel, wait for the owner.
DeferredHub ==
    /\ Unwinding("hub")
    /\ \/ Stop /\ UNCHANGED deferred
       \/ owner = "ended" /\ Popped /\ UNCHANGED hubVars
    /\ UNCHANGED <<main, code, cancelled, storeOpen, ctlVars, admVars, refVars>>

DeferredStore ==
    /\ Unwinding("store")
    /\ storeOpen' = FALSE /\ Popped
    /\ UNCHANGED <<hubVars, main, code, cancelled, ctlVars, admVars, refVars>>

Exited ==
    /\ main = "unwinding" /\ deferred = <<>>
    /\ main' = "exited"
    /\ UNCHANGED <<hubVars, deferred, code, cancelled, storeOpen, ctlVars, admVars, refVars>>

MainStep == ListenControl \/ ListenAdmin \/ Select \/ Shutdown
            \/ DeferredReflector \/ DeferredSignal \/ DeferredHub \/ DeferredStore \/ Exited

----------------------------------------------------------------------------
(* Control connections *)

\* The goroutines of Serve run.
Serving == Running /\ admin # "off"

\* The session is in the hub's table.
InTable(c) == call[Registration(c)] \in {"executed", "ok"} /\ call[Ending(c)] \notin {"executed", "ok"}

\* A connection is accepted and its first message is a registration.
Accept(c) ==
    /\ Serving /\ accepting /\ connection[c] = "none"
    /\ connection' = [connection EXCEPT ![c] = "open"]
    /\ Call(Registration(c))
    /\ UNCHANGED <<procVars, storeOpen, accepting, serveErr, admVars, refVars>>

\* The client is gone, or its registration is refused.
Disconnect(c) ==
    /\ Running /\ connection[c] = "open" /\ call[Registration(c)] \in {"ok", "refused"}
    /\ connection' = [connection EXCEPT ![c] = "closed"]
    /\ UNCHANGED <<hubVars, procVars, storeOpen, accepting, serveErr, admVars, refVars>>

SessionEnded(c) ==
    /\ Running /\ connection[c] = "closed" /\ call[Registration(c)] = "ok"
    /\ Call(Ending(c))
    /\ UNCHANGED <<procVars, storeOpen, ctlVars, admVars, refVars>>

CloseListener ==
    /\ Serving /\ cancelled /\ accepting
    /\ accepting' = FALSE
    /\ UNCHANGED <<hubVars, procVars, storeOpen, connection, serveErr, admVars, refVars>>

\* Accept or the HTTP server fails.
ServeFails ==
    /\ Serving /\ ~cancelled /\ ~serveErr
    /\ serveErr' = TRUE
    /\ \/ accepting' = FALSE /\ UNCHANGED admin
       \/ admin' = "down" /\ UNCHANGED accepting
    /\ UNCHANGED <<hubVars, procVars, storeOpen, connection, request, refVars>>

ConnectionStep(c) == Accept(c) \/ Disconnect(c) \/ SessionEnded(c)

----------------------------------------------------------------------------
(* HTTP requests and the automatic retry *)

BeginRequest(r) ==
    /\ Running /\ admin = "serving" /\ request[r] = "none"
    /\ request' = [request EXCEPT ![r] = "running"]
    /\ UNCHANGED <<hubVars, procVars, storeOpen, ctlVars, admin, refVars>>

Ask(r) ==
    /\ Running /\ request[r] = "running"
    /\ Call(Command(r))
    /\ UNCHANGED <<procVars, storeOpen, ctlVars, admVars, refVars>>

EndRequest(r) ==
    /\ Running /\ request[r] = "running" /\ (call[Command(r)] = "idle" \/ Answered(Command(r)))
    /\ request' = [request EXCEPT ![r] = "done"]
    /\ UNCHANGED <<hubVars, procVars, storeOpen, ctlVars, admin, refVars>>

\* One sweep at a time; its switch, which a request turns, is on as it likes.
Tick(n) ==
    /\ Serving /\ \A m \in Sweeps : call[Sweep(m)] = "idle" \/ Answered(Sweep(m))
    /\ Call(Sweep(n))
    /\ UNCHANGED <<procVars, storeOpen, ctlVars, admVars, refVars>>

RequestStep(r) == BeginRequest(r) \/ Ask(r) \/ EndRequest(r)

----------------------------------------------------------------------------
(* The owner, and callers in submit *)

others == <<procVars, storeOpen, ctlVars, admVars, refVars>>

\* A mutant of OwnerEnds: the sessions were ended before the drain.
EndAtDrain ==
    /\ Running /\ End
    /\ UNCHANGED others

\* The owner drops every session of its table.
OwnerEnds ==
    /\ Running /\ End
    /\ connection' = [c \in Connections |-> IF InTable(c) THEN "closed" ELSE connection[c]]
    /\ UNCHANGED <<procVars, storeOpen, accepting, serveErr, admVars, refVars>>

OwnerWorks == Running /\ (Drain \/ \E c \in Calls : OwnerStep(c)) /\ UNCHANGED others

CallEnds(c) == Running /\ (Refuse(c) \/ Return(c)) /\ UNCHANGED others
Cancel(c)   == Running /\ GiveUp(c) /\ UNCHANGED others

----------------------------------------------------------------------------
Next ==
    \/ MainStep \/ ReflectorStep \/ Signal \/ CloseListener \/ ServeFails
    \/ OwnerEnds \/ OwnerWorks
    \/ \E n \in Sweeps : Tick(n)
    \/ \E c \in Calls : CallEnds(c) \/ Cancel(c)
    \/ \E i \in Ports : ReplyFails(i)
    \/ \E c \in Connections : ConnectionStep(c)
    \/ \E r \in Requests : RequestStep(r)

Spec == Init /\ [][Next]_vars

\* Goroutines run on, requests are answered; probes, clients and signals come as
\* they like.
Fairness ==
    /\ WF_vars(MainStep) /\ WF_vars(ReflectorStep)
    /\ WF_vars(CloseListener)
    /\ WF_vars(OwnerEnds \/ OwnerWorks)
    /\ \A c \in Calls : WF_vars(CallEnds(c))
    /\ \A r \in Requests : WF_vars(EndRequest(r))

FairSpec == Spec /\ Fairness

----------------------------------------------------------------------------
(* Invariants *)

ServerTypeOK ==
    /\ HubTypeOK
    /\ main \in {"control", "admin", "waiting", "shutdown", "unwinding", "exited"}
    /\ deferred \in {<<>>, <<"store">>, <<"hub", "store">>, <<"signal", "hub", "store">>,
                     <<"reflector", "signal", "hub", "store">>}
    /\ code \in {0, 1} /\ cancelled \in BOOLEAN /\ storeOpen \in BOOLEAN
    /\ connection \in [Connections -> {"none", "open", "closed"}]
    /\ accepting \in BOOLEAN /\ serveErr \in BOOLEAN
    /\ admin \in {"off", "serving", "down"}
    /\ request \in [Requests -> {"none", "running", "done"}]
    /\ listening \in {"off", "binding", "bound", "serving", "returned"}
    /\ socket \in [Ports -> {"none", "open", "closed"}]
    /\ port \in [Ports -> {"off", "serving", "ended", "failed"}]
    /\ stopped \in BOOLEAN /\ held \in {{}, Ports}
    /\ closing \in {"no", "waiting", "finished"}
    /\ watcher \in {"off", "watching", "closing"}
    /\ reflectorErr \in {"none", "nil", "error"}

\* main.go: the deferred calls take the parts down in the reverse order of their
\* assembly.  No command executes once the store is closed, whatever was queued,
\* half taken or cancelled when the process began to stop; and no request meets
\* a closed store when the shutdown is an orderly one.
StoreOutlivesItsUsers ==
    ~storeOpen => /\ executing = NoCall /\ owner = "ended"
                  /\ code = 0 => \A r \in Requests : request[r] # "running"

\* Whichever way the process ends, every probe port is closed and no session of
\* the hub's table, one registered while the owner drained its queue included,
\* keeps its connection.
NothingLeftOpen ==
    /\ owner = "ended" => \A c \in Connections : InTable(c) => connection[c] = "closed"
    /\ main = "exited" => \A i \in Ports : socket[i] # "open"

----------------------------------------------------------------------------
(* Liveness *)

\* A signal, a port or a listener that fails, or a start that fails, brings the
\* process down: Close, which waits for ListenAndServe, ListenAndServe, which
\* closes on the end of the context, Shutdown and the owner never wait for each
\* other in a circle.
ProcessEnds ==
    (\/ cancelled \/ serveErr \/ main = "unwinding"
     \/ listening = "returned" \/ \E i \in Ports : port[i] = "failed")
        ~> main = "exited"
=============================================================================
