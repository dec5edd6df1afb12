---------------------------- MODULE HubCommands ----------------------------
(***************************************************************************)
(* How commands reach the owner goroutine of the hub and how it is stopped *)
(* (src/internal/server/hub.go: submit, run, Close).                       *)
(*                                                                         *)
(* The command channel has no buffer: a command is handed over when the    *)
(* caller's select and the owner's meet.  A caller that waits at a closed  *)
(* stop channel may still be met by the drain loop, or have been woken by  *)
(* the stop already: the select of either side decides.                    *)
(***************************************************************************)
EXTENDS Naturals

CONSTANTS
    Calls,        \* calls of submit
    Cancellable,  \* those whose context may be cancelled
    NoCall

ASSUME CallAssumption == Cancellable \subseteq Calls /\ NoCall \notin Calls

VARIABLES
    call,      \* where each call of submit is
    owner,     \* where the owner goroutine is
    executing, \* the command it is executing
    stopping   \* the stop channel is closed

hubVars == <<call, owner, executing, stopping>>

Steps == {"idle", "queued", "taken", "executed", "ok", "refused"}

HubInit ==
    /\ call = [c \in Calls |-> "idle"]
    /\ owner = "serving"
    /\ executing = NoCall
    /\ stopping = FALSE

----------------------------------------------------------------------------
(* A caller in submit *)

Submit(c) ==
    /\ call[c] = "idle"
    /\ call' = [call EXCEPT ![c] = "queued"]
    /\ UNCHANGED <<owner, executing, stopping>>

\* A mutant of Refuse: the wait for a command that was handed over gives in to
\* the stop as well.
RefuseTaken(c) ==
    /\ call[c] \in {"queued", "taken", "executed"} /\ stopping
    /\ call' = [call EXCEPT ![c] = "refused"]
    /\ UNCHANGED <<owner, executing, stopping>>

Refuse(c) ==
    /\ call[c] = "queued" /\ stopping
    /\ call' = [call EXCEPT ![c] = "refused"]
    /\ UNCHANGED <<owner, executing, stopping>>

\* The context of the call is cancelled while it waits; later that has no effect.
GiveUp(c) ==
    /\ call[c] = "queued" /\ c \in Cancellable
    /\ call' = [call EXCEPT ![c] = "refused"]
    /\ UNCHANGED <<owner, executing, stopping>>

Return(c) ==
    /\ call[c] = "executed"
    /\ call' = [call EXCEPT ![c] = "ok"]
    /\ UNCHANGED <<owner, executing, stopping>>

----------------------------------------------------------------------------
(* The owner goroutine *)

Free == executing = NoCall

Take(c) ==
    /\ owner \in {"serving", "draining"} /\ Free
    /\ call[c] = "queued"
    /\ executing' = c
    /\ call' = [call EXCEPT ![c] = "taken"]
    /\ UNCHANGED <<owner, stopping>>

Execute(c) ==
    /\ executing = c
    /\ executing' = NoCall
    /\ call' = [call EXCEPT ![c] = "executed"]
    /\ UNCHANGED <<owner, stopping>>

Drain ==
    /\ owner = "serving" /\ Free /\ stopping
    /\ owner' = "draining"
    /\ UNCHANGED <<call, executing, stopping>>

\* No sender is ready: the owner ends every session and is done.
End ==
    /\ owner = "draining" /\ Free
    /\ owner' = "ended"
    /\ UNCHANGED <<call, executing, stopping>>

\* Close, up to its wait for the owner.
Stop ==
    /\ ~stopping
    /\ stopping' = TRUE
    /\ UNCHANGED <<call, owner, executing>>

----------------------------------------------------------------------------
CallStep(c)  == Submit(c) \/ Refuse(c) \/ GiveUp(c) \/ Return(c)
OwnerStep(c) == Take(c) \/ Execute(c)

HubNext == (\E c \in Calls : CallStep(c) \/ OwnerStep(c)) \/ Drain \/ End \/ Stop

HubSpec == HubInit /\ [][HubNext]_hubVars

\* Goroutines run on.
HubFairness ==
    /\ WF_hubVars((\E c \in Calls : OwnerStep(c)) \/ Drain \/ End)
    /\ \A c \in Calls : WF_hubVars(Return(c) \/ Refuse(c))

----------------------------------------------------------------------------
HubTypeOK ==
    /\ call \in [Calls -> Steps]
    /\ owner \in {"serving", "draining", "ended"}
    /\ executing \in Calls \cup {NoCall}
    /\ stopping \in BOOLEAN

\* The owner executes exactly the command that was handed over and is not done.
Handed == \A c \in Calls : call[c] = "taken" <=> executing = c

\* What the caller may take its call to be.
Seen == [idle |-> "none", queued |-> "asked", taken |-> "asked",
         executed |-> "performed", ok |-> "ok", refused |-> "refused"]

Answer == [c \in Calls |-> Seen[call[c]]]

Promise == INSTANCE CommandPromise WITH answer <- Answer

\* The contract in the comment of hub.go, submit: the error is not nil if and only
\* if the command had no effect.
PromiseKept == Promise!Spec
=============================================================================
