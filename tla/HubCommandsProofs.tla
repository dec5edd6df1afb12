-------------------------- MODULE HubCommandsProofs --------------------------
(***************************************************************************)
(* HubCommands implements CommandPromise, for any set of calls.            *)
(***************************************************************************)
EXTENDS HubCommands, TLAPS

HubInv == HubTypeOK /\ Handed

LEMMA HubInvInit == HubInit => HubInv
  BY CallAssumption DEF HubInit, HubInv, HubTypeOK, Handed, Steps

LEMMA HubInvNext == HubInv /\ [HubNext]_hubVars => HubInv'
<1> SUFFICES ASSUME HubInv, [HubNext]_hubVars PROVE HubInv'
  OBVIOUS
<1> USE CallAssumption DEF HubInv, HubTypeOK, Handed, Steps, Free
<1>1. ASSUME NEW c \in Calls, Submit(c) PROVE HubInv'
  BY <1>1 DEF Submit
<1>2. ASSUME NEW c \in Calls, Refuse(c) PROVE HubInv'
  BY <1>2 DEF Refuse
<1>3. ASSUME NEW c \in Calls, GiveUp(c) PROVE HubInv'
  BY <1>3 DEF GiveUp
<1>4. ASSUME NEW c \in Calls, Return(c) PROVE HubInv'
  BY <1>4 DEF Return
<1>5. ASSUME NEW c \in Calls, Take(c) PROVE HubInv'
  BY <1>5 DEF Take
<1>6. ASSUME NEW c \in Calls, Execute(c) PROVE HubInv'
  BY <1>6 DEF Execute
<1>7. CASE Drain
  BY <1>7 DEF Drain
<1>8. CASE End
  BY <1>8 DEF End
<1>9. CASE Stop
  BY <1>9 DEF Stop
<1>10. CASE UNCHANGED hubVars
  BY <1>10 DEF hubVars
<1> QED
  BY <1>1, <1>2, <1>3, <1>4, <1>5, <1>6, <1>7, <1>8, <1>9, <1>10
  DEF HubNext, CallStep, OwnerStep

\* The variables of submit and of the owner goroutine keep their types, and the
\* owner executes exactly the command that was handed over and is not done,
\* however many calls there are.
THEOREM HubInvariant == HubSpec => [](HubTypeOK /\ Handed)
<1>1. HubInv => HubTypeOK /\ Handed
  BY DEF HubInv
<1> QED
  BY <1>1, HubInvInit, HubInvNext, PTL DEF HubSpec

----------------------------------------------------------------------------
(* The refinement *)

\* A step that moves one call moves the answer of that call, and no other.
LEMMA AnswerMoves ==
  ASSUME HubTypeOK, NEW c \in Calls, NEW s \in Steps, call' = [call EXCEPT ![c] = s]
  PROVE  Answer' = [Answer EXCEPT ![c] = Seen[s]]
  BY DEF HubTypeOK, Steps, Answer, Seen

LEMMA PromiseInit == HubInit => Promise!Init
  BY DEF HubInit, Promise!Init, Answer, Seen

LEMMA AnswerNow == \A c \in Calls : Answer[c] = Seen[call[c]]
  BY DEF Answer

LEMMA PromiseNext ==
  HubInv /\ [HubNext]_hubVars => [Promise!Next]_Answer
<1> SUFFICES ASSUME HubInv, [HubNext]_hubVars PROVE Promise!Next \/ UNCHANGED Answer
  OBVIOUS
<1>t. HubTypeOK /\ Handed
  BY DEF HubInv
<1>1. ASSUME NEW c \in Calls, Submit(c) PROVE Promise!Ask(c)
  <2>1. call[c] = "idle" /\ Answer' = [Answer EXCEPT ![c] = Seen["queued"]]
    BY <1>t, <1>1, AnswerMoves DEF Submit, Steps
  <2> QED
    BY <2>1, AnswerNow DEF Promise!Ask, Promise!Moves, Seen
<1>2. ASSUME NEW c \in Calls, Refuse(c) \/ GiveUp(c) PROVE Promise!Refuse(c)
  <2>1. call[c] = "queued" /\ Answer' = [Answer EXCEPT ![c] = Seen["refused"]]
    BY <1>t, <1>2, AnswerMoves DEF Refuse, GiveUp, Steps
  <2> QED
    BY <2>1, AnswerNow DEF Promise!Refuse, Promise!Moves, Seen
<1>3. ASSUME NEW c \in Calls, Return(c) PROVE Promise!Confirm(c)
  <2>1. call[c] = "executed" /\ Answer' = [Answer EXCEPT ![c] = Seen["ok"]]
    BY <1>t, <1>3, AnswerMoves DEF Return, Steps
  <2> QED
    BY <2>1, AnswerNow DEF Promise!Confirm, Promise!Moves, Seen
<1>4. ASSUME NEW c \in Calls, Take(c) PROVE UNCHANGED Answer
  <2>1. call[c] = "queued" /\ Answer' = [Answer EXCEPT ![c] = Seen["taken"]]
    BY <1>t, <1>4, AnswerMoves DEF Take, Steps
  <2>2. Answer[c] = Seen["taken"]
    BY <2>1, AnswerNow DEF Seen
  <2> QED
    BY <2>1, <2>2 DEF Answer
<1>5. ASSUME NEW c \in Calls, Execute(c) PROVE Promise!Perform(c)
  <2>1. call[c] = "taken" /\ Answer' = [Answer EXCEPT ![c] = Seen["executed"]]
    BY <1>t, <1>5, AnswerMoves DEF Execute, Handed, Steps
  <2> QED
    BY <2>1, AnswerNow DEF Promise!Perform, Promise!Moves, Seen
<1>6. ASSUME Drain \/ End \/ Stop \/ UNCHANGED hubVars PROVE UNCHANGED Answer
  BY <1>6 DEF Drain, End, Stop, hubVars, Answer
<1> QED
  BY <1>1, <1>2, <1>3, <1>4, <1>5, <1>6 DEF HubNext, CallStep, OwnerStep, Promise!Next

\* hub.go, submit: an error means that the command had no effect, nil that it was
\* performed, once, before the caller heard of it; whatever the order in which
\* callers give up, the owner takes, executes and drains, and Close comes.
THEOREM SubmitKeepsItsPromise == HubSpec => PromiseKept
<1>1. HubInit => HubInv
  BY HubInvInit
<1>2. HubInv /\ [HubNext]_hubVars => HubInv'
  BY HubInvNext
<1>3. HubInv /\ [HubNext]_hubVars => [Promise!Next]_Answer
  BY PromiseNext
<1> QED
  BY <1>1, <1>2, <1>3, PromiseInit, PTL DEF HubSpec, PromiseKept, Promise!Spec
=============================================================================
