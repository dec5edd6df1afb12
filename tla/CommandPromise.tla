--------------------------- MODULE CommandPromise ---------------------------
(***************************************************************************)
(* What Hub.submit promises its callers (src/internal/server/hub.go): a    *)
(* command is performed once and its caller told so, or it is refused and  *)
(* never performed.  How the owner goroutine is asked, stopped and drained *)
(* is HubCommands, which implements this.                                  *)
(***************************************************************************)
CONSTANT Calls

VARIABLE answer

Init == answer = [c \in Calls |-> "none"]

Moves(c, from, to) == /\ answer[c] = from
                      /\ answer' = [answer EXCEPT ![c] = to]

Ask(c)     == Moves(c, "none", "asked")
Perform(c) == Moves(c, "asked", "performed")
Confirm(c) == Moves(c, "performed", "ok")
Refuse(c)  == Moves(c, "asked", "refused")

Next == \E c \in Calls : Ask(c) \/ Perform(c) \/ Confirm(c) \/ Refuse(c)

Spec == Init /\ [][Next]_answer
=============================================================================
