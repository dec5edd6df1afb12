------------------------------ MODULE MCClient ------------------------------
(***************************************************************************)
(* An instance of Client for TLC.                                          *)
(***************************************************************************)
EXTENDS Client, TLC

CONSTANTS i1, i2, t1, t2

\* Both attempts are at the first peering; a second one comes and goes.
FirstPeering == t1 :> i1 @@ t2 :> i1
=============================================================================
