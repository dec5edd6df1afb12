---------------------------- MODULE MCDataPlane ----------------------------
(***************************************************************************)
(* An instance of DataPlane for TLC: a link that may be replaced by        *)
(* another to the same peer; a second peer has none.                       *)
(***************************************************************************)
EXTENDS DataPlane, TLC

CONSTANTS p1, p2, l1, l2

Ends == l1 :> p1 @@ l2 :> p1
=============================================================================
