------------------------------ MODULE PunchScan -----------------------------
(***************************************************************************)
(* Punch with the plan by which the stable side scans for the sockets of a *)
(* variable peer.  Punch lets a scan hit any of them; ScanPlan says which  *)
(* ports it tries.                                                         *)
(***************************************************************************)
EXTENDS Punch, ScanPlan

\* scanplan.go, next: the stream of the side that scans for a variable peer repeats
\* nothing and leaves nothing out, although no stage looks at what another one sent
\* and the port seen last may lie at an end of the space or below it; and helpers
\* that were mapped in a row are met four times before the random stage.
ScanFindsThePool ==
    \A i \in variable : phase[Peer(i)] = "punching" => PlanFindsThePool
=============================================================================
