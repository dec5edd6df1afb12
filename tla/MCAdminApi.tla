----------------------------- MODULE MCAdminApi -----------------------------
(***************************************************************************)
(* An instance of AdminApi for TLC: every request from the empty store.    *)
(***************************************************************************)
EXTENDS AdminApi, TLC

CONSTANTS a, b, c, n1

\* Devices are interchangeable, and so are peering ids.
Interchangeable == Permutations(Devices) \cup Permutations(PeeringIds)
=============================================================================
