---------------------------- MODULE MCAdminRaces ----------------------------
(***************************************************************************)
(* Instances of AdminRaces for TLC with two requests at a time.            *)
(***************************************************************************)
EXTENDS AdminRaces, TLC

CONSTANTS a, b, n1

\* Members come and are paired, online or not; members of an offline network
\* come, are paired and go.
Growing   == [joined |-> {}, steps |-> {"sessions", "add", "peer"}]
Deletions == [joined |-> {a, b}, steps |-> {"add", "peer", "delete"}]

GrowingOrDeletions == {Growing, Deletions}

SameHandlers == Permutations(Handlers)
=============================================================================
