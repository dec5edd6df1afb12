------------------------------- MODULE MCHub -------------------------------
(***************************************************************************)
(* Instances of Hub for TLC: registration, approval and the life of a      *)
(* connection, from an empty server.                                       *)
(***************************************************************************)
EXTENDS Hub, TLC, FiniteSetsExt

CONSTANTS a, b, a1, a2, b1,
          MaxQueued,  \* bound on the messages waiting in all send queues
          MaxHeld     \* bound on the reports waiting for the owner at once

TwoOwners == a1 :> a @@ a2 :> a @@ b1 :> b
OneOwner  == a1 :> a @@ a2 :> a

\* The connections of one device are interchangeable.
SameDevice == Permutations({a1, a2})

\* State constraints.
FewQueued == MapThenSumSet(LAMBDA s : Len(queue[s]), Sessions) <= MaxQueued
FewHeld   == Cardinality({s \in Sessions : held[s] # NoMessage}) <= MaxHeld
=============================================================================
