------------------------------ MODULE ScanPlan ------------------------------
(***************************************************************************)
(* The ports the stable side of a link tries against a variable peer       *)
(* (src/internal/client/scanplan.go): the neighbourhood of the port the    *)
(* probe servers saw last, then a sweep of the whole space in equal        *)
(* strides, then the rest in a random order.  The code keeps no set of the *)
(* ports it has tried: two predicates tell whether a port belongs to an    *)
(* earlier stage.  This module is without state; Punch is the handshake    *)
(* these ports serve.                                                      *)
(***************************************************************************)
EXTENDS Integers, FiniteSets, SequencesExt

CONSTANTS PortSpaceMin, PortSpaceMax,  \* 1024 and 65535
          NearWindow,                  \* 10
          HelperCounts                 \* the sizes of a pool of helpers: 256, 512, 1024

\* The windows of the first stage do not overlap around the space, and a pool has
\* four strides or more.
ASSUME SpaceAssumption == /\ PortSpaceMin \in Nat /\ PortSpaceMax \in Nat /\ NearWindow \in Nat
                          /\ 2 * NearWindow + 1 <= PortSpaceMax - PortSpaceMin + 1
ASSUME PoolAssumption  == \A h \in HelperCounts : h \in Nat /\ h >= 4

PortSpace     == PortSpaceMin .. PortSpaceMax
PortSpaceSize == PortSpaceMax - PortSpaceMin + 1

\* The port at delta from the last one, which may lie below the space.
Wrap(lastPort, delta) == PortSpaceMin + ((lastPort - PortSpaceMin + delta) % PortSpaceSize)

Stride(helperCount) == IF helperCount \div 4 < 1 THEN 1 ELSE helperCount \div 4

\* The candidates of the first stage: 0, +1, -1, +2, -2, ...
Near(lastPort) ==
    [i \in 1 .. 2 * NearWindow + 1 |->
        Wrap(lastPort, IF i % 2 = 0 THEN i \div 2 ELSE -(i \div 2))]

\* A mutant of NearMember: the distance is taken one way round only.
NearMemberAbove(lastPort, port) == (port - lastPort) % PortSpaceSize <= NearWindow

\* The distance on the ring, whichever way round is shorter.
NearMember(lastPort, port) ==
    LET delta == (port - lastPort) % PortSpaceSize
    IN delta <= NearWindow \/ PortSpaceSize - delta <= NearWindow

SweepMember(helperCount, port) == (port - PortSpaceMin) % Stride(helperCount) = 0

\* The candidates of the second stage and of the third.
Sweep(lastPort, helperCount) ==
    {port \in PortSpace : \E k \in 0 .. PortSpaceSize : port = PortSpaceMin + k * Stride(helperCount)}
    \ {port \in PortSpace : NearMember(lastPort, port)}

Random(lastPort, helperCount) ==
    {port \in PortSpace : ~NearMember(lastPort, port) /\ ~SweepMember(helperCount, port)}

----------------------------------------------------------------------------
\* The three stages together try every port of the space, and none of them twice.
EveryPortOnce(lastPort, h) ==
    LET near   == ToSet(Near(lastPort))
        sweep  == Sweep(lastPort, h)
        random == Random(lastPort, h)
    IN /\ near \cup sweep \cup random = PortSpace
       /\ Cardinality(near) = 2 * NearWindow + 1
       /\ near \cap sweep = {} /\ near \cap random = {} /\ sweep \cap random = {}

\* scanplan.go:23-25: a run of h ports meets four candidates before the random ones.
\* h is the scanner's own helper_count; the pool it looks for has as many sockets if
\* both ends are configured alike.
FourHitsInEveryRun(lastPort, h) ==
    LET early == ToSet(Near(lastPort)) \cup Sweep(lastPort, h)
    IN \A base \in PortSpaceMin .. PortSpaceMax - h + 1 :
           Cardinality(early \cap (base .. base + h - 1)) >= 4

\* Whatever port was seen last, one below the space included, and however many
\* helpers the peer has.
PlanFindsThePool ==
    \A lastPort \in 1 .. PortSpaceMax, h \in HelperCounts :
        EveryPortOnce(lastPort, h) /\ FourHitsInEveryRun(lastPort, h)
=============================================================================
