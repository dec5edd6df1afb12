----------------------------- MODULE MCHubLinks -----------------------------
(***************************************************************************)
(* Instances of Hub for TLC: what moves the link of a pair, from a server  *)
(* whose devices are approved and online, a and b paired.                  *)
(***************************************************************************)
EXTENDS Hub, TLC, FiniteSetsExt

CONSTANTS a, b, c, a1, a2, b1, c1, i1,
          Heard,      \* the types of report a run reads
          MaxQueued,  \* bound on the messages waiting in all send queues
          MaxHeld     \* bound on the reports waiting for the owner at once

TwoOwners   == a1 :> a @@ a2 :> a @@ b1 :> b
ThreeOwners == a1 :> a @@ b1 :> b @@ c1 :> c

AnyToken == Permutations(Tokens)

\* State constraints.
FewQueued == MapThenSumSet(LAMBDA s : Len(queue[s]), Sessions) <= MaxQueued
FewHeld   == Cardinality({s \in Sessions : held[s] # NoMessage}) <= MaxHeld

\* The connections are registered and their first messages written.  Of a2,
\* either the connection is still to come, and no id is left for another
\* peering, or it has come and gone, and pairs may be paired again.
PairedOnline ==
  \E again \in BOOLEAN :
    /\ devices = Devices
    /\ peering = [p \in Pairs |-> IF p = {a, b} THEN i1 ELSE NoPeering]
    /\ spentIds = IF again THEN {i1} ELSE PeeringIds
    /\ current = [d \in Devices |-> CHOOSE s \in {a1, b1, c1} : s \in Sessions /\ Owner[s] = d]
    /\ links = [p \in Pairs |-> IdleLink]
    /\ tracked = {}
    /\ pending = [p \in Pairs |-> Uncollected]
    /\ pendingDevices = {}
    /\ issued = {}
    /\ queue = [s \in Sessions |-> <<>>]
    /\ alive = [s \in Sessions |-> s = a2 => ~again]
    /\ reader = [s \in Sessions |-> CASE s # a2   -> "reading"
                                     [] again     -> "gone"
                                     [] OTHER     -> "registering"]
    /\ held = [s \in Sessions |-> NoMessage]

\* A client reports on the first peering or on the one it is told of now: it has
\* one peering with a peer at a time.
Known    == {i1} \cup {peering[p] : p \in Pairs}
About(m) == IF m.type = "state_report" THEN DOMAIN m.entries ELSE {m.peering}
Reports  == {m \in StateReports(issued) \cup ProfileReports(issued) :
                m.type \in Heard /\ About(m) \subseteq Known /\ Cardinality(About(m)) < 2}

\* What moves links, and what ends or replaces the sessions around them.
LinkStep ==
    \/ \E s \in Sessions :
          \/ Register(s) \/ SessionEnded(s) \/ Leave(s) \/ Write(s)
          \/ ~alive[s] /\ ReadFails(s)
          \/ \E m \in Reports : Read(s, m)
          \/ HandleStateReport(s) \/ HandleProfileReport(s)
    \/ \E p \in Pairs : \/ IssueConnectCommand(p) \/ IssueDisconnectCommand(p)
                        \/ RemovePeering(p) \/ PruneLinks({p})
                        \/ \E id \in PeeringIds : CreatePeering(p, id)
    \/ \E d \in Devices : Kick(d)
    \/ AutoConnectIdle

LinkSpec == PairedOnline /\ [][LinkStep]_vars
=============================================================================
