------------------------------ MODULE MCPunch ------------------------------
(***************************************************************************)
(* Instances of Punch for TLC: which side is variable decides who scans    *)
(* and who polls.  The ports of the scan are on a small space.              *)
(***************************************************************************)
EXTENDS PunchScan, TLC

CONSTANTS m0, m1, g1, g2, h1, h2

Mains   == 0 :> m0 @@ 1 :> m1
Pools   == 0 :> {g1, g2} @@ 1 :> {h1, h2}
Singles == 0 :> {g1} @@ 1 :> {h1}

EveryNAT      == {{}, {0}, {1}}
StableLink0   == {{}, {1}}

\* Both sides have started, which either does whatever the other does.
Started ==
    /\ variable \in NATs
    /\ phase = [i \in Sides |-> "punching"]
    /\ open = [i \in Sides |-> {Main[i]} \cup (IF i \in variable THEN Helpers[i] ELSE {})]
    /\ path = [i \in Sides |-> NoPath]
    /\ punchSent = [s \in Sockets |-> {}]
    /\ reverseSent = {} /\ ackAssoc = {}
    /\ okLeft = 0 /\ limited = FALSE
    /\ net = {}

\* The scan leaves out the port the probe servers saw, which reaches the main
\* socket as its other port does.
NotProbed == \A m \in net' \ net : m.to[2] # "probe"

StartedSpec == Started /\ [][PatientNext /\ NotProbed]_vars /\ Patience

SameHelper == Permutations({g1, g2}) \cup Permutations({h1, h2})
=============================================================================
