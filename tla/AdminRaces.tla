----------------------------- MODULE AdminRaces -----------------------------
(***************************************************************************)
(* AdminApi from approved devices, members of a network or about to join   *)
(* it: everything before is registration, which Hub models.  A scenario    *)
(* says who is a member at the start and which steps the behaviour has.    *)
(***************************************************************************)
EXTENDS AdminApi

CONSTANTS Home,      \* the network
          Scenarios  \* what a behaviour may be about

ASSUME HomeAssumption     == Home \in Networks
ASSUME ScenarioAssumption == \A s \in Scenarios : s.joined \subseteq Devices

VARIABLE scenario    \* who is a member at the start, and what may happen

Prepared ==
    /\ scenario \in Scenarios
    /\ devices = Devices /\ networks = {Home}
    /\ member = [d \in Devices |-> IF d \in scenario.joined THEN Home ELSE NoNetwork]
    /\ address \in [Devices -> 0 .. Hosts]
    /\ \A d \in Devices : (address[d] # 0) <=> (d \in scenario.joined)
    /\ \A d, e \in scenario.joined : address[d] = address[e] => d = e
    /\ peering = [p \in Pairs |-> NoPeering]
    /\ spent = {Home}
    /\ online = {} /\ closing = {} /\ pendingDevices = {}
    /\ told = [d \in Devices |-> NothingTold]
    /\ entry = [p \in Pairs |-> NoPeering]
    /\ owner = Idle
    /\ handler = [h \in Handlers |-> Done]

May(kind) == kind \in scenario.steps

Step ==
    \/ May("sessions") /\ OwnerStep
    \/ \E h \in Handlers : \/ May("add")    /\ AddMemberStep(h)
                           \/ May("peer")   /\ PeeringStep(h)
                           \/ May("delete") /\ DeleteStep(h)
                           \/ AskStep(h) \/ GiveUp(h)

PreparedSpec == Prepared /\ [][Step /\ UNCHANGED scenario]_<<vars, scenario>>

\* No order of two requests' writes and pushes, interleaved with the owner's
\* row-by-row reads, leaves a device with an outdated configuration, so long as
\* nothing is deleted (ConfigCurrent fails then).
ConfigCurrentWhileGrowing == ~May("delete") => ConfigCurrent
=============================================================================
