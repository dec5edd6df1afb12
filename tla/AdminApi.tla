------------------------------ MODULE AdminApi ------------------------------
(***************************************************************************)
(* The administrator's HTTP handlers (src/internal/server/admin_api.go)    *)
(* against the store (store.go, schema/server.sql) and the hub's owner     *)
(* (hub.go).                                                               *)
(*                                                                         *)
(* Every handler runs in a goroutine of its own and takes several steps:   *)
(* it reads what its write will affect, writes, and then asks the owner to *)
(* push configurations and prune link entries.  The owner serves one       *)
(* command at a time, but the commands that read the store read it row by  *)
(* row, while handlers write.  Module Hub takes each owner command as one  *)
(* step; here the steps inside a command are what matters, and the links   *)
(* and the sessions are reduced to what configurations and link entries    *)
(* depend on.                                                              *)
(***************************************************************************)
EXTENDS Naturals, Sequences, FiniteSets, FiniteSetsExt

CONSTANTS
    Devices,
    Networks,              \* what common.GenerateNetworkID may return
    PeeringIds,            \* what common.GeneratePeeringID may return
    Hosts,                 \* usable host addresses of a network: 1 .. Hosts
    MaxDevicesPerNetwork,  \* limits.max_devices_per_network
    Handlers,              \* handler goroutines
    NoNetwork, NoPeering, NoDevice

ASSUME LimitAssumption   == Hosts \in Nat /\ MaxDevicesPerNetwork \in Nat
ASSUME AbsenceAssumption == /\ NoNetwork \notin Networks
                            /\ NoPeering \notin PeeringIds
                            /\ NoDevice \notin Devices

VARIABLES
    \* the store
    devices,         \* approved devices
    networks,
    member,          \* the network of a device, or NoNetwork
    address,         \* its virtual IP there, or 0
    peering,         \* the peering id of a pair, or NoPeering
    spent,           \* network and peering ids handed out
    \* the hub
    online,          \* devices with a session
    closing,         \* those whose session has been ended (kicked)
    pendingDevices,
    told,            \* the configuration last sent on a device's session: none or one
    entry,           \* the peering a pair's link entry was last touched for, or NoPeering
    owner,           \* the command the owner is serving
    \* the handlers
    handler

store == <<devices, networks, member, address, peering, spent>>
hub   == <<online, closing, pendingDevices, told, entry>>
vars  == <<devices, networks, member, address, peering, spent,
           online, closing, pendingDevices, told, entry, owner, handler>>

Pairs == {{q[1], q[2]} : q \in {r \in Devices \X Devices : r[1] # r[2]}}

MembersOf(n) == {d \in Devices : member[d] = n}
NetworkOf(p) == member[CHOOSE d \in p : TRUE]
Other(p, d)  == CHOOSE e \in p : e # d

----------------------------------------------------------------------------
(* Configurations and the owner's commands *)

NoConfig    == [net |-> NoNetwork, ip |-> 0, peers |-> {}]
NothingTold == {}

PeersOf(d, n) == {<<p, peering[p], address[Other(p, d)]>> :
                    p \in {q \in Pairs : d \in q /\ peering[q] # NoPeering /\ NetworkOf(q) = n}}

\* What the store says device d's configuration is.
View(d) == IF member[d] = NoNetwork
           THEN NoConfig
           ELSE [net |-> member[d], ip |-> address[d], peers |-> PeersOf(d, member[d])]

Idle == [cmd |-> "none"]

\* assembleConfig, first read: the membership row.  A device of no network is
\* told so at once.
PushConfig(d) ==
    IF d \notin online
    THEN owner' = Idle /\ UNCHANGED told
    ELSE IF member[d] = NoNetwork
    THEN owner' = Idle /\ told' = [told EXCEPT ![d] = {NoConfig}]
    ELSE owner' = [cmd |-> "network", dev |-> d, net |-> member[d], ip |-> address[d]] /\ UNCHANGED told

\* Second read: the network row.  A network deleted in between ends the push.
ReadNetwork ==
    /\ owner.cmd = "network"
    /\ owner' = IF owner.net \in networks THEN [owner EXCEPT !.cmd = "peerings"] ELSE Idle
    /\ UNCHANGED <<store, hub, handler>>

\* NetworkDefinition.Validate: no virtual IP twice.
ValidPeers(ip, peers) ==
    /\ \A q \in peers : q[3] # ip
    /\ \A q, r \in peers : q[3] = r[3] => q = r

\* Third read: the peerings; then the configuration is sent.
SendConfig ==
    /\ owner.cmd = "peerings"
    /\ LET peers == PeersOf(owner.dev, owner.net)
       IN told' = IF ValidPeers(owner.ip, peers)
                  THEN [told EXCEPT ![owner.dev] = {[net |-> owner.net, ip |-> owner.ip, peers |-> peers]}]
                  ELSE told
    /\ owner' = Idle
    /\ UNCHANGED <<store, online, closing, pendingDevices, entry, handler>>

\* Register, first read: is the device approved?
Register(d) ==
    /\ owner = Idle
    /\ owner' = [cmd |-> "register", dev |-> d, approved |-> d \in devices]
    /\ UNCHANGED <<store, hub, handler>>

\* The rest of Register: an approved device's row is refreshed, another one waits
\* for approval, and the session takes the device's place.
Registered ==
    /\ owner.cmd = "register"
    /\ LET d == owner.dev
       IN /\ IF owner.approved
             THEN devices' = devices \cup {d} /\ UNCHANGED pendingDevices
             ELSE pendingDevices' = pendingDevices \cup {d} /\ UNCHANGED devices
          /\ online' = online \cup {d}
          /\ closing' = closing \ {d}
          /\ told' = [told EXCEPT ![d] = NothingTold]
          /\ owner' = [cmd |-> "first", dev |-> d]
    /\ UNCHANGED <<networks, member, address, peering, spent, entry, handler>>

FirstConfig ==
    /\ owner.cmd = "first"
    /\ PushConfig(owner.dev)
    /\ UNCHANGED <<store, online, closing, pendingDevices, entry, handler>>

\* A mutant of SessionEnded: the device stays in the pending table.
SessionEndedStaysPending(d) ==
    /\ owner = Idle /\ d \in online
    /\ online' = online \ {d}
    /\ closing' = closing \ {d}
    /\ told' = [told EXCEPT ![d] = NothingTold]
    /\ UNCHANGED <<store, pendingDevices, entry, owner, handler>>

\* The connection is lost or closed and the hub has noticed.
SessionEnded(d) ==
    /\ owner = Idle /\ d \in online
    /\ online' = online \ {d}
    /\ closing' = closing \ {d}
    /\ pendingDevices' = pendingDevices \ {d}
    /\ told' = [told EXCEPT ![d] = NothingTold]
    /\ UNCHANGED <<store, entry, owner, handler>>

ApproveDevice(d) ==
    /\ owner = Idle /\ d \in pendingDevices
    /\ devices' = devices \cup {d}
    /\ pendingDevices' = pendingDevices \ {d}
    /\ UNCHANGED <<networks, member, address, peering, spent, online, closing, told, entry, owner, handler>>

\* IssueConnect, IssueDisconnect and reports of an end look the peering up ...
LookUp(p) ==
    /\ owner = Idle /\ p \cap online # {} /\ peering[p] # NoPeering
    /\ owner' = [cmd |-> "touch", pair |-> p, id |-> peering[p]]
    /\ UNCHANGED <<store, hub, handler>>

\* ... and then touch the link entry of its pair.
Touch ==
    /\ owner.cmd = "touch"
    /\ entry' = [entry EXCEPT ![owner.pair] = owner.id]
    /\ owner' = Idle
    /\ UNCHANGED <<store, online, closing, pendingDevices, told, handler>>

----------------------------------------------------------------------------
(* Handlers *)

Done == [op |-> "none"]

\* What is left to ask the owner for: the phases in their order, the devices to
\* push to and the pairs to prune.
Asking(phases, push, prune, d) ==
    [op |-> "ask", phases |-> phases, push |-> push, prune |-> prune, dev |-> d]

Free(h)            == handler[h].op = "none"
Becomes(h, request) == handler' = [handler EXCEPT ![h] = request]

\* POST networks.
CreateNetwork(n) ==
    /\ n \notin spent
    /\ networks' = networks \cup {n}
    /\ spent' = spent \cup {n}
    /\ UNCHANGED <<devices, member, address, peering, hub, owner, handler>>

\* POST members: network, membership and approval are looked at first; the
\* row's constraints repeat all three at the end.
StartAddMember(h, n, d) ==
    /\ Free(h)
    /\ n \in networks /\ d \in devices /\ member[d] = NoNetwork
    /\ Becomes(h, [op |-> "count", net |-> n, dev |-> d])
    /\ UNCHANGED <<store, hub, owner>>

\* A mutant of HasRoom: one member too many.
HasRoomOffByOne(n) == Cardinality(MembersOf(n)) <= MaxDevicesPerNetwork

HasRoom(n) == Cardinality(MembersOf(n)) < MaxDevicesPerNetwork

CountMembers(h) ==
    /\ handler[h].op = "count"
    /\ Becomes(h, IF HasRoom(handler[h].net) THEN [handler[h] EXCEPT !.op = "list"] ELSE Done)
    /\ UNCHANGED <<store, hub, owner>>

\* allocateAddress: the lowest host address no listed member has.
ListMembers(h) ==
    /\ handler[h].op = "list"
    /\ LET listed == MembersOf(handler[h].net)
           free   == (1 .. Hosts) \ {address[e] : e \in listed}
       IN Becomes(h, IF free = {} THEN Done
                     ELSE [op |-> "insert", net |-> handler[h].net, dev |-> handler[h].dev,
                           ip |-> Min(free), listed |-> listed])
    /\ UNCHANGED <<store, hub, owner>>

\* A mutant of MemberRowAllowed: UNIQUE (network_id, virtual_ip) is missing.
MemberRowUnchecked(n, d, ip) == n \in networks /\ d \in devices /\ member[d] = NoNetwork

\* The constraints of table network_members.
MemberRowAllowed(n, d, ip) ==
    /\ n \in networks /\ d \in devices
    /\ member[d] = NoNetwork
    /\ \A e \in MembersOf(n) : address[e] # ip

AddMember(h) ==
    LET r == handler[h]
    IN /\ r.op = "insert"
       /\ \/ /\ MemberRowAllowed(r.net, r.dev, r.ip)
             /\ member'  = [member EXCEPT ![r.dev] = r.net]
             /\ address' = [address EXCEPT ![r.dev] = r.ip]
             /\ Becomes(h, Asking(<<"push">>, r.listed \cup {r.dev}, {}, r.dev))
          \/ /\ ~MemberRowAllowed(r.net, r.dev, r.ip)
             /\ Becomes(h, Done)
             /\ UNCHANGED <<member, address>>
       /\ UNCHANGED <<devices, networks, peering, spent, hub, owner>>

\* POST peerings: the member list is checked first, and again by the foreign
\* keys of the row.
CreatePeering(h, n, p, id) ==
    /\ Free(h)
    /\ p \subseteq MembersOf(n) /\ n \in networks /\ peering[p] = NoPeering /\ id \notin spent
    /\ peering' = [peering EXCEPT ![p] = id]
    /\ spent' = spent \cup {id}
    /\ Becomes(h, Asking(<<"push">>, p, {}, NoDevice))
    /\ UNCHANGED <<devices, networks, member, address, hub, owner>>

\* A mutant of DeletePeering: nothing is pruned.
DeletePeeringPrunesNothing(h, p) ==
    /\ Free(h)
    /\ peering[p] # NoPeering
    /\ peering' = [peering EXCEPT ![p] = NoPeering]
    /\ Becomes(h, Asking(<<"push">>, p, {}, NoDevice))
    /\ UNCHANGED <<devices, networks, member, address, spent, hub, owner>>

\* A mutant of DeletePeering: only one end hears of it.
DeletePeeringTellsOne(h, p) ==
    /\ Free(h)
    /\ peering[p] # NoPeering
    /\ peering' = [peering EXCEPT ![p] = NoPeering]
    /\ Becomes(h, Asking(<<"push", "prune">>, {CHOOSE d \in p : TRUE}, {p}, NoDevice))
    /\ UNCHANGED <<devices, networks, member, address, spent, hub, owner>>

\* DELETE peerings: the pair of an id never changes, so finding it and removing
\* the row are one step.
DeletePeering(h, p) ==
    /\ Free(h)
    /\ peering[p] # NoPeering
    /\ peering' = [peering EXCEPT ![p] = NoPeering]
    /\ Becomes(h, Asking(<<"push", "prune">>, p, {p}, NoDevice))
    /\ UNCHANGED <<devices, networks, member, address, spent, hub, owner>>

\* DELETE networks, members and devices list the members (a device: its own
\* membership) and the peerings they are about to remove ...
Listed(op, what, n, d, members) ==
    [op |-> op, what |-> what, net |-> n, dev |-> d, members |-> members, prune |-> {}]

StartDelete(h, what, n, d) ==
    /\ Free(h)
    /\ CASE what = "network" -> n \in networks /\ d = NoDevice
         [] what = "member"  -> n \in networks /\ d \in Devices
         [] what = "device"  -> d \in devices /\ n = member[d]
    /\ Becomes(h, Listed("peerings", what, n, d, MembersOf(n)))
    /\ UNCHANGED <<store, hub, owner>>

ListPeerings(h) ==
    LET r == handler[h]
    IN /\ r.op = "peerings"
       /\ Becomes(h, [r EXCEPT !.op = "delete",
                               !.prune = {p \in Pairs : /\ peering[p] # NoPeering /\ NetworkOf(p) = r.net
                                                        /\ r.dev # NoDevice => r.dev \in p}])
       /\ UNCHANGED <<store, hub, owner>>

\* A mutant of Cascade: peerings outlive the membership of their ends.
CascadeKeepsPeerings(gone) ==
    /\ member'  = [d \in Devices |-> IF d \in gone THEN NoNetwork ELSE member[d]]
    /\ address' = [d \in Devices |-> IF d \in gone THEN 0 ELSE address[d]]
    /\ UNCHANGED peering

\* ON DELETE CASCADE, from the members that go to their peerings.
Cascade(gone) ==
    /\ member'  = [d \in Devices |-> IF d \in gone THEN NoNetwork ELSE member[d]]
    /\ address' = [d \in Devices |-> IF d \in gone THEN 0 ELSE address[d]]
    /\ peering' = [p \in Pairs |-> IF p \cap gone # {} THEN NoPeering ELSE peering[p]]

\* ... and then remove the row, or find it gone.
DeleteNetwork(h) ==
    LET r == handler[h]
    IN /\ r.op = "delete" /\ r.what = "network"
       /\ \/ /\ r.net \in networks
             /\ networks' = networks \ {r.net}
             /\ Cascade(MembersOf(r.net))
             /\ Becomes(h, Asking(<<"push", "prune">>, r.members, r.prune, NoDevice))
          \/ /\ r.net \notin networks
             /\ Becomes(h, Done)
             /\ UNCHANGED <<networks, member, address, peering>>
       /\ UNCHANGED <<devices, spent, hub, owner>>

RemoveMember(h) ==
    LET r == handler[h]
    IN /\ r.op = "delete" /\ r.what = "member"
       /\ \/ /\ member[r.dev] = r.net
             /\ Cascade({r.dev})
             /\ Becomes(h, Asking(<<"push", "prune">>, r.members \cup {r.dev}, r.prune, NoDevice))
          \/ /\ member[r.dev] # r.net
             /\ Becomes(h, Done)
             /\ UNCHANGED <<member, address, peering>>
       /\ UNCHANGED <<devices, networks, spent, hub, owner>>

DeleteDevice(h) ==
    LET r == handler[h]
    IN /\ r.op = "delete" /\ r.what = "device"
       /\ \/ /\ r.dev \in devices
             /\ devices' = devices \ {r.dev}
             /\ Cascade({r.dev})
             /\ Becomes(h, Asking(<<"prune", "push", "kick">>, {Other(p, r.dev) : p \in r.prune}, r.prune, r.dev))
          \/ /\ r.dev \notin devices
             /\ Becomes(h, Done)
             /\ UNCHANGED <<devices, member, address, peering>>
       /\ UNCHANGED <<networks, spent, hub, owner>>

\* A read fails or the request is cancelled before anything is written.
GiveUp(h) ==
    /\ handler[h].op \in {"count", "list", "insert", "peerings", "delete"}
    /\ Becomes(h, Done)
    /\ UNCHANGED <<store, hub, owner>>

----------------------------------------------------------------------------
(* What a handler asks of the owner after its write *)

Phase(h, phase) == handler[h].op = "ask" /\ Head(handler[h].phases) = phase

NextPhase(h) ==
    LET rest == Tail(handler[h].phases)
    IN Becomes(h, IF rest = <<>> THEN Done ELSE [handler[h] EXCEPT !.phases = rest])

\* PushConfig for every affected device, each waiting for the owner.
AskPush(h) ==
    /\ Phase(h, "push") /\ handler[h].push # {}
    /\ owner = Idle
    /\ \E d \in handler[h].push :
          /\ PushConfig(d)
          /\ Becomes(h, [handler[h] EXCEPT !.push = @ \ {d}])
    /\ UNCHANGED <<store, online, closing, pendingDevices, entry>>

AllPushed(h) ==
    /\ Phase(h, "push") /\ handler[h].push = {}
    /\ NextPhase(h)
    /\ UNCHANGED <<store, hub, owner>>

\* PruneLinks.
AskPrune(h) ==
    /\ Phase(h, "prune") /\ owner = Idle
    /\ entry' = [p \in Pairs |-> IF p \in handler[h].prune THEN NoPeering ELSE entry[p]]
    /\ NextPhase(h)
    /\ UNCHANGED <<store, online, closing, pendingDevices, told, owner>>

\* IsOnline and Kick.
AskKick(h) ==
    /\ Phase(h, "kick") /\ owner = Idle
    /\ closing' = closing \cup ({handler[h].dev} \cap online)
    /\ NextPhase(h)
    /\ UNCHANGED <<store, online, pendingDevices, told, entry, owner>>

\* Both follow the request's context: a cancelled request does not kick.
KickCancelled(h) ==
    /\ Phase(h, "kick")
    /\ NextPhase(h)
    /\ UNCHANGED <<store, hub, owner>>

\* The server stops between any two steps and starts again on its store.
Restart ==
    /\ online' = {} /\ closing' = {} /\ pendingDevices' = {}
    /\ told' = [d \in Devices |-> NothingTold]
    /\ entry' = [p \in Pairs |-> NoPeering]
    /\ owner' = Idle
    /\ handler' = [h \in Handlers |-> Done]
    /\ UNCHANGED store
----------------------------------------------------------------------------
(* Specification *)

\* A server starting on an empty store.
Init ==
    /\ devices = {} /\ networks = {} /\ spent = {}
    /\ member = [d \in Devices |-> NoNetwork]
    /\ address = [d \in Devices |-> 0]
    /\ peering = [p \in Pairs |-> NoPeering]
    /\ online = {} /\ closing = {} /\ pendingDevices = {}
    /\ told = [d \in Devices |-> NothingTold]
    /\ entry = [p \in Pairs |-> NoPeering]
    /\ owner = Idle
    /\ handler = [h \in Handlers |-> Done]

OwnerStep ==
    \/ \E d \in Devices : Register(d) \/ SessionEnded(d) \/ ApproveDevice(d)
    \/ Registered \/ FirstConfig \/ ReadNetwork \/ SendConfig
    \/ \E p \in Pairs : LookUp(p)
    \/ Touch

\* One handler's steps, by the request it serves.
AddMemberStep(h) ==
    \/ \E n \in Networks, d \in Devices : StartAddMember(h, n, d)
    \/ CountMembers(h) \/ ListMembers(h) \/ AddMember(h)
PeeringStep(h) ==
    \/ \E n \in Networks, p \in Pairs, id \in PeeringIds : CreatePeering(h, n, p, id)
    \/ \E p \in Pairs : DeletePeering(h, p)
DeleteStep(h) ==
    \/ \E n \in Networks : StartDelete(h, "network", n, NoDevice)
    \/ \E n \in Networks, d \in Devices : StartDelete(h, "member", n, d)
    \/ \E d \in Devices : StartDelete(h, "device", member[d], d)
    \/ ListPeerings(h) \/ DeleteNetwork(h) \/ RemoveMember(h) \/ DeleteDevice(h)
AskStep(h) ==
    \/ AskPush(h) \/ AllPushed(h) \/ AskPrune(h) \/ AskKick(h) \/ KickCancelled(h)

Next ==
    \/ OwnerStep
    \/ \E n \in Networks : CreateNetwork(n)
    \/ \E h \in Handlers : AddMemberStep(h) \/ PeeringStep(h) \/ DeleteStep(h) \/ AskStep(h) \/ GiveUp(h)
    \/ Restart

Spec == Init /\ [][Next]_vars
----------------------------------------------------------------------------
(* Invariants *)

\* Every variable holds what the code's types and the schema's keys allow.
TypeOK ==
    /\ devices \in SUBSET Devices /\ networks \in SUBSET Networks
    /\ member \in [Devices -> Networks \cup {NoNetwork}]
    /\ address \in [Devices -> 0 .. Hosts]
    /\ peering \in [Pairs -> PeeringIds \cup {NoPeering}]
    /\ spent \in SUBSET (Networks \cup PeeringIds)
    /\ online \in SUBSET Devices /\ closing \in SUBSET online /\ pendingDevices \in SUBSET online
    /\ \A d \in Devices : told[d] # NothingTold => d \in online
    /\ \A d \in Devices : \A c \in told[d] : c.net \in Networks \cup {NoNetwork} /\ c.ip \in 0 .. Hosts
    /\ entry \in [Pairs -> PeeringIds \cup {NoPeering}]
    /\ owner.cmd \in {"none", "network", "peerings", "register", "first", "touch"}
    /\ \A h \in Handlers : handler[h].op \in {"none", "count", "list", "insert", "peerings", "delete", "ask"}

\* Two members of a network never share a virtual IP and none has the network
\* address, however concurrent requests allocate from lists they read earlier.
AddressesDistinct ==
    /\ \A d \in Devices : member[d] # NoNetwork => address[d] \in 1 .. Hosts
    /\ \A d, e \in Devices : d # e /\ member[d] = member[e] /\ member[d] # NoNetwork => address[d] # address[e]

\* A peering joins two approved members of one existing network, whatever is
\* deleted while it is made.
PeeringsWithinNetwork ==
    \A p \in Pairs : peering[p] # NoPeering =>
        \A d \in p : d \in devices /\ member[d] = NetworkOf(p) /\ member[d] \in networks

\* No request is in progress and the owner has nothing to serve.
Settled == owner = Idle /\ \A h \in Handlers : Free(h)

\* Once requests have settled, the configuration last sent to every approved
\* device online is what the store says: no write leaves a device behind.
ConfigCurrent ==
    Settled => \A d \in (online \cap devices) \ closing : told[d] = {View(d)}

\* Once requests have settled, a link entry belongs to the peering the pair has
\* now: none survives its peering into the next.
EntriesCurrent ==
    Settled => \A p \in Pairs : entry[p] \in {NoPeering, peering[p]}

\* limits.max_devices_per_network bounds the members of a network.
MembersWithinLimit == \A n \in Networks : Cardinality(MembersOf(n)) <= MaxDevicesPerNetwork
=============================================================================
