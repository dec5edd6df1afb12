---------------------------- MODULE AdminProofs ----------------------------
(***************************************************************************)
(* Theorems about AdminApi: for any devices, networks, host addresses,     *)
(* limits and handlers.                                                    *)
(***************************************************************************)
EXTENDS AdminRaces, FiniteSetTheorems, WellFoundedInduction, TLAPS

----------------------------------------------------------------------------
(* Pairs, and the lowest address *)

LEMMA PairFacts ==
    ASSUME NEW p \in Pairs
    PROVE  /\ p \in SUBSET Devices /\ p # {} /\ (CHOOSE d \in p : TRUE) \in p
           /\ \A d \in Devices : Other(p, d) \in p /\ Other(p, d) # d
           /\ \A d \in p : p = {d, Other(p, d)}
<1>1. PICK a \in Devices, b \in Devices : a # b /\ p = {a, b}
  BY DEF Pairs
<1>2. \A d \in Devices : \E e \in p : e # d
  BY <1>1
<1>3. \A d \in Devices : Other(p, d) \in p /\ Other(p, d) # d
  BY <1>2 DEF Other
<1>. QED
  BY <1>1, <1>3

\* An ordered set of naturals has its minimum.
LEMMA LowestIs ==
    ASSUME NEW S, S \subseteq Nat, S # {}
    PROVE  Min(S) \in S /\ \A y \in S : Min(S) <= y
<1> DEFINE R == OpToRel(<, Nat)
<1>1. IsWellFoundedOn(R, Nat)
  BY NatLessThanWellFounded
<1>2. \A x, y \in Nat : x < y => <<x, y>> \in R
  BY DEF OpToRel
<1>. HIDE DEF R
<1>3. PICK x \in S : \A y \in S : ~ (<<y, x>> \in R)
  BY <1>1, WFMin
<1>4. \A y \in S : x <= y
  <2> SUFFICES ASSUME NEW y \in S PROVE x <= y
    OBVIOUS
  <2>1. x \in Nat /\ y \in Nat /\ ~(y < x)
    BY <1>2, <1>3
  <2>. QED
    BY <2>1
<1>. QED
  BY <1>4 DEF Min

----------------------------------------------------------------------------
(* Types *)

Counting  == [op : {"count", "list"}, net : Networks, dev : Devices]
Inserting == [op : {"insert"}, net : Networks, dev : Devices, ip : 1 .. Hosts, listed : SUBSET Devices]
Deletions(what, ns, ds) == [op : {"peerings", "delete"}, what : {what}, net : ns, dev : ds,
                            members : SUBSET Devices, prune : SUBSET Pairs]
Deleting  == Deletions("network", Networks, {NoDevice}) \cup Deletions("member", Networks, Devices)
             \cup Deletions("device", Networks \cup {NoNetwork}, Devices)
Phases    == {<<"push">>, <<"push", "prune">>, <<"prune">>,
              <<"prune", "push", "kick">>, <<"push", "kick">>, <<"kick">>}
Asked     == [op : {"ask"}, phases : Phases, push : SUBSET Devices, prune : SUBSET Pairs,
              dev : Devices \cup {NoDevice}]
Configs   == [net : Networks \cup {NoNetwork}, ip : 0 .. Hosts,
              peers : SUBSET (Pairs \X (PeeringIds \cup {NoPeering}) \X (0 .. Hosts))]
Commands  == {Idle} \cup [cmd : {"network", "peerings"}, dev : Devices, net : Networks, ip : 0 .. Hosts]
             \cup [cmd : {"register"}, dev : Devices, approved : BOOLEAN]
             \cup [cmd : {"first"}, dev : Devices]
             \cup [cmd : {"touch"}, pair : Pairs, id : PeeringIds]

StoreType == /\ devices \in SUBSET Devices /\ networks \in SUBSET Networks
             /\ member \in [Devices -> Networks \cup {NoNetwork}]
             /\ address \in [Devices -> 0 .. Hosts]
             /\ peering \in [Pairs -> PeeringIds \cup {NoPeering}]
             /\ spent \in SUBSET (Networks \cup PeeringIds)
HubType   == /\ online \in SUBSET Devices /\ closing \in SUBSET online /\ pendingDevices \in SUBSET online
             /\ entry \in [Pairs -> PeeringIds \cup {NoPeering}]
ToldType  == /\ told \in [Devices -> SUBSET Configs]
             /\ \A d \in Devices : told[d] # NothingTold => d \in online
             /\ owner.cmd \in {"network", "peerings", "first"} => owner.dev \in online
OwnerType == owner \in Commands
HandlerType == handler \in [Handlers -> {Done} \cup Counting \cup Inserting \cup Deleting \cup Asked]

AdminType == StoreType /\ HubType /\ ToldType /\ OwnerType /\ HandlerType

LEMMA TypesGive == AdminType => TypeOK
<1> SUFFICES ASSUME AdminType PROVE TypeOK
  OBVIOUS
<1>1. owner.cmd \in {"none", "network", "peerings", "register", "first", "touch"}
  BY DEF AdminType, OwnerType, Commands, Idle
<1>2. \A h \in Handlers : handler[h].op \in {"none", "count", "list", "insert", "peerings", "delete", "ask"}
  BY DEF AdminType, HandlerType, Done, Counting, Inserting, Deleting, Deletions, Asked
<1>3. \A d \in Devices : \A c \in told[d] : c.net \in Networks \cup {NoNetwork} /\ c.ip \in 0 .. Hosts
  BY DEF AdminType, ToldType, Configs
<1>. QED
  BY <1>1, <1>2, <1>3 DEF AdminType, StoreType, HubType, ToldType, TypeOK

\* What a handler is serving by its operation.
LEMMA HandlerKinds ==
    ASSUME HandlerType, NEW h \in Handlers
    PROVE  /\ handler[h].op \in {"count", "list"} => handler[h] \in Counting
           /\ handler[h].op = "insert" => handler[h] \in Inserting
           /\ handler[h].op \in {"peerings", "delete"} => handler[h] \in Deleting
           /\ handler[h].op = "ask" => handler[h] \in Asked
  BY DEF HandlerType, Done, Counting, Inserting, Deleting, Deletions, Asked

LEMMA DeletionKinds ==
    ASSUME NEW r \in Deleting
    PROVE  /\ r.what \in {"network", "member", "device"}
           /\ r.what = "network" => r \in Deletions("network", Networks, {NoDevice})
           /\ r.what = "member" => r \in Deletions("member", Networks, Devices)
           /\ r.what = "device" => r \in Deletions("device", Networks \cup {NoNetwork}, Devices)
  BY DEF Deleting, Deletions

\* What the owner is serving by its command.
LEMMA CommandKinds ==
    ASSUME OwnerType
    PROVE  /\ owner.cmd \in {"network", "peerings"} =>
                 owner \in [cmd : {"network", "peerings"}, dev : Devices, net : Networks, ip : 0 .. Hosts]
           /\ owner.cmd = "register" => owner \in [cmd : {"register"}, dev : Devices, approved : BOOLEAN]
           /\ owner.cmd = "first" => owner.dev \in Devices
           /\ owner.cmd = "touch" => owner.pair \in Pairs /\ owner.id \in PeeringIds
           /\ owner.cmd = "none" <=> owner = Idle
  BY DEF OwnerType, Commands, Idle

----------------------------------------------------------------------------
(* What a step may do to the store *)

Kept        == UNCHANGED store
Approved(d) == devices' = devices \cup {d} /\ UNCHANGED <<networks, member, address, peering, spent>>
Created(n)  == /\ networks' = networks \cup {n} /\ spent' = spent \cup {n}
               /\ UNCHANGED <<devices, member, address, peering>>
Joined(n, d, ip) ==
    /\ MemberRowAllowed(n, d, ip)
    /\ member' = [member EXCEPT ![d] = n] /\ address' = [address EXCEPT ![d] = ip]
    /\ UNCHANGED <<devices, networks, peering, spent>>
Paired(n, p, id) ==
    /\ p \subseteq MembersOf(n) /\ n \in networks /\ peering[p] = NoPeering /\ id \notin spent
    /\ peering' = [peering EXCEPT ![p] = id] /\ spent' = spent \cup {id}
    /\ UNCHANGED <<devices, networks, member, address>>
Unpaired(p) == /\ peering[p] # NoPeering /\ peering' = [peering EXCEPT ![p] = NoPeering]
               /\ UNCHANGED <<devices, networks, member, address, spent>>
Dissolved(n) == /\ networks' = networks \ {n} /\ Cascade(MembersOf(n)) /\ UNCHANGED <<devices, spent>>
Left(d)      == Cascade({d}) /\ UNCHANGED <<devices, networks, spent>>
Removed(d)   == devices' = devices \ {d} /\ Cascade({d}) /\ UNCHANGED <<networks, spent>>

StoreMove ==
    \/ Kept
    \/ \E d \in Devices : Approved(d) \/ Left(d) \/ Removed(d)
    \/ \E n \in Networks : Created(n) \/ Dissolved(n)
    \/ \E n \in Networks, d \in Devices, ip \in 1 .. Hosts : Joined(n, d, ip)
    \/ \E n \in Networks, p \in Pairs, id \in PeeringIds : Paired(n, p, id)
    \/ \E p \in Pairs : Unpaired(p)

LEMMA OwnerMovesStore == OwnerType /\ HubType /\ OwnerStep => StoreMove
<1> SUFFICES ASSUME OwnerType, HubType, OwnerStep PROVE StoreMove
  OBVIOUS
<1>1. CASE Registered
  <2>1. owner.dev \in Devices
    BY <1>1, CommandKinds DEF Registered
  <2>2. Approved(owner.dev) \/ Kept
    BY <1>1 DEF Registered, Approved, Kept, store
  <2>. QED
    BY <2>1, <2>2 DEF StoreMove
<1>2. ASSUME NEW d \in Devices, ApproveDevice(d) PROVE StoreMove
  BY <1>2 DEF ApproveDevice, StoreMove, Approved
<1>3. ASSUME NEW d \in Devices, Register(d) \/ SessionEnded(d) PROVE Kept
  BY <1>3 DEF Register, SessionEnded, Kept
<1>4. ASSUME FirstConfig \/ ReadNetwork \/ SendConfig \/ Touch PROVE Kept
  BY <1>4 DEF FirstConfig, ReadNetwork, SendConfig, Touch, Kept
<1>5. ASSUME NEW p \in Pairs, LookUp(p) PROVE Kept
  BY <1>5 DEF LookUp, Kept
<1>. QED
  BY <1>1, <1>2, <1>3, <1>4, <1>5 DEF OwnerStep, StoreMove, Kept

LEMMA HandlerMovesStore ==
    ASSUME HandlerType, NEW h \in Handlers,
           AddMemberStep(h) \/ PeeringStep(h) \/ DeleteStep(h) \/ AskStep(h) \/ GiveUp(h)
    PROVE  StoreMove
<1>1. CASE AddMember(h)
  <2> DEFINE r == handler[h]
  <2>1. r.net \in Networks /\ r.dev \in Devices /\ r.ip \in 1 .. Hosts
    <3>1. r \in Inserting
      BY <1>1, HandlerKinds DEF AddMember
    <3>. QED
      BY <3>1 DEF Inserting
  <2>2. Joined(r.net, r.dev, r.ip) \/ Kept
    BY <1>1 DEF AddMember, Joined, Kept, store
  <2>. QED
    BY <2>1, <2>2 DEF StoreMove
<1>2. CASE \/ \E n \in Networks, d \in Devices : StartAddMember(h, n, d)
           \/ CountMembers(h) \/ ListMembers(h)
  BY <1>2 DEF StartAddMember, CountMembers, ListMembers, StoreMove, Kept
<1>3. ASSUME NEW n \in Networks, NEW p \in Pairs, NEW id \in PeeringIds, CreatePeering(h, n, p, id) PROVE StoreMove
  BY <1>3 DEF CreatePeering, StoreMove, Paired
<1>4. ASSUME NEW p \in Pairs, DeletePeering(h, p) PROVE StoreMove
  BY <1>4 DEF DeletePeering, StoreMove, Unpaired
<1>5. ASSUME NEW what, NEW n, NEW d, StartDelete(h, what, n, d) PROVE Kept
  BY <1>5 DEF StartDelete, Kept
<1>6. CASE ListPeerings(h)
  BY <1>6 DEF ListPeerings, StoreMove, Kept
<1>7. CASE DeleteNetwork(h)
  <2>1. handler[h].net \in Networks
    BY <1>7, HandlerKinds, DeletionKinds DEF DeleteNetwork, Deletions
  <2>2. Dissolved(handler[h].net) \/ Kept
    BY <1>7 DEF DeleteNetwork, Dissolved, Kept, store
  <2>. QED
    BY <2>1, <2>2 DEF StoreMove
<1>8. CASE RemoveMember(h)
  <2>1. handler[h].dev \in Devices
    BY <1>8, HandlerKinds, DeletionKinds DEF RemoveMember, Deletions
  <2>2. Left(handler[h].dev) \/ Kept
    BY <1>8 DEF RemoveMember, Left, Kept, store
  <2>. QED
    BY <2>1, <2>2 DEF StoreMove
<1>9. CASE DeleteDevice(h)
  <2>1. handler[h].dev \in Devices
    BY <1>9, HandlerKinds, DeletionKinds DEF DeleteDevice, Deletions
  <2>2. Removed(handler[h].dev) \/ Kept
    BY <1>9 DEF DeleteDevice, Removed, Kept, store
  <2>. QED
    BY <2>1, <2>2 DEF StoreMove
<1>10. CASE AskStep(h) \/ GiveUp(h)
  BY <1>10 DEF AskStep, AskPush, AllPushed, AskPrune, AskKick, KickCancelled, GiveUp, StoreMove, Kept
<1>. QED
  BY <1>1, <1>2, <1>3, <1>4, <1>5, <1>6, <1>7, <1>8, <1>9, <1>10
  DEF AddMemberStep, PeeringStep, DeleteStep, StoreMove

LEMMA EveryMove ==
    ASSUME OwnerType, HubType, HandlerType, [Next]_vars
    PROVE  StoreMove
<1>1. CASE OwnerStep
  BY <1>1, OwnerMovesStore
<1>2. ASSUME NEW n \in Networks, CreateNetwork(n) PROVE StoreMove
  BY <1>2 DEF CreateNetwork, StoreMove, Created
<1>3. CASE Restart \/ UNCHANGED vars
  BY <1>3 DEF Restart, vars, store, StoreMove, Kept
<1>. QED
  BY <1>1, <1>2, <1>3, HandlerMovesStore DEF Next

----------------------------------------------------------------------------
(* The store's integrity *)

\* A member is an approved device of an existing network with an address.
MembersExist ==
    \A d \in Devices : member[d] # NoNetwork =>
        d \in devices /\ member[d] \in networks /\ address[d] \in 1 .. Hosts

\* The two ends of a peering are members of one network.
PairsExist ==
    \A p \in Pairs : peering[p] # NoPeering =>
        \A d \in p : member[d] # NoNetwork /\ \A e \in p : member[e] = member[d]

Distinct ==
    \A d, e \in Devices : d # e /\ member[d] = member[e] /\ member[d] # NoNetwork => address[d] # address[e]

Integrity == StoreType /\ MembersExist /\ PairsExist /\ Distinct

\* The members that go take their peerings with them.
LEMMA CascadeKeeps ==
    ASSUME Integrity, NEW gone \in SUBSET Devices, Cascade(gone), spent' = spent,
           devices' \in SUBSET Devices, networks' \in SUBSET Networks,
           \A d \in Devices \ gone : /\ d \in devices => d \in devices'
                                     /\ member[d] \in networks => member[d] \in networks'
    PROVE  Integrity'
<1> USE DEF Integrity
<1>1. /\ member'  = [d \in Devices |-> IF d \in gone THEN NoNetwork ELSE member[d]]
      /\ address' = [d \in Devices |-> IF d \in gone THEN 0 ELSE address[d]]
      /\ peering' = [p \in Pairs |-> IF p \cap gone # {} THEN NoPeering ELSE peering[p]]
  BY DEF Cascade
<1>2. StoreType'
  BY <1>1, LimitAssumption DEF StoreType
<1>3. MembersExist' /\ Distinct'
  BY <1>1 DEF MembersExist, Distinct
<1>4. PairsExist'
  <2> SUFFICES ASSUME NEW p \in Pairs, peering'[p] # NoPeering
               PROVE  \A d \in p : member'[d] # NoNetwork /\ \A e \in p : member'[e] = member'[d]
    BY DEF PairsExist
  <2>1. peering[p] # NoPeering /\ p \cap gone = {}
    BY <1>1
  <2>2. \A d \in p : d \in Devices /\ member'[d] = member[d]
    BY <1>1, <2>1, PairFacts
  <2>. QED
    BY <2>1, <2>2 DEF PairsExist
<1>. QED
  BY <1>2, <1>3, <1>4

LEMMA IntegrityStep == Integrity /\ StoreMove => Integrity'
<1> SUFFICES ASSUME Integrity, StoreMove PROVE Integrity'
  OBVIOUS
<1> USE DEF Integrity
<1>1. CASE Kept
  BY <1>1 DEF Kept, store, StoreType, MembersExist, PairsExist, Distinct
<1>2. ASSUME NEW d \in Devices, Approved(d) PROVE Integrity'
  BY <1>2 DEF Approved, StoreType, MembersExist, PairsExist, Distinct
<1>3. ASSUME NEW d \in Devices, Left(d) PROVE Integrity'
  BY <1>3, CascadeKeeps DEF Left, StoreType
<1>4. ASSUME NEW d \in Devices, Removed(d) PROVE Integrity'
  <2>1. devices' \in SUBSET Devices /\ \A e \in Devices \ {d} : e \in devices => e \in devices'
    BY <1>4 DEF Removed, StoreType
  <2>. QED
    BY <1>4, <2>1, CascadeKeeps DEF Removed, StoreType
<1>5. ASSUME NEW n \in Networks, Created(n) PROVE Integrity'
  BY <1>5 DEF Created, StoreType, MembersExist, PairsExist, Distinct
<1>6. ASSUME NEW n \in Networks, Dissolved(n) PROVE Integrity'
  <2>1. /\ networks' \in SUBSET Networks /\ MembersOf(n) \in SUBSET Devices
        /\ \A d \in Devices \ MembersOf(n) : member[d] \in networks => member[d] \in networks'
    BY <1>6 DEF Dissolved, StoreType, MembersOf
  <2>. QED
    BY <1>6, <2>1, CascadeKeeps DEF Dissolved, StoreType
<1>7. ASSUME NEW n \in Networks, NEW d \in Devices, NEW ip \in 1 .. Hosts, Joined(n, d, ip) PROVE Integrity'
  <2>1. /\ n \in networks /\ d \in devices /\ member[d] = NoNetwork /\ n # NoNetwork
        /\ \A e \in Devices : member[e] = n => address[e] # ip
        /\ \A e \in Devices : /\ member'[e] = IF e = d THEN n ELSE member[e]
                              /\ address'[e] = IF e = d THEN ip ELSE address[e]
    BY <1>7, AbsenceAssumption DEF Joined, MemberRowAllowed, MembersOf, StoreType
  <2>2. StoreType'
    BY <1>7, LimitAssumption DEF Joined, StoreType
  <2>3. MembersExist' /\ Distinct'
    BY <1>7, <2>1 DEF MembersExist, Distinct, Joined
  <2>4. PairsExist'
    <3>1. \A p \in Pairs : peering[p] # NoPeering => d \notin p
      BY <2>1 DEF PairsExist
    <3>. QED
      BY <1>7, <2>1, <3>1, PairFacts DEF PairsExist, Joined
  <2>. QED
    BY <2>2, <2>3, <2>4
<1>8. ASSUME NEW n \in Networks, NEW p \in Pairs, NEW id \in PeeringIds, Paired(n, p, id) PROVE Integrity'
  <2>1. n # NoNetwork /\ \A d \in p : member[d] = n
    BY <1>8, AbsenceAssumption DEF Paired, MembersOf
  <2>2. StoreType'
    BY <1>8 DEF Paired, StoreType
  <2>. QED
    BY <1>8, <2>1, <2>2 DEF Paired, StoreType, MembersExist, PairsExist, Distinct
<1>9. ASSUME NEW p \in Pairs, Unpaired(p) PROVE Integrity'
  BY <1>9 DEF Unpaired, StoreType, MembersExist, PairsExist, Distinct
<1>. QED
  BY <1>1, <1>2, <1>3, <1>4, <1>5, <1>6, <1>7, <1>8, <1>9 DEF StoreMove

----------------------------------------------------------------------------
(* The types of the handlers and of the owner *)

Serving == {Done} \cup Counting \cup Inserting \cup Deleting \cup Asked

LEMMA PhaseTails ==
    /\ Head(<<"push">>) = "push" /\ Tail(<<"push">>) = <<>>
    /\ Head(<<"push", "prune">>) = "push" /\ Tail(<<"push", "prune">>) = <<"prune">>
    /\ Head(<<"prune">>) = "prune" /\ Tail(<<"prune">>) = <<>>
    /\ Head(<<"prune", "push", "kick">>) = "prune" /\ Tail(<<"prune", "push", "kick">>) = <<"push", "kick">>
    /\ Head(<<"push", "kick">>) = "push" /\ Tail(<<"push", "kick">>) = <<"kick">>
    /\ Head(<<"kick">>) = "kick" /\ Tail(<<"kick">>) = <<>>
  OBVIOUS

LEMMA PhaseTypes ==
    ASSUME NEW phases \in Phases
    PROVE  Tail(phases) = <<>> \/ Tail(phases) \in Phases
  BY PhaseTails DEF Phases

LEMMA NextPhaseType ==
    ASSUME HandlerType, NEW h \in Handlers, handler[h].op = "ask", NextPhase(h)
    PROVE  HandlerType'
<1> DEFINE r == handler[h]
           rest == Tail(r.phases)
           t == [r EXCEPT !.phases = rest]
<1>1. r \in Asked
  BY HandlerKinds
<1>2. rest = <<>> \/ rest \in Phases
  BY <1>1, PhaseTypes DEF Asked
<1>3. rest \in Phases => t \in Asked
  <2>. HIDE DEF rest
  <2>. QED
    BY <1>1 DEF Asked
<1>4. handler' = [handler EXCEPT ![h] = IF rest = <<>> THEN Done ELSE t]
  BY DEF NextPhase, Becomes
<1>. HIDE DEF t, rest
<1>. QED
  BY <1>2, <1>3, <1>4 DEF HandlerType

LEMMA BecomesType ==
    ASSUME HandlerType, NEW h \in Handlers, NEW r \in Serving, Becomes(h, r)
    PROVE  HandlerType'
  BY DEF HandlerType, Becomes, Serving

LEMMA AskingType ==
    ASSUME NEW phases \in Phases, NEW push \in SUBSET Devices, NEW prune \in SUBSET Pairs,
           NEW d \in Devices \cup {NoDevice}
    PROVE  Asking(phases, push, prune, d) \in Serving
  BY DEF Asking, Serving, Asked

LEMMA ListedType ==
    ASSUME NEW op \in {"peerings", "delete"}, NEW members \in SUBSET Devices
    PROVE  /\ \A n \in Networks : Listed(op, "network", n, NoDevice, members) \in Deleting
           /\ \A n \in Networks, d \in Devices : Listed(op, "member", n, d, members) \in Deleting
           /\ \A n \in Networks \cup {NoNetwork}, d \in Devices : Listed(op, "device", n, d, members) \in Deleting
  BY DEF Listed, Deleting, Deletions

LEMMA AddMemberTypes ==
    ASSUME HandlerType, StoreType, NEW h \in Handlers, AddMemberStep(h)
    PROVE  HandlerType'
<1>1. ASSUME NEW n \in Networks, NEW d \in Devices, StartAddMember(h, n, d) PROVE HandlerType'
  <2>1. [op |-> "count", net |-> n, dev |-> d] \in Serving
    BY DEF Serving, Counting
  <2>. QED
    BY <1>1, <2>1, BecomesType DEF StartAddMember
<1>2. CASE CountMembers(h)
  <2>1. handler[h] \in Counting
    BY <1>2, HandlerKinds DEF CountMembers
  <2>2. [handler[h] EXCEPT !.op = "list"] \in Counting
    BY <2>1 DEF Counting
  <2>3. \E r \in Serving : Becomes(h, r)
    BY <1>2, <2>2 DEF CountMembers, Serving
  <2>. QED
    BY <2>3, BecomesType
<1>3. CASE ListMembers(h)
  <2> DEFINE listed == MembersOf(handler[h].net)
             free   == (1 .. Hosts) \ {address[e] : e \in listed}
  <2>1. handler[h].net \in Networks /\ handler[h].dev \in Devices
    BY <1>3, HandlerKinds DEF ListMembers, Counting
  <2>2. listed \in SUBSET Devices
    BY DEF MembersOf
  <2>3. free # {} => Min(free) \in 1 .. Hosts
    <3>1. free \subseteq Nat /\ free \subseteq 1 .. Hosts
      BY LimitAssumption
    <3>. HIDE DEF free
    <3>. QED
      BY <3>1, LowestIs
  <2>4. free # {} => [op |-> "insert", net |-> handler[h].net, dev |-> handler[h].dev,
                      ip |-> Min(free), listed |-> listed] \in Serving
    <3>. HIDE DEF free, listed
    <3>. QED
      BY <2>1, <2>2, <2>3 DEF Serving, Inserting
  <2>5. Becomes(h, IF free = {} THEN Done
                   ELSE [op |-> "insert", net |-> handler[h].net, dev |-> handler[h].dev,
                         ip |-> Min(free), listed |-> listed])
    BY <1>3 DEF ListMembers
  <2>6. Done \in Serving
    BY DEF Serving
  <2>. QED
    BY <2>4, <2>5, <2>6, BecomesType
<1>4. CASE AddMember(h)
  <2>1. handler[h].listed \in SUBSET Devices /\ handler[h].dev \in Devices
    BY <1>4, HandlerKinds DEF AddMember, Inserting
  <2>2. Asking(<<"push">>, handler[h].listed \cup {handler[h].dev}, {}, handler[h].dev) \in Serving
    BY <2>1, AskingType DEF Phases
  <2>3. Done \in Serving
    BY DEF Serving
  <2>. QED
    BY <1>4, <2>2, <2>3, BecomesType DEF AddMember
<1>. QED
  BY <1>1, <1>2, <1>3, <1>4 DEF AddMemberStep

LEMMA PeeringTypes ==
    ASSUME HandlerType, NEW h \in Handlers, PeeringStep(h)
    PROVE  HandlerType'
<1>1. ASSUME NEW n \in Networks, NEW p \in Pairs, NEW id \in PeeringIds, CreatePeering(h, n, p, id) PROVE HandlerType'
  <2>1. Asking(<<"push">>, p, {}, NoDevice) \in Serving
    BY AskingType, PairFacts DEF Phases
  <2>. QED
    BY <1>1, <2>1, BecomesType DEF CreatePeering
<1>2. ASSUME NEW p \in Pairs, DeletePeering(h, p) PROVE HandlerType'
  <2>1. Asking(<<"push", "prune">>, p, {p}, NoDevice) \in Serving
    BY AskingType, PairFacts DEF Phases
  <2>. QED
    BY <1>2, <2>1, BecomesType DEF DeletePeering
<1>. QED
  BY <1>1, <1>2 DEF PeeringStep

LEMMA DeleteTypes ==
    ASSUME HandlerType, StoreType, NEW h \in Handlers, DeleteStep(h)
    PROVE  HandlerType'
<1> DEFINE r == handler[h]
<1>0. Deleting \subseteq Serving /\ Done \in Serving /\ \A n : MembersOf(n) \in SUBSET Devices
  BY DEF Serving, MembersOf
<1>1. ASSUME NEW n \in Networks, StartDelete(h, "network", n, NoDevice) PROVE HandlerType'
  <2>1. Listed("peerings", "network", n, NoDevice, MembersOf(n)) \in Serving
    BY <1>0, ListedType
  <2>. QED
    BY <1>1, <2>1, BecomesType DEF StartDelete
<1>2. ASSUME NEW n \in Networks, NEW d \in Devices, StartDelete(h, "member", n, d) PROVE HandlerType'
  <2>1. Listed("peerings", "member", n, d, MembersOf(n)) \in Serving
    BY <1>0, ListedType
  <2>. QED
    BY <1>2, <2>1, BecomesType DEF StartDelete
<1>3. ASSUME NEW d \in Devices, StartDelete(h, "device", member[d], d) PROVE HandlerType'
  <2>1. member[d] \in Networks \cup {NoNetwork}
    BY DEF StoreType
  <2>2. Listed("peerings", "device", member[d], d, MembersOf(member[d])) \in Serving
    BY <1>0, <2>1, ListedType
  <2>. QED
    BY <1>3, <2>2, BecomesType DEF StartDelete
<1>4. CASE ListPeerings(h)
  <2> DEFINE prune == {p \in Pairs : /\ peering[p] # NoPeering /\ NetworkOf(p) = r.net
                                     /\ r.dev # NoDevice => r.dev \in p}
  <2>1. prune \in SUBSET Pairs /\ r \in Deleting
    BY <1>4, HandlerKinds DEF ListPeerings
  <2>2. Becomes(h, [r EXCEPT !.op = "delete", !.prune = prune])
    BY <1>4 DEF ListPeerings
  <2>. HIDE DEF prune, r
  <2>3. [r EXCEPT !.op = "delete", !.prune = prune] \in Deleting
    BY <2>1 DEF Deleting, Deletions
  <2>. QED
    BY <1>0, <2>2, <2>3, BecomesType
<1>5. CASE DeleteNetwork(h) \/ RemoveMember(h) \/ DeleteDevice(h)
  <2>1. r \in Deleting /\ r.members \in SUBSET Devices /\ r.prune \in SUBSET Pairs /\ r.dev \in Devices \cup {NoDevice}
    BY <1>5, HandlerKinds DEF DeleteNetwork, RemoveMember, DeleteDevice, Deleting, Deletions
  <2>2. CASE DeleteNetwork(h)
    <3>1. Asking(<<"push", "prune">>, r.members, r.prune, NoDevice) \in Serving
      BY <2>1, AskingType DEF Phases
    <3>. QED
      BY <1>0, <2>2, <3>1, BecomesType DEF DeleteNetwork
  <2>3. CASE RemoveMember(h)
    <3>1. r.dev \in Devices
      BY <2>1, <2>3, DeletionKinds DEF RemoveMember, Deletions
    <3>2. Asking(<<"push", "prune">>, r.members \cup {r.dev}, r.prune, NoDevice) \in Serving
      BY <2>1, <3>1, AskingType DEF Phases
    <3>. QED
      BY <1>0, <2>3, <3>2, BecomesType DEF RemoveMember
  <2>4. CASE DeleteDevice(h)
    <3>1. r.dev \in Devices
      BY <2>1, <2>4, DeletionKinds DEF DeleteDevice, Deletions
    <3>2. {Other(p, r.dev) : p \in r.prune} \in SUBSET Devices
      BY <2>1, <3>1, PairFacts
    <3>3. Asking(<<"prune", "push", "kick">>, {Other(p, r.dev) : p \in r.prune}, r.prune, r.dev) \in Serving
      BY <2>1, <3>1, <3>2, AskingType DEF Phases
    <3>. QED
      BY <1>0, <2>4, <3>3, BecomesType DEF DeleteDevice
  <2>. QED
    BY <1>5, <2>2, <2>3, <2>4
<1>. QED
  BY <1>1, <1>2, <1>3, <1>4, <1>5 DEF DeleteStep

LEMMA AskTypes ==
    ASSUME HandlerType, NEW h \in Handlers, AskStep(h) \/ GiveUp(h)
    PROVE  HandlerType'
<1>1. CASE AskPush(h)
  <2>1. PICK d \in handler[h].push : Becomes(h, [handler[h] EXCEPT !.push = @ \ {d}])
    BY <1>1 DEF AskPush
  <2>2. handler[h] \in Asked
    BY <1>1, HandlerKinds DEF AskPush, Phase
  <2>3. [handler[h] EXCEPT !.push = @ \ {d}] \in Serving
    BY <2>2 DEF Asked, Serving
  <2>. QED
    BY <2>1, <2>3, BecomesType
<1>2. CASE AllPushed(h) \/ AskPrune(h) \/ AskKick(h) \/ KickCancelled(h)
  BY <1>2, NextPhaseType DEF AllPushed, AskPrune, AskKick, KickCancelled, Phase
<1>3. CASE GiveUp(h)
  BY <1>3, BecomesType DEF GiveUp, Serving
<1>. QED
  BY <1>1, <1>2, <1>3 DEF AskStep

LEMMA HandlerTypeStep == StoreType /\ HandlerType /\ [Next]_vars => HandlerType'
<1> SUFFICES ASSUME StoreType, HandlerType, [Next]_vars PROVE HandlerType'
  OBVIOUS
<1>1. ASSUME OwnerStep \/ (\E n \in Networks : CreateNetwork(n)) \/ UNCHANGED vars PROVE handler' = handler
  BY <1>1 DEF OwnerStep, Register, SessionEnded, ApproveDevice, Registered, FirstConfig, ReadNetwork,
              SendConfig, LookUp, Touch, CreateNetwork, vars
<1>2. CASE Restart
  BY <1>2 DEF Restart, HandlerType
<1>. QED
  BY <1>1, <1>2, AddMemberTypes, PeeringTypes, DeleteTypes, AskTypes DEF Next, HandlerType

\* The steps that leave the owner and the configurations sent alone.
LEMMA QuietForHub ==
    ASSUME NEW h \in Handlers,
           AddMemberStep(h) \/ PeeringStep(h) \/ DeleteStep(h) \/ GiveUp(h)
    PROVE  UNCHANGED <<hub, owner>>
  BY DEF AddMemberStep, PeeringStep, DeleteStep, GiveUp, StartAddMember, CountMembers, ListMembers, AddMember,
         CreatePeering, DeletePeering, StartDelete, ListPeerings, DeleteNetwork, RemoveMember, DeleteDevice

LEMMA PeersType ==
    ASSUME StoreType, NEW d \in Devices, NEW n
    PROVE  PeersOf(d, n) \in SUBSET (Pairs \X (PeeringIds \cup {NoPeering}) \X (0 .. Hosts))
<1> SUFFICES ASSUME NEW p \in Pairs
             PROVE  <<p, peering[p], address[Other(p, d)]>> \in Pairs \X (PeeringIds \cup {NoPeering}) \X (0 .. Hosts)
  BY DEF PeersOf
<1>1. Other(p, d) \in Devices
  BY PairFacts
<1>. QED
  BY <1>1 DEF StoreType

LEMMA ViewType ==
    ASSUME StoreType, NEW d \in Devices
    PROVE  View(d) \in Configs /\ NoConfig \in Configs
<1>1. member[d] \in Networks \cup {NoNetwork} /\ address[d] \in 0 .. Hosts
  BY DEF StoreType
<1>2. NoConfig \in Configs
  BY LimitAssumption DEF NoConfig, Configs
<1>3. [net |-> member[d], ip |-> address[d], peers |-> PeersOf(d, member[d])] \in Configs
  BY <1>1, PeersType DEF Configs
<1>. QED
  BY <1>2, <1>3 DEF View

\* A push the owner begins.
LEMMA PushTypes ==
    ASSUME StoreType, HubType, ToldType, NEW d \in Devices, PushConfig(d), UNCHANGED <<online, closing, pendingDevices, entry>>
    PROVE  OwnerType' /\ HubType' /\ ToldType'
<1>1. member[d] \in Networks \cup {NoNetwork} /\ address[d] \in 0 .. Hosts /\ NoConfig \in Configs
  BY ViewType DEF StoreType
<1>2. CASE d \notin online
  BY <1>2 DEF PushConfig, OwnerType, HubType, ToldType, Commands, Idle
<1>3. CASE d \in online /\ member[d] = NoNetwork
  BY <1>1, <1>3 DEF PushConfig, OwnerType, HubType, ToldType, Commands, Idle
<1>4. CASE d \in online /\ member[d] # NoNetwork
  <2> DEFINE c == [cmd |-> "network", dev |-> d, net |-> member[d], ip |-> address[d]]
  <2>1. owner' = c /\ told' = told
    BY <1>4 DEF PushConfig
  <2>2. c \in Commands /\ c.dev = d
    BY <1>1, <1>4 DEF Commands
  <2>. QED
    BY <1>4, <2>1, <2>2 DEF OwnerType, HubType, ToldType
<1>. QED
  BY <1>2, <1>3, <1>4

LEMMA OwnerStepTypes == AdminType /\ OwnerStep => OwnerType' /\ HubType' /\ ToldType'
<1> SUFFICES ASSUME AdminType, OwnerStep PROVE OwnerType' /\ HubType' /\ ToldType'
  OBVIOUS
<1> USE DEF AdminType
<1>1. ASSUME NEW d \in Devices, Register(d) PROVE OwnerType' /\ HubType' /\ ToldType'
  <2>1. [cmd |-> "register", dev |-> d, approved |-> d \in devices] \in Commands
    BY DEF Commands
  <2>. QED
    BY <1>1, <2>1 DEF Register, OwnerType, HubType, ToldType, hub
<1>2. ASSUME NEW d \in Devices, SessionEnded(d) PROVE OwnerType' /\ HubType' /\ ToldType'
  <2>1. owner'.cmd = "none"
    BY <1>2 DEF SessionEnded, Idle
  <2>2. HubType' /\ OwnerType'
    BY <1>2 DEF SessionEnded, HubType, OwnerType
  <2>. QED
    BY <1>2, <2>1, <2>2 DEF SessionEnded, ToldType, NothingTold
<1>3. ASSUME NEW d \in Devices, ApproveDevice(d) PROVE OwnerType' /\ HubType' /\ ToldType'
  BY <1>3 DEF ApproveDevice, OwnerType, HubType, ToldType
<1>4. CASE Registered
  <2>1. owner.dev \in Devices
    BY <1>4, CommandKinds DEF Registered
  <2>2. owner' = [cmd |-> "first", dev |-> owner.dev] /\ owner' \in Commands
    BY <1>4, <2>1 DEF Registered, Commands
  <2>3. HubType'
    BY <1>4, <2>1 DEF Registered, HubType
  <2>. QED
    BY <1>4, <2>1, <2>2, <2>3 DEF Registered, OwnerType, ToldType, NothingTold
<1>5. CASE FirstConfig
  <2>1. PICK d \in Devices : d = owner.dev
    BY <1>5, CommandKinds DEF FirstConfig
  <2>. QED
    BY <1>5, <2>1, PushTypes DEF FirstConfig
<1>6. CASE ReadNetwork
  <2>1. owner \in [cmd : {"network", "peerings"}, dev : Devices, net : Networks, ip : 0 .. Hosts]
    BY <1>6, CommandKinds DEF ReadNetwork
  <2>2. [owner EXCEPT !.cmd = "peerings"] \in Commands /\ [owner EXCEPT !.cmd = "peerings"].dev = owner.dev
    BY <2>1 DEF Commands
  <2>3. owner.dev \in online /\ UNCHANGED hub
    BY <1>6 DEF ReadNetwork, ToldType
  <2>4. owner' = [owner EXCEPT !.cmd = "peerings"] \/ owner' = Idle
    BY <1>6 DEF ReadNetwork
  <2>5. Idle \in Commands /\ Idle.cmd = "none"
    BY DEF Idle, Commands
  <2>. QED
    BY <2>2, <2>3, <2>4, <2>5 DEF OwnerType, HubType, ToldType, hub
<1>7. CASE SendConfig
  <2>1. owner \in [cmd : {"network", "peerings"}, dev : Devices, net : Networks, ip : 0 .. Hosts] /\ owner.dev \in online
    BY <1>7, CommandKinds DEF SendConfig, ToldType
  <2>2. [net |-> owner.net, ip |-> owner.ip, peers |-> PeersOf(owner.dev, owner.net)] \in Configs
    BY <2>1, PeersType DEF Configs
  <2>3. owner' = Idle /\ Idle \in Commands /\ Idle.cmd = "none" /\ UNCHANGED <<online, closing, pendingDevices, entry>>
    BY <1>7 DEF SendConfig, Idle, Commands
  <2>4. told' = told \/ told' = [told EXCEPT ![owner.dev] = {[net |-> owner.net, ip |-> owner.ip, peers |-> PeersOf(owner.dev, owner.net)]}]
    BY <1>7 DEF SendConfig
  <2>5. told' \in [Devices -> SUBSET Configs] /\ \A d \in Devices : told'[d] # NothingTold => d \in online
    BY <2>1, <2>2, <2>4 DEF ToldType
  <2>. QED
    BY <2>3, <2>5 DEF OwnerType, HubType, ToldType
<1>8. ASSUME NEW p \in Pairs, LookUp(p) PROVE OwnerType' /\ HubType' /\ ToldType'
  <2>1. peering[p] \in PeeringIds
    BY <1>8 DEF LookUp, StoreType
  <2>2. [cmd |-> "touch", pair |-> p, id |-> peering[p]] \in Commands
    BY <2>1 DEF Commands
  <2>. QED
    BY <1>8, <2>2 DEF LookUp, OwnerType, HubType, ToldType, hub
<1>9. CASE Touch
  <2>1. owner.pair \in Pairs /\ owner.id \in PeeringIds
    BY <1>9, CommandKinds DEF Touch
  <2>2. owner' = Idle /\ Idle \in Commands /\ Idle.cmd = "none"
    BY <1>9 DEF Touch, Idle, Commands
  <2>. QED
    BY <1>9, <2>1, <2>2 DEF Touch, OwnerType, HubType, ToldType
<1>. QED
  BY <1>1, <1>2, <1>3, <1>4, <1>5, <1>6, <1>7, <1>8, <1>9 DEF OwnerStep

LEMMA AskStepTypes ==
    ASSUME AdminType, NEW h \in Handlers, AskStep(h)
    PROVE  OwnerType' /\ HubType' /\ ToldType'
<1> USE DEF AdminType
<1>1. CASE AskPush(h)
  <2>1. PICK d \in handler[h].push : PushConfig(d)
    BY <1>1 DEF AskPush
  <2>2. d \in Devices
    BY <1>1, HandlerKinds DEF AskPush, Phase, Asked
  <2>. QED
    BY <1>1, <2>1, <2>2, PushTypes DEF AskPush
<1>2. CASE AllPushed(h) \/ KickCancelled(h)
  BY <1>2 DEF AllPushed, KickCancelled, OwnerType, HubType, ToldType, hub
<1>3. CASE AskPrune(h)
  BY <1>3 DEF AskPrune, OwnerType, HubType, ToldType
<1>4. CASE AskKick(h)
  BY <1>4 DEF AskKick, OwnerType, HubType, ToldType
<1>. QED
  BY <1>1, <1>2, <1>3, <1>4 DEF AskStep

LEMMA RestartTypes == Restart => OwnerType' /\ HubType' /\ ToldType'
  BY DEF Restart, OwnerType, HubType, ToldType, Commands, Idle, NothingTold

AdminInv == AdminType /\ Integrity

LEMMA AdminStep == AdminInv /\ [Next]_vars => AdminInv'
<1> SUFFICES ASSUME AdminInv, [Next]_vars PROVE AdminInv'
  OBVIOUS
<1> USE DEF AdminInv, AdminType
<1>1. Integrity' /\ StoreType'
  BY EveryMove, IntegrityStep DEF Integrity
<1>2. HandlerType'
  BY HandlerTypeStep
<1>3. OwnerType' /\ HubType' /\ ToldType'
  <2>1. ASSUME UNCHANGED <<hub, owner>> PROVE OwnerType' /\ HubType' /\ ToldType'
    BY <2>1 DEF OwnerType, HubType, ToldType, hub
  <2>2. ASSUME (\E n \in Networks : CreateNetwork(n)) \/ UNCHANGED vars PROVE UNCHANGED <<hub, owner>>
    BY <2>2 DEF CreateNetwork, vars, hub
  <2>. QED
    BY <2>1, <2>2, QuietForHub, OwnerStepTypes, AskStepTypes, RestartTypes DEF Next
<1>. QED
  BY <1>1, <1>2, <1>3

LEMMA AdminStart == Init => AdminInv
<1> SUFFICES ASSUME Init PROVE AdminInv
  OBVIOUS
<1>1. StoreType /\ HubType /\ OwnerType /\ HandlerType
  BY LimitAssumption DEF Init, StoreType, HubType, OwnerType, HandlerType, Commands
<1>2. ToldType
  BY DEF Init, ToldType, NothingTold, Idle
<1>3. MembersExist /\ PairsExist /\ Distinct
  BY DEF Init, MembersExist, PairsExist, Distinct
<1>. QED
  BY <1>1, <1>2, <1>3 DEF AdminInv, AdminType, Integrity

LEMMA AdminHolds == Spec => []AdminInv
  BY AdminStart, AdminStep, PTL DEF Spec

----------------------------------------------------------------------------
(* The store's promises, whatever requests run at once *)

\* The store, the hub, the owner's command and every request hold what the
\* code's types and the schema's keys allow, also those that were read before
\* what they name was deleted.
THEOREM AdminTypes == Spec => []TypeOK
<1>1. AdminInv => TypeOK
  BY TypesGive DEF AdminInv
<1>. QED
  BY <1>1, AdminHolds, PTL

\* allocateAddress chooses from a list read earlier, and two requests may choose
\* the same address: the row's UNIQUE constraint leaves it to one of them.
THEOREM AddressesStayDistinct == Spec => []AddressesDistinct
<1>1. AdminInv => AddressesDistinct
  BY DEF AdminInv, Integrity, MembersExist, Distinct, AddressesDistinct
<1>. QED
  BY <1>1, AdminHolds, PTL

\* A peering is inserted for two members seen earlier, while networks, members
\* and devices are deleted: foreign keys and cascades keep both ends members of
\* one network that exists.
THEOREM PeeringsStayWithinNetwork == Spec => []PeeringsWithinNetwork
<1>1. ASSUME AdminInv PROVE PeeringsWithinNetwork
  <2> SUFFICES ASSUME NEW p \in Pairs, peering[p] # NoPeering, NEW d \in p
               PROVE  d \in devices /\ member[d] = NetworkOf(p) /\ member[d] \in networks
    BY DEF PeeringsWithinNetwork
  <2>1. d \in Devices /\ (CHOOSE e \in p : TRUE) \in p
    BY PairFacts
  <2>. QED
    BY <1>1, <2>1 DEF AdminInv, Integrity, MembersExist, PairsExist, NetworkOf
<1>. QED
  BY <1>1, AdminHolds, PTL

----------------------------------------------------------------------------
(* What every write leaves to push and to prune *)

\* What a deletion listed, before it deletes, is still what there is to list.
ListingCurrent(r) ==
    /\ MembersOf(r.net) \subseteq r.members
    /\ \A p \in Pairs : /\ peering[p] # NoPeering /\ NetworkOf(p) = r.net
                        /\ r.dev # NoDevice => r.dev \in p
                       => p \in r.prune
    /\ r.what = "device" => member[r.dev] = r.net

ListingsCurrent == \A h \in Handlers : handler[h].op = "delete" => ListingCurrent(handler[h])

PushAhead  == {<<"push">>, <<"push", "prune">>, <<"push", "kick">>, <<"prune", "push", "kick">>}
PruneAhead == {<<"push", "prune">>, <<"prune">>, <<"prune", "push", "kick">>}

\* A request that will push to d, that will prune pair p.
PushesTo(r, d) == r.op = "ask" /\ r.phases \in PushAhead /\ d \in r.push
Prunes(r, p)   == r.op = "ask" /\ r.phases \in PruneAhead /\ p \in r.prune

WillPush(d)  == \E h \in Handlers : PushesTo(handler[h], d)
WillPrune(p) == \E h \in Handlers : Prunes(handler[h], p)

\* The owner is assembling d's configuration.
OwnerBusyWith(d) == owner.cmd \in {"first", "network", "peerings"} /\ owner.dev = d

\* It has read of d what the store says now.
OwnerServes(d) ==
    \/ owner.cmd = "first" /\ owner.dev = d
    \/ /\ owner.cmd \in {"network", "peerings"} /\ owner.dev = d
       /\ owner.net = member[d] /\ owner.ip = address[d]

\* A device waiting for approval is not approved, nor becomes so while the
\* owner registers it.
PendingApart ==
    /\ pendingDevices \cap devices = {}
    /\ owner.cmd = "register" => IF owner.approved THEN owner.dev \notin pendingDevices
                                                  ELSE owner.dev \notin devices

Watched == (online \cap (devices \cup pendingDevices)) \ closing

\* A device has its configuration, or is about to be sent it.
ConfigFollows(d) == WillPush(d) \/ IF OwnerBusyWith(d) THEN OwnerServes(d) ELSE told[d] = {View(d)}

ConfigsFollow == \A d \in Watched : ConfigFollows(d)

EntriesFollow ==
    /\ \A p \in Pairs : entry[p] \in {NoPeering, peering[p]} \/ WillPrune(p)
    /\ owner.cmd = "touch" => owner.id = peering[owner.pair] \/ WillPrune(owner.pair)

LEMMA StillAhead ==
    ASSUME HandlerType, NEW h \in Handlers, NEW r, Becomes(h, r)
    PROVE  /\ \A d : /\ PushesTo(handler[h], d) => PushesTo(r, d)
                     /\ WillPush(d)
                     => WillPush(d)'
           /\ \A p : /\ Prunes(handler[h], p) => Prunes(r, p)
                     /\ WillPrune(p)
                     => WillPrune(p)'
           /\ \A d : PushesTo(r, d) => WillPush(d)'
           /\ \A p : Prunes(r, p) => WillPrune(p)'
<1>1. \A k \in Handlers : handler'[k] = IF k = h THEN r ELSE handler[k]
  BY DEF Becomes, HandlerType
<1>2. ASSUME NEW d, PushesTo(handler[h], d) => PushesTo(r, d), WillPush(d) PROVE WillPush(d)'
  BY <1>1, <1>2 DEF WillPush
<1>3. ASSUME NEW p, Prunes(handler[h], p) => Prunes(r, p), WillPrune(p) PROVE WillPrune(p)'
  BY <1>1, <1>3 DEF WillPrune
<1>4. ASSUME NEW d, PushesTo(r, d) PROVE WillPush(d)'
  BY <1>1, <1>4 DEF WillPush
<1>5. ASSUME NEW p, Prunes(r, p) PROVE WillPrune(p)'
  BY <1>1, <1>5 DEF WillPrune
<1>. QED
  BY <1>2, <1>3, <1>4, <1>5

\* A device's peers are the pairs it is in.
LEMMA PeersAre ==
    ASSUME Integrity, NEW d \in Devices
    PROVE  PeersOf(d, member[d]) =
              {<<p, peering[p], address[Other(p, d)]>> : p \in {q \in Pairs : d \in q /\ peering[q] # NoPeering}}
<1>1. \A q \in Pairs : d \in q /\ peering[q] # NoPeering => NetworkOf(q) = member[d]
  BY PairFacts DEF Integrity, PairsExist, NetworkOf
<1>. QED
  BY <1>1 DEF PeersOf

\* The configuration of d, as the store has it, is the same after the step.
SameView(d) == member'[d] = member[d] /\ address'[d] = address[d] /\ View(d)' = View(d)

LEMMA NothingWritten ==
    ASSUME UNCHANGED <<member, address, peering>>, NEW d
    PROVE  SameView(d)
  BY DEF SameView, View, PeersOf, NetworkOf

LEMMA OutOfReach ==
    ASSUME Integrity, Integrity', NEW d \in Devices, member'[d] = member[d], address'[d] = address[d],
           \A p \in Pairs : d \in p => /\ peering'[p] = peering[p]
                                       /\ peering[p] # NoPeering => address'[Other(p, d)] = address[Other(p, d)]
    PROVE  SameView(d)
<1>1. PeersOf(d, member[d]) =
         {<<p, peering[p], address[Other(p, d)]>> : p \in {q \in Pairs : d \in q /\ peering[q] # NoPeering}}
  BY PeersAre
<1>2. PeersOf(d, member[d])' =
         {<<p, peering'[p], address'[Other(p, d)]>> : p \in {q \in Pairs : d \in q /\ peering'[q] # NoPeering}}
  <2>1. \A q \in Pairs : d \in q /\ peering'[q] # NoPeering => NetworkOf(q)' = member'[d]
    BY PairFacts DEF Integrity, PairsExist, NetworkOf
  <2>. QED
    BY <2>1 DEF PeersOf
<1>3. PeersOf(d, member[d])' = PeersOf(d, member[d])
  BY <1>1, <1>2
<1>. QED
  BY <1>3 DEF SameView, View

\* What goes with the members that leave is seen by them and by their peers only.
LEMMA CascadeReaches ==
    ASSUME Integrity, Integrity', NEW gone \in SUBSET Devices, Cascade(gone), NEW d \in Devices \ gone,
           \A p \in Pairs : peering[p] # NoPeering /\ d \in p => p \cap gone = {}
    PROVE  SameView(d)
<1>1. /\ member'  = [e \in Devices |-> IF e \in gone THEN NoNetwork ELSE member[e]]
      /\ address' = [e \in Devices |-> IF e \in gone THEN 0 ELSE address[e]]
      /\ peering' = [p \in Pairs |-> IF p \cap gone # {} THEN NoPeering ELSE peering[p]]
  BY DEF Cascade
<1>2. member'[d] = member[d] /\ address'[d] = address[d]
  BY <1>1
<1>3. ASSUME NEW p \in Pairs, d \in p
      PROVE  /\ peering'[p] = peering[p]
             /\ peering[p] # NoPeering => address'[Other(p, d)] = address[Other(p, d)]
  <2>1. Other(p, d) \in p /\ Other(p, d) \in Devices
    BY PairFacts
  <2>. QED
    BY <1>1, <1>3, <2>1
<1>. QED
  BY <1>2, <1>3, OutOfReach

\* A step of a request before its configurations are pushed: whatever it
\* changes in the store, it will push to the devices that see it and prune the
\* pairs whose peering it removes.
Announces(h, r) ==
    /\ handler[h].op # "ask" /\ Becomes(h, r) /\ UNCHANGED <<hub, owner>>
    /\ devices' \subseteq devices
    /\ \A d \in Devices : SameView(d) \/ PushesTo(r, d) \/ d \in devices \ devices'
    /\ \A p \in Pairs : peering'[p] = peering[p] \/ peering[p] = NoPeering \/ Prunes(r, p)

LEMMA QuietAnnounces ==
    ASSUME NEW h \in Handlers, NEW r, handler[h].op # "ask", Becomes(h, r), UNCHANGED <<store, hub, owner>>
    PROVE  \E q : Announces(h, q)
  BY NothingWritten DEF Announces, store

LEMMA AddMemberAnnounces ==
    ASSUME AdminInv, AdminInv', NEW h \in Handlers, AddMemberStep(h)
    PROVE  \E r : Announces(h, r)
<1> DEFINE q == handler[h]
           r == Asking(<<"push">>, q.listed \cup {q.dev}, {}, q.dev)
<1>1. CASE AddMember(h) /\ MemberRowAllowed(q.net, q.dev, q.ip)
  <2>1. /\ member'  = [member EXCEPT ![q.dev] = q.net] /\ address' = [address EXCEPT ![q.dev] = q.ip]
        /\ Becomes(h, r) /\ q.op = "insert" /\ member[q.dev] = NoNetwork
        /\ UNCHANGED <<devices, networks, peering, spent, hub, owner>>
    BY <1>1 DEF AddMember, MemberRowAllowed
  <2>2. PushesTo(r, q.dev)
    BY DEF PushesTo, PushAhead, Asking
  <2>3. ASSUME NEW d \in Devices, d # q.dev PROVE SameView(d)
    <3>1. member'[d] = member[d] /\ address'[d] = address[d]
      BY <2>1, <2>3 DEF AdminInv, Integrity, StoreType
    <3>2. ASSUME NEW p \in Pairs, peering[p] # NoPeering, d \in p PROVE address'[Other(p, d)] = address[Other(p, d)]
      <4>1. Other(p, d) \in p /\ Other(p, d) \in Devices
        BY PairFacts
      <4>2. member[Other(p, d)] # NoNetwork
        BY <3>2, <4>1 DEF AdminInv, Integrity, PairsExist
      <4>. QED
        BY <2>1, <4>1, <4>2 DEF AdminInv, Integrity, StoreType
    <3>. QED
      BY <2>1, <3>1, <3>2, OutOfReach DEF AdminInv
  <2>. QED
    BY <2>1, <2>2, <2>3 DEF Announces
<1>2. CASE AddMember(h) /\ ~MemberRowAllowed(q.net, q.dev, q.ip)
  BY <1>2, QuietAnnounces DEF AddMember, store
<1>3. CASE CountMembers(h) \/ ListMembers(h)
  BY <1>3, QuietAnnounces DEF CountMembers, ListMembers
<1>4. ASSUME NEW n \in Networks, NEW d \in Devices, StartAddMember(h, n, d) PROVE \E k : Announces(h, k)
  BY <1>4, QuietAnnounces DEF StartAddMember, Free
<1>. QED
  BY <1>1, <1>2, <1>3, <1>4 DEF AddMemberStep

\* Making or removing a peering is seen by its two ends.
LEMMA PeeringAnnounces ==
    ASSUME AdminInv, AdminInv', NEW h \in Handlers, PeeringStep(h)
    PROVE  \E r : Announces(h, r)
<1>1. ASSUME NEW p \in Pairs, NEW id, peering' = [peering EXCEPT ![p] = id], UNCHANGED <<member, address>>,
             NEW d \in Devices \ p
      PROVE  SameView(d)
  <2>1. \A q \in Pairs : d \in q => peering'[q] = peering[q]
    BY <1>1 DEF AdminInv, Integrity, StoreType
  <2>. QED
    BY <1>1, <2>1, OutOfReach DEF AdminInv
<1>2. ASSUME NEW n \in Networks, NEW p \in Pairs, NEW id \in PeeringIds, CreatePeering(h, n, p, id) PROVE \E r : Announces(h, r)
  <2> DEFINE r == Asking(<<"push">>, p, {}, NoDevice)
  <2>1. \A d \in p : PushesTo(r, d)
    BY DEF PushesTo, PushAhead, Asking
  <2>2. /\ peering' = [peering EXCEPT ![p] = id] /\ UNCHANGED <<member, address>>
        /\ peering[p] = NoPeering /\ Becomes(h, r) /\ handler[h].op # "ask" /\ UNCHANGED <<devices, hub, owner>>
    BY <1>2 DEF CreatePeering, Free
  <2>3. \A d \in Devices : SameView(d) \/ PushesTo(r, d)
    BY <1>1, <2>1, <2>2
  <2>. QED
    BY <2>2, <2>3 DEF Announces, AdminInv, Integrity, StoreType
<1>3. ASSUME NEW p \in Pairs, DeletePeering(h, p) PROVE \E r : Announces(h, r)
  <2> DEFINE r == Asking(<<"push", "prune">>, p, {p}, NoDevice)
  <2>1. Prunes(r, p) /\ \A d \in p : PushesTo(r, d)
    BY DEF PushesTo, PushAhead, Prunes, PruneAhead, Asking
  <2>2. /\ peering' = [peering EXCEPT ![p] = NoPeering] /\ UNCHANGED <<member, address>>
        /\ Becomes(h, r) /\ handler[h].op # "ask" /\ UNCHANGED <<devices, hub, owner>>
    BY <1>3 DEF DeletePeering, Free
  <2>3. \A d \in Devices : SameView(d) \/ PushesTo(r, d)
    BY <1>1, <2>1, <2>2
  <2>. QED
    BY <2>1, <2>2, <2>3 DEF Announces, AdminInv, Integrity, StoreType
<1>. QED
  BY <1>2, <1>3 DEF PeeringStep

\* A deletion whose listing is current reaches all its cascade reaches.
LEMMA DeleteAnnounces ==
    ASSUME AdminInv, AdminInv', ListingsCurrent, NEW h \in Handlers, DeleteStep(h) \/ GiveUp(h)
    PROVE  \E r : Announces(h, r)
<1> DEFINE q == handler[h]
<1>1. ASSUME NEW gone \in SUBSET Devices, Cascade(gone), NEW r,
             q.op # "ask", Becomes(h, r), UNCHANGED <<hub, owner>>, devices' \subseteq devices,
             \A d \in gone : PushesTo(r, d) \/ d \in devices \ devices',
             \A p \in Pairs : peering[p] # NoPeering /\ p \cap gone # {} =>
                                  Prunes(r, p) /\ \A d \in p \ gone : PushesTo(r, d)
      PROVE  Announces(h, r)
  <2>1. peering' = [p \in Pairs |-> IF p \cap gone # {} THEN NoPeering ELSE peering[p]]
    BY <1>1 DEF Cascade
  <2>2. ASSUME NEW d \in Devices \ gone, ~PushesTo(r, d) PROVE SameView(d)
    <3>1. \A p \in Pairs : peering[p] # NoPeering /\ d \in p => p \cap gone = {}
      BY <1>1, <2>2
    <3>. QED
      BY <1>1, <3>1, CascadeReaches DEF AdminInv
  <2>. QED
    BY <1>1, <2>1, <2>2 DEF Announces
<1>2. q.op = "delete" => q \in Deleting /\ ListingCurrent(q)
  BY HandlerKinds DEF ListingsCurrent, AdminInv, AdminType
<1>3. ASSUME NEW p \in Pairs, peering[p] # NoPeering, NEW d \in p PROVE NetworkOf(p) = member[d]
  BY <1>3, PairFacts DEF AdminInv, Integrity, PairsExist, NetworkOf
<1>4. CASE DeleteNetwork(h) /\ q.net \in networks
  <2> DEFINE r == Asking(<<"push", "prune">>, q.members, q.prune, NoDevice)
  <2>1. /\ q.op = "delete" /\ Cascade(MembersOf(q.net)) /\ Becomes(h, r) /\ UNCHANGED <<devices, hub, owner>>
        /\ q.what = "network"
    BY <1>4 DEF DeleteNetwork
  <2>2. q.dev = NoDevice
    BY <1>2, <2>1, DeletionKinds DEF Deletions
  <2>3. \A d \in MembersOf(q.net) : PushesTo(r, d)
    BY <1>2, <2>1 DEF ListingCurrent, PushesTo, PushAhead, Asking
  <2>4. ASSUME NEW p \in Pairs, peering[p] # NoPeering, p \cap MembersOf(q.net) # {}
        PROVE  Prunes(r, p) /\ \A d \in p \ MembersOf(q.net) : PushesTo(r, d)
    <3>1. PICK e \in p : member[e] = q.net
      BY <2>4 DEF MembersOf
    <3>2. NetworkOf(p) = q.net /\ p \subseteq MembersOf(q.net)
      BY <1>3, <2>4, <3>1, PairFacts DEF MembersOf
    <3>3. p \in q.prune
      BY <1>2, <2>1, <2>2, <2>4, <3>2 DEF ListingCurrent
    <3>. QED
      BY <3>2, <3>3 DEF Prunes, PruneAhead, Asking
  <2>. QED
    BY <1>1, <2>1, <2>3, <2>4 DEF MembersOf
<1>5. CASE RemoveMember(h) /\ member[q.dev] = q.net
  <2> DEFINE r == Asking(<<"push", "prune">>, q.members \cup {q.dev}, q.prune, NoDevice)
  <2>1. /\ q.op = "delete" /\ Cascade({q.dev}) /\ Becomes(h, r) /\ UNCHANGED <<devices, hub, owner>>
        /\ q.what = "member"
    BY <1>5 DEF RemoveMember
  <2>2. q.dev \in Devices
    BY <1>2, <2>1, DeletionKinds DEF Deletions
  <2>3. ASSUME NEW p \in Pairs, peering[p] # NoPeering, p \cap {q.dev} # {}
        PROVE  Prunes(r, p) /\ \A d \in p \ {q.dev} : PushesTo(r, d)
    <3>1. NetworkOf(p) = q.net /\ p \subseteq MembersOf(q.net)
      BY <1>3, <1>5, <2>3, PairFacts DEF MembersOf
    <3>2. p \in q.prune /\ p \subseteq q.members
      BY <1>2, <2>1, <2>3, <3>1 DEF ListingCurrent
    <3>. QED
      BY <3>2 DEF Prunes, PruneAhead, PushesTo, PushAhead, Asking
  <2>4. PushesTo(r, q.dev)
    BY DEF PushesTo, PushAhead, Asking
  <2>. QED
    BY <1>1, <2>1, <2>2, <2>3, <2>4
<1>6. CASE DeleteDevice(h) /\ q.dev \in devices
  <2> DEFINE r == Asking(<<"prune", "push", "kick">>, {Other(p, q.dev) : p \in q.prune}, q.prune, q.dev)
  <2>1. /\ q.op = "delete" /\ Cascade({q.dev}) /\ Becomes(h, r) /\ UNCHANGED <<hub, owner>>
        /\ q.what = "device" /\ devices' = devices \ {q.dev}
    BY <1>6 DEF DeleteDevice
  <2>2. q.dev \in Devices
    BY <1>2, <2>1, DeletionKinds DEF Deletions
  <2>3. ASSUME NEW p \in Pairs, peering[p] # NoPeering, p \cap {q.dev} # {}
        PROVE  Prunes(r, p) /\ \A d \in p \ {q.dev} : PushesTo(r, d)
    <3>1. NetworkOf(p) = q.net
      BY <1>2, <1>3, <2>1, <2>3 DEF ListingCurrent
    <3>2. p \in q.prune
      BY <1>2, <2>1, <2>3, <3>1 DEF ListingCurrent
    <3>3. \A d \in p \ {q.dev} : d = Other(p, q.dev)
      BY <2>3, PairFacts
    <3>. QED
      BY <3>2, <3>3 DEF Prunes, PruneAhead, PushesTo, PushAhead, Asking
  <2>. QED
    BY <1>1, <1>6, <2>1, <2>2, <2>3
<1>7. CASE \/ DeleteNetwork(h) /\ q.net \notin networks
           \/ RemoveMember(h) /\ member[q.dev] # q.net
           \/ DeleteDevice(h) /\ q.dev \notin devices
           \/ GiveUp(h) \/ ListPeerings(h)
  BY <1>7, QuietAnnounces DEF DeleteNetwork, RemoveMember, DeleteDevice, GiveUp, ListPeerings, store
<1>8. ASSUME NEW what, NEW n, NEW d, StartDelete(h, what, n, d) PROVE \E r : Announces(h, r)
  BY <1>8, QuietAnnounces DEF StartDelete, Free
<1>. QED
  BY <1>4, <1>5, <1>6, <1>7, <1>8 DEF DeleteStep

----------------------------------------------------------------------------
(* Configurations and link entries follow the store *)

FollowInv == AdminInv /\ PendingApart /\ ConfigsFollow /\ EntriesFollow

LEMMA AnnouncedFollows ==
    ASSUME FollowInv, NEW h \in Handlers, NEW r, Announces(h, r)
    PROVE  PendingApart' /\ ConfigsFollow' /\ EntriesFollow'
<1> USE DEF FollowInv
<1>1. /\ HandlerType /\ Becomes(h, r) /\ UNCHANGED <<online, closing, pendingDevices, told, entry, owner>>
      /\ devices' \subseteq devices
      /\ \A d : ~PushesTo(handler[h], d)
      /\ \A p : ~Prunes(handler[h], p)
  BY DEF Announces, AdminInv, AdminType, hub, PushesTo, Prunes
<1>2. \A d : (WillPush(d) => WillPush(d)') /\ (PushesTo(r, d) => WillPush(d)')
  BY <1>1, StillAhead
<1>3. \A p : (WillPrune(p) => WillPrune(p)') /\ (Prunes(r, p) => WillPrune(p)')
  BY <1>1, StillAhead
<1>4. PendingApart'
  BY <1>1 DEF PendingApart
<1>5. ASSUME NEW d \in Watched' PROVE ConfigFollows(d)'
  <2>1. d \in Watched /\ d \in Devices /\ d \notin devices \ devices'
    BY <1>1, <1>5 DEF Watched, PendingApart, AdminInv, AdminType, HubType
  <2>2. SameView(d) \/ PushesTo(r, d)
    BY <2>1 DEF Announces
  <2>3. CASE SameView(d)
    BY <1>1, <1>2, <2>1, <2>3 DEF ConfigsFollow, ConfigFollows, OwnerBusyWith, OwnerServes, SameView
  <2>. QED
    BY <1>2, <2>2, <2>3 DEF ConfigFollows
<1>6. EntriesFollow'
  <2>1. \A p \in Pairs : peering'[p] = peering[p] \/ peering[p] = NoPeering \/ Prunes(r, p)
    BY DEF Announces
  <2>2. ASSUME NEW p \in Pairs PROVE entry'[p] \in {NoPeering, peering'[p]} \/ WillPrune(p)'
    BY <1>1, <1>3, <2>1 DEF EntriesFollow
  <2>3. ASSUME owner'.cmd = "touch" PROVE owner'.id = peering'[owner'.pair] \/ WillPrune(owner.pair)'
    <3>1. owner.pair \in Pairs /\ owner.id \in PeeringIds /\ owner.id # NoPeering
      BY <1>1, <2>3, CommandKinds, AbsenceAssumption DEF AdminInv, AdminType
    <3>. QED
      BY <1>1, <1>3, <2>1, <2>3, <3>1 DEF EntriesFollow
  <2>. QED
    BY <1>1, <2>2, <2>3 DEF EntriesFollow
<1>. QED
  BY <1>4, <1>5, <1>6 DEF ConfigsFollow

\* The peers sent are valid: the store has no address twice in a network.
LEMMA PeersValid ==
    ASSUME Integrity, NEW d \in Devices, member[d] # NoNetwork
    PROVE  ValidPeers(address[d], PeersOf(d, member[d]))
<1> DEFINE mine == {q \in Pairs : d \in q /\ peering[q] # NoPeering}
<1>1. PeersOf(d, member[d]) = {<<p, peering[p], address[Other(p, d)]>> : p \in mine}
  BY PeersAre
<1>2. ASSUME NEW p \in mine
      PROVE  /\ Other(p, d) \in Devices /\ Other(p, d) # d /\ p = {d, Other(p, d)}
             /\ member[Other(p, d)] = member[d]
  BY PairFacts DEF Integrity, PairsExist
<1>3. \A p \in mine : address[Other(p, d)] # address[d]
  BY <1>2 DEF Integrity, Distinct
<1>4. \A p, q \in mine : address[Other(p, d)] = address[Other(q, d)] => p = q
  BY <1>2 DEF Integrity, Distinct
<1>. HIDE DEF mine
<1>. QED
  BY <1>1, <1>3, <1>4 DEF ValidPeers

\* The beginning of a push serves its device and takes nothing from another.
LEMMA PushFollows ==
    ASSUME FollowInv, NEW d \in Devices, PushConfig(d), owner.cmd \in {"none", "first"},
           \A e : OwnerBusyWith(e) => e = d,
           \A e : e # d /\ WillPush(e) => WillPush(e)',
           UNCHANGED <<devices, member, address, peering, online, closing, pendingDevices>>
    PROVE  ConfigsFollow' /\ PendingApart'
<1>1. \A e : View(e)' = View(e) /\ member'[e] = member[e] /\ address'[e] = address[e]
  BY NothingWritten DEF SameView
<1>2. owner'.cmd \in {"none", "network"}
  BY DEF PushConfig, Idle
<1>3. PendingApart'
  BY <1>2 DEF PendingApart, FollowInv
<1>4. ASSUME NEW e \in Watched', e # d PROVE ConfigFollows(e)'
  <2>1. told'[e] = told[e] /\ e \in Watched /\ ~OwnerBusyWith(e)
    BY <1>4 DEF PushConfig, Watched, FollowInv, AdminInv, AdminType, ToldType, HubType
  <2>2. ~OwnerBusyWith(e)'
    BY <1>4 DEF PushConfig, OwnerBusyWith, Idle
  <2>. QED
    BY <1>1, <1>4, <2>1, <2>2 DEF ConfigsFollow, ConfigFollows, FollowInv
<1>5. ASSUME d \in online PROVE ConfigFollows(d)'
  <2>1. CASE member[d] = NoNetwork
    <3>1. told'[d] = {View(d)'}
      BY <1>1, <1>5, <2>1 DEF PushConfig, View, FollowInv, AdminInv, AdminType, ToldType
    <3>2. ~OwnerBusyWith(d)'
      BY <1>5, <2>1 DEF PushConfig, OwnerBusyWith, Idle
    <3>. QED
      BY <3>1, <3>2 DEF ConfigFollows
  <2>2. CASE member[d] # NoNetwork
    <3> DEFINE c == [cmd |-> "network", dev |-> d, net |-> member[d], ip |-> address[d]]
    <3>1. owner' = c
      BY <1>5, <2>2 DEF PushConfig
    <3>2. c.cmd = "network" /\ c.dev = d /\ c.net = member[d] /\ c.ip = address[d]
      OBVIOUS
    <3>. QED
      BY <1>1, <3>1, <3>2 DEF OwnerServes, OwnerBusyWith, ConfigFollows
  <2>. QED
    BY <2>1, <2>2
<1>. QED
  BY <1>3, <1>4, <1>5 DEF ConfigsFollow, Watched

\* Steps of the owner that serve no device and touch no entry.
LEMMA SessionStepsFollow ==
    ASSUME FollowInv, NEW d \in Devices, Register(d) \/ SessionEnded(d) \/ ApproveDevice(d)
    PROVE  PendingApart' /\ ConfigsFollow' /\ EntriesFollow'
<1> USE DEF FollowInv
<1>1. /\ UNCHANGED <<member, address, peering, entry, handler>> /\ owner = Idle /\ owner.cmd = "none"
      /\ closing' = closing \/ closing' = closing \ {d}
  BY DEF Register, SessionEnded, ApproveDevice, store, hub, Idle
<1>2. \A e : View(e)' = View(e) /\ WillPush(e)' = WillPush(e) /\ WillPrune(e)' = WillPrune(e) /\ ~OwnerBusyWith(e)
  BY <1>1, NothingWritten DEF SameView, WillPush, WillPrune, OwnerBusyWith
<1>3. CASE Register(d)
  <2>1. /\ owner' = [cmd |-> "register", dev |-> d, approved |-> d \in devices]
        /\ UNCHANGED <<devices, online, closing, pendingDevices, told>>
    BY <1>3 DEF Register, store, hub
  <2>2. PendingApart' /\ EntriesFollow'
    BY <1>1, <1>2, <2>1 DEF PendingApart, EntriesFollow
  <2>3. \A e : ~OwnerBusyWith(e)'
    BY <2>1 DEF OwnerBusyWith
  <2>. QED
    BY <1>2, <2>1, <2>2, <2>3 DEF ConfigsFollow, ConfigFollows, Watched
<1>4. CASE SessionEnded(d)
  <2>1. PendingApart' /\ EntriesFollow'
    BY <1>1, <1>2, <1>4 DEF SessionEnded, PendingApart, EntriesFollow, store
  <2>2. ASSUME NEW e \in Watched' PROVE e \in Watched /\ told'[e] = told[e]
    BY <1>4, <2>2 DEF SessionEnded, Watched, store, AdminInv, AdminType, ToldType, HubType
  <2>3. \A e : ~OwnerBusyWith(e)'
    BY <1>1, <1>4 DEF SessionEnded, OwnerBusyWith
  <2>. QED
    BY <1>2, <2>1, <2>2, <2>3 DEF ConfigsFollow, ConfigFollows
<1>5. CASE ApproveDevice(d)
  <2>1. PendingApart' /\ EntriesFollow'
    BY <1>1, <1>2, <1>5 DEF ApproveDevice, PendingApart, EntriesFollow
  <2>2. Watched' = Watched /\ told' = told
    BY <1>5 DEF ApproveDevice, Watched
  <2>3. \A e : ~OwnerBusyWith(e)'
    BY <1>1, <1>5 DEF ApproveDevice, OwnerBusyWith
  <2>. QED
    BY <1>2, <2>1, <2>2, <2>3 DEF ConfigsFollow, ConfigFollows
<1>. QED
  BY <1>3, <1>4, <1>5

LEMMA RegisteredFollows ==
    ASSUME FollowInv, Registered
    PROVE  PendingApart' /\ ConfigsFollow' /\ EntriesFollow'
<1> USE DEF FollowInv
<1>1. PICK d \in Devices : d = owner.dev
  BY CommandKinds DEF Registered, AdminInv, AdminType
<1>2. /\ UNCHANGED <<member, address, peering, entry, handler>> /\ owner.cmd = "register"
      /\ owner' = [cmd |-> "first", dev |-> d] /\ online' = online \cup {d} /\ closing' = closing \ {d}
      /\ told' = [told EXCEPT ![d] = NothingTold]
      /\ IF owner.approved THEN devices' = devices \cup {d} /\ pendingDevices' = pendingDevices
                           ELSE pendingDevices' = pendingDevices \cup {d} /\ devices' = devices
  BY <1>1 DEF Registered
<1>3. \A e : View(e)' = View(e) /\ WillPush(e)' = WillPush(e) /\ WillPrune(e)' = WillPrune(e) /\ ~OwnerBusyWith(e)
  BY <1>2, NothingWritten DEF SameView, WillPush, WillPrune, OwnerBusyWith
<1>4. PendingApart' /\ EntriesFollow'
  BY <1>1, <1>2, <1>3 DEF PendingApart, EntriesFollow
<1>5. ConfigFollows(d)'
  BY <1>2 DEF OwnerServes, OwnerBusyWith, ConfigFollows
<1>6. ASSUME NEW e \in Watched', e # d PROVE e \in Watched /\ told'[e] = told[e] /\ ~OwnerBusyWith(e)'
  BY <1>2, <1>6 DEF Watched, AdminInv, AdminType, ToldType, HubType, OwnerBusyWith
<1>. QED
  BY <1>3, <1>4, <1>5, <1>6 DEF ConfigsFollow, ConfigFollows

LEMMA PushStepsFollow ==
    ASSUME FollowInv, FirstConfig \/ ReadNetwork \/ SendConfig
    PROVE  PendingApart' /\ ConfigsFollow' /\ EntriesFollow'
<1> USE DEF FollowInv
<1>1. /\ UNCHANGED <<devices, networks, member, address, peering, online, closing, pendingDevices, entry, handler>>
      /\ owner.cmd \in {"first", "network", "peerings"}
  BY DEF FirstConfig, ReadNetwork, SendConfig, store, hub
<1>2. \A e : View(e)' = View(e) /\ WillPush(e)' = WillPush(e) /\ WillPrune(e)' = WillPrune(e)
  BY <1>1, NothingWritten DEF SameView, WillPush, WillPrune
<1>3. PICK d \in Devices : d = owner.dev
  BY <1>1, CommandKinds DEF AdminInv, AdminType
<1>4. Watched' = Watched /\ OwnerBusyWith(d) /\ \A e : OwnerBusyWith(e) => e = d
  BY <1>1, <1>3 DEF Watched, OwnerBusyWith
<1>5. Idle.cmd = "none"
  BY DEF Idle
<1>6. CASE FirstConfig
  <2>1. PushConfig(d)
    BY <1>3, <1>6 DEF FirstConfig
  <2>2. owner'.cmd \in {"none", "network"}
    BY <1>5, <2>1 DEF PushConfig
  <2>3. EntriesFollow'
    BY <1>1, <1>2, <2>2 DEF EntriesFollow
  <2>4. owner.cmd \in {"none", "first"}
    BY <1>6 DEF FirstConfig
  <2>. QED
    BY <1>1, <1>2, <1>4, <2>1, <2>3, <2>4, PushFollows
<1>7. CASE ReadNetwork \/ SendConfig
  <2>1. /\ owner \in [cmd : {"network", "peerings"}, dev : Devices, net : Networks, ip : 0 .. Hosts]
        /\ owner.cmd \in {"network", "peerings"}
    BY <1>7, CommandKinds DEF ReadNetwork, SendConfig, AdminInv, AdminType
  <2>2. owner' = Idle \/ (ReadNetwork /\ owner' = [owner EXCEPT !.cmd = "peerings"])
    BY <1>7 DEF ReadNetwork, SendConfig
  <2>3. owner'.cmd \in {"none", "peerings"}
    BY <1>5, <2>1, <2>2
  <2>4. PendingApart' /\ EntriesFollow'
    BY <1>1, <1>2, <2>3 DEF PendingApart, EntriesFollow
  <2>5. \A e : OwnerBusyWith(e)' => e = d
    <3>1. [owner EXCEPT !.cmd = "peerings"].dev = d
      BY <1>3, <2>1
    <3>2. owner'.cmd = "none" \/ owner'.dev = d
      BY <1>5, <2>2, <3>1
    <3>. QED
      BY <3>2 DEF OwnerBusyWith
  <2>6. ASSUME NEW e \in Watched, e # d PROVE ConfigFollows(e)'
    <3>1. told'[e] = told[e]
      BY <1>3, <1>7, <2>6 DEF ReadNetwork, SendConfig, hub, Watched, AdminInv, AdminType, HubType, ToldType
    <3>. QED
      BY <1>2, <1>4, <2>5, <2>6, <3>1 DEF ConfigsFollow, ConfigFollows
  <2>7. ASSUME d \in Watched, ~OwnerServes(d) PROVE ConfigFollows(d)'
    BY <1>2, <1>4, <2>7 DEF ConfigsFollow, ConfigFollows
  <2>8. ASSUME ReadNetwork, OwnerServes(d) PROVE ConfigFollows(d)'
    <3>1. owner.net = member[d] /\ owner.ip = address[d] /\ owner.net # NoNetwork
      BY <2>1, <2>8, AbsenceAssumption DEF OwnerServes
    <3>2. owner.net \in networks
      BY <3>1 DEF AdminInv, Integrity, MembersExist
    <3>3. owner' = [owner EXCEPT !.cmd = "peerings"]
      BY <2>8, <3>2 DEF ReadNetwork
    <3>4. owner'.cmd = "peerings" /\ owner'.dev = d /\ owner'.net = owner.net /\ owner'.ip = owner.ip
      BY <1>3, <2>1, <3>3
    <3>. QED
      BY <1>1, <3>1, <3>4 DEF OwnerServes, OwnerBusyWith, ConfigFollows
  <2>9. ASSUME SendConfig, OwnerServes(d) PROVE ConfigFollows(d)'
    <3>1. owner.net = member[d] /\ owner.ip = address[d] /\ member[d] # NoNetwork
      BY <2>1, <2>9, AbsenceAssumption DEF OwnerServes
    <3>2. ValidPeers(owner.ip, PeersOf(d, owner.net))
      BY <3>1, PeersValid DEF AdminInv
    <3>3. told' = [told EXCEPT ![d] = {[net |-> owner.net, ip |-> owner.ip, peers |-> PeersOf(d, owner.net)]}]
      BY <1>3, <2>9, <3>2 DEF SendConfig
    <3>4. told'[d] = {View(d)}
      BY <3>1, <3>3 DEF View, AdminInv, AdminType, ToldType
    <3>5. owner' = Idle
      BY <2>9 DEF SendConfig
    <3>. QED
      BY <1>2, <1>5, <3>4, <3>5 DEF OwnerBusyWith, ConfigFollows
  <2>10. ASSUME NEW e \in Watched PROVE ConfigFollows(e)'
    BY <1>7, <2>6, <2>7, <2>8, <2>9
  <2>. QED
    BY <1>4, <2>4, <2>10 DEF ConfigsFollow
<1>. QED
  BY <1>6, <1>7

\* Steps that change neither the store, nor a session, nor what was sent.
LEMMA ConfigsUndisturbed ==
    ASSUME FollowInv, UNCHANGED <<devices, member, address, peering, online, pendingDevices, told>>,
           closing \subseteq closing',
           \A e : WillPush(e) => WillPush(e)',
           \/ owner' = owner
           \/ \A e : ~OwnerBusyWith(e) /\ ~OwnerBusyWith(e)'
    PROVE  ConfigsFollow'
<1>1. \A e : View(e)' = View(e)
  BY NothingWritten DEF SameView
<1>2. \A e : OwnerBusyWith(e)' = OwnerBusyWith(e) /\ (OwnerBusyWith(e) => OwnerServes(e)' = OwnerServes(e))
  BY DEF OwnerBusyWith, OwnerServes
<1>3. Watched' \subseteq Watched
  BY DEF Watched
<1>. QED
  BY <1>1, <1>2, <1>3 DEF FollowInv, ConfigsFollow, ConfigFollows

LEMMA TouchStepsFollow ==
    ASSUME FollowInv, Touch \/ \E p \in Pairs : LookUp(p)
    PROVE  PendingApart' /\ ConfigsFollow' /\ EntriesFollow'
<1> USE DEF FollowInv
<1>1. /\ UNCHANGED <<devices, member, address, peering, online, closing, pendingDevices, told, handler>>
      /\ owner.cmd \in {"none", "touch"} /\ owner'.cmd \in {"none", "touch"}
  BY DEF Touch, LookUp, Idle, store, hub
<1>2. \A e : WillPush(e)' = WillPush(e) /\ WillPrune(e)' = WillPrune(e) /\ ~OwnerBusyWith(e) /\ ~OwnerBusyWith(e)'
  BY <1>1 DEF WillPush, WillPrune, OwnerBusyWith
<1>3. PendingApart' /\ ConfigsFollow'
  BY <1>1, <1>2, ConfigsUndisturbed DEF PendingApart
<1>4. CASE Touch
  <2>1. owner'.cmd = "none" /\ entry' = [entry EXCEPT ![owner.pair] = owner.id] /\ owner.cmd = "touch"
    BY <1>4 DEF Touch, Idle
  <2>. QED
    BY <1>1, <1>2, <1>3, <2>1 DEF EntriesFollow, AdminInv, AdminType, HubType
<1>5. ASSUME NEW p \in Pairs, LookUp(p) PROVE EntriesFollow'
  <2>1. owner'.pair = p /\ owner'.id = peering[p] /\ entry' = entry
    BY <1>5 DEF LookUp, hub
  <2>. QED
    BY <1>1, <1>2, <2>1 DEF EntriesFollow
<1>. QED
  BY <1>3, <1>4, <1>5

\* The next phase drops the first one only.
LEMMA AheadRemains ==
    /\ \A s \in PushAhead : Head(s) = "push" \/ (Tail(s) \in PushAhead /\ Tail(s) # <<>>)
    /\ \A s \in PruneAhead : Head(s) = "prune" \/ (Tail(s) \in PruneAhead /\ Tail(s) # <<>>)
<1>1. <<"push", "kick">> # <<>> /\ <<"prune">> # <<>>
  OBVIOUS
<1>2. \A s \in PushAhead : Head(s) = "push" \/ Tail(s) = <<"push", "kick">>
  BY PhaseTails DEF PushAhead
<1>3. \A s \in PruneAhead : Head(s) = "prune" \/ Tail(s) = <<"prune">>
  BY PhaseTails DEF PruneAhead
<1>. QED
  BY <1>1, <1>2, <1>3 DEF PushAhead, PruneAhead

\* A request goes on asking: nothing it announced is forgotten.
LEMMA AskStepsFollow ==
    ASSUME FollowInv, NEW h \in Handlers, AskStep(h)
    PROVE  PendingApart' /\ ConfigsFollow' /\ EntriesFollow'
<1> USE DEF FollowInv
<1> DEFINE q == handler[h]
           rest == Tail(q.phases)
<1>1. UNCHANGED <<devices, member, address, peering, online, pendingDevices>> /\ closing \subseteq closing'
  BY DEF AskStep, AskPush, AllPushed, AskPrune, AskKick, KickCancelled, store, hub
<1>2. HandlerType /\ q \in Asked /\ q.op = "ask" /\ q.phases \in Phases
  BY HandlerKinds DEF AskStep, AskPush, AllPushed, AskPrune, AskKick, KickCancelled, Phase, AdminInv, AdminType, Asked
<1>3. Idle.cmd = "none"
  BY DEF Idle
<1>4. CASE AskPush(h)
  <2>1. PICK d \in q.push : PushConfig(d) /\ Becomes(h, [q EXCEPT !.push = @ \ {d}])
    BY <1>4 DEF AskPush
  <2> DEFINE r == [q EXCEPT !.push = @ \ {d}]
  <2>2. d \in Devices /\ r.op = q.op /\ r.phases = q.phases /\ r.push = q.push \ {d} /\ r.prune = q.prune
    BY <1>2 DEF Asked
  <2>3. \A e : (e # d /\ PushesTo(q, e) => PushesTo(r, e)) /\ (Prunes(q, e) => Prunes(r, e))
    BY <2>2 DEF PushesTo, Prunes
  <2>. HIDE DEF r
  <2>4. \A e : (e # d /\ WillPush(e) => WillPush(e)') /\ (WillPrune(e) => WillPrune(e)')
    BY <1>2, <2>1, <2>3, StillAhead DEF r
  <2>5. owner = Idle /\ UNCHANGED <<closing, entry>>
    BY <1>4 DEF AskPush
  <2>6. \A e : ~OwnerBusyWith(e)
    BY <1>3, <2>5 DEF OwnerBusyWith
  <2>7. owner'.cmd \in {"none", "network"}
    BY <1>3, <2>1 DEF PushConfig
  <2>8. EntriesFollow'
    BY <1>1, <2>4, <2>5, <2>7 DEF EntriesFollow
  <2>. QED
    BY <1>1, <1>3, <2>1, <2>2, <2>4, <2>5, <2>6, <2>8, PushFollows
<1>5. ASSUME NextPhase(h), NEW s, Head(q.phases) = s PROVE
        /\ \A e : (s # "push" \/ q.push = {}) /\ WillPush(e) => WillPush(e)'
        /\ \A p : (s # "prune" \/ p \notin q.prune) /\ WillPrune(p) => WillPrune(p)'
  <2> DEFINE t == [q EXCEPT !.phases = rest]
             r == IF rest = <<>> THEN Done ELSE t
  <2>1. Becomes(h, r)
    BY <1>5 DEF NextPhase
  <2>2. t.op = "ask" /\ t.phases = rest /\ t.push = q.push /\ t.prune = q.prune
    <3>. HIDE DEF rest
    <3>. QED
      BY <1>2 DEF Asked
  <2>3. /\ q.phases \in PushAhead => s = "push" \/ (rest \in PushAhead /\ rest # <<>>)
        /\ q.phases \in PruneAhead => s = "prune" \/ (rest \in PruneAhead /\ rest # <<>>)
    BY <1>5, AheadRemains
  <2>4. \A e : (s # "push" \/ q.push = {}) /\ PushesTo(q, e) => PushesTo(r, e)
    <3>. HIDE DEF rest, t
    <3>. QED
      BY <2>2, <2>3 DEF PushesTo
  <2>5. \A p : (s # "prune" \/ p \notin q.prune) /\ Prunes(q, p) => Prunes(r, p)
    <3>. HIDE DEF rest, t
    <3>. QED
      BY <2>2, <2>3 DEF Prunes
  <2>. HIDE DEF r
  <2>. QED
    BY <1>2, <2>1, <2>4, <2>5, StillAhead
<1>6. CASE AllPushed(h) \/ KickCancelled(h)
  <2>1. /\ NextPhase(h) /\ UNCHANGED <<told, entry, owner>>
        /\ Head(q.phases) = "kick" \/ (Head(q.phases) = "push" /\ q.push = {})
    BY <1>6 DEF AllPushed, KickCancelled, Phase, hub
  <2>2. \A e : (WillPush(e) => WillPush(e)') /\ (WillPrune(e) => WillPrune(e)')
    BY <1>5, <2>1
  <2>3. ConfigsFollow'
    BY <1>1, <2>1, <2>2, ConfigsUndisturbed
  <2>. QED
    BY <1>1, <2>1, <2>2, <2>3 DEF PendingApart, EntriesFollow
<1>7. CASE AskPrune(h) \/ AskKick(h)
  <2>1. NextPhase(h) /\ UNCHANGED <<told, owner>> /\ owner.cmd = "none"
    BY <1>3, <1>7 DEF AskPrune, AskKick
  <2>2. \A e : WillPush(e) => WillPush(e)'
    BY <1>5, <1>7, <2>1 DEF AskPrune, AskKick, Phase
  <2>3. ConfigsFollow' /\ PendingApart'
    BY <1>1, <2>1, <2>2, ConfigsUndisturbed DEF PendingApart
  <2>4. ASSUME NEW p \in Pairs PROVE entry'[p] \in {NoPeering, peering'[p]} \/ WillPrune(p)'
    <3>1. CASE AskPrune(h)
      <4>1. entry' = [k \in Pairs |-> IF k \in q.prune THEN NoPeering ELSE entry[k]]
        BY <3>1 DEF AskPrune
      <4>2. p \notin q.prune /\ WillPrune(p) => WillPrune(p)'
        BY <1>5, <2>1
      <4>. QED
        BY <1>1, <4>1, <4>2 DEF EntriesFollow
    <3>2. CASE AskKick(h)
      <4>1. entry' = entry /\ (WillPrune(p) => WillPrune(p)')
        BY <1>5, <2>1, <3>2 DEF AskKick, Phase
      <4>. QED
        BY <1>1, <4>1 DEF EntriesFollow
    <3>. QED
      BY <1>7, <3>1, <3>2
  <2>. QED
    BY <2>1, <2>3, <2>4 DEF EntriesFollow
<1>. QED
  BY <1>4, <1>6, <1>7 DEF AskStep

LEMMA FollowStep == FollowInv /\ ListingsCurrent /\ [Next]_vars => FollowInv'
<1> SUFFICES ASSUME FollowInv, ListingsCurrent, [Next]_vars PROVE FollowInv'
  OBVIOUS
<1>1. AdminInv /\ AdminInv'
  BY AdminStep DEF FollowInv
<1>2. CASE OwnerStep
  BY <1>1, <1>2, SessionStepsFollow, RegisteredFollows, PushStepsFollow, TouchStepsFollow DEF OwnerStep, FollowInv
<1>3. ASSUME NEW h \in Handlers, AddMemberStep(h) \/ PeeringStep(h) \/ DeleteStep(h) \/ GiveUp(h)
      PROVE  FollowInv'
  <2>1. \E r : Announces(h, r)
    BY <1>1, <1>3, AddMemberAnnounces, PeeringAnnounces, DeleteAnnounces
  <2>. QED
    BY <1>1, <2>1, AnnouncedFollows DEF FollowInv
<1>4. ASSUME NEW h \in Handlers, AskStep(h) PROVE FollowInv'
  BY <1>1, <1>4, AskStepsFollow DEF FollowInv
<1>5. ASSUME (\E n \in Networks : CreateNetwork(n)) \/ UNCHANGED vars PROVE FollowInv'
  <2>1. UNCHANGED <<devices, member, address, peering, online, closing, pendingDevices, told, entry, owner, handler>>
    BY <1>5 DEF CreateNetwork, vars, hub
  <2>2. \A e : (WillPush(e) <=> WillPush(e)') /\ (WillPrune(e) <=> WillPrune(e)')
    BY <2>1 DEF WillPush, WillPrune
  <2>3. ConfigsFollow'
    BY <2>1, <2>2, ConfigsUndisturbed
  <2>. QED
    BY <1>1, <2>1, <2>2, <2>3 DEF FollowInv, PendingApart, EntriesFollow
<1>6. CASE Restart
  <2>1. owner'.cmd = "none" /\ Watched' = {} /\ pendingDevices' = {}
    BY <1>6 DEF Restart, Idle, Watched
  <2>. QED
    BY <1>1, <1>6, <2>1 DEF Restart, FollowInv, PendingApart, ConfigsFollow, EntriesFollow
<1>. QED
  BY <1>2, <1>3, <1>4, <1>5, <1>6 DEF Next

LEMMA FollowStart == Init => FollowInv
<1> SUFFICES ASSUME Init PROVE FollowInv
  OBVIOUS
<1>1. owner.cmd = "none" /\ Watched = {} /\ pendingDevices = {} /\ \A p \in Pairs : entry[p] = NoPeering
  BY DEF Init, Idle, Watched
<1>. QED
  BY <1>1, AdminStart DEF FollowInv, PendingApart, ConfigsFollow, EntriesFollow

\* Once all is settled, nothing is about to be sent or pruned.
LEMMA SettledFollows == FollowInv => ConfigCurrent /\ EntriesCurrent
<1> SUFFICES ASSUME FollowInv, Settled PROVE /\ \A d \in (online \cap devices) \ closing : told[d] = {View(d)}
                                            /\ \A p \in Pairs : entry[p] \in {NoPeering, peering[p]}
  BY DEF ConfigCurrent, EntriesCurrent
<1>1. \A e : ~WillPush(e) /\ ~WillPrune(e) /\ ~OwnerBusyWith(e)
  BY DEF Settled, Free, Idle, WillPush, WillPrune, PushesTo, Prunes, OwnerBusyWith
<1>. QED
  BY <1>1 DEF FollowInv, ConfigsFollow, ConfigFollows, Watched, EntriesFollow

\* Any number of requests at once, interleaved with the owner's row-by-row
\* reads: so long as no deletion removes more than it listed, every write ends
\* in the devices that see it being sent what the store says, and in the link
\* entries of removed peerings being pruned.
THEOREM ConfigsFollowTheStore == Spec /\ []ListingsCurrent => [](ConfigCurrent /\ EntriesCurrent)
<1>1. Spec /\ []ListingsCurrent => []FollowInv
  BY FollowStart, FollowStep, PTL DEF Spec
<1>. QED
  BY <1>1, SettledFollows, PTL

\* So it is, for any number of requests, as long as nothing is deleted.
THEOREM GrowthIsFollowed == Spec /\ [](\A h \in Handlers : handler[h].op # "delete") => []ConfigCurrent
<1>1. (\A h \in Handlers : handler[h].op # "delete") => ListingsCurrent
  BY DEF ListingsCurrent
<1>. QED
  BY <1>1, ConfigsFollowTheStore, PTL

\* From approved devices, some of them members already, likewise.
LEMMA PreparedStart == Prepared => FollowInv
<1> SUFFICES ASSUME Prepared PROVE FollowInv
  OBVIOUS
<1>1. scenario \in Scenarios /\ scenario.joined \subseteq Devices
  BY ScenarioAssumption DEF Prepared
<1>2. StoreType /\ HubType /\ OwnerType /\ HandlerType
  BY <1>1, HomeAssumption, LimitAssumption DEF Prepared, StoreType, HubType, OwnerType, HandlerType, Commands
<1>3. ToldType
  BY DEF Prepared, ToldType, NothingTold, Idle
<1>4. MembersExist
  <2>. SUFFICES ASSUME NEW d \in Devices, member[d] # NoNetwork
                PROVE  d \in devices /\ member[d] \in networks /\ address[d] \in 1 .. Hosts
    BY DEF MembersExist
  <2>1. d \in scenario.joined /\ address[d] # 0 /\ address[d] \in 0 .. Hosts
    BY DEF Prepared
  <2>. QED
    BY <2>1, LimitAssumption DEF Prepared
<1>5. Distinct
  BY <1>1 DEF Prepared, Distinct
<1>6. PairsExist
  BY DEF Prepared, PairsExist
<1>7. owner.cmd = "none" /\ Watched = {} /\ pendingDevices = {} /\ \A p \in Pairs : entry[p] = NoPeering
  BY DEF Prepared, Idle, Watched
<1>. QED
  BY <1>2, <1>3, <1>4, <1>5, <1>6, <1>7
     DEF FollowInv, AdminInv, AdminType, Integrity, PendingApart, ConfigsFollow, EntriesFollow

\* Only a deletion lists what it will delete.
NoDeletions == \A h \in Handlers : handler[h].op \notin {"peerings", "delete"}

LEMMA NoDeletionStarts ==
    ASSUME AdminInv, NoDeletions, NEW h \in Handlers, AddMemberStep(h) \/ PeeringStep(h) \/ AskStep(h) \/ GiveUp(h)
    PROVE  NoDeletions'
<1>1. ASSUME NEW r, Becomes(h, r), r.op \notin {"peerings", "delete"} PROVE NoDeletions'
  BY <1>1 DEF Becomes, NoDeletions, AdminInv, AdminType, HandlerType
<1>2. CASE AddMemberStep(h)
  <2>1. CASE CountMembers(h)
    <3>1. handler[h] \in Counting
      BY <2>1, HandlerKinds DEF CountMembers, AdminInv, AdminType
    <3>2. [handler[h] EXCEPT !.op = "list"].op = "list"
      BY <3>1 DEF Counting
    <3>. QED
      BY <1>1, <2>1, <3>2 DEF CountMembers, Done
  <2>2. CASE ListMembers(h) \/ AddMember(h) \/ \E n \in Networks, d \in Devices : StartAddMember(h, n, d)
    BY <1>1, <2>2 DEF StartAddMember, ListMembers, AddMember, Asking, Done
  <2>. QED
    BY <1>2, <2>1, <2>2 DEF AddMemberStep
<1>3. CASE PeeringStep(h)
  BY <1>1, <1>3 DEF PeeringStep, CreatePeering, DeletePeering, Asking, Done
<1>4. CASE AskStep(h)
  <2>1. handler[h] \in Asked
    BY <1>4, HandlerKinds DEF AskStep, AskPush, AllPushed, AskPrune, AskKick, KickCancelled, Phase, AdminInv, AdminType
  <2>2. CASE AskPush(h)
    <3>1. \A q : [handler[h] EXCEPT !.push = q].op = "ask"
      BY <2>1 DEF Asked
    <3>. QED
      BY <1>1, <2>2, <3>1 DEF AskPush
  <2>3. CASE NextPhase(h)
    <3>1. \A q : [handler[h] EXCEPT !.phases = q].op = "ask"
      BY <2>1 DEF Asked
    <3>. QED
      BY <1>1, <2>3, <3>1 DEF NextPhase, Done
  <2>. QED
    BY <1>4, <2>2, <2>3 DEF AskStep, AllPushed, AskPrune, AskKick, KickCancelled
<1>5. CASE GiveUp(h)
  BY <1>1, <1>5 DEF GiveUp, Done
<1>. QED
  BY <1>2, <1>3, <1>4, <1>5

\* No order of the writes and pushes of any number of requests that add and pair,
\* interleaved with registrations and the owner's row-by-row reads, leaves a device
\* with an outdated configuration.
THEOREM GrowthRaces == PreparedSpec => []ConfigCurrentWhileGrowing
<1> DEFINE Grows == ~May("delete") => FollowInv /\ NoDeletions
<1>1. Prepared => Grows
  BY PreparedStart DEF Prepared, NoDeletions, Done
<1>2. Grows /\ [Step /\ UNCHANGED scenario]_<<vars, scenario>> => Grows'
  <2> SUFFICES ASSUME FollowInv, NoDeletions, [Step /\ UNCHANGED scenario]_<<vars, scenario>>, ~May("delete")
               PROVE  FollowInv' /\ NoDeletions'
    BY DEF May, vars
  <2>1. [Next]_vars
    BY DEF Step, Next, vars
  <2>2. ListingsCurrent
    BY DEF NoDeletions, ListingsCurrent
  <2>3. FollowInv'
    BY <2>1, <2>2, FollowStep
  <2>4. AdminInv
    BY DEF FollowInv
  <2>5. NoDeletions'
    <3>1. ASSUME NEW h \in Handlers, AddMemberStep(h) \/ PeeringStep(h) \/ AskStep(h) \/ GiveUp(h) PROVE NoDeletions'
      BY <2>4, <3>1, NoDeletionStarts
    <3>2. CASE UNCHANGED handler
      BY <3>2 DEF NoDeletions
    <3>3. OwnerStep => UNCHANGED handler
      BY DEF OwnerStep, Register, SessionEnded, ApproveDevice, Registered, FirstConfig, ReadNetwork, SendConfig, LookUp, Touch
    <3>. QED
      BY <3>1, <3>2, <3>3 DEF Step, vars
  <2>. QED
    BY <2>3, <2>5
<1>3. Grows => ConfigCurrentWhileGrowing
  BY SettledFollows DEF ConfigCurrentWhileGrowing
<1>. HIDE DEF Grows
<1>. QED
  BY <1>1, <1>2, <1>3, PTL DEF PreparedSpec

----------------------------------------------------------------------------
(* One request at a time *)

OneHandler == \E h : Handlers = {h}

ListingsKept ==
    /\ ListingsCurrent
    /\ \A h \in Handlers : handler[h].op = "peerings" =>
          /\ MembersOf(handler[h].net) \subseteq handler[h].members
          /\ handler[h].what = "device" => member[handler[h].dev] = handler[h].net

LEMMA ListingStep ==
    ASSUME OneHandler, AdminInv, ListingsKept, [Next]_vars
    PROVE  ListingsKept'
<1>1. PICK h : Handlers = {h}
  BY DEF OneHandler
<1> DEFINE q == handler[h]
<1>2. ASSUME UNCHANGED <<member, peering, handler>> PROVE ListingsKept'
  BY <1>2 DEF ListingsKept, ListingsCurrent, ListingCurrent, MembersOf, NetworkOf
<1>3. ASSUME OwnerStep \/ (\E n \in Networks : CreateNetwork(n)) \/ UNCHANGED vars PROVE ListingsKept'
  BY <1>2, <1>3 DEF OwnerStep, Register, SessionEnded, ApproveDevice, Registered, FirstConfig, ReadNetwork,
                    SendConfig, LookUp, Touch, CreateNetwork, vars, store
<1>4. ASSUME handler'[h].op \notin {"peerings", "delete"} PROVE ListingsKept'
  BY <1>1, <1>4 DEF ListingsKept, ListingsCurrent
<1>5. ASSUME NEW what, NEW n, NEW d, StartDelete(h, what, n, d) PROVE ListingsKept'
  <2> DEFINE r == Listed("peerings", what, n, d, MembersOf(n))
  <2>1. r.op = "peerings" /\ r.members = MembersOf(n) /\ r.net = n /\ r.dev = d /\ r.what = what
    BY DEF Listed
  <2>2. handler'[h] = r /\ UNCHANGED member
    BY <1>1, <1>5 DEF StartDelete, Becomes, AdminInv, AdminType, HandlerType, store
  <2>3. what = "device" => n = member[d]
    BY <1>5 DEF StartDelete
  <2>. HIDE DEF r
  <2>. QED
    BY <1>1, <2>1, <2>2, <2>3 DEF ListingsKept, ListingsCurrent, MembersOf
<1>6. CASE ListPeerings(h)
  <2> DEFINE prune == {p \in Pairs : /\ peering[p] # NoPeering /\ NetworkOf(p) = q.net
                                     /\ q.dev # NoDevice => q.dev \in p}
             r == [q EXCEPT !.op = "delete", !.prune = prune]
  <2>1. q \in Deleting /\ q.op = "peerings"
    BY <1>1, <1>6, HandlerKinds DEF ListPeerings, AdminInv, AdminType
  <2>2. handler'[h] = r /\ UNCHANGED <<member, peering>>
    BY <1>1, <1>6 DEF ListPeerings, Becomes, AdminInv, AdminType, HandlerType, store
  <2>3. r.op = "delete" /\ r.members = q.members /\ r.net = q.net /\ r.dev = q.dev /\ r.what = q.what /\ r.prune = prune
    <3>. HIDE DEF prune
    <3>. QED
      BY <2>1 DEF Deleting, Deletions
  <2>. HIDE DEF r
  <2>4. /\ MembersOf(q.net) \subseteq q.members /\ (q.what = "device" => member[q.dev] = q.net)
        /\ \A n : MembersOf(n)' = MembersOf(n)
        /\ \A p : NetworkOf(p)' = NetworkOf(p)
    BY <1>1, <2>1, <2>2 DEF ListingsKept, MembersOf, NetworkOf
  <2>. QED
    BY <1>1, <2>2, <2>3, <2>4 DEF ListingsKept, ListingsCurrent, ListingCurrent
<1>7. ASSUME AddMemberStep(h) \/ PeeringStep(h) \/ AskStep(h) \/ GiveUp(h)
             \/ DeleteNetwork(h) \/ RemoveMember(h) \/ DeleteDevice(h)
      PROVE  handler'[h].op \notin {"peerings", "delete"}
  <2>1. HandlerType /\ h \in Handlers
    BY <1>1 DEF AdminInv, AdminType
  <2>2. \A r : Becomes(h, r) => handler'[h] = r
    BY <2>1 DEF Becomes, HandlerType
  <2>3. Done.op = "none" /\ \A phases, push, prune, d : Asking(phases, push, prune, d).op = "ask"
    BY DEF Done, Asking
  <2>4. CASE CountMembers(h)
    <3>1. q \in Counting
      BY <2>1, <2>4, HandlerKinds DEF CountMembers
    <3>2. [q EXCEPT !.op = "list"].op = "list"
      BY <3>1 DEF Counting
    <3>3. Becomes(h, Done) \/ Becomes(h, [q EXCEPT !.op = "list"])
      BY <2>4 DEF CountMembers
    <3>. QED
      BY <2>2, <2>3, <3>2, <3>3
  <2>5. CASE AskStep(h)
    <3>1. q \in Asked
      BY <2>1, <2>5, HandlerKinds DEF AskStep, AskPush, AllPushed, AskPrune, AskKick, KickCancelled, Phase
    <3>2. (\A s : [q EXCEPT !.phases = s].op = "ask") /\ \A d : [q EXCEPT !.push = @ \ {d}].op = "ask"
      BY <3>1 DEF Asked
    <3>3. Becomes(h, Done) \/ (\E s : Becomes(h, [q EXCEPT !.phases = s])) \/ \E d : Becomes(h, [q EXCEPT !.push = @ \ {d}])
      BY <2>5 DEF AskStep, AskPush, AllPushed, AskPrune, AskKick, KickCancelled, NextPhase
    <3>. QED
      BY <2>2, <2>3, <3>2, <3>3
  <2>6. ASSUME NEW n \in Networks, NEW d \in Devices, StartAddMember(h, n, d) PROVE handler'[h].op = "count"
    <3>1. Becomes(h, [op |-> "count", net |-> n, dev |-> d])
      BY <2>6 DEF StartAddMember
    <3>. QED
      BY <2>2, <3>1
  <2>7. CASE ListMembers(h)
    BY <2>2, <2>3, <2>7 DEF ListMembers
  <2>8. CASE AddMember(h) \/ GiveUp(h)
    BY <2>2, <2>3, <2>8 DEF AddMember, GiveUp
  <2>9. CASE PeeringStep(h) \/ DeleteNetwork(h) \/ RemoveMember(h) \/ DeleteDevice(h)
    <3>1. ASSUME NEW n, NEW p, NEW id, CreatePeering(h, n, p, id) PROVE Becomes(h, Asking(<<"push">>, p, {}, NoDevice))
      BY <3>1 DEF CreatePeering
    <3>2. ASSUME NEW p, DeletePeering(h, p) PROVE Becomes(h, Asking(<<"push", "prune">>, p, {p}, NoDevice))
      BY <3>2 DEF DeletePeering
    <3>3. CASE DeleteNetwork(h)
      BY <2>2, <2>3, <3>3 DEF DeleteNetwork
    <3>4. CASE RemoveMember(h)
      BY <2>2, <2>3, <3>4 DEF RemoveMember
    <3>5. CASE DeleteDevice(h)
      BY <2>2, <2>3, <3>5 DEF DeleteDevice
    <3>6. CASE PeeringStep(h)
      BY <2>2, <2>3, <3>1, <3>2, <3>6 DEF PeeringStep
    <3>. QED
      BY <2>9, <3>3, <3>4, <3>5, <3>6
  <2>. QED
    BY <1>7, <2>4, <2>5, <2>6, <2>7, <2>8, <2>9 DEF AddMemberStep
<1>8. CASE Restart
  BY <1>8 DEF Restart, Done, ListingsKept, ListingsCurrent
<1>. QED
  BY <1>1, <1>3, <1>4, <1>5, <1>6, <1>7, <1>8 DEF Next, DeleteStep

LEMMA ListingsHold == OneHandler => (Spec => []ListingsCurrent)
<1> SUFFICES ASSUME OneHandler PROVE Spec => []ListingsCurrent
  OBVIOUS
<1>1. Init => ListingsKept
  BY DEF Init, Done, ListingsKept, ListingsCurrent
<1>2. AdminInv /\ ListingsKept /\ [Next]_vars => ListingsKept'
  BY ListingStep
<1>3. ListingsKept => ListingsCurrent
  BY DEF ListingsKept
<1>. QED
  BY <1>1, <1>2, <1>3, AdminHolds, PTL DEF Spec

\* One request at a time, with the owner's commands in between and restarts
\* anywhere: when it is done, every approved device online was last sent what
\* the store says.  Two requests can break it, a deletion missing what the other
\* adds after its listing.
THEOREM ConfigsStayCurrent == OneHandler => (Spec => []ConfigCurrent)
<1> SUFFICES ASSUME OneHandler PROVE Spec => []ConfigCurrent
  OBVIOUS
<1>. QED
  BY ListingsHold, ConfigsFollowTheStore, PTL

\* Likewise no link entry outlives the peering it was touched for, though the
\* owner looks a peering up in one step and touches its entry in another.
THEOREM EntriesStayCurrent == OneHandler => (Spec => []EntriesCurrent)
<1> SUFFICES ASSUME OneHandler PROVE Spec => []EntriesCurrent
  OBVIOUS
<1>. QED
  BY ListingsHold, ConfigsFollowTheStore, PTL

----------------------------------------------------------------------------
(* The members of a network *)

\* The requests that have found room in network n and not used it yet.
Admitted(n) == {h \in Handlers : handler[h].op \in {"list", "insert"} /\ handler[h].net = n}

\* The members and those admitted, together.
RoomKept ==
    \A n \in Networks :
        /\ IsFiniteSet(MembersOf(n))
        /\ Cardinality(MembersOf(n)) + Cardinality(Admitted(n)) <= MaxDevicesPerNetwork + Cardinality(Handlers) - 1

\* Fewer members and fewer requests admitted keep the bound.
LEMMA FewerFit ==
    ASSUME IsFiniteSet(Handlers), RoomKept,
           \A n \in Networks : MembersOf(n)' \subseteq MembersOf(n) /\ Admitted(n)' \subseteq Admitted(n)
    PROVE  RoomKept'
<1> SUFFICES ASSUME NEW n \in Networks
             PROVE  /\ IsFiniteSet(MembersOf(n)')
                    /\ Cardinality(MembersOf(n)') + Cardinality(Admitted(n)')
                          <= MaxDevicesPerNetwork + Cardinality(Handlers) - 1
  BY DEF RoomKept
<1>1. /\ IsFiniteSet(MembersOf(n)')
      /\ Cardinality(MembersOf(n)') <= Cardinality(MembersOf(n))
  BY FS_Subset DEF RoomKept
<1>2. IsFiniteSet(Admitted(n)) /\ Cardinality(Admitted(n)) \in Nat
  BY FS_Subset, FS_CardinalityType DEF Admitted
<1>3. IsFiniteSet(Admitted(n)') /\ Cardinality(Admitted(n)') <= Cardinality(Admitted(n))
  BY <1>2, FS_Subset
<1>4. /\ Cardinality(MembersOf(n)) \in Nat /\ Cardinality(MembersOf(n)') \in Nat
      /\ Cardinality(Admitted(n)') \in Nat /\ Cardinality(Handlers) \in Nat
  BY <1>1, <1>3, FS_CardinalityType DEF RoomKept
<1>5. Cardinality(MembersOf(n)) + Cardinality(Admitted(n)) <= MaxDevicesPerNetwork + Cardinality(Handlers) - 1
  BY DEF RoomKept
<1>6. MaxDevicesPerNetwork \in Nat
  BY LimitAssumption
<1>. QED
  BY <1>1, <1>2, <1>3, <1>4, <1>5, <1>6

\* A request that finds room is one of the requests there are.
LEMMA CountKeepsRoom ==
    ASSUME IsFiniteSet(Handlers), AdminInv, RoomKept, NEW h \in Handlers, CountMembers(h)
    PROVE  RoomKept'
<1> DEFINE q == handler[h]
<1>1. q \in Counting /\ UNCHANGED member
  BY HandlerKinds DEF CountMembers, AdminInv, AdminType, store
<1>2. \A n : MembersOf(n)' = MembersOf(n)
  BY <1>1 DEF MembersOf
<1>3. CASE ~HasRoom(q.net)
  <2>1. handler' = [handler EXCEPT ![h] = Done]
    BY <1>3 DEF CountMembers, Becomes
  <2>2. \A n : Admitted(n)' \subseteq Admitted(n)
    BY <2>1 DEF Admitted, Done, AdminInv, AdminType, HandlerType
  <2>. QED
    BY <1>2, <2>2, FewerFit
<1>4. CASE HasRoom(q.net)
  <2>0. PICK m \in Networks : m = q.net
    BY <1>1 DEF Counting
  <2> DEFINE t == [q EXCEPT !.op = "list"]
  <2>1. handler' = [handler EXCEPT ![h] = t] /\ t.net = m
    BY <1>1, <2>0, <1>4 DEF CountMembers, Becomes, Counting
  <2>. HIDE DEF t
  <2>2. \A n \in Networks \ {m} : Admitted(n)' \subseteq Admitted(n)
    BY <2>1 DEF Admitted, AdminInv, AdminType, HandlerType
  <2>3. Admitted(m)' \subseteq Handlers
    BY DEF Admitted
  <2>4. IsFiniteSet(Admitted(m)') /\ Cardinality(Admitted(m)') <= Cardinality(Handlers)
    BY <2>3, FS_Subset
  <2>5. /\ IsFiniteSet(MembersOf(m))
        /\ Cardinality(MembersOf(m)) < MaxDevicesPerNetwork
    BY <1>4, <2>0 DEF HasRoom, RoomKept
  <2>6. /\ Cardinality(MembersOf(m)) \in Nat /\ Cardinality(Handlers) \in Nat
        /\ Cardinality(Admitted(m)') \in Nat
    BY <2>4, <2>5, FS_CardinalityType
  <2>7. Cardinality(MembersOf(m)) + Cardinality(Admitted(m)') <= MaxDevicesPerNetwork + Cardinality(Handlers) - 1
    BY <2>4, <2>5, <2>6, LimitAssumption
  <2>8. ASSUME NEW n \in Networks, n # m
        PROVE  Cardinality(MembersOf(n)) + Cardinality(Admitted(n)') <= MaxDevicesPerNetwork + Cardinality(Handlers) - 1
    <3>1. IsFiniteSet(Admitted(n)) /\ Admitted(n)' \subseteq Admitted(n)
      BY <2>2, <2>8, FS_Subset DEF Admitted
    <3>2. IsFiniteSet(Admitted(n)') /\ Cardinality(Admitted(n)') <= Cardinality(Admitted(n))
      BY <3>1, FS_Subset
    <3>3. /\ Cardinality(MembersOf(n)) \in Nat /\ Cardinality(Admitted(n)) \in Nat
          /\ Cardinality(Admitted(n)') \in Nat
      BY <3>1, <3>2, FS_CardinalityType DEF RoomKept
    <3>4. Cardinality(MembersOf(n)) + Cardinality(Admitted(n)) <= MaxDevicesPerNetwork + Cardinality(Handlers) - 1
      BY DEF RoomKept
    <3>. QED
      BY <2>6, <3>2, <3>3, <3>4, LimitAssumption
  <2>9. ASSUME NEW n \in Networks
        PROVE  /\ IsFiniteSet(MembersOf(n)')
               /\ Cardinality(MembersOf(n)') + Cardinality(Admitted(n)')
                     <= MaxDevicesPerNetwork + Cardinality(Handlers) - 1
    <3>1. MembersOf(n)' = MembersOf(n) /\ IsFiniteSet(MembersOf(n))
      BY <1>2 DEF RoomKept
    <3>2. Cardinality(MembersOf(n)) + Cardinality(Admitted(n)') <= MaxDevicesPerNetwork + Cardinality(Handlers) - 1
      BY <2>7, <2>8
    <3>. QED
      BY <3>1, <3>2
  <2>. QED
    BY <2>9 DEF RoomKept
<1>. QED
  BY <1>3, <1>4

\* A member that comes was admitted.
LEMMA AddKeepsRoom ==
    ASSUME IsFiniteSet(Handlers), AdminInv, RoomKept, NEW h \in Handlers, AddMember(h)
    PROVE  RoomKept'
<1> DEFINE q == handler[h]
<1>1. q \in Inserting /\ q.op = "insert" /\ q.net \in Networks /\ q.dev \in Devices
  BY HandlerKinds DEF AddMember, AdminInv, AdminType, Inserting
<1>2. PICK r : Becomes(h, r) /\ r.op \in {"ask", "none"}
  <2>1. Done.op = "none" /\ \A phases, push, prune, d : Asking(phases, push, prune, d).op = "ask"
    BY DEF Done, Asking
  <2>. QED
    BY <2>1 DEF AddMember
<1>3. handler' = [handler EXCEPT ![h] = r]
  BY <1>2 DEF Becomes
<1>4. \A n : Admitted(n)' = Admitted(n) \ {h}
  BY <1>2, <1>3 DEF Admitted, AdminInv, AdminType, HandlerType
<1>5. CASE ~MemberRowAllowed(q.net, q.dev, q.ip)
  <2>1. member' = member
    BY <1>5 DEF AddMember
  <2>2. \A n : MembersOf(n)' = MembersOf(n)
    BY <2>1 DEF MembersOf
  <2>. QED
    BY <1>4, <2>2, FewerFit
<1>6. CASE MemberRowAllowed(q.net, q.dev, q.ip)
  <2>1. member' = [member EXCEPT ![q.dev] = q.net] /\ member[q.dev] = NoNetwork
    BY <1>6 DEF AddMember, MemberRowAllowed
  <2>2. \A n \in Networks : MembersOf(n)' \subseteq IF n = q.net THEN MembersOf(n) \cup {q.dev} ELSE MembersOf(n)
    BY <1>1, <2>1 DEF MembersOf, AdminInv, AdminType, StoreType
  <2>3. ASSUME NEW n \in Networks
        PROVE  /\ IsFiniteSet(MembersOf(n)')
               /\ Cardinality(MembersOf(n)') + Cardinality(Admitted(n)')
                     <= MaxDevicesPerNetwork + Cardinality(Handlers) - 1
    <3>1. IsFiniteSet(Admitted(n)) /\ IsFiniteSet(MembersOf(n)) /\ Cardinality(Handlers) \in Nat
      BY FS_Subset, FS_CardinalityType DEF Admitted, RoomKept
    <3>2. Cardinality(Admitted(n)') = IF h \in Admitted(n) THEN Cardinality(Admitted(n)) - 1 ELSE Cardinality(Admitted(n))
      BY <1>4, <3>1, FS_RemoveElement
    <3>3. /\ IsFiniteSet(MembersOf(n) \cup {q.dev})
          /\ Cardinality(MembersOf(n) \cup {q.dev}) <= Cardinality(MembersOf(n)) + 1
          /\ Cardinality(MembersOf(n)) \in Nat /\ Cardinality(Admitted(n)) \in Nat
      <4>1. Cardinality(MembersOf(n)) \in Nat /\ Cardinality(Admitted(n)) \in Nat
        BY <3>1, FS_CardinalityType
      <4>2. PICK d : d = q.dev
        OBVIOUS
      <4>3. /\ IsFiniteSet(MembersOf(n) \cup {d})
            /\ Cardinality(MembersOf(n) \cup {d}) =
                  IF d \in MembersOf(n) THEN Cardinality(MembersOf(n)) ELSE Cardinality(MembersOf(n)) + 1
        BY <3>1, FS_AddElement
      <4>. QED
        BY <4>1, <4>2, <4>3
    <3>4. Cardinality(MembersOf(n)) + Cardinality(Admitted(n)) <= MaxDevicesPerNetwork + Cardinality(Handlers) - 1
      BY DEF RoomKept
    <3>5. CASE n = q.net
      <4>1. h \in Admitted(n)
        BY <1>1, <3>5 DEF Admitted
      <4>2. MembersOf(n)' \subseteq MembersOf(n) \cup {q.dev}
        BY <2>2, <3>5
      <4>3. IsFiniteSet(MembersOf(n)') /\ Cardinality(MembersOf(n)') <= Cardinality(MembersOf(n) \cup {q.dev})
        BY <3>3, <4>2, FS_Subset
      <4>4. Cardinality(MembersOf(n)') \in Nat /\ Cardinality(MembersOf(n) \cup {q.dev}) \in Nat
        BY <3>3, <4>3, FS_CardinalityType
      <4>. QED
        BY <3>1, <3>2, <3>3, <3>4, <4>1, <4>3, <4>4, LimitAssumption
    <3>6. CASE n # q.net
      <4>1. MembersOf(n)' \subseteq MembersOf(n)
        BY <2>2, <3>6
      <4>2. IsFiniteSet(MembersOf(n)') /\ Cardinality(MembersOf(n)') <= Cardinality(MembersOf(n))
        BY <3>1, <4>1, FS_Subset
      <4>3. Cardinality(MembersOf(n)') \in Nat
        BY <4>2, FS_CardinalityType
      <4>. QED
        BY <3>1, <3>2, <3>3, <3>4, <4>2, <4>3, LimitAssumption
    <3>. QED
      BY <3>5, <3>6
  <2>. QED
    BY <2>3 DEF RoomKept
<1>. QED
  BY <1>5, <1>6

\* No other step brings a member, or admits one.
LEMMA OtherKeepsRoom ==
    ASSUME IsFiniteSet(Handlers), AdminInv, RoomKept, [Next]_vars,
           \A h \in Handlers : ~CountMembers(h) /\ ~AddMember(h)
    PROVE  RoomKept'
<1>1. ASSUME member' = member \/ \E gone : Cascade(gone) PROVE \A n \in Networks : MembersOf(n)' \subseteq MembersOf(n)
  <2>1. \A d \in Devices : member'[d] = member[d] \/ member'[d] = NoNetwork
    BY <1>1 DEF Cascade
  <2>. QED
    BY <2>1, AbsenceAssumption DEF MembersOf
<1>2. ASSUME OwnerStep \/ (\E n \in Networks : CreateNetwork(n)) \/ UNCHANGED vars PROVE RoomKept'
  <2>1. UNCHANGED <<member, handler>>
    BY <1>2 DEF OwnerStep, Register, SessionEnded, ApproveDevice, Registered, FirstConfig, ReadNetwork,
                SendConfig, LookUp, Touch, CreateNetwork, vars, store
  <2>2. \A n : Admitted(n)' = Admitted(n)
    BY <2>1 DEF Admitted
  <2>. QED
    BY <1>1, <2>1, <2>2, FewerFit
<1>3. ASSUME NEW h \in Handlers, NEW r, Becomes(h, r),
             r.op \in {"list", "insert"} => handler[h].op \in {"list", "insert"} /\ r.net = handler[h].net
      PROVE  \A n : Admitted(n)' \subseteq Admitted(n)
  BY <1>3 DEF Becomes, Admitted, AdminInv, AdminType, HandlerType
<1>4. Done.op = "none" /\ \A phases, push, prune, d : Asking(phases, push, prune, d).op = "ask"
  BY DEF Done, Asking
<1>5. ASSUME NEW h \in Handlers, NEW n \in Networks, NEW d \in Devices, StartAddMember(h, n, d) PROVE RoomKept'
  <2> DEFINE r == [op |-> "count", net |-> n, dev |-> d]
  <2>1. Becomes(h, r) /\ r.op = "count" /\ UNCHANGED member
    BY <1>5 DEF StartAddMember, store
  <2>. HIDE DEF r
  <2>. QED
    BY <1>1, <1>3, <2>1, FewerFit
<1>6. ASSUME NEW h \in Handlers, ListMembers(h) PROVE RoomKept'
  <2> DEFINE free == (1 .. Hosts) \ {address[e] : e \in MembersOf(handler[h].net)}
             r == [op |-> "insert", net |-> handler[h].net, dev |-> handler[h].dev,
                   ip |-> Min(free), listed |-> MembersOf(handler[h].net)]
  <2>1. (Becomes(h, Done) \/ Becomes(h, r)) /\ handler[h].op = "list" /\ UNCHANGED member
    BY <1>6 DEF ListMembers, store
  <2>2. r.net = handler[h].net
    OBVIOUS
  <2>. HIDE DEF r
  <2>3. \A n : Admitted(n)' \subseteq Admitted(n)
    BY <1>3, <1>4, <2>1, <2>2
  <2>. QED
    BY <1>1, <2>1, <2>3, FewerFit
<1>7. ASSUME NEW h \in Handlers, PeeringStep(h) PROVE RoomKept'
  <2>1. ASSUME NEW n, NEW p, NEW id, CreatePeering(h, n, p, id) PROVE Becomes(h, Asking(<<"push">>, p, {}, NoDevice)) /\ UNCHANGED member
    BY <2>1 DEF CreatePeering
  <2>2. ASSUME NEW p, DeletePeering(h, p) PROVE Becomes(h, Asking(<<"push", "prune">>, p, {p}, NoDevice)) /\ UNCHANGED member
    BY <2>2 DEF DeletePeering
  <2>3. \A n : Admitted(n)' \subseteq Admitted(n)
    BY <1>3, <1>4, <1>7, <2>1, <2>2 DEF PeeringStep
  <2>4. member' = member
    BY <1>7, <2>1, <2>2 DEF PeeringStep
  <2>. QED
    BY <1>1, <2>3, <2>4, FewerFit
<1>8. ASSUME NEW h \in Handlers, NEW what, NEW n, NEW d, StartDelete(h, what, n, d) PROVE RoomKept'
  <2>1. Becomes(h, Listed("peerings", what, n, d, MembersOf(n))) /\ UNCHANGED member
    BY <1>8 DEF StartDelete, store
  <2>2. Listed("peerings", what, n, d, MembersOf(n)).op = "peerings"
    BY DEF Listed
  <2>3. \A m : Admitted(m)' \subseteq Admitted(m)
    BY <1>3, <2>1, <2>2
  <2>. QED
    BY <1>1, <2>1, <2>3, FewerFit
<1>9. ASSUME NEW h \in Handlers, ListPeerings(h) PROVE RoomKept'
  <2> DEFINE prune == {p \in Pairs : /\ peering[p] # NoPeering /\ NetworkOf(p) = handler[h].net
                                     /\ handler[h].dev # NoDevice => handler[h].dev \in p}
             r == [handler[h] EXCEPT !.op = "delete", !.prune = prune]
  <2>1. Becomes(h, r) /\ UNCHANGED member /\ handler[h] \in Deleting
    BY <1>9, HandlerKinds DEF ListPeerings, AdminInv, AdminType, store
  <2>2. r.op = "delete"
    <3>. HIDE DEF prune
    <3>. QED
      BY <2>1 DEF Deleting, Deletions
  <2>. HIDE DEF r
  <2>3. \A m : Admitted(m)' \subseteq Admitted(m)
    BY <1>3, <2>1, <2>2
  <2>. QED
    BY <1>1, <2>1, <2>3, FewerFit
<1>10. ASSUME NEW h \in Handlers, DeleteNetwork(h) \/ RemoveMember(h) \/ DeleteDevice(h) \/ GiveUp(h) PROVE RoomKept'
  <2>1. \E r : Becomes(h, r) /\ r.op \in {"ask", "none"}
    <3>1. CASE DeleteNetwork(h)
      BY <1>4, <3>1 DEF DeleteNetwork
    <3>2. CASE RemoveMember(h)
      BY <1>4, <3>2 DEF RemoveMember
    <3>3. CASE DeleteDevice(h)
      BY <1>4, <3>3 DEF DeleteDevice
    <3>4. CASE GiveUp(h)
      BY <1>4, <3>4 DEF GiveUp
    <3>. QED
      BY <1>10, <3>1, <3>2, <3>3, <3>4
  <2>2. member' = member \/ \E gone : Cascade(gone)
    BY <1>10 DEF DeleteNetwork, RemoveMember, DeleteDevice, GiveUp, store
  <2>3. \A n : Admitted(n)' \subseteq Admitted(n)
    BY <1>3, <2>1
  <2>. QED
    BY <1>1, <2>2, <2>3, FewerFit
<1>11. ASSUME NEW h \in Handlers, AskStep(h) PROVE RoomKept'
  <2>1. handler[h] \in Asked /\ UNCHANGED member
    BY <1>11, HandlerKinds DEF AskStep, AskPush, AllPushed, AskPrune, AskKick, KickCancelled, Phase,
                               AdminInv, AdminType, store
  <2>2. /\ \A s : [handler[h] EXCEPT !.phases = s].op = "ask"
        /\ \A d : [handler[h] EXCEPT !.push = @ \ {d}].op = "ask"
    BY <2>1 DEF Asked
  <2>3. \/ Becomes(h, Done) \/ \E s : Becomes(h, [handler[h] EXCEPT !.phases = s])
        \/ \E d : Becomes(h, [handler[h] EXCEPT !.push = @ \ {d}])
    BY <1>11 DEF AskStep, AskPush, AllPushed, AskPrune, AskKick, KickCancelled, NextPhase
  <2>4. \A n : Admitted(n)' \subseteq Admitted(n)
    BY <1>3, <1>4, <2>2, <2>3
  <2>. QED
    BY <1>1, <2>1, <2>4, FewerFit
<1>12. CASE Restart
  <2>1. \A n : Admitted(n)' = {}
    BY <1>12, <1>4 DEF Restart, Admitted
  <2>2. member' = member
    BY <1>12 DEF Restart, store
  <2>. QED
    BY <1>1, <2>1, <2>2, FewerFit
<1>. QED
  BY <1>2, <1>5, <1>6, <1>7, <1>8, <1>9, <1>10, <1>11, <1>12 DEF Next, AddMemberStep, DeleteStep

\* The members are counted and the row inserted in different steps: with any
\* number of requests at a time, the limit is passed by at most one member per
\* other request.
MembersNearLimit ==
    \A n \in Networks : Cardinality(MembersOf(n)) <= MaxDevicesPerNetwork + Cardinality(Handlers) - 1

THEOREM LimitNearlyKept == IsFiniteSet(Handlers) /\ Handlers # {} => (Spec => []MembersNearLimit)
<1> SUFFICES ASSUME IsFiniteSet(Handlers), Handlers # {} PROVE Spec => []MembersNearLimit
  OBVIOUS
<1>1. Init => RoomKept
  <2> SUFFICES ASSUME Init PROVE RoomKept
    OBVIOUS
  <2>1. \A n \in Networks : MembersOf(n) = {} /\ Admitted(n) = {}
    BY AbsenceAssumption DEF Init, MembersOf, Admitted, Done
  <2>2. Cardinality(Handlers) \in Nat /\ Cardinality(Handlers) # 0
    BY FS_EmptySet, FS_CardinalityType
  <2>3. 0 + 0 <= MaxDevicesPerNetwork + Cardinality(Handlers) - 1
    BY <2>2, LimitAssumption
  <2>4. IsFiniteSet({}) /\ Cardinality({}) = 0
    BY FS_EmptySet
  <2>. QED
    BY <2>1, <2>3, <2>4 DEF RoomKept
<1>2. AdminInv /\ RoomKept /\ [Next]_vars => RoomKept'
  BY CountKeepsRoom, AddKeepsRoom, OtherKeepsRoom
<1>3. RoomKept => MembersNearLimit
  <2> SUFFICES ASSUME RoomKept, NEW n \in Networks
               PROVE  Cardinality(MembersOf(n)) <= MaxDevicesPerNetwork + Cardinality(Handlers) - 1
    BY DEF MembersNearLimit
  <2>1. Cardinality(MembersOf(n)) \in Nat /\ Cardinality(Admitted(n)) \in Nat /\ Cardinality(Handlers) \in Nat
    BY FS_CardinalityType, FS_Subset DEF RoomKept, Admitted
  <2>. QED
    BY <2>1, LimitAssumption DEF RoomKept
<1>. QED
  BY <1>1, <1>2, <1>3, AdminHolds, PTL DEF Spec

\* One request at a time never passes it.
THEOREM LimitKept == OneHandler => (Spec => []MembersWithinLimit)
<1> SUFFICES ASSUME OneHandler PROVE Spec => []MembersWithinLimit
  OBVIOUS
<1>1. IsFiniteSet(Handlers) /\ Handlers # {} /\ Cardinality(Handlers) = 1
  BY FS_Singleton DEF OneHandler
<1>2. MembersNearLimit => MembersWithinLimit
  BY <1>1, LimitAssumption DEF MembersNearLimit, MembersWithinLimit
<1>. QED
  BY <1>1, <1>2, LimitNearlyKept, PTL
=============================================================================
