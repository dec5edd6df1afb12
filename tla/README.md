# A TLA+ model of GTun-Lite

GTun-Lite is a peer-to-peer virtual LAN: a server that approves devices, keeps
networks, members and peerings, and starts link attempts; and clients that
open a TUN device, probe their NAT, punch a UDP path to each peer and carry
IPv4 packets over it.  This directory holds TLA+ modules translated from the Go
sources, TLC configurations that check them on small instances, and proofs
checked by TLAPS.  `PROJECT.json` lists every run, the source lines each
definition stands for, the hazards the properties are aimed at, and a mutant
for every property: a plausible bug in one definition that the property
catches.

## 1. Inventory

### Server

| Component | State | Operations | Correct when |
|---|---|---|---|
| `hub.go`, `link.go`: the owner of all live state | session table, pending devices, link records, half-collected profiles | one goroutine serving commands: Register, SessionEnded, Heartbeat, HandleStateReport, HandleProfileReport, IssueConnect, IssueDisconnect, AutoConnectIdle, ApproveDevice, Kick, IssueQuery, PushConfig, PruneLinks, IsOnline, Snapshot | a link changes only for a reason, both ends of an attempt are told of it under one token, a replaced connection neither lingers nor acts, capacity holds |
| `control.go`: a connection | per session a read loop, a write loop, a bounded send queue, a death signal | register, read, dispatch to the owner, write, close after a last word | every connection that is not current is closed |
| `admin_api.go`, `store.go`, `schema/server.sql` | four tables: devices, networks, members, peerings | create and delete networks, add and remove members, create and delete peerings, delete devices, each followed by pushes, prunes or a kick | clients and link records follow the tables, limits and keys hold |
| `autoretry.go` | a switch and a ticking goroutine | Start, Stop, Set, a sweep per tick | restarts what is idle, nothing else |
| `hub.go` submit, run, Close | command queue, stop signal | submit a command, drain at stop | an error means "not executed" |
| `probe_reflector.go` | five UDP sockets | bind, serve, close | all five or none |
| `cmd/server/main.go` | the parts above, in the order they were built | start, wait, shut down | everything ends, the store last |
| `config.go`, `web.go` | start-up values, a page | load, validate | - |

### Client

| Component | State | Operations | Correct when |
|---|---|---|---|
| `control.go`: the control session | connection, reader goroutine, event loop | register, wait for the first configuration, report, relay, heartbeat, reconnect | what the server believes is eventually what the client has |
| `manager.go` | network, data stack, a worker per peering, event buffer | ApplyConfig, HandleConnect, HandleDisconnect, HandlePeerProfile, applyEvent, StateReport, Close | a milestone acts only on its own attempt, a connected link has a queue |
| `worker.go`: one attempt | sockets, helper pool, handshake tables, selected path, keepalive | probe, wait for the peer's profile, punch, handshake, deliver frames, keep alive, finish | both ends select one path, link1 follows link0 (section 3: not of every variable link0) |
| `scanplan.go` | a candidate stream | next port | each port at most once, all of them in the end |
| `dataplane.go`, `internal/tun` | TUN device, queue per link, routes | register, unregister, read and write loops, close | no send on a closed queue, no packet to a wrong peer |
| `cmd/gtunlib` | current session generation | Start, Stop, late end | the last Start decides |

`internal/common` holds the messages, identifiers and datagrams both sides use.

### How they interact

A client's control session is one TCP connection: a FIFO in each direction.
The server's read loop turns a line into a command for the owner, which takes
one command at a time; whatever it sends goes into the bounded queue of a
session and is written by that session's write loop.  HTTP handlers run
concurrently with the owner, read and write the SQLite store directly and ask
the owner for pushes, prunes and kicks afterwards; the owner reads the same
store.  Link state exists only in memory and in what clients report, and a
restart forgets it.  Between clients there is only UDP.

### What is hard

* sessions of one device replace each other while goroutines of the old one are
  still on their way to the owner;
* reports about attempts that are over, from connections that are over;
* CONNECT must reach both ends or count for neither;
* handlers read, write and notify in separate steps, several handlers at a
  time, against an owner that reads row by row;
* UDP loses, duplicates and reorders the messages of a handshake whose last
  message nobody acknowledges, over NATs that give each helper another address;
* event buffers, send queues and limits at their bound;
* stop and start of everything at any moment.

Each of these is listed at its line in `PROJECT.json` under `hazards`, with the
properties aimed at it, or the reason why none is.

## 2. Modules

| Module | Models |
|---|---|
| `LinkState` | one link record (`link.go`): issue, teardown, success, failure, adoption of a report |
| `Hub` | the owner, its commands and the two goroutines of every session |
| `CommandPromise` | what `submit` promises its callers: an error means "not executed" |
| `HubCommands` | submit, the owner goroutine and Close, which implement it |
| `ServerProcess` | the server from its first listener to its exit; composes `HubCommands` with the reflector, the accept loop, HTTP requests, the retry loop and `main` |
| `AdminApi` | the administrator's handlers against the store and the owner, step by step |
| `AdminRaces` | behaviours of `AdminApi` that start from approved devices and are about certain requests |
| `Punch` | one attempt between two clients: senders, receivers, handshake, the end of either side |
| `ScanPlan` | the ports tried against a variable side, as operators on the port space; `PunchScan` puts it beside `Punch` |
| `Client` | control session, manager, the stages of a worker, and what the server remembers of the client (through `LinkState`) |
| `DataPlane` | the loops, senders and queues between the TUN device and the links |
| `HubProofs`, `HubSafety` | theorems about `Hub`: types; sessions, profiles, attempts and capacity |
| `HubCommandsProofs`, `ServerProofs` | theorems about `HubCommands` and `ServerProcess` |
| `AdminProofs` | theorems about `AdminApi` and `AdminRaces` |
| `PunchProofs` | theorems about `Punch` and `ScanPlan` |
| `ClientProofs` | theorems about `Client` |
| `DataPlaneProofs` | theorems about `DataPlane` |
| `MCHub`, `MCHubLinks`, `MCAdminApi`, `MCAdminRaces`, `MCServer`, `MCPunch`, `MCClient`, `MCDataPlane` | instances for TLC: initial states to start a run from and bounds |

### LinkState and Hub

An owner command runs in one goroutine, so it is one action.  A session is a
record spread over `alive` (its `dead` channel), `queue` (its `send` channel),
`reader` (where its read loop is) and `held` (the report it has read and is
submitting): reading a message and having it served are separate steps, so a
report may have been read from a connection that is replaced before the owner
takes it.  `current` is the session table, `links` and `tracked` are the link
map (a pair that is not tracked has no entry; its record reads as the idle
link), `pending` the profiles half collected, `pendingDevices` the devices
waiting for approval.  Store rows the owner depends on - approved devices and
peerings - are variables too, changed by the administrator at any moment.

A full send queue blocks the owner up to the write timeout; then the message is
given up.  In the model a message either is queued or finds the queue full, and
what the code does on a failed delivery (end the session, go on) is part of the
same action.  Tokens and peering ids are random in the code and fresh in the
model; `issued` and `spentIds` remember which were handed out.  Clients may
report anything a decoded message can say about any token ever issued.

### AdminApi

Here the steps inside a command are the subject.  A handler is a program
counter with what it has read; each store call is a step, then pushes, prunes
and kick are asked of the owner one after another.  The owner's `register` and
`assembleConfig` are split at their store calls (`owner` says which command is
being served), because handlers write in between.  Foreign keys and unique
constraints of `schema/server.sql` are the guards and effects of the writes.
A configuration is what a client can tell apart: its network, its address, and
for each peering the pair, the peering id and the other address; names and
online flags are left out.  `told` is the last configuration sent on a session.

### Punch

Side 0 is link0.  `variable` says which side, if any, is behind a variable NAT.
A socket stands for its random id, an address for the mapping its NAT makes: a
stable NAT has one mapping per socket, a variable one another for the peer than
for the probe servers.  Datagrams are a set: whatever was sent
may arrive any number of times in any order or never.  The scan of a port range
may hit any mapping of any of the peer's sockets.  Timers are actions that may
happen at any time (deadline, keepalive timeout, the second between two
supplementary PUNCH_OKs).  Probing and the exchange of profiles are before this
module, in `Client`: it starts when the peer's profile has arrived.

### CommandPromise, HubCommands and ServerProcess

A call of `submit` goes from `idle` to `queued` (the caller is in its select),
is `taken` by the owner or refused, `executed`, and returns `ok`.  The command
channel has no buffer, so a call is either still the caller's or already the
owner's: that is why an error can promise that nothing happened.
`CommandPromise` has that contract alone; `Answer` maps the one to the other.

`ServerProcess` gives these calls their callers - registrations, ends of
sessions, requests, sweeps - and adds what `main` starts.  `deferred` is
the stack of its deferred calls, popped one by one, `listening`, `socket`,
`port` and `closing` are the reflector's goroutines, `connection` the control
connections, `request` the HTTP requests.  A signal, a failed bind, a failed
reply and a failed listener may come at any moment, start-up included.

What the code does and one may not expect: a probe port that fails to *read*
ends silently, since `serve` returns nil for every read error; only a failed
bind or reply brings the process down.  A reply that fails because the port was
closed a moment ago counts as such a failure, so a signal may end with exit
code 1.  And only an orderly shutdown waits for HTTP requests: after a failure
they may meet a closed store (`StoreOutlivesItsUsers` says so).

### Client

The client's three goroutines - reader, event loop and workers - and the
server as far as it concerns one client.  `down` and `up` are the connection;
`late` is what a reader of a lost session still has in its buffer.  A worker's
stage follows `run`: probing, waiting for the peer's profile, punching,
connected, finished; it emits milestones into `events`, which the event loop
applies (`ApplyEvent`) and then writes in a second step, the answer to a QUERY
likewise.  The server's record of a link is `LinkState`'s, its operators are
those `Hub` uses; the peer's reports are an action of the environment.
An attempt is named by its token, and `PeeringOf` fixes which link it is at.

`unplugged`, `misled` and `stray` are history, kept by no code.  They record
where the code loses something it cannot get back, and the properties leave
these attempts out (section 3).

### DataPlane

The read loop looks up a link and sends to its queue under the table's lock:
while it is `queueing` nobody else has the lock (`Unlocked`).  A sender takes
packets, encodes up to a batch and flushes it; a batch may be sent in part, the
rest is lost.  `UnregisterLink` closes the queue, and its sender empties it.
`Close` closes the table, cancels, closes the device and waits.  Packets are
numbers in the order of arrival, so that order and duplication can be told.

### ScanPlan

`Near`, `Sweep` and `Random` are the candidates of the three stages for a port
seen last and a number of helpers, computed as `scanplan.go` does, each with its
own test of what an earlier stage has sent.

## 3. Runs

`tlc -workers 2 -config <run>.cfg <MC module>` repeats a run.

| Run | Question | Bounds |
|---|---|---|
| `Hub_sessions` | registration, approval, replacement, refusal, kick, deletion and restart in every order | 2 devices, 3 connections (2 of one device), one place for approved and one for pending devices |
| `Hub_links` | CONNECT, DISCONNECT, retry, prune, kick and reports about any attempt, with sessions ending, and either being replaced or the pair unpaired and paired again | one pair, 2 peering ids, 2 attempts, 3 connections, 2 messages queued in all, 1 report waiting |
| `Hub_outsider` | a third device that knows peering and token reports a profile | 3 devices, one pair, 1 attempt |
| `Hub_liveness` | connections that ended leave the table, replaced ones are closed | 1 device, 2 connections |
| `Admin_serial` | every handler from the empty store, one request at a time | 3 devices, 1 network, 2 peering ids, a limit of 2 members |
| `Admin_concurrent` | two requests at a time: adding and pairing while sessions come and go; adding, pairing and deleting | 2 devices, 2 peering ids |
| `Punch_safety` | the handshake between two stable sides, or one that polls helpers and one that scans | 2 helpers a side, 1 re-send of PUNCH_OK |
| `Punch_heals` | link1 follows link0 under loss, between stable sides or with a variable link1; every port is tried once | 1 helper a side; a space of 32 ports, pools of 4, 8 and 16 helpers, a window of 2 |
| `Server_process` | what is open or running when the process ends, and that it ends | 1 connection, 1 request, 1 sweep, 2 probe ports, 2 calls of submit |
| `Client` | the data plane serves the right attempt; client and server agree when all is quiet; no link stays CONNECTING | 2 peerings, 2 attempts at one of them, 1 slot for events, 2 messages each way, 1 line left to a late reader, 1 lost session or unasked change |
| `Data_plane` | queues, order, Close | 2 links that replace each other, 2 peers, queues of 2 and 1, batches of 2, 4 packets |

Why these bounds: a replacement needs two connections of a device, a stale
report two attempts, a foreign report a third device, a race of handlers two of
them, a wrong choice of path two helpers beside the main socket, a full event
channel one event more than it holds, a lost update of the data plane two
attempts at one link.  More of the same kind repeats these constellations.  `MaxQueued` and `MaxHeld` bound what
waits in all queues together; a queue of depth two is full and empty within
that.  In the links runs the sessions are set up beforehand, since
`Hub_sessions` explores how they come to be.  `AdminRaces` adds
one variable, constant in a behaviour, that says which requests the behaviour
is about (`scenario`).

In `Client` every attempt is issued at most once and ends at most once,
so its two attempts with every order of messages are explored in full;
`MaxMoves` bounds only what needs no attempt (sessions lost, configurations
changed, a DISCONNECT, a QUERY, a report of the peer).  Its safety properties were also
explored with two such moves and pipes of one message (2.7 million states).
`ScanPlan`'s space of 32 ports has the ratios of the real one that matter: the
size is a multiple of every stride, a pool is at least four strides, and the
window is smaller than the smallest pool.  The stride is computed from the
scanner's own `helper_count`: that a pool is met four times takes two ends that are
configured alike.  Of a pool of a quarter of the
scanner's number one hit is certain.

One run must fail.  It states what the repository says of itself and shows
where the code does otherwise; `PROJECT.json` quotes the statement under
`findings`:

* `Client_zero_profile`: a probe stopped by a DISCONNECT or a new CONNECT is
  reported as a complete profile, an empty one, which the server's decoder
  rejects together with the whole session.

The models contain more behaviours of this kind, which no run is spent on:

* a replaced connection may be closed before it was told: its reader refuses a
  heartbeat (`Hub!Heartbeat`) before its writer got to `duplicate_login`;
* an active link may carry the reason of an earlier failure, when a snapshot
  re-activates it (`LinkState!AdoptClientReport`);
* a member added while its network is deleted keeps the configuration of a
  network that is gone, and two concurrent additions exceed the member limit:
  `ConfigCurrent` and `MembersWithinLimit` hold in `Admin_serial`, where
  requests come one at a time, so both are a matter of concurrency;
* `NoSplitConnect` is about the command that queues CONNECT for both ends; a
  connection that dies before its CONNECT is written leaves the record CONNECTING
  until the other end reports its timeout;
* `Hub!ApproveDevice` of a device that is online takes a place of
  `max_connections` nobody checked, and a device deleted while online enters
  the pending table past its limit: `RegisterKeepsCapacity` is the part that
  holds, what a registration itself may take;
* `AdminApi!Registered` upserts a device whose row was deleted since
  `Register` looked for it, as an approved one;
* `AdminApi!KickCancelled` leaves the session of a deleted device open;
* `AdminApi!Touch` makes a link entry for a peering deleted since `LookUp`;
* `Punch!HandlePunch` acknowledges every PUNCH, a connected link0's too, where
  section 4.2 of the punching document has PUNCH_OK only: link1 needs that ACK;
* `Punch`, a variable link0 that has committed: its beacon goes on through the
  selected helper, which by the comment at `worker.go:673` keeps triggering the
  supplementary PUNCH_OKs for a link1 that is late.  But link1 answers a beacon
  with an ACK, which a connected link0 drops, and with a reverse PUNCH the first
  time only (`reverseSent`), which was before link0 could commit.  If that one
  PUNCH, or the ACK to it, is lost, link1 has no association, drops every
  PUNCH_OK and runs into its deadline, unless its scan hits the selected port;
* `Client`, `unplugged`: a dropped WorkerConnected leaves a connected link
  without a queue in the data plane until its next attempt, where the comments
  at `worker.go:44` and `worker.go:1184` say only timeliness is lost;
* `Client`, `misled`: a snapshot or a QUERY's answer that a CONNECT, a
  DISCONNECT or an event overtook is adopted by the server.  The record keeps an
  old token, which the milestones of the running attempt no longer match; or it
  goes back from CONNECTED to CONNECTING, and the milestone that would say
  otherwise has already been read;
* `Client`, `stray`: the reader of a lost session still acts on the lines it
  had buffered, an old configuration or command included, after the next
  session has begun.

### Fairness

`Hub!FairSpec`: the two goroutines of a session run, reads on a closed
connection fail, writes finish or fail at their deadline, and the owner serves
what is submitted: weak fairness of each.  Nothing is assumed of clients,
administrators or the network.

`Punch!Patience` is about the time before the punching budget ends.  Senders
keep their intervals: weak fairness of link1's direct PUNCHes and of its helper on
the path link0 selected (`Repunch`), and of the second between two supplementary
PUNCH_OKs.  A path that is open does not lose
every repetition of a datagram: strong fairness of delivering a PUNCH, an ACK and
a PUNCH_OK on that path.  Nothing is assumed of a datagram that is not repeated,
and any single one may be lost.  The scan for a variable side is not fair: its
stream has every port once, and the budget is enough for about 5000 of 64512.

So `Link1Follows` is claimed where some sender of link1 repeats its PUNCH on the
selected path (`StillPunched`): between stable sides, and when link0 selected a
helper of a variable link1.  It does not hold of a variable link0, as described
above, nor if link0 committed to the main socket of a variable link1: there
link1's only PUNCH is the reverse one it sends once, and if that is lost the
attempt runs into its deadline.

`ServerProcess!Fairness`: `main`, the reflector's goroutines, the owner and the
callers it has answered go on, the accept loop closes its listener, and a
request ends; nothing makes a signal, a failure or a request come.

`Client!Fairness`: a worker's timers (probe, profile wait, budget)
run out, it notices that it was stopped, both loops of the session and the
server's reader run, and the client dials again when the connection is gone.
That a CONNECT, a profile or a datagram arrives is not assumed.
Nothing ends a worker that is connected: a tunnel may last for ever.

`DataPlane!Fairness`: the loops and senders go on, the read of a closed device
fails, and `Close` proceeds; nothing makes packets arrive.

## 4. Proofs

The theorems hold for every value of the constants, not only for those of the
runs: any number of devices, connections, attempts, peerings, requests, sockets
and packets, and any limits and queue sizes that satisfy the assumptions.  The
assumptions are the `ASSUME`s of the modules: sentinels are not members of the
sets they stand beside, sizes are positive, limits are natural numbers.  Others
are named below.  The inductive invariants of `Client`, the
largest, were explored by TLC on its instance before they were proved.

### Hub

`HubProofs` proves `Spec => []TypeOK`.  `HubSafety` builds on it:

* `TokensPaired`: `Paired(links[p])` is inductive by itself over LinkState's
  operators, one lemma per operator.
* `SessionsCorrect`, `SessionTableCorrect`, `PendingDevicesCorrect`: `LastWord`,
  `SessionTable` and `PendingDevicesConsistent` together.  None is inductive
  alone: that a replaced connection is closed or has a last word queued needs to
  know which readers may still be current, and that the session table holds only
  connections that registered for the device; that a pending device is online
  needs the table.  The inductive invariant `SessionInv` is their conjunction with
  the states a reader may be in.
* `ProfilesCorrect`, `ProfilesAreReal`: `HalfCollected` and `RealProfiles`, from
  the fact that a profile is collected only for an end of the pair the peering
  names.
* `BothEndsHear` (`NoSplitConnect`) and `LinksMoveOnlyForAReason`
  (`LinksMoveForAReason`) are about steps.  They need `TokensIssued`: a report can
  only name a token that was issued, so a token that is new to a record is a fresh
  one, and only `IssueConnectCommand` and the retry sweep make one.
* `RegistrationKeepsCapacity` (`RegisterKeepsCapacity`): the cardinalities are of
  finite sets, since a step adds at most one online device (`OnlineFinite`), and the
  subtraction in `ApprovedOnline` is of a subset (`PendingDevicesConsistent`, before
  and after the step).

### Admin API

`AdminProofs` works with any number of requests at once.

* `AdminTypes`, `AddressesStayDistinct`, `PeeringsStayWithinNetwork` (`TypeOK`,
  `AddressesDistinct`, `PeeringsWithinNetwork`): the inductive invariant
  `AdminInv` is the types and `Integrity`, what foreign keys, cascades and
  UNIQUE carry.  Every write of a handler or of the owner is one of the few moves
  of the store that preserve it (`StoreMove`), whatever the request had read.
* `ConfigsFollowTheStore`: `ConfigCurrent` and `EntriesCurrent` hold in every
  behaviour in which a deletion that has listed what it will tell
  (`ListingsCurrent`) still finds that when it deletes.  This is the exact
  boundary between the race described in section 3 and the rest.  The inductive
  invariant `FollowInv` says of every device online that its push is still to come
  from a request, or that the owner is assembling its configuration from rows that
  are current, or that it was last told what the store says; and of every link entry
  that its peering exists or its prune is to come.
* `GrowthIsFollowed`: the hypothesis holds when nothing is deleted, so
  any number of additions and pairings may run at once.  `GrowthRaces`
  (`ConfigCurrentWhileGrowing`) says so of the behaviours `Admin_concurrent`
  explores, from any approved devices and members.
* `ConfigsStayCurrent`, `EntriesStayCurrent`: it holds with one request at a time
  (`OneHandler`), deletions included; that is `Admin_serial` for any store.
* `LimitKept` (`MembersWithinLimit`, `OneHandler`) and `LimitNearlyKept`: with n
  requests at once the limit of members is passed by n - 1 at most.  The
  inductive invariant `RoomKept` counts the members and the requests
  that found room and have not used it yet, in one sum.  Handlers must be
  finite and not empty.

### Punch

`PunchProofs` proves `TypeOK`, `PathsMirror`, `Link0First`, `SelectedPathOpen`
and the action property `PathNeverMoves` of `Punch`, for any number of helper
sockets, whichever side is variable, and any number of re-sends.  None of the
four invariants is inductive: that link1's path is link0's own seen from the
other end depends on which PUNCH_OKs may still be on their way.  The inductive
invariant therefore says what a datagram proves: it was sent from a socket that
was open, and a PUNCH_OK goes along the path link0 has committed to (`OKs`),
which is aimed at a socket link1 opened (`Aimed`).  With `Life` (nothing is
committed while punching; a connected side keeps its socket) a PUNCH_OK that
link1 accepts can only give the mirror image (`Mirror`).  The assumptions are
`SocketAssumption` (the sides' sockets are disjoint), `NATAssumption` (not both
sides are variable), `CountAssumption` and `AbsenceAssumption`.

`PlanIsComplete` is about `ScanPlan`, for any port space, window, tiers of helpers
and port seen last: each predicate (`NearMember`, `SweepMember`) holds exactly
of the ports its stage emits, so the stages part the space; the first repeats
none, since the window is less than half the ring; and four strides fit in every
pool.  `SpaceAssumption` and `PoolAssumption` say the last two of the constants
(10 in 64512, and 256 helpers or more, in the code).  `ScanFindsEveryPool`
(`ScanFindsThePool`) follows.

### Client

`ClientProofs`, from the bottom up:

* `ClientTypes` (`ClientTypeOK`): the inductive invariant `IssuedInv` adds that
  everything that names an attempt - a worker, an event, a report, a line -
  names one that was issued and belongs to its peering.
* `QueuesFollowWorkers` (`QueuesMatchWorkers`): `QueueInv` adds that a
  `connected` event is about a tunnel that is up, and that a CONNECT is on its way at
  most once and to a worker that has not begun; otherwise a second one could replace
  a worker by itself.
* `QuietEndsAgree` (`QuietMeansAgreed`) is about rest; its invariants say what is
  on its way when there is no rest.  `ConfigInv`: the last configuration in the
  pipe is the server's, and if there is none, it has been applied.  `RecordInv`:
  of a link the server shows, its attempt's failure is still to be read by the server
  (`FailureComes`), or its worker runs and nothing in the pipe will end it (`Runs`),
  or its CONNECT is to come and nothing behind it will end it (`StillToRun`).
  In rest the first and the last are impossible.  The three exceptions `unplugged`,
  `misled` and `stray` of the model are in the invariants as they are in the
  properties.

`FiniteAssumption`: a configuration has finitely many peerings.
`NetworkAssumption` and `EventAssumption`: no network and no event are not one
of them.

### Data plane

`DataPlaneProofs`:

* `DataTypes`, `NoSendOnClosed` (`DataTypeOK`, `NoSendOnClosedChannel`): by one
  inductive invariant that says which channel belongs to which entry of the
  table: the table's links are open, and what the read loop found while it holds the
  lock is still in the table.
* `NothingRunsOn` (`NothingRunsAfterClose`): how far `Close` is tells what it has
  stopped, and without a cancelled context only a closed and empty queue ends a
  sender (`CloseInv`).
* `PacketsInOrder` (`InOrder`): the frames a link has sent, those in its batch and
  its queue form one ascending sequence (`LinksInOrder`); no packet is on two links.
  `InOrder` compares neighbours; the invariant every two packets, because a loss
  makes others neighbours.

### Command queue and server process

`HubCommandsProofs` proves that `HubCommands` implements `CommandPromise`
(`PromiseKept`) for any set of calls, of which any may give up.  The inductive
invariant is `HubTypeOK /\ Handed`: the owner executes the command that
was handed over and no other, so that a call is refused only while it is still the
caller's.  The assumption is `CallAssumption` (the sentinel is no call).

`ServerProofs` uses it: every step of `ServerProcess` is a step of `HubCommands` or
leaves its variables alone, so the promise is kept in the process as well
(`ServerKeepsItsPromise`), and the type theorem and `Handed` come with it.
`ServerTypes`, `StoreIsLast` and `NothingStaysOpen` (`ServerTypeOK`,
`StoreOutlivesItsUsers`, `NothingLeftOpen`) follow from `ServerInv`: the deferred
calls that are left tell how far the process has come down (`MainInv`), what of
the reflector can be open where it is (`ReflectorInv`), and whose connections
the owner has closed (`SessionsClosed`).

### Only model-checked

Liveness: the run `Hub_liveness`, `NoLinkHangs`, `CloseEnds`, `ProcessEnds` and
`Link1Follows` are out of the prover's reach.  Every safety and every step
property that a passing run checks is a theorem.

## 5. Not modelled, and the plan

What is left to prove: that `Hub` implements an abstract link (idle, under
way, up), as an administrator and a client see it, of which
`LinksMoveForAReason` is the part about steps.

Not modelled:

* the two clients of a link and the server in one module: `Client` takes the
  server's side of one client, `Hub` any reports a client could send, and
  `Punch` the two ends between them; their product is beyond what TLC explores
  in minutes, and the interfaces are the messages all three share;
* a refused registration, heartbeats and their timeout: to a client they are a
  lost session, which `Client` loses at any moment;
* the probe's exchange with the reflector, and how a profile is classified:
  `Punch` starts from the classification, `ServerProcess` from the sockets;
* `AutoRetry.Stop`, which no production code calls;
* the Android library and the client's `main`: each wraps one control session;
* address allocation beyond "the lowest free address of the list that was read",
  the line reader and the text of messages;
* operating system devices and routes, configuration and identity files, the
  start-up checks, the web page, logging and notices, the NAT simulator and the
  end-to-end scripts.
