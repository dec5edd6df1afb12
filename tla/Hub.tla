-------------------------------- MODULE Hub --------------------------------
(***************************************************************************)
(* The server's control plane: the hub, owner of sessions and links        *)
(* (src/internal/server/hub.go, link.go, autoretry.go), the two goroutines *)
(* of every TCP session around it (src/internal/server/control.go) and the *)
(* rows of the store the hub reads (src/internal/server/store.go).         *)
(*                                                                         *)
(* The owner goroutine executes one command at a time, so a command is one *)
(* action.  A session's read loop holds at most one decoded message while  *)
(* it waits for the owner; that message survives the end of its session,   *)
(* which is where replaced sessions and late messages meet.                *)
(*                                                                         *)
(* Clients and administrators are open here: a session may present any     *)
(* well-formed message about any attempt ever issued.                      *)
(***************************************************************************)
EXTENDS Naturals, Sequences, SequencesExt, FiniteSets, LinkState

CONSTANTS
    Devices,             \* device identities
    Sessions,            \* TCP connections, each used once
    Owner,               \* the device a connection registers for
    PeeringIds,          \* what common.GeneratePeeringID may return
    Profiles,            \* NAT profiles a probe may yield
    MaxConnections,      \* control.max_connections
    PendingDeviceLimit,  \* pendingDeviceLimit (128)
    SendQueueDepth,      \* sendQueueDepth (64)
    NoSession, NoPeering, NoProfile, NoMessage

ASSUME OwnerAssumption == Owner \in [Sessions -> Devices]
ASSUME LimitAssumption == /\ MaxConnections \in Nat
                          /\ PendingDeviceLimit \in Nat
                          /\ SendQueueDepth \in Nat \ {0, 1}
ASSUME AbsenceAssumption == /\ NoSession \notin Sessions
                            /\ NoPeering \notin PeeringIds
                            /\ NoProfile \notin Profiles

VARIABLES
    \* the store
    devices,         \* approved devices
    peering,         \* the peering id of every pair, or NoPeering
    spentIds,        \* peering ids handed out so far
    \* hubState
    current,         \* sessions: the current session of a device, or NoSession
    links,           \* the link record of every pair (IdleLink when untracked)
    tracked,         \* the pairs that are keys of the links map
    pending,         \* the profiles collected for every pair's attempt
    pendingDevices,  \* registered but not approved
    issued,          \* tokens handed out so far
    \* one entry per session
    queue,           \* its send channel
    alive,           \* its dead channel is open
    reader,          \* where its read loop is
    held             \* the message its read loop waits on the owner with

store   == <<devices, peering, spentIds>>
tables  == <<links, tracked, pending, issued>>
online  == <<current, pendingDevices>>
session == <<queue, alive, reader, held>>
vars    == <<devices, peering, spentIds, current, links, tracked, pending,
             pendingDevices, issued, queue, alive, reader, held>>

Pairs == {{q[1], q[2]} : q \in {r \in Devices \X Devices : r[1] # r[2]}}

PairsOf(d) == {p \in Pairs : d \in p}

----------------------------------------------------------------------------
(* Messages *)

\* A mutant of Config: pairs without a peering are listed too.
ConfigOfEveryPair(d) == [type |-> "network_config", peers |-> {<<p, peering[p]>> : p \in PairsOf(d)}]

Config(d) == [type  |-> "network_config",
              peers |-> {<<p, peering[p]>> : p \in {q \in PairsOf(d) : peering[q] # NoPeering}}]
Connect(p, t)        == [type |-> "connect", peering |-> peering[p], token |-> t]
Disconnect(p, t)     == [type |-> "disconnect", peering |-> peering[p], token |-> t]
PeerProfile(p, t, x) == [type |-> "peer_profile", peering |-> peering[p], token |-> t, profile |-> x]
Plain(type)          == [type |-> type]

\* What the server writes.
Outbound ==
         [type : {"device_registered", "query", "duplicate_login", "error"}]
    \cup [type : {"network_config"}, peers : SUBSET (Pairs \X PeeringIds)]
    \cup [type : {"connect", "disconnect"}, peering : PeeringIds, token : Tokens]
    \cup [type : {"peer_profile"}, peering : PeeringIds, token : Tokens, profile : Profiles \cup {NoProfile}]

\* Messages the writer closes the connection after.
ClosesAfter(m) == m.type \in {"duplicate_login", "error"}

\* StateReport.Validate: a snapshot pairs state and token, a transition always
\* names its attempt and only ever reports an outcome.
Snapshots(ts) ==
         [state : {"IDLE"}, token : {NoToken}, reason : {NoReason}]
    \cup [state : {"CONNECTING", "CONNECTED"}, token : ts, reason : {NoReason}]
Transitions(ts) ==
         [state : {"CONNECTED"}, token : ts, reason : {NoReason}]
    \cup [state : {"IDLE"}, token : ts, reason : Reasons]

\* What a client sends after registration, about the attempts ts.
StateReports(ts) ==
         [type : {"state_report"}, full : {TRUE},
          entries : UNION {[S -> Snapshots(ts)] : S \in SUBSET PeeringIds}]
    \cup [type : {"state_report"}, full : {FALSE},
          entries : UNION {[{id} -> Transitions(ts)] : id \in PeeringIds}]
ProfileReports(ts) == [type : {"profile_report"}, peering : PeeringIds, token : ts, profile : Profiles]
Inbound(ts) == StateReports(ts) \cup ProfileReports(ts)
               \cup [type : {"device_heartbeat", "device_unregister"}]

----------------------------------------------------------------------------
(* Sessions: deliver, end, and the batch of messages a command sends *)

Online(d) == current[d] # NoSession

\* The sequence mail[d] goes to the current session of every device d.
ToCurrent(mail) == [s \in Sessions |-> IF current[Owner[s]] = s THEN mail[Owner[s]] ELSE <<>>]

Fits(s, messages) == Len(queue[s]) + Len(messages) <= SendQueueDepth

\* deliver on every session at once.  A full queue blocks the owner; a writer
\* that drains it in time is a Write before this step, one that does not makes
\* deliver fail and the caller end the session.
Deliver(batch) ==
    LET stalled(s) == batch[s] # <<>> /\ ~Fits(s, batch[s])
    IN /\ alive' = [s \in Sessions |-> alive[s] /\ ~stalled(s)]
       /\ queue' = [s \in Sessions |-> CASE ~alive[s] \/ stalled(s) -> <<>>
                                         [] OTHER                   -> queue[s] \o batch[s]]

\* end: what is still in the send channel is never written.
End(s) ==
    /\ alive' = [alive EXCEPT ![s] = FALSE]
    /\ queue' = [queue EXCEPT ![s] = <<>>]

\* deliver by the session's own goroutine: rejectSession.
RejectSession(s) ==
    IF alive[s] /\ Fits(s, <<Plain("error")>>)
    THEN /\ queue' = [queue EXCEPT ![s] = Append(@, Plain("error"))]
         /\ UNCHANGED alive
    ELSE End(s)

----------------------------------------------------------------------------
(* Owner commands: registration and the end of a session *)

\* approvedOnlineCount: derived from the two tables.
ApprovedOnline == Cardinality({d \in Devices : Online(d)})
                  - Cardinality({d \in pendingDevices : Online(d)})

\* A mutant of ConnectionLimit: one device too many.
ConnectionLimitOffByOne(d) ==
    /\ ~Online(d)
    /\ IF d \in devices THEN ApprovedOnline > MaxConnections
                        ELSE Cardinality(pendingDevices) >= PendingDeviceLimit

\* The capacity check only meets a device that has no session yet.
ConnectionLimit(d) ==
    /\ ~Online(d)
    /\ IF d \in devices THEN ApprovedOnline >= MaxConnections
                        ELSE Cardinality(pendingDevices) >= PendingDeviceLimit

\* Connection s presents device_register.
Register(s) ==
    LET d == Owner[s]
    IN /\ reader[s] = "registering" /\ alive[s]
       /\ ~ConnectionLimit(d)
       /\ pendingDevices' = IF d \in devices THEN pendingDevices ELSE pendingDevices \cup {d}
       /\ current' = [current EXCEPT ![d] = s]
       /\ reader' = [reader EXCEPT ![s] = "reading"]
       /\ Deliver([x \in Sessions |->
                     CASE x = s          -> <<Plain("device_registered"), Config(d)>>
                       [] x = current[d] -> <<Plain("duplicate_login")>>
                       [] OTHER          -> <<>>])
       /\ UNCHANGED <<store, tables, held>>

\* Registration refused: the writer closes the connection after the error and
\* no read loop is ever entered.
RefuseRegister(s) ==
    /\ reader[s] = "registering" /\ alive[s]
    /\ ConnectionLimit(Owner[s])
    /\ reader' = [reader EXCEPT ![s] = "gone"]
    /\ RejectSession(s)
    /\ UNCHANGED <<store, tables, online, held>>

\* Mutants of SessionEnded: any connection of the device takes it offline; the
\* session table is not updated.
AnySessionEnded(s) ==
    /\ reader[s] = "ended"
    /\ reader' = [reader EXCEPT ![s] = "gone"]
    /\ current' = [current EXCEPT ![Owner[s]] = NoSession]
    /\ pendingDevices' = pendingDevices \ {Owner[s]}
    /\ UNCHANGED <<store, tables, queue, alive, held>>
SessionEndedUnnoticed(s) ==
    /\ reader[s] = "ended"
    /\ reader' = [reader EXCEPT ![s] = "gone"]
    /\ UNCHANGED <<store, tables, online, queue, alive, held>>

\* The read loop has ended the session; only a current one leaves the tables.
SessionEnded(s) ==
    /\ reader[s] = "ended"
    /\ reader' = [reader EXCEPT ![s] = "gone"]
    /\ IF current[Owner[s]] = s
       THEN /\ current' = [current EXCEPT ![Owner[s]] = NoSession]
            /\ pendingDevices' = pendingDevices \ {Owner[s]}
       ELSE UNCHANGED online
    /\ UNCHANGED <<store, tables, queue, alive, held>>

----------------------------------------------------------------------------
(* The two goroutines of a session *)

Reading(s) == reader[s] = "reading" /\ held[s] = NoMessage

\* The read loop decodes message m and submits it to the hub.
Read(s, m) ==
    /\ Reading(s) /\ alive[s]
    /\ held' = [held EXCEPT ![s] = m]
    /\ UNCHANGED <<store, tables, online, queue, alive, reader>>

\* A malformed message, or one of the wrong direction: error, then leave.
RejectInbound(s) ==
    /\ Reading(s) /\ alive[s]
    /\ reader' = [reader EXCEPT ![s] = "leaving"]
    /\ RejectSession(s)
    /\ UNCHANGED <<store, tables, online, held>>

\* The peer is gone, the heartbeat timeout expired, or the session was ended.
ReadFails(s) ==
    /\ Reading(s)
    /\ reader' = [reader EXCEPT ![s] = "leaving"]
    /\ UNCHANGED <<store, tables, online, queue, alive, held>>

\* The deferred sess.end() of the read loop ("silenced": a heartbeat found the
\* session replaced).
Leave(s) ==
    /\ reader[s] \in {"leaving", "silenced"}
    /\ reader' = [reader EXCEPT ![s] = "ended"]
    /\ End(s)
    /\ UNCHANGED <<store, tables, online, held>>

\* A mutant of Write: the connection stays open after a last word.
WriteStaysOpen(s) ==
    /\ alive[s] /\ queue[s] # <<>>
    /\ queue' = [queue EXCEPT ![s] = Tail(@)]
    /\ UNCHANGED <<store, tables, online, alive, reader, held>>

\* runWriter takes the next message and writes it, closing after a last word.
Write(s) ==
    /\ alive[s] /\ queue[s] # <<>>
    /\ IF ClosesAfter(Head(queue[s]))
       THEN End(s)
       ELSE queue' = [queue EXCEPT ![s] = Tail(@)] /\ UNCHANGED alive
    /\ UNCHANGED <<store, tables, online, reader, held>>

\* The write times out or the connection is broken.
WriteFails(s) ==
    /\ alive[s] /\ queue[s] # <<>>
    /\ End(s)
    /\ UNCHANGED <<store, tables, online, reader, held>>

----------------------------------------------------------------------------
(* Owner commands: what a session reports *)

Holds(s, type) == held[s] # NoMessage /\ held[s].type = type

IsCurrent(s) == current[Owner[s]] = s

Take(s) == held' = [held EXCEPT ![s] = NoMessage]

\* A report of a session that is not current: error, then leave.
RefuseReport(s) ==
    /\ reader' = [reader EXCEPT ![s] = "leaving"]
    /\ RejectSession(s)
    /\ UNCHANGED <<store, tables, online>>

Heartbeat(s) ==
    /\ Holds(s, "device_heartbeat")
    /\ Take(s)
    /\ IF IsCurrent(s) THEN UNCHANGED reader
                       ELSE reader' = [reader EXCEPT ![s] = "silenced"]
    /\ UNCHANGED <<store, tables, online, queue, alive>>

Unregister(s) ==
    /\ Holds(s, "device_unregister")
    /\ Take(s)
    /\ reader' = [reader EXCEPT ![s] = "leaving"]
    /\ UNCHANGED <<store, tables, online, queue, alive>>

\* A mutant of Reported: the reporter need not be an end of the pair.
ReportedByAnyone(d, ids) == {p \in Pairs : peering[p] \in ids}

\* The pairs the entries of a report speak of: known peerings the reporter is
\* an end of.
Reported(d, ids) == {p \in PairsOf(d) : peering[p] \in ids}

AdoptEntry(link, entry, full) ==
    CASE full                                      -> AdoptClientReport(link, entry.state, entry.token)
      [] ~full /\ entry.state = "CONNECTED"        -> ReportSuccess(link, entry.token)
      [] ~full /\ entry.state # "CONNECTED"        -> ReportFailure(link, entry.token, entry.reason)

HandleStateReport(s) ==
    LET m       == held[s]
        touched == Reported(Owner[s], DOMAIN m.entries)
    IN /\ Holds(s, "state_report")
       /\ Take(s)
       /\ \/ /\ IsCurrent(s)
             /\ links' = [p \in Pairs |-> IF p \in touched
                                          THEN AdoptEntry(links[p], m.entries[peering[p]], m.full)
                                          ELSE links[p]]
             /\ tracked' = tracked \cup touched
             /\ UNCHANGED <<store, pending, issued, online, queue, alive, reader>>
          \/ ~IsCurrent(s) /\ RefuseReport(s)

Uncollected == [token |-> NoToken, sides |-> [d \in Devices |-> NoProfile]]

\* The profiles of pair p for attempt t once d has reported x: the first report
\* of a side counts, and another attempt's collection is discarded.
Collect(p, t, d, x) ==
    LET kept == IF pending[p].token = t THEN pending[p].sides ELSE Uncollected.sides
    IN [token |-> t, sides |-> IF kept[d] = NoProfile THEN [kept EXCEPT ![d] = x] ELSE kept]

\* Two sides are in, whoever they are.
Complete(collected) ==
    \E d, e \in Devices : d # e /\ collected.sides[d] # NoProfile /\ collected.sides[e] # NoProfile

Other(p, d) == CHOOSE e \in p : e # d

\* A mutant of AdoptProfile: a collection that was handed out stays.
AdoptProfileForgetsNothing(p, t, d, x) ==
    LET collected == Collect(p, t, d, x)
        mail      == [e \in Devices |->
                        IF e \in p THEN <<PeerProfile(p, t, collected.sides[Other(p, e)])>> ELSE <<>>]
    IN /\ pending' = [pending EXCEPT ![p] = collected]
       /\ IF Complete(collected) THEN Deliver(ToCurrent(mail)) ELSE UNCHANGED <<queue, alive>>

\* One side's profile joins the collection of pair p; a complete collection is
\* handed out, every side getting the other's profile.
AdoptProfile(p, t, d, x) ==
    LET collected == Collect(p, t, d, x)
        mail      == [e \in Devices |->
                        IF e \in p THEN <<PeerProfile(p, t, collected.sides[Other(p, e)])>> ELSE <<>>]
    IN IF Complete(collected)
       THEN pending' = [pending EXCEPT ![p] = Uncollected] /\ Deliver(ToCurrent(mail))
       ELSE pending' = [pending EXCEPT ![p] = collected] /\ UNCHANGED <<queue, alive>>

HandleProfileReport(s) ==
    LET m == held[s]
        d == Owner[s]
    IN /\ Holds(s, "profile_report")
       /\ Take(s)
       /\ \/ /\ IsCurrent(s)
             /\ tracked' = tracked \cup Reported(d, {m.peering})
             /\ \/ \E p \in Reported(d, {m.peering}) :
                      /\ links[p].state = "CONNECTING" /\ links[p].token = m.token
                      /\ AdoptProfile(p, m.token, d, m.profile)
                \/ /\ \A p \in Reported(d, {m.peering}) :
                         links[p].state # "CONNECTING" \/ links[p].token # m.token
                   /\ UNCHANGED <<pending, queue, alive>>
             /\ UNCHANGED <<store, links, issued, online, reader>>
          \/ ~IsCurrent(s) /\ RefuseReport(s)

----------------------------------------------------------------------------
(* Owner commands: administration *)

\* A mutant of BothOnline: one end is enough.
OneOnline(p) == \E d \in p : Online(d)

BothOnline(p) == \A d \in p : Online(d)

FreshTokens == Tokens \ issued

\* CONNECT: both ends online, then a fresh attempt for both of them.
IssueConnectCommand(p) ==
    /\ peering[p] # NoPeering /\ BothOnline(p)
    /\ \E t \in FreshTokens :
          /\ issued'  = issued \cup {t}
          /\ links'   = [links EXCEPT ![p] = IssueConnect(@, t)]
          /\ pending' = [pending EXCEPT ![p] = Uncollected]
          /\ Deliver(ToCurrent([d \in Devices |-> IF d \in p THEN <<Connect(p, t)>> ELSE <<>>]))
    /\ tracked' = tracked \cup {p}
    /\ UNCHANGED <<store, online, reader, held>>

\* DISCONNECT: the attempt's token, or a placeholder for an idle link.
IssueDisconnectCommand(p) ==
    /\ peering[p] # NoPeering /\ BothOnline(p)
    /\ \E t \in IF links[p].token = NoToken THEN FreshTokens ELSE {links[p].token} :
          /\ issued' = issued \cup {t}
          /\ Deliver(ToCurrent([d \in Devices |-> IF d \in p THEN <<Disconnect(p, t)>> ELSE <<>>]))
    /\ links' = [links EXCEPT ![p] = IssueDisconnect(@)]
    /\ tracked' = tracked \cup {p}
    /\ UNCHANGED <<store, online, pending, reader, held>>

\* One sweep of the automatic retry: a CONNECT for every tracked idle link that
\* may have one, in the order (rank) the map iteration happens to take.
Retryable == {p \in tracked : links[p].state = "IDLE" /\ peering[p] # NoPeering /\ BothOnline(p)}

\* What the sweep sends every device: its own retried pairs, in that order.
Sweep(rank) ==
    {mail \in [Devices -> SeqOf(Retryable, Cardinality(Retryable))] :
        \A d \in Devices :
            /\ ToSet(mail[d]) = Retryable \cap PairsOf(d)
            /\ \A i, j \in DOMAIN mail[d] : i < j => rank[mail[d][i]] < rank[mail[d][j]]}

AutoConnectIdle ==
    /\ Retryable # {}
    /\ \E rank \in Injection(Retryable, 1 .. Cardinality(Retryable)),
          attempt \in Injection(Retryable, FreshTokens) :
          /\ issued'  = issued \cup {attempt[p] : p \in Retryable}
          /\ links'   = [p \in Pairs |-> IF p \in Retryable THEN IssueConnect(links[p], attempt[p]) ELSE links[p]]
          /\ pending' = [p \in Pairs |-> IF p \in Retryable THEN Uncollected ELSE pending[p]]
          /\ \E mail \in Sweep(rank) :
                Deliver(ToCurrent([d \in Devices |->
                    [i \in DOMAIN mail[d] |-> Connect(mail[d][i], attempt[mail[d][i]])]]))
    /\ UNCHANGED <<store, online, tracked, reader, held>>

\* A mutant of ApproveDevice: the device stays in the pending table.
ApproveStaysPending(d) ==
    /\ d \in pendingDevices
    /\ devices' = devices \cup {d}
    /\ UNCHANGED <<peering, spentIds, online, tables, session>>

ApproveDevice(d) ==
    /\ d \in pendingDevices
    /\ devices' = devices \cup {d}
    /\ pendingDevices' = pendingDevices \ {d}
    /\ UNCHANGED <<peering, spentIds, current, tables, session>>

Kick(d) ==
    /\ Online(d)
    /\ End(current[d])
    /\ UNCHANGED <<store, tables, online, reader, held>>

IssueQuery(d) ==
    /\ Online(d)
    /\ Deliver(ToCurrent([e \in Devices |-> IF e = d THEN <<Plain("query")>> ELSE <<>>]))
    /\ UNCHANGED <<store, tables, online, reader, held>>

PushConfig(d) ==
    /\ Online(d)
    /\ Deliver(ToCurrent([e \in Devices |-> IF e = d THEN <<Config(d)>> ELSE <<>>]))
    /\ UNCHANGED <<store, tables, online, reader, held>>

PruneLinks(ps) ==
    /\ links'   = [p \in Pairs |-> IF p \in ps THEN IdleLink ELSE links[p]]
    /\ pending' = [p \in Pairs |-> IF p \in ps THEN Uncollected ELSE pending[p]]
    /\ tracked' = tracked \ ps
    /\ UNCHANGED <<store, issued, online, session>>

\* run leaves its loop, ends every session and forgets both tables; the server
\* starts again on the same store.
Restart ==
    /\ current' = [d \in Devices |-> NoSession]
    /\ pendingDevices' = {}
    /\ links' = [p \in Pairs |-> IdleLink]
    /\ pending' = [p \in Pairs |-> Uncollected]
    /\ tracked' = {}
    /\ alive'  = [s \in Sessions |-> alive[s] /\ reader[s] = "registering"]
    /\ reader' = [s \in Sessions |-> IF reader[s] = "registering" THEN reader[s] ELSE "gone"]
    /\ queue'  = [s \in Sessions |-> <<>>]
    /\ held'   = [s \in Sessions |-> NoMessage]
    /\ UNCHANGED <<store, issued>>

----------------------------------------------------------------------------
(* Store rows written by the administrator's handlers *)

CreatePeering(p, id) ==
    /\ p \subseteq devices /\ peering[p] = NoPeering /\ id \notin spentIds
    /\ peering'  = [peering EXCEPT ![p] = id]
    /\ spentIds' = spentIds \cup {id}
    /\ UNCHANGED <<devices, tables, online, session>>

RemovePeering(p) ==
    /\ peering[p] # NoPeering
    /\ peering' = [peering EXCEPT ![p] = NoPeering]
    /\ UNCHANGED <<devices, spentIds, tables, online, session>>

\* The foreign keys cascade to the device's peerings.
DeleteDevice(d) ==
    /\ d \in devices
    /\ devices' = devices \ {d}
    /\ peering' = [p \in Pairs |-> IF d \in p THEN NoPeering ELSE peering[p]]
    /\ UNCHANGED <<spentIds, tables, online, session>>

----------------------------------------------------------------------------
(* Specification *)

\* A server starting on any consistent store; no connection has arrived.
Init ==
    /\ devices \in SUBSET Devices
    /\ peering \in [Pairs -> PeeringIds \cup {NoPeering}]
    /\ \A p \in Pairs : peering[p] # NoPeering => p \subseteq devices
    /\ \A p, q \in Pairs : peering[p] = peering[q] /\ peering[p] # NoPeering => p = q
    /\ spentIds = {peering[p] : p \in Pairs} \ {NoPeering}
    /\ current = [d \in Devices |-> NoSession]
    /\ links = [p \in Pairs |-> IdleLink]
    /\ tracked = {}
    /\ pending = [p \in Pairs |-> Uncollected]
    /\ pendingDevices = {}
    /\ issued = {}
    /\ queue = [s \in Sessions |-> <<>>]
    /\ alive = [s \in Sessions |-> TRUE]
    /\ reader = [s \in Sessions |-> "registering"]
    /\ held = [s \in Sessions |-> NoMessage]

SessionStep(s) ==
    \/ Register(s) \/ RefuseRegister(s) \/ SessionEnded(s)
    \/ \E m \in Inbound(issued) : Read(s, m)
    \/ RejectInbound(s) \/ ReadFails(s) \/ Leave(s)
    \/ Write(s) \/ WriteFails(s)
    \/ Heartbeat(s) \/ Unregister(s) \/ HandleStateReport(s) \/ HandleProfileReport(s)

AdminStep ==
    \/ \E p \in Pairs : IssueConnectCommand(p) \/ IssueDisconnectCommand(p) \/ RemovePeering(p)
    \/ \E p \in Pairs, id \in PeeringIds : CreatePeering(p, id)
    \/ \E d \in Devices : ApproveDevice(d) \/ Kick(d) \/ IssueQuery(d) \/ PushConfig(d) \/ DeleteDevice(d)
    \/ \E ps \in (SUBSET Pairs) \ {{}} : PruneLinks(ps)
    \/ AutoConnectIdle

Next == (\E s \in Sessions : SessionStep(s)) \/ AdminStep \/ Restart

Spec == Init /\ [][Next]_vars

\* What the Go scheduler and the socket deadlines guarantee: a session's two
\* goroutines run on, reads on a closed connection fail, the owner serves every
\* submitted command.
SessionFairness(s) ==
    /\ WF_vars(Write(s))
    /\ WF_vars(~alive[s] /\ ReadFails(s))
    /\ WF_vars(Leave(s))
    /\ WF_vars(SessionEnded(s))
    /\ WF_vars(Heartbeat(s) \/ Unregister(s) \/ HandleStateReport(s) \/ HandleProfileReport(s))

FairSpec == Spec /\ \A s \in Sessions : SessionFairness(s)
----------------------------------------------------------------------------
(* Invariants *)

\* Every variable holds what the code's types allow.
TypeOK ==
    /\ devices \in SUBSET Devices
    /\ peering \in [Pairs -> PeeringIds \cup {NoPeering}]
    /\ spentIds \in SUBSET PeeringIds
    /\ current \in [Devices -> Sessions \cup {NoSession}]
    /\ links \in [Pairs -> LinkRecord]
    /\ tracked \in SUBSET Pairs
    /\ pending \in [Pairs -> [token : Tokens \cup {NoToken}, sides : [Devices -> Profiles \cup {NoProfile}]]]
    /\ pendingDevices \in SUBSET Devices
    /\ issued \in SUBSET Tokens
    /\ queue \in [Sessions -> Seq(Outbound)]
    /\ alive \in [Sessions -> BOOLEAN]
    /\ reader \in [Sessions -> {"registering", "reading", "leaving", "silenced", "ended", "gone"}]
    /\ held \in [Sessions -> Inbound(Tokens) \cup {NoMessage}]

\* Link.Invariants holds of every record whatever clients report and in
\* whatever order commands, reports, prunes and restarts come.
TokenPairing == \A p \in Pairs : Paired(links[p])

\* pendingDevices is a subset of the devices online and holds no approved
\* device: approvedOnlineCount subtracts the right number.
PendingDevicesConsistent ==
    \A d \in pendingDevices : Online(d) /\ d \notin devices

\* The session table never points at a connection that registered for another
\* device, has not registered, or whose end the hub has already processed; one
\* whose read loop is over is closed.
SessionTable ==
    \A d \in Devices : Online(d) =>
        /\ Owner[current[d]] = d
        /\ reader[current[d]] \in {"reading", "leaving", "ended"}
        /\ reader[current[d]] = "ended" => ~alive[current[d]]

\* A connection the hub no longer counts as current is either closed or has a
\* closing message (duplicate_login, error) still to be written: no replaced or
\* refused connection stays open unnoticed.
LastWord ==
    \A s \in Sessions : reader[s] # "registering" /\ alive[s] /\ ~IsCurrent(s) =>
        \E i \in DOMAIN queue[s] : ClosesAfter(queue[s][i])

\* What waits in pending is one side of one attempt: never a foreign device's
\* profile, never two profiles nobody was told about, never a side without an
\* attempt.
HalfCollected ==
    \A p \in Pairs :
        /\ (pending[p].token = NoToken) <=> (\A d \in Devices : pending[p].sides[d] = NoProfile)
        /\ \A d, e \in Devices : pending[p].sides[d] # NoProfile /\ pending[p].sides[e] # NoProfile => d = e
        /\ \A d \in Devices : pending[p].sides[d] # NoProfile => d \in p

\* A peer_profile never carries the zero profile a foreign report would cause.
RealProfiles ==
    \A s \in Sessions : \A i \in DOMAIN queue[s] :
        queue[s][i].type = "peer_profile" => queue[s][i].profile # NoProfile

----------------------------------------------------------------------------
(* Action properties *)

\* Both ends of an attempt the server starts are told of it under one token,
\* except an end whose connection is (or becomes) dead: there is no attempt
\* that one live end knows and the other does not (invariant 2 of link.go).
NoSplitConnect ==
    [][\A p \in Pairs : \A t \in issued' \ issued : links'[p].token = t =>
          \A d \in p : /\ Online(d)
                       /\ alive'[current[d]] => Contains(queue'[current[d]], Connect(p, t))]_vars

Entry(s, p) == held[s].entries[peering[p]]

\* The current session of an end of p has just had its report about p taken,
\* and the new record is what that report says: a snapshot verbatim, a
\* transition only of the attempt the record was in.
Testimony(s, p) ==
    /\ IsCurrent(s) /\ Owner[s] \in p
    /\ Holds(s, "state_report") /\ held'[s] = NoMessage
    /\ peering[p] \in DOMAIN held[s].entries
    /\ links'[p].state = Entry(s, p).state
    /\ IF held[s].full THEN links'[p].token = Entry(s, p).token
                       ELSE links[p].token = Entry(s, p).token

\* A link record changes because a new attempt is issued, because a teardown is
\* sent to both ends, because a current end says so, or because it is dropped;
\* never because a connection is lost, replaced or registered (invariant 1),
\* and never on the word of a replaced session or about an old attempt.
LinksMoveForAReason ==
    [][\A p \in Pairs : links'[p] # links[p] =>
          \/ links'[p].token \in issued' \ issued
          \/ /\ links'[p].state = "IDLE" /\ BothOnline(p)
             /\ \A d \in p : alive'[current[d]] => Contains(queue'[current[d]], Disconnect(p, links[p].token))
          \/ \E s \in Sessions : Testimony(s, p)
          \/ p \notin tracked']_vars

\* A registration never takes the approved devices online beyond the limit:
\* what max_connections bounds is bounded at the door.
RegisterKeepsCapacity ==
    [][(\E s \in Sessions : reader[s] = "registering" /\ reader'[s] = "reading")
          => ApprovedOnline' <= MaxConnections \/ ApprovedOnline' <= ApprovedOnline]_vars

----------------------------------------------------------------------------
(* Liveness *)

\* A device whose connection ended does not stay online: the session leaves the
\* table (or has been replaced there already).
DeadSessionsLeave ==
    \A s \in Sessions : ~alive[s] /\ reader[s] # "registering" ~> ~IsCurrent(s)

\* A replaced or refused connection is eventually closed by the server.
ReplacedSessionsClose ==
    \A s \in Sessions : reader[s] # "registering" /\ ~IsCurrent(s) ~> ~alive[s]
=============================================================================
