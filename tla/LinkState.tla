----------------------------- MODULE LinkState -----------------------------
(***************************************************************************)
(* One link as the server remembers it (src/internal/server/link.go): a    *)
(* three-valued state, the token of the current attempt and the reason of  *)
(* the last failed one.  Every method of type Link is a function from the  *)
(* old record to the new one.  The time stamp UpdatedAt is not modelled:   *)
(* no decision of the server reads it.                                     *)
(***************************************************************************)
CONSTANTS
    Tokens,     \* what common.GenerateLinkToken may return
    NoToken,    \* the empty token
    Reasons,    \* the closed table of failure reasons (common/reason.go)
    NoReason    \* the empty reason

ASSUME TokenAssumption  == NoToken \notin Tokens
ASSUME ReasonAssumption == NoReason \notin Reasons

LinkStates == {"IDLE", "CONNECTING", "CONNECTED"}

LinkRecord == [state  : LinkStates,
               token  : Tokens \cup {NoToken},
               reason : Reasons \cup {NoReason}]

\* The zero value &Link{} that linkFor creates.
IdleLink == [state |-> "IDLE", token |-> NoToken, reason |-> NoReason]

\* The only writer of state and token: going IDLE clears the token.
Set(link, state, token) ==
    [link EXCEPT !.state = state,
                 !.token = IF state = "IDLE" THEN NoToken ELSE token]

\* A mutant of Matches: any report speaks of the current attempt.
MatchesAnyToken(link, token) == link.token # NoToken

\* A report belongs to the current attempt.
Matches(link, token) == link.token # NoToken /\ link.token = token

IssueConnect(link, token) == [Set(link, "CONNECTING", token) EXCEPT !.reason = NoReason]

IssueDisconnect(link) == Set(link, "IDLE", NoToken)

\* Only CONNECTING advances: a late success never revives an ended attempt.
ReportSuccess(link, token) ==
    IF link.state = "CONNECTING" /\ Matches(link, token)
    THEN Set(link, "CONNECTED", link.token)
    ELSE link

\* A mutant of ReportFailure: the token of the failed attempt stays.
FailureKeepsToken(link, token, reason) ==
    IF Matches(link, token) THEN [link EXCEPT !.state = "IDLE", !.reason = reason] ELSE link

\* One side's word is enough to end the attempt.
ReportFailure(link, token, reason) ==
    IF Matches(link, token)
    THEN [Set(link, "IDLE", NoToken) EXCEPT !.reason = reason]
    ELSE link

\* A snapshot overwrites the record unless it contradicts itself.
AdoptClientReport(link, state, token) ==
    IF (state = "IDLE") = (token = NoToken) THEN Set(link, state, token) ELSE link

\* Link.Invariants: the token is empty exactly when the state is IDLE.
Paired(link) == (link.state = "IDLE") <=> (link.token = NoToken)
=============================================================================
