SPECIFICATION Spec
CONSTANTS
    i1 = i1
    i2 = i2
    t1 = t1
    t2 = t2
    Peerings = {i1, i2}
    Tokens = {t1, t2}
    PeeringOf <- FirstPeering
    Reasons = {r1}
    NoToken = NoToken
    NoReason = NoReason
    NoNetwork = NoNetwork
    NoEvent = NoEvent
    NoAnswer = NoAnswer
    EventSlots = 1
    PipeDepth = 2
    LateLines = 1
    MaxMoves = 1
INVARIANTS
    OnlyRealProfiles
CHECK_DEADLOCK FALSE
