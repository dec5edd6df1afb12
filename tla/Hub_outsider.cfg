SPECIFICATION LinkSpec
CONSTANTS
    a = a
    b = b
    c = c
    a1 = a1
    a2 = a2
    b1 = b1
    c1 = c1
    i1 = i1
    Devices = {a, b, c}
    Sessions = {a1, b1, c1}
    Owner <- ThreeOwners
    PeeringIds = {i1}
    Profiles = {x1}
    Tokens = {t1}
    NoToken = NoToken
    Reasons = {r1}
    NoReason = NoReason
    MaxConnections = 1
    PendingDeviceLimit = 1
    SendQueueDepth = 2
    Heard = {"state_report", "profile_report"}
    MaxQueued = 2
    MaxHeld = 1
    NoSession = NoSession
    NoPeering = NoPeering
    NoProfile = NoProfile
    NoMessage = NoMessage
INVARIANTS
    HalfCollected
    RealProfiles
CHECK_DEADLOCK FALSE
CONSTRAINTS
    FewQueued
    FewHeld
