SPECIFICATION FairSpec
CONSTANTS
    a = a
    b = b
    a1 = a1
    a2 = a2
    b1 = b1
    Devices = {a}
    Sessions = {a1, a2}
    Owner <- OneOwner
    PeeringIds = {}
    Profiles = {x1}
    Tokens = {}
    NoToken = NoToken
    Reasons = {r1}
    NoReason = NoReason
    MaxConnections = 1
    PendingDeviceLimit = 1
    SendQueueDepth = 2
    MaxQueued = 3
    MaxHeld = 1
    NoSession = NoSession
    NoPeering = NoPeering
    NoProfile = NoProfile
    NoMessage = NoMessage
PROPERTIES
    DeadSessionsLeave
    ReplacedSessionsClose
CHECK_DEADLOCK FALSE
