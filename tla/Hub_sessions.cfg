SPECIFICATION Spec
CONSTANTS
    a = a
    b = b
    a1 = a1
    a2 = a2
    b1 = b1
    Devices = {a, b}
    Sessions = {a1, a2, b1}
    Owner <- TwoOwners
    PeeringIds = {}
    Profiles = {x1}
    Tokens = {}
    NoToken = NoToken
    Reasons = {r1}
    NoReason = NoReason
    MaxConnections = 1
    PendingDeviceLimit = 1
    SendQueueDepth = 2
    MaxQueued = 3
    MaxHeld = 1
    NoSession = NoSession
    NoPeering = NoPeering
    NoProfile = NoProfile
    NoMessage = NoMessage
INVARIANTS
    TypeOK
    PendingDevicesConsistent
    SessionTable
    LastWord
PROPERTIES
    RegisterKeepsCapacity
SYMMETRY SameDevice
CHECK_DEADLOCK FALSE
CONSTRAINTS
    FewQueued
    FewHeld
