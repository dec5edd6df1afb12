SPECIFICATION Spec
CONSTANTS
    a = a
    b = b
    c = c
    n1 = n1
    Devices = {a, b, c}
    Networks = {n1}
    PeeringIds = {i1, i2}
    Hosts = 3
    MaxDevicesPerNetwork = 2
    Handlers = {h1}
    NoNetwork = NoNetwork
    NoPeering = NoPeering
    NoDevice = NoDevice
INVARIANTS
    TypeOK
    ConfigCurrent
    EntriesCurrent
    MembersWithinLimit
SYMMETRY Interchangeable
