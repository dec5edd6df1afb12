SPECIFICATION PreparedSpec
CONSTANTS
    a = a
    b = b
    n1 = n1
    Devices = {a, b}
    Networks = {n1}
    PeeringIds = {i1, i2}
    Hosts = 2
    MaxDevicesPerNetwork = 2
    Handlers = {h1, h2}
    Home = n1
    Scenarios <- GrowingOrDeletions
    NoNetwork = NoNetwork
    NoPeering = NoPeering
    NoDevice = NoDevice
INVARIANTS
    ConfigCurrentWhileGrowing
    AddressesDistinct
    PeeringsWithinNetwork
SYMMETRY SameHandlers
CHECK_DEADLOCK FALSE
