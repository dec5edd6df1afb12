SPECIFICATION StartedSpec
CONSTANTS
    m0 = m0
    m1 = m1
    g1 = g1
    g2 = g2
    h1 = h1
    h2 = h2
    Sockets = {m0, m1, g1, h1}
    Main <- Mains
    Helpers <- Singles
    NATs <- StableLink0
    OKResends = 0
    NoSocket = NoSocket
    NoPath = NoPath
    PortSpaceMin = 3
    PortSpaceMax = 34
    NearWindow = 2
    HelperCounts = {4, 8, 16}
INVARIANTS
    ScanFindsThePool
PROPERTIES
    Link1Follows
CHECK_DEADLOCK FALSE
