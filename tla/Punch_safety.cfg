SPECIFICATION Spec
CONSTANTS
    m0 = m0
    m1 = m1
    g1 = g1
    g2 = g2
    h1 = h1
    h2 = h2
    Sockets = {m0, m1, g1, g2, h1, h2}
    Main <- Mains
    Helpers <- Pools
    NATs <- EveryNAT
    OKResends = 1
    NoSocket = NoSocket
    NoPath = NoPath
    PortSpaceMin = 3
    PortSpaceMax = 34
    NearWindow = 2
    HelperCounts = {4, 8, 16}
INVARIANTS
    TypeOK
    PathsMirror
    Link0First
    SelectedPathOpen
PROPERTIES
    PathNeverMoves
SYMMETRY SameHelper
CHECK_DEADLOCK FALSE
