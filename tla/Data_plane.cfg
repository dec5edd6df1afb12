SPECIFICATION FairSpec
CONSTANTS
    p1 = p1
    p2 = p2
    l1 = l1
    l2 = l2
    Peers = {p1, p2}
    Links = {l1, l2}
    PeerOf <- Ends
    NoLink = NoLink
    OutboundQueue = 2
    InboundQueue = 1
    BatchSize = 2
    MaxPackets = 4
INVARIANTS
    DataTypeOK
    NoSendOnClosedChannel
    InOrder
    NothingRunsAfterClose
PROPERTIES
    CloseEnds
CHECK_DEADLOCK FALSE
