SPECIFICATION FairSpec
CONSTANTS
    Connections = {c1}
    Requests = {r1}
    Sweeps = {w1}
    Ports = {1, 2}
    MaxCalls = 2
    Calls <- ServerCalls
    Cancellable <- Impatient
    NoCall = NoCall
INVARIANTS
    ServerTypeOK
    StoreOutlivesItsUsers
    NothingLeftOpen
PROPERTIES
    PromiseKept
    ProcessEnds
CHECK_DEADLOCK FALSE
