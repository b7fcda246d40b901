SPECIFICATION FairSpec
CONSTANTS
    Bodies <- MCBodies
    MaxParks = 2
    OutCacheSize = 7
    SendoutSize = 4
    LenLoads = 2
    InCacheSize = 7
    MinBody = 2
    MaxRecv = 4
    Timeout = FALSE
PROPERTIES
    KeepsPromise
    DeliveredOrStranded
CHECK_DEADLOCK FALSE
