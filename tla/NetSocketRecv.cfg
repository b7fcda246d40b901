SPECIFICATION FairRecvSpec
CONSTANTS
    Bodies <- MCBodies
    MaxSends = 3
    CacheSize = 7
    MinBody = 2
    MaxRecv = 4
    Timeout = TRUE
INVARIANTS
    MessageStable
    DeliveredPrefix
PROPERTIES
    AllDelivered
    SilenceEnds
CHECK_DEADLOCK FALSE
