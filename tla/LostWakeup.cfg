SPECIFICATION FairSendSpec
CONSTANTS
    Bodies <- MCBodies
    MaxParks = 4
    CacheSize = 5
    SendoutSize = 2
    LenLoads = 1
INVARIANT NothingLeftBehind
CHECK_DEADLOCK FALSE
