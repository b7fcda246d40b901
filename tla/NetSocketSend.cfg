SPECIFICATION SendSpec
CONSTANTS
    Bodies <- MCBodies
    MaxParks = 4
    CacheSize = 5
    SendoutSize = 2
    LenLoads = 2
INVARIANTS
    SendTypeOK
    SingleWriter
    StreamIntegrity
CHECK_DEADLOCK FALSE
