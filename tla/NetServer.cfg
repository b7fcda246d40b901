SPECIFICATION FairServerSpec
CONSTANTS
    Slots = {s1, s2}
    Platforms <- MCPlatforms
    MaxTimeouts = 1
    MaxConns = 3
    MaxMsgs = 1
INVARIANTS
    SlotsConserved
    NoLateClose
    NeverDeaf
    EachVisitedOnce
PROPERTY SlotReturns
CHECK_DEADLOCK FALSE
