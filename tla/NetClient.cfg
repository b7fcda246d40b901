SPECIFICATION FairClientSpec
CONSTANTS
    Peers = {2, 3}
    MaxConnects = 3
    MaxMessages = 1
INVARIANTS
    SessionBeforeMessage
    ExitOnce
PROPERTIES
    EndedIsRemoved
CHECK_DEADLOCK FALSE
