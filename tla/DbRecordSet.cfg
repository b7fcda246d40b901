SPECIFICATION FairRecordSetSpec
CONSTANTS
    Keys = {0, 7}
    Fields = {"name"}
    MaxRecords = 3
    MaxLen = 3
INVARIANTS
    MembersAreLive
    ReleasedOnce
PROPERTIES
    CursorStays
    DestructionEnds
CHECK_DEADLOCK FALSE
