SPECIFICATION UtilitiesSpec
CONSTANTS
    BlockNumPerSlice = 2
    MaxSlices = 2
    MaxMark = 2
    Pools = {14, 15}
    ChunkSize = 512
    Sizes = {236, 237, 252, 253}
    FrontWords = {0, 9, 265}
    MaxChunks = 2
    MaxHeap = 1
    BlockCells = 4
    LengthSize = 1
    UlongSizes = {4, 8}
    Cells = {1, 2}
    MaxGiven = 8
    MaxPiece = 6
    Files <- MCFiles
    FlagsRow = 2
INVARIANTS
    ObjectsApart
    BlocksAccounted
    DigestOfAll
    ColumnsInOrder
CHECK_DEADLOCK FALSE
