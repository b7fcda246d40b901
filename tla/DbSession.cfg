SPECIFICATION DbFairSpec
CONSTANT MaxStmts = 3
INVARIANTS
    RowsReachOneReader
PROPERTIES
    KeepsService
    SelectAnswered
