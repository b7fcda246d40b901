SPECIFICATION CipherSpec
CONSTANTS
    MaxSent = 4
    MaxRuns = 3
INVARIANTS
    ClientReads
    MisreadNeedsHaste
    CodeRestores
CHECK_DEADLOCK FALSE
