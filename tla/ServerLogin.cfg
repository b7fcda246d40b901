SPECIFICATION FairLoginSpec
CONSTANTS
    Ls = {1}
    Ss = {}
    Feps = {2}
    Dps = {3}
    Slots = 2
    MaxFaults = 1
    MaxPlaces = 1
INVARIANTS
    IndexesAgree
    LoginedIsListed
    QuietStart
PROPERTIES
    Interconnected
    DeadForgotten
    NoneMissed
CHECK_DEADLOCK FALSE
