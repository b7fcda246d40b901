SPECIFICATION FairRouteSpec
CONSTANTS
    Clients = {c1, c2}
    Feps = {30}
    Ls = {10, 11}
    Dps = {20}
    MaxEnters = 3
PROPERTIES
    FollowsDirectory
    RouteGranted
    ExitPropagates
CHECK_DEADLOCK FALSE
