SPECIFICATION SessionSpec
CONSTANTS
    Users <- MCUsers
    Bound <- MCBound
    MaxMoves = 3
    MaxPages = 2
INVARIANTS
    StoresOfSession
    TrailOfSession
    DetailOfSession
CHECK_DEADLOCK FALSE
