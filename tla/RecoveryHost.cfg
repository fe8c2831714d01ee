SPECIFICATION RecoveryFairSpec
CONSTANTS
    honest1 = honest1
    honest2 = honest2
    rogue = rogue
    home = home
    other = other
    Trustees <- MCPair
    Rogue <- MCRogue
    Quorum = 2
    Teams <- MCTeams
    Home = home
    MaxClicks = 2
    MaxThrown = 1
    MaxRestarts = 1
CHECK_DEADLOCK FALSE
INVARIANTS
    NoRogueSeed
    StoreNeverAheadOfSeed
    HandledKeyGone
PROPERTY ElapsedIsHandled
