SPECIFICATION FairSpec
CONSTANTS
    n1 = n1
    n2 = n2
    bad = bad
    Notes <- MCNotes
    Good <- MCGood
    BootTokens <- NoToken
    BootNetworks <- Online
    MaxSecond = 0
    MaxFaults = 0
    MaxCrashes = 1
CHECK_DEADLOCK FALSE
PROPERTY SyncsAfterRestart
