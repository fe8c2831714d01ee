SPECIFICATION FairSpec
CONSTANTS
    n1 = n1
    n2 = n2
    bad = bad
    Notes <- MCNotes
    Good <- MCGood
    BootTokens <- Both
    BootNetworks <- AnyNetwork
    MaxSecond = 1
    MaxFaults = 2
    MaxCrashes = 1
CHECK_DEADLOCK FALSE
INVARIANTS
    DuplicateNeedsCut
    AppliedInOrder
PROPERTIES
    PendingIsSettled
    IsOutbox
