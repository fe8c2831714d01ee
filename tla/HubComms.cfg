SPECIFICATION Spec
CONSTANTS
    Threads <- MCThreads
    First = "general"
    Texts <- MCTexts
    MaxFaults = 2
    MaxSwitches = 3
    MaxWire = 3
INVARIANTS
    JoinedShown
    SenderHears
    DraftsKept
PROPERTIES
    EndsUpJoined
CHECK_DEADLOCK FALSE
