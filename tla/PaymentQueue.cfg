SPECIFICATION Spec
CONSTANTS
    tab1 = tab1
    tab2 = tab2
    Tabs <- MCTabs
    MaxPayments = 2
    MaxRequests = 6
    MaxFlips = 1
    MaxFaults = 1
SYMMETRY Symmetry
CHECK_DEADLOCK FALSE
INVARIANTS
    LossNeedsCause
    DuplicateNeedsCause
