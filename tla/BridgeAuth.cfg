SPECIFICATION Spec
CONSTANTS
    Tokens <- MCTokens
    Accepted <- MCAccepted
    EnvTokens <- MCEnvTokens
    Submits <- MCSubmits
    MaxSubmits = 2
    MaxKeys = 2
    MaxFaults = 2
    MaxStarts = 3
INVARIANTS
    VaultSound
    Agreed
    WishKept
PROPERTIES
    Restored
CHECK_DEADLOCK FALSE
