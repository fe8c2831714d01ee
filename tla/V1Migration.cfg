SPECIFICATION MigrationFairSpec
CONSTANTS
    Parts <- MCParts
    MaxFaults = 3
INVARIANTS
    TwoCopiesBeforeDelete
    MarkerMeansMigrated
    BootstrapNeverPreempts
PROPERTY EventuallyMigrated
