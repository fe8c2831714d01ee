SPECIFICATION Spec
CONSTANTS
    entry1 = entry1
    Entries <- MCEntries
    Roles <- MCRoles
    Statuses <- MCStatuses
    MaxActs = 3
    MaxSends = 2
    MaxVisits = 3
    MaxUpsets = 1
CHECK_DEADLOCK FALSE
INVARIANTS
    CacheCurrent
    WipedNeedsOverlap
    OnceEach
    RefusedNeedsChange
    AsksWhatIsOffered
