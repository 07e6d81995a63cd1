SPECIFICATION FairSpec
CONSTANTS
    a = a
    b = b
    Callers <- MCCallers
    Capacity = 1
    MaxGen = 2
    MaxAttempts = 2
CHECK_DEADLOCK FALSE
INVARIANTS
    OwnedAccounted
    JoinedOwnsNothing
PROPERTIES
    RootNeverLost
    OrphanIsCleanedUp
    ShutdownDrains
