SPECIFICATION Spec
CONSTANTS
    NWorkers = 1
    Policies <- EitherPolicy
    Duplicates = FALSE
    Modes <- BatchOnly
    BatchSize = 2
    MaxSamples = 2
    MaxRemembered = 2
    MaxAttempts = 2
    MaxRuns = 2
    MaxSeq = 3
    MaxIds = 10
CHECK_DEADLOCK FALSE
INVARIANTS
    GracefulIsComplete
    NoRogueWorker
    HandedOnce
    ConfiguredIsCurrent
    WaitingStopIsNeverStuck
