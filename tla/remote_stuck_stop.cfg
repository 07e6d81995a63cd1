SPECIFICATION Spec
CONSTANTS
    NWorkers = 2
    Policies <- NoFailFast
    Duplicates = FALSE
    Modes <- BatchOnly
    BatchSize = 2
    MaxSamples = 2
    MaxRemembered = 2
    MaxAttempts = 1
    MaxRuns = 1
    MaxSeq = 1
    MaxIds = 10
CHECK_DEADLOCK FALSE
INVARIANT
    StopIsNeverStuck
