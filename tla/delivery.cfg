SPECIFICATION EngineSpec
CONSTANTS
    NSinks = 2
    MaxEvents = 3
    Size <- MCSize
    MaxItems <- MCItems
    MaxBytes <- MCBytes
    MaxFinalizationSteps <- MCFinalization
    FullPolicy <- MCPolicy
    Deadline <- MCDeadline
    SharedBudget = 1
    MaxAttempts = 3
    RetryAttempts = 2
    MaxLedgerTransitions = 20
INVARIANTS RunEndsAccounted SuccessMeansDurable NoSinkLeaked
PROPERTIES RefinesRouter RunTerminates
CHECK_DEADLOCK FALSE
