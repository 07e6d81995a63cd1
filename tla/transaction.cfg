SPECIFICATION FairSpec
CONSTANTS
    NWrites = 2
    Size <- MCSizes
    MaxQueueItems = 2
    MaxQueueBytes = 3
    Plans <- MCPlans
    MaxForeign = 1
    MaxFailures = 2
INVARIANTS AcknowledgedIsWritten PublishedIsComplete FailureIsClean EveryFailureReported
PROPERTIES DashboardNotLost RunReturns
CHECK_DEADLOCK FALSE
