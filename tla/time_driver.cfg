SPECIFICATION FairSpec
CONSTANTS
    r1 = r1
    r2 = r2
    Regs <- MCRegs
    MaxRegistrations = 2
    ClockFails = TRUE
    MaxTime = 1
CHECK_DEADLOCK FALSE
INVARIANTS
    TwoExactOwners
    NoLostWakeup
PROPERTIES
    DeadlinesFire
    FinalizeReturns
