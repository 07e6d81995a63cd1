SPECIFICATION ArbSpec
CONSTANTS
    NSinks = 2
    MaxEvents = 3
    Size <- MCSize
    MaxItems <- MCItems
    MaxBytes <- MCBytes
    MaxFinalizationSteps <- MCFinalization
    FullPolicy <- MCPolicy
    Deadline <- MCDeadline
    SharedBudget = 2
    MaxAttempts = 2
    MaxLedgerTransitions = 18
INVARIANTS
    AcceptedIsHeld
    AdmissionIsAtomic
    FinishedIsConserved
    BoundedBypass
    HeldIsAccounted
    FirstAttemptsInOrder
PROPERTIES
    TerminalIsFinal
    ImplementsContract
CHECK_DEADLOCK FALSE
