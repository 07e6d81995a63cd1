SPECIFICATION FairSpec
CONSTANTS
    u1 = u1
    u2 = u2
    u3 = u3
    u4 = u4
    Users <- MCUsers
    NNames = 3
    MaxHeld = 3
    MaxWaiters = 2
    MaxNesting = 1
    CheckedNames <- MCCheckedNames
    MaxGeneration = 2
INVARIANTS WaitersAccounted NoLostWakeup
PROPERTIES NoOvertaking WaitersProgress
CHECK_DEADLOCK FALSE
