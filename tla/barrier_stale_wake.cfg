SPECIFICATION Spec
CONSTANTS
    p1 = p1
    p2 = p2
    p3 = p3
    fixed = fixed
    grouped = grouped
    Participants <- MCParticipants
    Keys <- MCKeys
    GroupKeys <- MCGroupKeys
    GroupSize <- MCGroupSize
    GroupSizes <- MCGroupSizes
    Timeout <- MCTimeout
    MaxSlots = 2
    MaxParticipants = 3
    MaxGeneration = 2
    MaxTime = 2
PROPERTY TimeoutElapsed
CHECK_DEADLOCK FALSE
