SPECIFICATION Spec
CONSTANTS
    Replicas = {r1}
    Keys = {k1, k2}
    Sizes = {1, 2}
    BacklogBytes = 3
    QueueBytes = 2
    QueueFrames = 2
    AckHalf = 2
    HubIsReplica = TRUE
    MaxWrites = 3
    MaxRuns = 2
    MaxFaults = 2
SYMMETRY Symmetry
INVARIANTS StreamHasNoGap DrainedIsCurrent
CHECK_DEADLOCK FALSE
