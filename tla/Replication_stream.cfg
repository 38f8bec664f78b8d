SPECIFICATION FairSpec
CONSTANTS
    Replicas = {r1}
    Keys = {k1, k2}
    Sizes = {1, 2}
    BacklogBytes = 3
    QueueBytes = 2
    QueueFrames = 2
    AckHalf = 2
    HubIsReplica = FALSE
    MaxWrites = 3
    MaxRuns = 2
    MaxFaults = 2
INVARIANTS TypeOK ReplicaMatchesHistory DrainedEqualsHub AckedIsApplied
PROPERTIES RefinesLog EventuallyInSync
CHECK_DEADLOCK FALSE
