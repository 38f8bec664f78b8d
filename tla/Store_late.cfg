SPECIFICATION Spec
CONSTANTS
    Second = 2
    MaxTime = 6
    MinInt <- LeastInt
    MaxInt = 7
    AbandonFloor = 2
    RlBuckets = 2
    Scenarios <- LateScenarios
    MaxClock = 2
    MaxVolatile = 3
    SweepLimit = 1
    Sample = 2
    MaxCursors = 1
    ScanBatch = 2
    Scanners = {s1, s2}
INVARIANTS
    ReplicaAgrees
CHECK_DEADLOCK FALSE
