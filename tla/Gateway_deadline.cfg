SPECIFICATION Spec
CONSTANTS
    Second = 2
    MaxTime = 16
    MinInt <- LeastInt
    MaxInt = 7
    AbandonFloor = 2
    RlBuckets = 2
    Texts <- TextSet
    LongTexts = {9}
    MaxArray = 2
    Cases <- DeadlineCases
    MaxClock = 1
INVARIANTS
    FramesReadable
CHECK_DEADLOCK FALSE
