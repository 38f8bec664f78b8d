SPECIFICATION Spec
CONSTANTS
    Second = 2
    MaxTime = 6
    MinInt <- LeastInt
    MaxInt = 7
    AbandonFloor = 2
    RlBuckets = 2
    Clients = {1, 2}
    QueueItems = 2
    ChannelCapacity = 2
    MaxNames = 2
    MaxInitialKeys = 1
    Scenarios <- AllScenarios
INVARIANTS
    QueryConverges
    RegistryExact
    NoGhosts
PROPERTIES
    ToldInScope
    Settles
CHECK_DEADLOCK FALSE
