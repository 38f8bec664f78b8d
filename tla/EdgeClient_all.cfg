SPECIFICATION Spec
CONSTANTS
    MaxPending = 2
    IdRange = 8
    Tabs = {t1}
    Keys = {1, 2}
    MaxWrites = 3
    MaxSockets = 3
    Scenarios <- AllScenarios
    NoKey = 0
INVARIANTS
    Aligned
    AppliedInOrder
    NoSilentLoss
    ToldTruth
    LogKeepsWrites
PROPERTIES
    Delivered
CHECK_DEADLOCK FALSE
