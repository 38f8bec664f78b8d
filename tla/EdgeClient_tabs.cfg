SPECIFICATION Spec
CONSTANTS
    MaxPending = 2
    IdRange = 8
    Tabs = {t1, t2}
    Keys = {1, 2}
    MaxWrites = 3
    MaxSockets = 3
    Scenarios <- TabScenarios
    NoKey = 0
INVARIANTS
    DupWasApplied
CHECK_DEADLOCK FALSE
