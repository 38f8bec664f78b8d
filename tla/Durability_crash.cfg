SPECIFICATION Spec
CONSTANTS
    AofSync = {"always", "everysec"}
    FollowsPrimary = FALSE
    Failures = {"append", "partial", "fsync", "early", "late"}
    TornCrashes = {1, 2}
    MaxWaiting = 1
    MaxWrites = 3
    MaxSaves = 3
    MaxFailures = 2
    MaxCrashes = 2
INVARIANTS TypeOK DurableSurvives MarkIsApplied
PROPERTIES RecoversPrefix CompletedSaveHasMarks
CHECK_DEADLOCK FALSE
