SPECIFICATION Spec
CONSTANTS
    AofSync = {"always"}
    FollowsPrimary = FALSE
    Failures = {}
    TornCrashes = {1}
    MaxWaiting = 2
    MaxWrites = 3
    MaxSaves = 0
    MaxFailures = 0
    MaxCrashes = 2
INVARIANT NothingLost
CHECK_DEADLOCK FALSE
