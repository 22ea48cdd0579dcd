SPECIFICATION FairSpec
CONSTANTS
    Commits = {c1, c2}
    Checks <- MCChecks
    MaxAttempts = 2
    MaxTouches = 2
    MixedRebuild = FALSE
INVARIANTS AcceptedWasExecuted BundlesAreWhole
PROPERTIES AttemptEnds
CHECK_DEADLOCK FALSE
