SPECIFICATION Spec
CONSTANTS
    Requests = {r1, r2}
    Nobody = Nobody
    Keys = {k1}
    NoKey = NoKey
    Reviewers = {}
    SlowWorkers = TRUE
    MaxRevision = 1
    MaxContent = 1
INVARIANT SavedTurnHasCompletedKey
CHECK_DEADLOCK FALSE
