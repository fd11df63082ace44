SPECIFICATION FairSpec
CONSTANTS
    Requests = {r1, r2, r3}
    Nobody = Nobody
    Keys = {k1}
    NoKey = NoKey
    Reviewers = {}
    SlowWorkers = FALSE
    MaxRevision = 2
    MaxContent = 1
INVARIANTS SavedTurnHasCompletedKey OneHolder
PROPERTIES LookupSettles
CHECK_DEADLOCK FALSE
