SPECIFICATION FairSpec
CONSTANTS
    Requests = {r1}
    Nobody = Nobody
    Keys = {}
    NoKey = NoKey
    Reviewers = {v1, v2}
    SlowWorkers = TRUE
    MaxRevision = 4
    MaxContent = 4
INVARIANTS ReviewIsOfCurrentPlan OneReviewPerRevision
PROPERTIES ReviewSettles
CHECK_DEADLOCK FALSE
