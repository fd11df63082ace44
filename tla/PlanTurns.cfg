SPECIFICATION Spec
CONSTANTS
    Requests = {r1, r2, r3}
    Nobody = Nobody
    Keys = {k1}
    NoKey = NoKey
    Reviewers = {}
    SlowWorkers = TRUE
    MaxRevision = 2
    MaxContent = 3
SYMMETRY Symmetry
INVARIANTS TypeOK NoLostUpdate RetrySavesOnce AnsweredTurnWasSaved
PROPERTY ConfirmedPlanIsFrozen
CHECK_DEADLOCK FALSE
