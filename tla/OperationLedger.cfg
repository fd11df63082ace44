SPECIFICATION Spec
CONSTANTS
    Members = {m1}
    Nobody = Nobody
    Actions = {1, 2, 3}
    NoAction = NoAction
    TypeOf <- LedgerType
    StepOf <- LedgerStep
    NumSteps = 1
    NumCancelTasks = 4
    MaxVersion <- LedgerVersion
    MaxAttempts = 1
INVARIANTS EventClosesInOrder LedgerMatchesApprovals StepClosesWithItsActions
PROPERTY ClosedEventIsReadOnly
CHECK_DEADLOCK FALSE
