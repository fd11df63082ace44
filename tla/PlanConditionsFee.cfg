SPECIFICATION ConditionsSpec
CONSTANTS
    Amounts = {1, 2}
    NoAmount = NoAmount
    MaxRevision = 5
INVARIANT FeeFollowsItsAction
CHECK_DEADLOCK FALSE
