SPECIFICATION FairSpec
CONSTANTS
    Members = {m1}
    Nobody = Nobody
    Actions = {1, 2}
    NoAction = NoAction
    TypeOf <- StepwiseType
    StepOf <- StepwiseStep
    NumSteps = 2
    NumCancelTasks = 1
    MaxVersion <- StepwiseVersion
    MaxAttempts = 2
INVARIANT DraftsFollowTheSteps
PROPERTY DraftingSettles
CHECK_DEADLOCK FALSE
