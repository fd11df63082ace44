SPECIFICATION Spec
CONSTANTS
    Members = {m1, m2}
    Nobody = Nobody
    Actions = {1}
    NoAction = NoAction
    TypeOf <- NoticeType
    StepOf <- NoticeStep
    NumSteps = 1
    NumCancelTasks = 1
    MaxVersion <- NoticeVersion
    MaxAttempts = 2
SYMMETRY MemberSymmetry
INVARIANTS TypeOK ApprovedAsSeen LatestAttemptWins
PROPERTY MemberTextIsKept
CHECK_DEADLOCK FALSE
