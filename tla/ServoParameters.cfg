CONSTANTS
    Joints <- MCJoints
    Model <- MCModel
    Files <- MCFiles
    MaxRuns = 2
SPECIFICATION Spec
INVARIANTS
    RefusalTouchesNothing
    VerifiedRollbackRestores
    SuccessIsExact
CHECK_DEADLOCK FALSE
