CONSTANTS
    Modes <- VelocityMode
    Timeout = 1
    Deadline = 0
    MaxReadFailures = 2
    MaxWriteFailures = 1
    Sync <- EitherStart
SPECIFICATION FairSpec
INVARIANTS
    DeadmanBoundsWrites
    FailuresStop
    FreshMeansThisCycle
PROPERTIES
    MissSendsZero
    LostControllerStops
