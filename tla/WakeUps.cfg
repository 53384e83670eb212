CONSTANTS
    Syncs <- EitherStart
    RemoteQuiesce = TRUE
    Prompt = TRUE
    MaxReadFailures = 2
SPECIFICATION FairSpec
INVARIANTS
    NobodyLeftAsleep
PROPERTIES
    CycleWaitReturns
