CONSTANTS
    Syncs <- Synchronized
    RemoteQuiesce = TRUE
    Prompt = TRUE
    MaxReadFailures = 2
SPECIFICATION FairSpec
PROPERTY
    FeedbackWaitReturns
