CONSTANTS
    N = 2
    Modes <- HoldAndCurrent
    JoinsFirst = TRUE
SPECIFICATION FairSpec
INVARIANTS
    TorqueProtected
PROPERTIES
    NoTorqueByGoalWrite
    ImplementsSession
    LimpIsOff
    SilenceStops
