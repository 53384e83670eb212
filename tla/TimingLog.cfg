CONSTANTS
    Capacity = 2
    Wrap = 4
    MaxCycles = 5
    MaxSegments = 2
    Record <- MCRecord
SPECIFICATION FairSpec
INVARIANTS
    Fifo
    CompleteIsAll
PROPERTIES
    StopReturns
CHECK_DEADLOCK FALSE
