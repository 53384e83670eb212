CONSTANTS
    Capacity = 4
    RowSizes <- MCRowSizes
    MaxRows = 4
SPECIFICATION FairSpec
INVARIANTS
    CloseHonest
PROPERTIES
    ImplementsAbstractLog
    CommittedIsWritten
CHECK_DEADLOCK FALSE
