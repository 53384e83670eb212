CONSTANTS
    Programs <- MCPrograms
    Values = {0, 1, 2}
    NoStep = NoStep
    RunLists <- MCRunLists
SPECIFICATION Spec
INVARIANTS
    EndsRestored
    PassIsWitnessed
PROPERTIES
    ForeignInstanceKept
CHECK_DEADLOCK FALSE
