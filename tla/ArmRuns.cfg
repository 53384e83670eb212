CONSTANTS
    Kinds <- MCKinds
    Intervals = 3
    Retries = 1
    Sustain = 2
    Hold = 3
    Marker = 2
    Window = 2
    Margin = 4
    MaxGap = 2
SPECIFICATION FairRunSpec
INVARIANTS
    HoldBeforeLimp
    EarlyKeysIgnored
    WindowIsWhole
PROPERTIES
    NoReferenceFromDeparture
    RunsEnd
CHECK_DEADLOCK FALSE
