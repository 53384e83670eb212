CONSTANTS
    s1 = s1
    s2 = s2
    Servo <- MCServo
    Programs <- MCPrograms
SPECIFICATION AppSpec
INVARIANTS
    NeverLeftOn
    ExitZeroHonest
PROPERTIES
    UncleanIsSilenced
    FilesAfterRelease
    OutputsAreOwn
CHECK_DEADLOCK FALSE
