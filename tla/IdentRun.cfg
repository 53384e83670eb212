SPECIFICATION Spec
CONSTANTS
    N = 2
    Joints = {j1, j2}
    Kinds = {"plain", "capture", "hold"}
    Offsets <- MCOffsets
    TStop = 32
    TQuiesce = 36
    LeadIn = 2
    Ramp = 1
    HoldMin = 1
    HoldMax = 3
    Window = 3
    Mult = 4
    Kill = 1
    ReSettle = 4
    FinalHold = 1
    CaptureRamps <- MCRamps
    JointReady = 1
    Quiet = 1
    HeldMin = 1
    CaptureMax = 5
    HoldOnly = 4
    j1 = j1
    j2 = j2
CHECK_DEADLOCK FALSE
INVARIANTS
    InTime
    CompletedIsComplete
    SecondEventEnds
