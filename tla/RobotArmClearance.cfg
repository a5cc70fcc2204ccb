SPECIFICATION Spec
CONSTANTS
    Caller = {c1}
    None = None
    Slot <- Slots
    SafeHeight = 1
    Clearance <- Clearances
    StepSize = 2
    Speed = 2
    HTolerance = 0
    VTolerance = 0
    MaxRetry = 2
    Start <- Raised
PROPERTY TravelsAtClearance
