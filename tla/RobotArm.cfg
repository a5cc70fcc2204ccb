SPECIFICATION FairSpec
CONSTANTS
    Caller = {c1, c2}
    None = None
    Slot <- Slots
    SafeHeight = 1
    Clearance <- Clearances
    StepSize = 2
    Speed = 2
    HTolerance = 0
    VTolerance = 0
    MaxRetry = 2
    Start <- Raised
INVARIANT TypeOK
PROPERTIES ArrivedOnSuccess UndisturbedSucceeds TravelsRetracted MoveEnds
