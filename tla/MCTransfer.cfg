SPECIFICATION MCSpec
CONSTANTS
    MaxSize = 3
    Bounds <- SmallBounds
INVARIANTS
    TRTypeOK
    StreamAtPos
    ReadsLatest
    NothingLostQuietly
    CallCanGoOn
PROPERTY
    CallAdvances
CHECK_DEADLOCK FALSE
