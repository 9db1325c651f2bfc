CONSTANTS
    Timeout = 2
    MaxFrame = 2
    PipeCap = 1
    ErrLimit = 1
    MaxErr = 2
    MaxExec = 2
SPECIFICATION Spec
INVARIANTS
    TypeOK
    OutcomeIsTrue
    WallIsBounded
PROPERTIES
    EverythingEnds
CHECK_DEADLOCK FALSE
