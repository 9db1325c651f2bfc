CONSTANTS
    Daemons = {"d1", "d2"}
    Names <- TypedNames
    Lower <- LowerTyped
    Values = {"v"}
    MayEnable = TRUE
    StorageMayFail = TRUE
    ClockMayStepBack = FALSE
    MaxTime = 1
    MaxItems = 2
    MaxRevisions = 4
SPECIFICATION Spec
INVARIANTS
    HistoryIsLinear
    KeyNeverChanges
    HeadSortsFirst
