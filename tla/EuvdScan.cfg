\* Three items over three days, pages of one item, windows of up to two days.
SPECIFICATION Spec
CONSTANTS
    Ids = {a, b, c}
    PageSize = 1
    SplitTotal = 2
    ChunkDays = 2
    Attempts = 2
    MaxDay = 3
    MaxUpdates = 4
INVARIANTS
    ScanInv
    NothingMissed
PROPERTIES
    FrontierAdvances
    CatchesUp
