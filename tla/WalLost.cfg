SPECIFICATION Spec
CONSTANTS
    NoFile = NoFile
    Incomplete = Incomplete
    Part = Part
    FlushFails = FALSE
    TotalBatches = 3
    MaxLogBatches = 2
    Async = {TRUE}
    MaxRuns = 1
INVARIANTS
    SyncedBatchesSafe
CHECK_DEADLOCK FALSE
