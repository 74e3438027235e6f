\* WalSnapshot: four batches with a snapshot after every second, three starts.
\* The process may be down for good.
CONSTANTS
    Programs = {"sequences"}
    NoFile = NoFile
    Incomplete = Incomplete
    Part = Part
    FlushFails = TRUE
    TotalBatches = 4
    MaxLogBatches = 2
    Async = {TRUE, FALSE}
    MaxRuns = 3
    Counts = {2, 3}
    Inputs <- MCInputs
    Initial = 4
    BatchesARun = 2
    SnapshotEach = 1
    SelfGain = 1
    MaxStarts = 2
    Nothing = Nothing
SPECIFICATION MCSpec
INVARIANTS
    RecoversSynced
    SnapshotBehindLog
PROPERTIES
    Terminates
CHECK_DEADLOCK FALSE
