\* A ring of three slots.  The bounds that differ between the programs are in
\* MCSnapshotRings.
CONSTANTS
    Ring = 3
    PerChunk = 1
    Programs <- AllPrograms
    Totals <- TotalsModel
    Transfers <- TransfersModel
    RangeSets <- RangeSetsModel
    Capacity = 4
    MaxRuns <- MaxRunsModel
    Empty = Empty
SPECIFICATION Spec
INVARIANTS
    ReconstructsPass
    ReconstructsBatch
    DrainedAtEnd
    ErrorBoundsGap
    HashVerifies
PROPERTIES
    Ends
CHECK_DEADLOCK FALSE
