\* Three chunks and five batches: the ring wraps, so recovery finds snapshots of
\* three different ages, and the batch that overwrites a slot may be torn.
CONSTANTS
    N = 3
    MaxBatches = 5
    MaxBoots = 2
SPECIFICATION Spec
INVARIANTS
    RecoveryExact
    ReportedIsDurable
    CommitsOneVersion
    VerdictRight
CHECK_DEADLOCK FALSE
