\* Two slots and three batches, so that the ring wraps; queues of one entry and
\* of all batches; files that are too short, just long enough and longer.
CONSTANTS
    Ring = 2
    NumBatches = 3
    Capacities = {1, 3}
    MaxBatches = 4
    MaxRuns = 1
SPECIFICATION Spec
INVARIANTS
    OneBatchPerSlot
    NoLostWakeup
    ReconstructsNewest
    NothingLostAtExit
PROPERTIES
    Terminates
CHECK_DEADLOCK FALSE
