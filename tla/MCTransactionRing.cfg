\* Three chunks, of which a run stores two: a ring of six slots.  A first run is stopped before
\* its metadata is stored, the fourth wraps the ring, the fifth recovers from it.
CONSTANTS
    NumChunks = 3
    InitialBalance = 2
    TotalBatches = 2
    Batches <- MCBatches
    MaxBoots = 5
SPECIFICATION Spec
INVARIANTS
    RingIsLatestEntries
    KnownIsRestored
CHECK_DEADLOCK FALSE
