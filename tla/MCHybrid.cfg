\* HybridLog: three chunks of one account and four batches, so that the ring wraps once.
\* ParamGlaze: four batches in two runs, whose sizes may differ.
\* TransferSemantics: two chunks of two accounts, the last one padding; indices reach one
\* past the array, so that every kind of rejection occurs.
CONSTANTS
    N = 3
    ChunkSize = 1
    SmallCount = 3
    MaxBatches = 4
    Batches <- MCBatches
    Sizes <- MCSizes
    Inputs <- MCInputs
    BatchSize = 2
    Segments = 2
    SelfGain = 1
    Word = 100
    MaxTotal = 4
    MaxStarts = 2
    AccountCount = 4
    Unpadded = 3
    PerChunk = 2
    MaxId = 4
    Half = 3
SPECIFICATION MCSpec
INVARIANTS
    SnapshotsAreVersions
    EffectReproducesBatch
    RangeSetsRecovered
    RecoversUpToRangeSets
    OrderlyEndVerified
    ChunkTracksState
    NoOverdraft
CHECK_DEADLOCK FALSE
