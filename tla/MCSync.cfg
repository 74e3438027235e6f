\* SyncGlaze: two chunks, files of up to three batches, so that the ring wraps, and three
\* starts.  TwoCycleLog: two chunks of two accounts, one of which is padding; files of up
\* to five batches, two passes and one more, and two starts.
CONSTANTS
    N = 2
    MaxBatches = 3
    MaxBoots = 3
    Ring = 2
    PerChunk = 2
    Small = 3
    TestBatches <- MCTestBatches
    MaxFile = 5
    MaxAll = 6
    MaxRuns = 2
SPECIFICATION MCSpec
INVARIANTS
    SyncRecoveryExact
    HashVerdictRight
    TwoCyclesRecover
    OrderlyEndAccepted
CHECK_DEADLOCK FALSE
