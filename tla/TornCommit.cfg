\* A kill between the two copies of a commit.
CONSTANTS
    N = 2
    MaxBatches = 3
    MaxBoots = 2
SPECIFICATION Spec
INVARIANTS
    UpToDateWithHighestBatch
CHECK_DEADLOCK FALSE
