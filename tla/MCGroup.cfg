\* Three groups, the last one smaller; files that end within, between and after groups. The system stops when all threads have exited or the file is too short.
CONSTANTS
    Ring = 2
    MaxRuns = 1
    NumBatches = 5
    GroupSize = 2
    Capacities = {1}
    MaxBatches = 6
    Accounts = {0, 1}
    Transactions <- MCTransactions
SPECIFICATION MCSpec
INVARIANTS
    CommitsFileInOrder
PROPERTIES
    EndsOnFullFile
CHECK_DEADLOCK FALSE
