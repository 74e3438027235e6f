\* Up to four batches: the first one that does not wait, two that find the
\* previous commit running, and a last one.
CONSTANT MaxBatches = 4
SPECIFICATION HandoffSpec
INVARIANTS
    CommittedInOrder
    NoLostWakeup
PROPERTIES
    ArgsOverwrittenWhenConsumed
    ImplementsOrderedCommit
    Terminates
CHECK_DEADLOCK FALSE
