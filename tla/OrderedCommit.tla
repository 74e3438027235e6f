--------------------------- MODULE OrderedCommit ---------------------------
(***************************************************************************)
(* What the commit pipeline of Remember Glaze promises to the code that    *)
(* processes transactions: batches are made persistent one at a time, in   *)
(* the order in which they were applied, each exactly once, and persistence *)
(* is never more than Lag batches behind the in-memory state.              *)
(*                                                                         *)
(* applied   the number of batches applied to the in-memory state          *)
(* committed the number of batches whose commit has returned               *)
(* stopped   TRUE once the process has left main()                         *)
(***************************************************************************)
EXTENDS Naturals

CONSTANTS MaxBatches,  \* the largest number of batches in the input file
          Lag          \* how far memory may run ahead of the log

VARIABLES applied, committed, stopped

ocVars == <<applied, committed, stopped>>

OCInit ==
    /\ applied = 0
    /\ committed = 0
    /\ stopped = FALSE

\* One batch is read from the file and applied to the in-memory state.
ApplyNext ==
    /\ ~stopped
    /\ applied < MaxBatches
    /\ applied - committed < Lag
    /\ applied' = applied + 1
    /\ UNCHANGED <<committed, stopped>>

\* The oldest applied batch that is not yet in the log becomes persistent.
CommitNext ==
    /\ ~stopped
    /\ committed < applied
    /\ committed' = committed + 1
    /\ UNCHANGED <<applied, stopped>>

\* The process leaves main() only when every applied batch is in the log.
Stop ==
    /\ ~stopped
    /\ committed = applied
    /\ stopped' = TRUE
    /\ UNCHANGED <<applied, committed>>

OCNext == ApplyNext \/ CommitNext \/ Stop

\* Only what may happen is specified; that the pipeline keeps moving is a
\* property of the implementation.
OCSpec == OCInit /\ [][OCNext]_ocVars
=============================================================================
