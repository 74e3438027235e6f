--------------------------- MODULE CommitHandoff ---------------------------
(***************************************************************************)
(* The handshake between the main thread and the commit worker thread of   *)
(* Remember Glaze (remember_glaze/state_management_multi.c).               *)
(*                                                                         *)
(* The main thread applies a batch, waits until the worker is done with    *)
(* the previous one, copies the new batch into the global argument block   *)
(* and raises commit_data_is_ready_for_worker; the worker copies the block *)
(* to a local one, persists it outside the mutex and lowers                *)
(* commit_by_worker_is_in_progress.  Both flags, worker_thread_should_exit *)
(* and the argument block are touched only between lock and unlock of      *)
(* commit_mutex, so each critical section is one action here.  A           *)
(* pthread_cond_wait is two: the action that finds the predicate false     *)
(* releases the mutex and puts the thread to sleep, and the thread runs    *)
(* its test again after a signal or after a spurious wakeup.               *)
(*                                                                         *)
(* A batch is represented by its number.  What committing it does to the   *)
(* log is module RingLog; module RememberGlaze composes the two.           *)
(***************************************************************************)
EXTENDS Naturals, Sequences

CONSTANT MaxBatches    \* bound: the largest number of batches in the input

ASSUME MaxBatchesAssumption == MaxBatches \in Nat

NoBatch == MaxBatches  \* the argument block before its first use

VARIABLES
    dataReady,   \* commit_data_is_ready_for_worker
    inProgress,  \* commit_by_worker_is_in_progress
    shouldExit,  \* worker_thread_should_exit
    args,        \* global_commit_args_for_worker.current_batch_num
    mainPc,      \* where the main thread is
    workerPc,    \* where the commit worker is
    batch,       \* current_batch_num_in_loop: the batch main applies next
    lastShort,   \* the batch just read was short and the file is at its end
    local,       \* local_args_for_current_task.current_batch_num
    committed    \* history: the batches whose commit has been reported

mainVars   == <<mainPc, batch, lastShort>>
workerVars == <<workerPc, local, committed>>
flagVars   == <<dataReady, inProgress, shouldExit, args>>
handoffVars == <<mainVars, workerVars, flagVars>>

MainPcs == {"start", "read", "waitPrev", "sleepPrev", "dispatch", "finish",
            "waitLast", "sleepLast", "join", "abortJoin", "done", "aborted"}
WorkerPcs == {"check", "sleep", "commit", "report", "exited"}

HandoffInit ==
    /\ dataReady = FALSE
    /\ inProgress = FALSE
    /\ shouldExit = FALSE
    /\ args = NoBatch
    /\ mainPc = "start"
    /\ workerPc = "check"
    /\ batch = 0
    /\ lastShort = FALSE
    /\ local = NoBatch
    /\ committed = <<>>

-----------------------------------------------------------------------------
\* Condition variables: a signal wakes the one thread that may sleep on it.

\* Fault: the signal is forgotten.
NoSignalDataReady == UNCHANGED workerPc

\* Fault: the commit is reported, the waiting main thread is not told.
NoSignalCommitDone == UNCHANGED mainPc

SignalDataReady ==
    workerPc' = IF workerPc = "sleep" THEN "check" ELSE workerPc

SignalCommitDone ==
    mainPc' = CASE mainPc = "sleepPrev" -> "waitPrev"
                [] mainPc = "sleepLast" -> "waitLast"
                [] OTHER -> mainPc

-----------------------------------------------------------------------------
\* The main thread.

\* The buffers are allocated, the transaction file is open.
SetupSucceeds ==
    /\ mainPc = "start"
    /\ mainPc' = "read"
    /\ UNCHANGED <<batch, lastShort, workerVars, flagVars>>

\* An allocation or fopen failed after the worker was created: tell it to
\* exit, join it, exit(EXIT_FAILURE).
SetupFails ==
    /\ mainPc = "start"
    /\ shouldExit' = TRUE
    /\ dataReady' = TRUE
    /\ SignalDataReady
    /\ mainPc' = "abortJoin"
    /\ UNCHANGED <<inProgress, args, batch, lastShort, local, committed>>

\* fread returned transactions; they are applied to the state array.  Only
\* the first batch of the run skips the wait for the previous commit.
ReadAndApply ==
    /\ mainPc = "read"
    /\ batch < MaxBatches
    /\ mainPc' = IF batch > 0 THEN "waitPrev" ELSE "dispatch"
    /\ lastShort' \in BOOLEAN
    /\ UNCHANGED <<batch, workerVars, flagVars>>

\* fread returned nothing.
ReadEndOfFile ==
    /\ mainPc = "read"
    /\ mainPc' = "finish"
    /\ UNCHANGED <<batch, lastShort, workerVars, flagVars>>

\* Fault: an `if` where the code has a `while`, and no wait at all.
WaitForPreviousSkipped ==
    /\ mainPc = "waitPrev"
    /\ mainPc' = "dispatch"
    /\ UNCHANGED <<batch, lastShort, workerVars, flagVars>>

\* while (commit_by_worker_is_in_progress) pthread_cond_wait(...)
WaitForPrevious ==
    /\ mainPc = "waitPrev"
    /\ mainPc' = IF inProgress THEN "sleepPrev" ELSE "dispatch"
    /\ UNCHANGED <<batch, lastShort, workerVars, flagVars>>

\* Fill the argument block and signal the worker.
Dispatch ==
    /\ mainPc = "dispatch"
    /\ args' = batch
    /\ dataReady' = TRUE
    /\ inProgress' = TRUE
    /\ SignalDataReady
    /\ batch' = batch + 1
    /\ mainPc' = IF lastShort THEN "finish" ELSE "read"
    /\ UNCHANGED <<shouldExit, lastShort, local, committed>>

\* The final hash is computed and saved and the log is synced, with the last
\* commit still running.
Finish ==
    /\ mainPc = "finish"
    /\ mainPc' = "waitLast"
    /\ UNCHANGED <<batch, lastShort, workerVars, flagVars>>

\* Fault: main raises the exit flag without waiting for the last commit.
WaitForLastSkipped ==
    /\ mainPc = "waitLast"
    /\ shouldExit' = TRUE
    /\ dataReady' = TRUE
    /\ SignalDataReady
    /\ mainPc' = "join"
    /\ UNCHANGED <<inProgress, args, batch, lastShort, local, committed>>

\* Wait for the last commit, then tell the worker to exit.
WaitForLast ==
    /\ mainPc = "waitLast"
    /\ \/ /\ inProgress
          /\ mainPc' = "sleepLast"
          /\ UNCHANGED <<dataReady, shouldExit, workerPc>>
       \/ /\ ~inProgress
          /\ shouldExit' = TRUE
          /\ dataReady' = TRUE
          /\ SignalDataReady
          /\ mainPc' = "join"
    /\ UNCHANGED <<inProgress, args, batch, lastShort, local, committed>>

\* pthread_join returns once the worker has left its loop.
Join ==
    /\ mainPc \in {"join", "abortJoin"}
    /\ workerPc = "exited"
    /\ mainPc' = IF mainPc = "join" THEN "done" ELSE "aborted"
    /\ UNCHANGED <<batch, lastShort, workerVars, flagVars>>

\* pthread_cond_wait may return without a signal.
MainSpuriousWakeup ==
    /\ mainPc \in {"sleepPrev", "sleepLast"}
    /\ SignalCommitDone
    /\ UNCHANGED <<batch, lastShort, workerVars, flagVars>>

-----------------------------------------------------------------------------
\* The commit worker.

\* The wait loop finds nothing to do.
WorkerSleep ==
    /\ workerPc = "check"
    /\ ~dataReady /\ ~shouldExit
    /\ workerPc' = "sleep"
    /\ UNCHANGED <<local, committed, mainVars, flagVars>>

\* worker_thread_should_exit is looked at first, whatever data is ready.
WorkerExit ==
    /\ workerPc = "check"
    /\ shouldExit
    /\ workerPc' = "exited"
    /\ UNCHANGED <<local, committed, mainVars, flagVars>>

\* Copy the argument block, lower the ready flag, unlock.
WorkerTake ==
    /\ workerPc = "check"
    /\ dataReady /\ ~shouldExit
    /\ local' = args
    /\ dataReady' = FALSE
    /\ workerPc' = "commit"
    /\ UNCHANGED <<committed, inProgress, shouldExit, args, mainVars>>

\* memcpy into the mapped log and msync, outside the mutex.
WorkerCommit ==
    /\ workerPc = "commit"
    /\ workerPc' = "report"
    /\ UNCHANGED <<local, committed, mainVars, flagVars>>

\* commit_by_worker_is_in_progress = false; signal the main thread.
WorkerReport ==
    /\ workerPc = "report"
    /\ inProgress' = FALSE
    /\ committed' = Append(committed, local)
    /\ SignalCommitDone
    /\ workerPc' = "check"
    /\ UNCHANGED <<local, dataReady, shouldExit, args, batch, lastShort>>

WorkerSpuriousWakeup ==
    /\ workerPc = "sleep"
    /\ workerPc' = "check"
    /\ UNCHANGED <<local, committed, mainVars, flagVars>>

-----------------------------------------------------------------------------
\* The steps a running thread takes; spurious wakeups are nobody's duty.
MainStep ==
    \/ SetupSucceeds \/ SetupFails \/ ReadAndApply \/ ReadEndOfFile
    \/ WaitForPrevious \/ Dispatch \/ Finish \/ WaitForLast \/ Join

WorkerStep ==
    WorkerSleep \/ WorkerExit \/ WorkerTake \/ WorkerCommit \/ WorkerReport

HandoffNext ==
    MainStep \/ WorkerStep \/ MainSpuriousWakeup \/ WorkerSpuriousWakeup

HandoffFairness == WF_handoffVars(MainStep) /\ WF_handoffVars(WorkerStep)

HandoffSpec == HandoffInit /\ [][HandoffNext]_handoffVars /\ HandoffFairness
-----------------------------------------------------------------------------
\* Properties.

\* Every variable has its type; counters stay within the bound on the input.
HandoffTypeOK ==
    /\ dataReady \in BOOLEAN /\ inProgress \in BOOLEAN /\ shouldExit \in BOOLEAN
    /\ args \in 0..MaxBatches /\ local \in 0..MaxBatches
    /\ batch \in 0..MaxBatches
    /\ lastShort \in BOOLEAN
    /\ mainPc \in MainPcs /\ workerPc \in WorkerPcs
    /\ committed \in Seq(0..MaxBatches)

\* Batches reach the log in the order of the file, none twice, none skipped:
\* the i-th commit the worker reports is batch i - 1.
CommittedInOrder ==
    \A i \in DOMAIN committed : committed[i] = i - 1

\* A thread asleep on a condition variable has nothing to do: the signal that
\* announces work cannot fall between the test and the wait.
NoLostWakeup ==
    /\ workerPc = "sleep" => ~dataReady /\ ~shouldExit
    /\ mainPc \in {"sleepPrev", "sleepLast"} => inProgress

\* main() returns only after every batch it dispatched was committed, although
\* the worker leaves its loop on worker_thread_should_exit without looking at
\* commit_data_is_ready_for_worker.
NothingLostAtExit ==
    mainPc = "done" => Len(committed) = batch

\* The shared argument block is overwritten only when the worker has copied the
\* previous contents and has persisted them.
ArgsOverwrittenWhenConsumed ==
    [][args' # args => /\ ~dataReady /\ ~inProgress
                       /\ workerPc \in {"check", "sleep"}
                       /\ Len(committed) = batch]_handoffVars

\* The inductive invariant behind the properties above.  Between the moment
\* main raises inProgress and the moment the worker lowers it there is one
\* batch in flight, either in the argument block with dataReady raised or in
\* the worker's hands; outside that interval dataReady can be up only to make
\* the worker see shouldExit.
OneInFlight ==
    /\ inProgress =>
          /\ ~shouldExit /\ batch > 0 /\ args = batch - 1
          /\ \/ dataReady /\ workerPc = "check"
             \/ ~dataReady /\ workerPc \in {"commit", "report"} /\ local = batch - 1
    /\ ~inProgress =>
          /\ dataReady = shouldExit
          /\ workerPc \in {"check", "sleep", "exited"}
    /\ Len(committed) = IF inProgress THEN batch - 1 ELSE batch

\* Where the main thread is tells what it may rely on.
MainKnows ==
    /\ mainPc = "start" => batch = 0
    /\ mainPc \in {"dispatch", "join", "done", "abortJoin", "aborted"} => ~inProgress
    /\ mainPc \in {"waitPrev", "sleepPrev", "dispatch"} => batch < MaxBatches
    /\ shouldExit <=> mainPc \in {"join", "done", "abortJoin", "aborted"}
    /\ mainPc \in {"abortJoin", "aborted"} => batch = 0
    /\ mainPc \in {"done", "aborted"} => workerPc = "exited"
    /\ workerPc = "exited" => shouldExit

HandoffInv ==
    HandoffTypeOK /\ CommittedInOrder /\ NoLostWakeup /\ OneInFlight /\ MainKnows

\* Refinement: main's progress counts a batch as applied from the moment it is
\* read; at most two batches are in memory and not in the log.
Applied ==
    batch + (IF mainPc \in {"waitPrev", "sleepPrev", "dispatch"} THEN 1 ELSE 0)

OC == INSTANCE OrderedCommit WITH
        Lag <- 2,
        applied <- Applied,
        committed <- Len(committed),
        stopped <- mainPc \in {"done", "aborted"}

\* The handshake implements ordered commit with a lag of two: every step of
\* either thread applies the next batch, commits the next batch, stops with
\* everything committed, or changes nothing that the abstract pipeline shows.
ImplementsOrderedCommit == OC!OCSpec

\* With both threads scheduled fairly the process always comes to its end: the
\* two condition variables never leave both threads waiting for each other.
Terminates == <>(mainPc \in {"done", "aborted"})
=============================================================================
