---------------------------- MODULE StagedQueues ----------------------------
(***************************************************************************)
(* The two queues between the three threads of the pipelined variants      *)
(* (ring_buffer_glaze, ring_buffer_glaze_group): the reader hands batches  *)
(* to the main thread, the main thread hands commit jobs to the commit     *)
(* thread.  Each queue has one mutex and one condition variable, on which  *)
(* the transaction queue's two users wait for opposite things.             *)
(*                                                                         *)
(* An operator is one critical section: from the lock, or the return from  *)
(* pthread_cond_wait, to the unlock or the next wait.                      *)
(***************************************************************************)
EXTENDS Naturals, Sequences

VARIABLES
    txQueue, txCapacity, txDone,     \* TransactionQueue
    txWaiting,                       \* the threads in its pthread_cond_wait
    jobQueue, jobCapacity, jobDone,  \* CommitQueue
    jobWaiting

txVars == <<txQueue, txCapacity, txDone, txWaiting>>
jobVars == <<jobQueue, jobCapacity, jobDone, jobWaiting>>
queueVars == <<txVars, jobVars>>

\* init_transaction_queue and init_commit_queue
InitQueues(txSize, jobSize) ==
    /\ txQueue = <<>> /\ txCapacity = txSize /\ txDone = FALSE /\ txWaiting = {}
    /\ jobQueue = <<>> /\ jobCapacity = jobSize /\ jobDone = FALSE /\ jobWaiting = {}

RestartQueues ==
    /\ txQueue' = <<>> /\ txDone' = FALSE /\ txWaiting' = {}
    /\ jobQueue' = <<>> /\ jobDone' = FALSE /\ jobWaiting' = {}
    /\ UNCHANGED <<txCapacity, jobCapacity>>

\* What pthread_cond_signal leaves of the waiting threads: it wakes one of them.
Signalled(waiting) ==
    IF waiting = {} THEN {{}} ELSE {waiting \ {t} : t \in waiting}

-----------------------------------------------------------------------------
\* Transaction queue.

\* Fault: the enqueue does not signal.
EnqueueTransactionUnsignalled(batch) ==
    /\ "reader" \notin txWaiting
    /\ Len(txQueue) < txCapacity
    /\ txQueue' = Append(txQueue, batch)
    /\ UNCHANGED <<txWaiting, txCapacity, txDone>>

EnqueueTransaction(batch) ==
    /\ "reader" \notin txWaiting
    /\ Len(txQueue) < txCapacity
    /\ txQueue' = Append(txQueue, batch)
    /\ txWaiting' \in Signalled(txWaiting)
    /\ UNCHANGED <<txCapacity, txDone>>

EnqueueTransactionWaits ==
    /\ "reader" \notin txWaiting
    /\ Len(txQueue) = txCapacity
    /\ txWaiting' = txWaiting \union {"reader"}
    /\ UNCHANGED <<txQueue, txCapacity, txDone>>

\* Fault: done is set and nobody is told.
CloseTransactionsUnsignalled ==
    /\ "reader" \notin txWaiting
    /\ txDone' = TRUE
    /\ UNCHANGED <<txQueue, txCapacity, txWaiting>>

\* The reader has reached its end: done is set and everybody is woken.
CloseTransactions ==
    /\ "reader" \notin txWaiting
    /\ txDone' = TRUE /\ txWaiting' = {}
    /\ UNCHANGED <<txQueue, txCapacity>>

DequeueTransactionWaits ==
    /\ "main" \notin txWaiting
    /\ txQueue = <<>> /\ ~txDone
    /\ txWaiting' = txWaiting \union {"main"}
    /\ UNCHANGED <<txQueue, txCapacity, txDone>>

\* Fault: the dequeue does not signal.
DequeueTransactionUnsignalled ==
    /\ "main" \notin txWaiting
    /\ txQueue # <<>>
    /\ txQueue' = Tail(txQueue)
    /\ UNCHANGED <<txWaiting, txCapacity, txDone>>

DequeueTransaction ==
    /\ "main" \notin txWaiting
    /\ txQueue # <<>>
    /\ txQueue' = Tail(txQueue)
    /\ txWaiting' \in Signalled(txWaiting)
    /\ UNCHANGED <<txCapacity, txDone>>

\* dequeue_transaction returns NULL.
DequeueNothing ==
    /\ "main" \notin txWaiting
    /\ txQueue = <<>> /\ txDone
    /\ UNCHANGED txVars

-----------------------------------------------------------------------------
\* Commit queue.

JobQueueFull == Len(jobQueue) = jobCapacity

EnqueueJob(job) ==
    /\ ~JobQueueFull
    /\ jobQueue' = Append(jobQueue, job)
    /\ jobWaiting' \in Signalled(jobWaiting)
    /\ UNCHANGED <<jobCapacity, jobDone>>

CloseJobs ==
    /\ jobDone' = TRUE
    /\ jobWaiting' \in Signalled(jobWaiting)
    /\ UNCHANGED <<jobQueue, jobCapacity>>

JobWaits ==
    /\ "worker" \notin jobWaiting
    /\ jobQueue = <<>> /\ ~jobDone
    /\ jobWaiting' = {"worker"}
    /\ UNCHANGED <<jobQueue, jobCapacity, jobDone>>

DequeueJob ==
    /\ "worker" \notin jobWaiting
    /\ jobQueue # <<>>
    /\ jobQueue' = Tail(jobQueue)
    /\ UNCHANGED <<jobWaiting, jobCapacity, jobDone>>

\* Fault: done is taken for the end of the queue.
NoMoreJobsAtDone ==
    /\ "worker" \notin jobWaiting
    /\ jobDone
    /\ UNCHANGED jobVars

NoMoreJobs ==
    /\ "worker" \notin jobWaiting
    /\ jobQueue = <<>> /\ jobDone
    /\ UNCHANGED jobVars

\* A wait may return without a signal; its loop looks at the queue again.
SpuriousWakeup ==
    \/ /\ txWaiting # {}
       /\ \E t \in txWaiting : txWaiting' = txWaiting \ {t}
       /\ UNCHANGED <<txQueue, txCapacity, txDone, jobVars>>
    \/ /\ jobWaiting # {}
       /\ jobWaiting' = {}
       /\ UNCHANGED <<jobQueue, jobCapacity, jobDone, txVars>>
=============================================================================
