---------------------------- MODULE GroupPipeline ----------------------------
(***************************************************************************)
(* The pipelined variant that reads batches in groups and applies them     *)
(* (ring_buffer_glaze_group/state_management.c; the same code with more    *)
(* batches is multithreaded_server_testing_group_batching): one run over a *)
(* new log.  The commit thread writes and syncs as in BatchPipeline, here  *)
(* in one step.                                                            *)
(***************************************************************************)
EXTENDS StagedQueues, Integers, SequencesExt, FiniteSetsExt

CONSTANTS
    NumBatches,  \* NUMBER_OF_BATCHES
    GroupSize,   \* BATCH_GROUP_SIZE
    Capacities,  \* capacities of the group queue, the program's among them
    MaxBatches,  \* bound: whole batches in the largest transaction file
    Accounts,    \* account numbers
    Transactions \* the transactions of a batch: a sequence

GroupAssumption ==
    /\ NumBatches \in Nat \ {0} /\ GroupSize \in Nat \ {0} /\ MaxBatches \in Nat
    /\ Capacities \subseteq Nat \ {0}

VARIABLES
    inFile,     \* whole batches in transactions.bin
    reader, main, worker,  \* where the threads are
    batchCount, \* batch_count of the reader: batches it has read
    group,      \* the group the reader has filled
    current,    \* what main has left of its group
    state,      \* the balances
    processed,  \* processed_batches
    job,        \* the job of the commit thread
    opened,     \* the commit thread has opened the log
    committed,  \* history: the jobs it has written, in order, and whether it could
    hashFile    \* state_hash.dat

readerVars == <<inFile, reader, batchCount, group>>
mainVars == <<main, current, state, processed, hashFile>>
workerVars == <<worker, job, opened, committed>>
vars == <<queueVars, readerVars, mainVars, workerVars>>

NoJob == [batch |-> -1, writes |-> <<>>, value |-> <<>>]
NoHash == <<>>

GroupQueueCapacity == (NumBatches + GroupSize - 1) \div GroupSize

Init ==
    /\ \E c \in Capacities \union {GroupQueueCapacity} : InitQueues(c, NumBatches)
    /\ inFile \in 0..MaxBatches
    /\ reader = "fill" /\ main = "dequeue" /\ worker = "open"
    /\ batchCount = 0 /\ group = <<>> /\ current = <<>> /\ processed = 0
    /\ state = [a \in Accounts |-> 0]
    /\ job = NoJob /\ opened = FALSE /\ committed = <<>> /\ hashFile = NoHash

-----------------------------------------------------------------------------
\* The reader thread.

\* Fault: at the end of the file the group keeps its planned size.
FillGroupUnadjusted ==
    /\ reader = "fill" /\ batchCount < NumBatches
    /\ LET planned == Min({NumBatches - batchCount, GroupSize})
           got == Min({planned, inFile - batchCount})
       IN  /\ got > 0
           /\ group' = [i \in 1..planned |-> batchCount + i - 1]
           /\ batchCount' = batchCount + got
    /\ reader' = "enqueue"
    /\ UNCHANGED <<queueVars, inFile, mainVars, workerVars>>

\* A group of the batches that remain, of the group size at most, cut at the end
\* of the file.  When the file has no batch left the group is freed and the loop
\* starts over, which changes nothing: there is no step.
FillGroup ==
    /\ reader = "fill" /\ batchCount < NumBatches
    /\ LET planned == Min({NumBatches - batchCount, GroupSize})
           got == Min({planned, inFile - batchCount})
       IN  /\ got > 0
           /\ group' = [i \in 1..got |-> batchCount + i - 1]
           /\ batchCount' = batchCount + got
    /\ reader' = "enqueue"
    /\ UNCHANGED <<queueVars, inFile, mainVars, workerVars>>

EnqueueGroup ==
    /\ reader = "enqueue"
    /\ \/ EnqueueTransaction(group) /\ reader' = "fill" /\ group' = <<>>
       \/ EnqueueTransactionWaits /\ UNCHANGED <<reader, group>>
    /\ UNCHANGED <<jobVars, inFile, batchCount, mainVars, workerVars>>

FinishReading ==
    /\ reader = "fill" /\ batchCount >= NumBatches
    /\ CloseTransactions
    /\ reader' = "exited"
    /\ UNCHANGED <<jobVars, inFile, batchCount, group, mainVars, workerVars>>

-----------------------------------------------------------------------------
\* The main thread.

RetrieveGroup ==
    /\ main = "dequeue" /\ processed < NumBatches
    /\ \/ DequeueTransactionWaits /\ UNCHANGED <<main, current>>
       \/ DequeueTransaction /\ current' = Head(txQueue) /\ main' = "process"
       \/ DequeueNothing /\ main' = "close" /\ UNCHANGED current
    /\ UNCHANGED <<jobVars, readerVars, state, processed, hashFile, workerVars>>

\* A transaction of a sender with a positive balance moves its amount, covered or
\* not, and its two balances are recorded, cut to 32 bits (here they fit); the entry of
\* any other transaction is what malloc returned.
Uninitialised == [from |-> -1, fromBalance |-> 0, to |-> -1, toBalance |-> 0]

ApplyTransaction(acc, tx) ==
    LET debited == [acc.state EXCEPT ![tx.from] = @ - tx.amount]
        credited == [debited EXCEPT ![tx.to] = @ + tx.amount]
    IN  IF acc.state[tx.from] > 0
          THEN [state |-> credited,
                writes |-> Append(acc.writes,
                   [from |-> tx.from, fromBalance |-> credited[tx.from],
                    to |-> tx.to, toBalance |-> credited[tx.to]])]
          ELSE [acc EXCEPT !.writes = Append(@, Uninitialised)]

\* One batch of the group: applied, copied and submitted.
ProcessBatch ==
    /\ main = "process" /\ current # <<>>
    /\ LET done == FoldLeft(ApplyTransaction, [state |-> state, writes |-> <<>>], Transactions)
       IN  /\ state' = done.state
           /\ EnqueueJob([batch |-> processed, txs |-> Head(current),
                          writes |-> done.writes, value |-> done.state])
    /\ current' = Tail(current) /\ processed' = processed + 1
    /\ UNCHANGED <<txVars, readerVars, main, hashFile, workerVars>>

FinishGroup ==
    /\ main = "process" /\ current = <<>>
    /\ main' = "dequeue"
    /\ UNCHANGED <<queueVars, readerVars, current, state, processed, hashFile, workerVars>>

CloseCommits ==
    /\ main = "close" \/ (main = "dequeue" /\ processed = NumBatches)
    /\ CloseJobs
    /\ main' = "join"
    /\ UNCHANGED <<txVars, readerVars, current, state, processed, hashFile, workerVars>>

Finish ==
    /\ main = "join" /\ worker = "exited" /\ reader = "exited"
    /\ hashFile' = state /\ main' = "exited"
    /\ UNCHANGED <<queueVars, readerVars, current, state, processed, workerVars>>

-----------------------------------------------------------------------------
\* The commit thread.

\* If the log cannot be opened the thread exits; the others do not notice.
OpenLog ==
    /\ worker = "open"
    /\ \/ worker' = "take" /\ opened' = TRUE
       \/ worker' = "exited" /\ UNCHANGED opened
    /\ UNCHANGED <<queueVars, readerVars, mainVars, job, committed>>

TakeJob ==
    /\ worker = "take"
    /\ \/ JobWaits /\ UNCHANGED <<worker, job>>
       \/ DequeueJob /\ job' = Head(jobQueue) /\ worker' = "commit"
       \/ NoMoreJobs /\ worker' = "exited" /\ UNCHANGED job
    /\ UNCHANGED <<txVars, readerVars, mainVars, opened, committed>>

\* A write that fails is printed, an fsync is not even looked at, and the next job taken.
CommitJob ==
    /\ worker = "commit"
    /\ \E whole \in BOOLEAN : committed' = Append(committed, [job |-> job, whole |-> whole])
    /\ worker' = "take" /\ job' = NoJob
    /\ UNCHANGED <<queueVars, readerVars, mainVars, opened>>

Wakeup == SpuriousWakeup /\ UNCHANGED <<readerVars, mainVars, workerVars>>

Reader == FillGroup \/ EnqueueGroup \/ FinishReading
Main == RetrieveGroup \/ ProcessBatch \/ FinishGroup \/ CloseCommits \/ Finish
Worker == OpenLog \/ TakeJob \/ CommitJob

Next ==
    \/ FillGroup \/ EnqueueGroup \/ FinishReading
    \/ RetrieveGroup \/ ProcessBatch \/ FinishGroup \/ CloseCommits \/ Finish
    \/ OpenLog \/ TakeJob \/ CommitJob
    \/ Wakeup

\* A thread that can step is scheduled eventually.
Spec == Init /\ [][Next]_vars /\ WF_vars(Reader) /\ WF_vars(Main) /\ WF_vars(Worker)

-----------------------------------------------------------------------------
\* Properties.

\* Whatever the grouping, and whatever writes fail, the commit thread writes the batches
\* of the file one by one, in order, under their own numbers, none of them twice and none
\* that the file does not have.
CommitsFileInOrder ==
    /\ \A i \in DOMAIN committed :
          committed[i].job.batch = i - 1 /\ committed[i].job.txs = i - 1 /\ i <= inFile
    /\ processed <= batchCount /\ Len(committed) <= processed

\* With a file of all batches the program ends, with all of them in the log but for those
\* whose write failed; with none at all if the commit thread could not open it.
InLog == {committed[i].job.batch : i \in {k \in DOMAIN committed : committed[k].whole}}
Failed == {committed[i].job.batch : i \in {k \in DOMAIN committed : ~committed[k].whole}}

EndsOnFullFile ==
    inFile >= NumBatches ~>
        /\ main = "exited"
        /\ opened => InLog = (0..NumBatches - 1) \ Failed

-----------------------------------------------------------------------------
\* What the comments say, and the code does not do.

\* "End-of-file reached; free this batch and adjust group size": the program ends
\* with a shorter file too.
Terminates == <>(main = "exited")

\* "Process each transaction: update the state and record the updated balances."
BalancesRecorded ==
    \A i \in DOMAIN jobQueue : \A j \in DOMAIN jobQueue[i].writes :
        jobQueue[i].writes[j] # Uninitialised
=============================================================================
