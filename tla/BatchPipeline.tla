---------------------------- MODULE BatchPipeline ----------------------------
(***************************************************************************)
(* The pipelined variant (ring_buffer_glaze/state_management.c; the same   *)
(* code with more batches is multithreaded_server_testing): a reader       *)
(* thread, the main thread and a commit thread, and the reconstruction     *)
(* from the log when the process starts.  The update of the state is a     *)
(* dummy: every batch adds BATCH_SIZE to balance 0, so that the state is   *)
(* the number of batches it has seen.                                      *)
(***************************************************************************)
EXTENDS StagedQueues, CheckpointRing, FiniteSetsExt

CONSTANTS
    NumBatches,  \* NUMBER_OF_BATCHES
    Capacities,  \* capacities of the queues; the program uses NUMBER_OF_BATCHES
    MaxBatches,  \* bound: whole batches in the largest transaction file
    MaxRuns      \* bound: starts of the program

ASSUME PipelineAssumption ==
    /\ NumBatches \in Nat \ {0} /\ MaxBatches \in Nat /\ MaxRuns \in Nat \ {0}
    /\ Capacities \subseteq Nat \ {0}

VARIABLES
    inFile,      \* whole batches in transactions.bin
    phase,       \* "down", "run", "overflow" (exited on a full commit queue)
    run,         \* number of the run
    reader, main, worker,  \* where the threads are
    nextRead,    \* i of the reader
    state,       \* batches that balance 0 has seen
    batchNum,    \* batch_num of main
    snapshot,    \* state_snapshot of main
    batch,       \* transaction_batch of main
    job,         \* the job of the commit thread
    hashFile,    \* state_hash.dat: the state it is the hash of, or -1
    verdict,     \* "none", "match", "mismatch": the comparison at the start
    bases,       \* history: the state at the start of each run
    committed,   \* history: jobs of this run that were synced
    ended        \* history: how the last run ended

fileVars == <<inFile, nextRead>>
mainVars == <<state, batchNum, snapshot, batch>>
bootVars == <<phase, run, hashFile, verdict, bases, ended>>
vars == <<queueVars, ringVars, fileVars, mainVars, bootVars,
          reader, main, worker, job, committed>>

Init ==
    /\ \E c \in Capacities : InitQueues(c, c)
    /\ InitRing
    /\ inFile \in 0..MaxBatches /\ nextRead = 0
    /\ phase = "down" /\ run = 0 /\ hashFile = -1 /\ verdict = "none"
    /\ reader = "exited" /\ main = "exited" /\ worker = "exited"
    /\ state = 0 /\ batchNum = 0 /\ snapshot = 0 /\ batch = -1 /\ job = Nothing
    /\ bases = <<>> /\ committed = 0 /\ ended = "never ran"

\* Reconstruction and comparison with the stored hash; then the threads start,
\* unless the program was started to recover only.
Start ==
    /\ phase = "down" /\ run < MaxRuns
    /\ state' = ReconstructedState
    /\ verdict' = IF ValidSlots = {} \/ hashFile = -1 THEN "none"
                  ELSE IF ReconstructedState = hashFile THEN "match" ELSE "mismatch"
    /\ phase' = "run" /\ run' = run + 1
    /\ bases' = Append(bases, ReconstructedState)
    /\ RestartQueues
    /\ reader' = "read" /\ main' = "update" /\ worker' = "open"
    /\ nextRead' = 0 /\ batchNum' = 0 /\ committed' = 0
    /\ UNCHANGED <<ringVars, inFile, snapshot, batch, job, hashFile, ended>>

RecoverOnly ==
    /\ phase = "down"
    /\ verdict' = IF ValidSlots = {} \/ hashFile = -1 THEN "none"
                  ELSE IF ReconstructedState = hashFile THEN "match" ELSE "mismatch"
    /\ state' = ReconstructedState
    /\ UNCHANGED <<queueVars, ringVars, fileVars, batchNum, snapshot, batch, reader, main,
                   worker, job, committed, phase, run, hashFile, bases, ended>>

-----------------------------------------------------------------------------
\* The reader thread.

MoreToRead == nextRead < NumBatches /\ nextRead < inFile

ReadBatch ==
    /\ phase = "run" /\ reader = "read" /\ MoreToRead
    /\ \/ EnqueueTransaction(nextRead) /\ nextRead' = nextRead + 1
       \/ EnqueueTransactionWaits /\ UNCHANGED nextRead
    /\ UNCHANGED <<jobVars, ringVars, inFile, mainVars, bootVars, reader, main, worker,
                   job, committed>>

\* After NUMBER_OF_BATCHES, or at the end of the file; a batch that the file
\* ends in is dropped.
FinishReading ==
    /\ phase = "run" /\ reader = "read" /\ ~MoreToRead
    /\ CloseTransactions
    /\ reader' = "exited"
    /\ UNCHANGED <<jobVars, ringVars, fileVars, mainVars, bootVars, main, worker, job,
                   committed>>

-----------------------------------------------------------------------------
\* The main thread.

\* Fault: the snapshot shows the state before the update.
UpdateStateAfterSnapshot ==
    /\ phase = "run" /\ main = "update" /\ batchNum < NumBatches
    /\ state' = state + 1 /\ snapshot' = state
    /\ main' = "dequeue"
    /\ UNCHANGED <<queueVars, ringVars, fileVars, batchNum, batch, bootVars, reader,
                   worker, job, committed>>

\* The state is updated and copied before there is a batch.
UpdateState ==
    /\ phase = "run" /\ main = "update" /\ batchNum < NumBatches
    /\ state' = state + 1 /\ snapshot' = state + 1
    /\ main' = "dequeue"
    /\ UNCHANGED <<queueVars, ringVars, fileVars, batchNum, batch, bootVars, reader,
                   worker, job, committed>>

Retrieve ==
    /\ phase = "run" /\ main = "dequeue"
    /\ \/ /\ DequeueTransactionWaits
          /\ UNCHANGED <<main, batch>>
       \/ /\ DequeueTransaction
          /\ batch' = Head(txQueue) /\ main' = "enqueue"
       \/ /\ DequeueNothing
          /\ main' = "close" /\ UNCHANGED batch
    /\ UNCHANGED <<jobVars, ringVars, fileVars, state, batchNum, snapshot, bootVars,
                   reader, worker, job, committed>>

\* enqueue_job ends the process when the queue is full.
Submit ==
    /\ phase = "run" /\ main = "enqueue"
    /\ \/ /\ EnqueueJob([run |-> run, batch |-> batchNum, txs |-> batch, value |-> snapshot])
          /\ batchNum' = batchNum + 1 /\ main' = "update"
          /\ UNCHANGED <<phase, ringVars>>
       \/ /\ JobQueueFull
          /\ phase' = "overflow"
          /\ KeepCache(IF worker \in Parts THEN {Slot(job.batch)} ELSE {})
          /\ UNCHANGED <<jobVars, batchNum, main>>
    /\ UNCHANGED <<txVars, fileVars, state, snapshot, batch, run, hashFile, verdict,
                   bases, ended, reader, worker, job, committed>>

CloseCommits ==
    /\ phase = "run"
    /\ main = "close" \/ (main = "update" /\ batchNum = NumBatches)
    /\ CloseJobs
    /\ main' = "join"
    /\ UNCHANGED <<txVars, ringVars, fileVars, mainVars, bootVars, reader, worker, job,
                   committed>>

\* Both threads are joined and the hash of the state is written.
Finish ==
    /\ phase = "run" /\ main = "join" /\ reader = "exited" /\ worker = "exited"
    /\ hashFile' = state
    /\ phase' = "down" /\ main' = "exited" /\ ended' = "in order"
    /\ UNCHANGED <<queueVars, ringVars, fileVars, mainVars, run, verdict, bases, reader,
                   worker, job, committed>>

-----------------------------------------------------------------------------
\* The commit thread.

OpenLog ==
    /\ phase = "run" /\ worker = "open"
    /\ \/ worker' = "take" /\ UNCHANGED ioFailed
       \/ worker' = "exited" /\ ioFailed' = TRUE
    /\ UNCHANGED <<queueVars, file, disk, torn, fileVars, mainVars, bootVars, reader, main,
                   job, committed>>

TakeJob ==
    /\ phase = "run" /\ worker = "take"
    /\ \/ JobWaits /\ UNCHANGED <<worker, job>>
       \/ DequeueJob /\ job' = Head(jobQueue) /\ worker' = "header"
       \/ NoMoreJobs /\ worker' = "exited" /\ UNCHANGED job
    /\ UNCHANGED <<txVars, ringVars, fileVars, mainVars, bootVars, reader, main, committed>>

AfterPart(part) ==
    CASE part = "header" -> "snapshot"
      [] part = "snapshot" -> "writes"
      [] part = "writes" -> "fsync"

Write ==
    /\ phase = "run" /\ worker \in Parts
    /\ WritePart(job, worker)
    /\ worker' = AfterPart(worker)
    /\ UNCHANGED <<queueVars, fileVars, mainVars, bootVars, reader, main, job, committed>>

SyncJob ==
    /\ phase = "run" /\ worker = "fsync"
    /\ Fsync
    /\ worker' = "take" /\ job' = Nothing
    /\ committed' = IF ioFailed' THEN committed ELSE committed + 1
    /\ UNCHANGED <<queueVars, fileVars, mainVars, bootVars, reader, main>>

-----------------------------------------------------------------------------
Wakeup ==
    /\ phase = "run" /\ SpuriousWakeup
    /\ UNCHANGED <<ringVars, fileVars, mainVars, bootVars, reader, main, worker, job,
                   committed>>

MemoryLost ==
    /\ RestartQueues
    /\ reader' = "exited" /\ main' = "exited" /\ worker' = "exited"
    /\ nextRead' = 0 /\ state' = 0 /\ batchNum' = 0 /\ snapshot' = 0 /\ batch' = -1
    /\ job' = Nothing

\* The process is killed, or gives up on a failed allocation or read.
Kill ==
    /\ phase = "run"
    /\ KeepCache(IF worker \in Parts THEN {Slot(job.batch)} ELSE {})
    /\ phase' = "down" /\ ended' = "killed"
    /\ MemoryLost
    /\ UNCHANGED <<inFile, run, hashFile, verdict, bases, committed>>

PowerLoss ==
    /\ phase = "run"
    /\ LoseCache
    /\ phase' = "down" /\ ended' = "killed"
    /\ MemoryLost
    /\ UNCHANGED <<inFile, run, hashFile, verdict, bases, committed>>

Reader == ReadBatch \/ FinishReading
Main == UpdateState \/ Retrieve \/ Submit \/ CloseCommits \/ Finish
Worker == OpenLog \/ TakeJob \/ Write \/ SyncJob

Next ==
    \/ Start \/ RecoverOnly
    \/ ReadBatch \/ FinishReading
    \/ UpdateState \/ Retrieve \/ Submit \/ CloseCommits \/ Finish
    \/ OpenLog \/ TakeJob \/ Write \/ SyncJob
    \/ Wakeup \/ Kill \/ PowerLoss

\* A thread that can step is scheduled eventually.
Spec == Init /\ [][Next]_vars /\ WF_vars(Reader) /\ WF_vars(Main) /\ WF_vars(Worker)

-----------------------------------------------------------------------------
\* Properties.

\* A job carries the transactions of the batch whose number it has and the state
\* after that batch, although three threads have handled it; so does every slot
\* that no crash and no failed write has left half written.
OneBatchPerSlot ==
    LET Matches(j) == j.txs = j.batch /\ j.value = bases[j.run] + j.batch + 1
        Busy == IF phase = "run" /\ worker \in Parts THEN {Slot(job.batch)} ELSE {}
    IN  /\ \A i \in DOMAIN jobQueue : Matches(jobQueue[i])
        /\ ~ioFailed => \A s \in ValidSlots \ (torn \union Busy) :
              /\ \A p \in Parts : file[s][p] = file[s]["header"]
              /\ Matches(file[s]["header"]) /\ Slot(file[s]["header"].batch) = s

\* A thread sleeps only while there is nothing for it to do: the condition
\* variable that reader and main share loses no signal.
NoLostWakeup ==
    /\ "reader" \in txWaiting => Len(txQueue) = txCapacity
    /\ "main" \in txWaiting => txQueue = <<>> /\ ~txDone
    /\ "worker" \in jobWaiting => jobQueue = <<>> /\ ~jobDone

\* The log of one run is reconstructed to the last synced batch or the one after
\* it; the state is exactly the one after that batch, unless it is the latter and
\* its slot is half written.
ReconstructsNewest ==
    phase = "down" /\ run = 1 /\ ~ioFailed /\ committed > 0 =>
        /\ ReconstructedBatch \in {committed - 1, committed}
        /\ LatestSlot \notin torn \/ ReconstructedBatch < committed
              => ReconstructedState = ReconstructedBatch + 1

\* When the program ends in order every batch that was read is in the log.
NothingLostAtExit ==
    phase = "down" /\ ended = "in order" /\ ~ioFailed
        => committed = Min({NumBatches, inFile}) /\ jobQueue = <<>> /\ disk = file

\* A run that is not killed ends, and with room for all batches in the commit queue
\* it does not end because that is found full.
Terminates ==
    phase = "run" ~> phase = "down" \/ (phase = "overflow" /\ jobCapacity < NumBatches)

-----------------------------------------------------------------------------
\* What the messages say, and the code does not do.

\* "Reconstructed state from log up to batch %d."
ReconstructedUpToBatch ==
    phase = "down" /\ run = 1 /\ ~ioFailed /\ ValidSlots # {}
        => ReconstructedState = ReconstructedBatch + 1

\* README.md, Core Concepts: "the system reconstructs the state from the latest valid
\* snapshot": with no failure and no half written slot, what this run has synced is
\* part of the reconstructed state.
ReconstructsLatest ==
    phase = "down" /\ ended # "never ran" /\ ~ioFailed /\ torn = {} /\ committed > 0
        => ReconstructedState >= bases[run] + committed

\* "Reconstructed state hash matches stored hash": after a run that ended in order
\* the reconstruction verifies.
VerifiesAfterOrderlyEnd ==
    ended = "in order" /\ phase = "down" /\ run = 1 /\ ~ioFailed => verdict # "mismatch"
=============================================================================
