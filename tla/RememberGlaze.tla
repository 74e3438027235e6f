--------------------------- MODULE RememberGlaze ---------------------------
(***************************************************************************)
(* Remember Glaze, the whole program (remember_glaze/                      *)
(* state_management_multi.c): it boots, recovers the state from the log,   *)
(* processes the transaction file with one thread while another commits,   *)
(* and exits; it may be killed or lose power at any point, and is started  *)
(* again on what is then on storage.                                       *)
(*                                                                         *)
(* The threads are those of module CommitHandoff and the log is that of    *)
(* module RingLog; an action here is a step of the handshake together with *)
(* what it does to the state, the log and the hash file.                   *)
(***************************************************************************)
EXTENDS CommitHandoff, RingLog

CONSTANT MaxBoots    \* bound: how often the program is started

Default == -2        \* the state of default balances, never replaced by zeros
NoHash == [id |-> 0, label |-> -1]

VARIABLES
    phase,       \* "down", "replay" (recovering) or "run"
    boots,       \* how often the program was started
    fileLength,  \* the number of batches in the transaction file
    memory,      \* main_state_array, as a version
    base,        \* batch b of this run has id base + b + 1
    txBuf,       \* tx_batch_buf: the batch just applied, as it will be logged
    argsData,    \* the state chunk and the transactions in the argument block
    localData,   \* the same in the worker's local copy
    commitPc,    \* how far the worker's commit is
    hashFile,    \* state_hash.dat
    verify,      \* the outcome of verify_recovered_state_hash
    \* history variables
    syncFailed,  \* some msync has failed
    damaged,     \* power was lost after that
    reported,    \* the newest batch whose commit the worker reported
    writers,     \* how many runs have written to this log
    logMax       \* the greatest id written to this log

processVars == <<memory, base, txBuf, argsData, localData, commitPc>>
fileVars    == <<hashFile, verify>>
historyVars == <<syncFailed, damaged, reported, writers, logMax>>
envVars     == <<phase, boots, fileLength>>
vars == <<handoffVars, logVars, rec, processVars, fileVars, historyVars, envVars>>

NoData == [ver |-> 0, tx |-> NoTransactions]
NoRecovery == [ver |-> [k \in Chunks |-> 0], label |-> [k \in Chunks |-> -1],
               latest |-> 0, cur |-> 0, left |-> 0, b |-> 0]

FreshProcess ==
    /\ memory = 0 /\ base = 0 /\ txBuf = NoTransactions
    /\ argsData = NoData /\ localData = NoData /\ commitPc = "idle"

FreshHistory ==
    /\ syncFailed = FALSE /\ damaged = FALSE /\ reported = 0 /\ writers = 0 /\ logMax = 0

Init ==
    /\ HandoffInit
    /\ FreshLog
    /\ rec = NoRecovery
    /\ FreshProcess
    /\ hashFile = NoHash /\ verify = "none"
    /\ FreshHistory
    /\ phase = "down" /\ boots = 0
    /\ fileLength \in 0..MaxBatches

-----------------------------------------------------------------------------
\* Start of the program.

\* The log is opened (and created, full of zeros, if need be) and recovery
\* loads the snapshots; without a valid one the balances get their defaults.
Boot ==
    /\ phase = "down" /\ boots < MaxBoots
    /\ boots' = boots + 1
    /\ IF ValidChunks = {}
         THEN /\ phase' = "run" /\ memory' = Default
              /\ UNCHANGED rec
         ELSE /\ phase' = "replay" /\ LoadSnapshots
              /\ UNCHANGED memory
    /\ base' = logMax
    /\ UNCHANGED <<fileLength, txBuf, argsData, localData, commitPc,
                   handoffVars, logVars, fileVars, historyVars>>

\* `saveref`: the log and the hash file are removed first.
BootReference ==
    /\ phase = "down" /\ boots < MaxBoots
    /\ writers > 0
    /\ snap' = [k \in Chunks |-> ZeroSnapshot] /\ diskSnap' = snap'
    /\ txs' = [k \in Chunks |-> ZeroBatch] /\ diskTxs' = txs'
    /\ hashFile' = NoHash
    /\ syncFailed' = FALSE /\ damaged' = FALSE /\ reported' = 0 /\ writers' = 0 /\ logMax' = 0
    /\ UNCHANGED <<envVars, verify, rec, processVars, handoffVars>>

RecoveryStep ==
    /\ phase = "replay"
    /\ ReplayBatch \/ NextChunk
    /\ UNCHANGED <<handoffVars, logVars, processVars, fileVars, historyVars, envVars>>

\* A state whose chunks are not all of one version is of none.
Assembled ==
    IF \A k \in Chunks : rec.ver[k] = rec.ver[0] THEN rec.ver[0] ELSE Wrong

\* The recovered state is compared with the hash file; a mismatch is reported
\* and the program goes on.
FinishRecovery ==
    /\ phase = "replay" /\ Recovered
    /\ phase' = "run"
    /\ memory' = Assembled
    /\ verify' = CASE hashFile.label # HighestBatch -> "skipped"
                   [] hashFile.label = HighestBatch /\ hashFile.id = Assembled -> "ok"
                   [] OTHER -> "mismatch"
    /\ UNCHANGED <<boots, fileLength, base, txBuf, argsData, localData, commitPc,
                   handoffVars, logVars, rec, hashFile, historyVars>>

-----------------------------------------------------------------------------
\* The main thread.

NoDataEffect == UNCHANGED <<logVars, rec, processVars, fileVars, historyVars, envVars>>

\* Steps of the handshake that touch neither the state nor the files.
MainControl ==
    /\ phase = "run"
    /\ \/ SetupSucceeds \/ SetupFails \/ WaitForPrevious \/ WaitForLast \/ Join
       \/ MainSpuriousWakeup
       \/ batch = fileLength /\ ReadEndOfFile
    /\ NoDataEffect

\* A batch is applied; the amounts of rejected transactions are zeroed in the
\* buffer, which makes it the batch to be logged.
ReadBatch ==
    /\ phase = "run"
    /\ batch < fileLength
    /\ ReadAndApply
    /\ lastShort' => batch + 1 = fileLength
    /\ memory' = base + batch + 1
    /\ txBuf' = [id |-> base + batch + 1, parent |-> memory]
    /\ UNCHANGED <<base, argsData, localData, commitPc,
                   logVars, rec, fileVars, historyVars, envVars>>

\* The chunk and the transactions are copied into the argument block.
DispatchBatch ==
    /\ phase = "run"
    /\ Dispatch
    /\ argsData' = [ver |-> memory, tx |-> txBuf]
    /\ UNCHANGED <<memory, base, txBuf, localData, commitPc,
                   logVars, rec, fileVars, historyVars, envVars>>

\* The final hash is saved under the number of the last batch and the whole
\* log is synced, while the last commit may be anywhere.
SaveHashAndSync ==
    /\ phase = "run"
    /\ Finish
    /\ hashFile' = IF batch > 0 THEN [id |-> memory, label |-> batch - 1] ELSE hashFile
    /\ \/ SyncAll /\ UNCHANGED syncFailed
       \/ UNCHANGED <<diskSnap, diskTxs>> /\ syncFailed' = TRUE
    /\ UNCHANGED <<snap, txs, rec, processVars, verify, damaged,
                   reported, writers, logMax, envVars>>

-----------------------------------------------------------------------------
\* The commit worker.

WorkerControl ==
    /\ phase = "run"
    /\ WorkerSleep \/ WorkerExit \/ WorkerSpuriousWakeup
    /\ NoDataEffect

\* Fault: the worker keeps pointers to the state and to the buffer of the main
\* thread instead of a copy of the argument block.
TakeBatchByReference ==
    /\ phase = "run"
    /\ WorkerTake
    /\ localData' = [ver |-> memory, tx |-> txBuf]
    /\ commitPc' = "snapshot"
    /\ UNCHANGED <<memory, base, txBuf, argsData,
                   logVars, rec, fileVars, historyVars, envVars>>

TakeBatch ==
    /\ phase = "run"
    /\ WorkerTake
    /\ localData' = argsData
    /\ commitPc' = "snapshot"
    /\ UNCHANGED <<memory, base, txBuf, argsData,
                   logVars, rec, fileVars, historyVars, envVars>>

CopySnapshot ==
    /\ phase = "run" /\ workerPc = "commit" /\ commitPc = "snapshot"
    /\ WriteSnapshot(local, localData.ver)
    /\ commitPc' = "transactions"
    /\ writers' = IF local = 0 THEN writers + 1 ELSE writers
    /\ logMax' = localData.tx.id
    /\ UNCHANGED <<txs, diskSnap, diskTxs, rec, memory, base, txBuf, argsData,
                   localData, fileVars, syncFailed, damaged,
                   reported, envVars, handoffVars>>

CopyTransactions ==
    /\ phase = "run" /\ workerPc = "commit" /\ commitPc = "transactions"
    /\ WriteBatch(local, localData.tx)
    /\ commitPc' = "sync"
    /\ UNCHANGED <<snap, diskSnap, diskTxs, rec, memory, base, txBuf, argsData,
                   localData, fileVars, syncFailed, damaged, reported, writers,
                   logMax, envVars, handoffVars>>

\* A failing msync is reported on stderr and otherwise ignored.
SyncCommit ==
    /\ phase = "run" /\ commitPc = "sync"
    /\ WorkerCommit
    /\ commitPc' = "idle"
    /\ \/ SyncSlots(local) /\ UNCHANGED syncFailed
       \/ UNCHANGED <<diskSnap, diskTxs>> /\ syncFailed' = TRUE
    /\ UNCHANGED <<snap, txs, rec, memory, base, txBuf, argsData, localData,
                   fileVars, damaged, reported, writers, logMax, envVars>>

ReportCommit ==
    /\ phase = "run"
    /\ WorkerReport
    /\ reported' = localData.tx.id
    /\ UNCHANGED <<logVars, rec, processVars, fileVars, syncFailed,
                   damaged, writers, logMax, envVars>>

-----------------------------------------------------------------------------
\* End of the program.

\* What a new process starts from.
ResetProcess ==
    /\ phase' = "down"
    /\ dataReady' = FALSE /\ inProgress' = FALSE /\ shouldExit' = FALSE
    /\ args' = NoBatch /\ local' = NoBatch
    /\ mainPc' = "start" /\ workerPc' = "check"
    /\ batch' = 0 /\ lastShort' = FALSE /\ committed' = <<>>
    /\ memory' = 0 /\ base' = 0 /\ txBuf' = NoTransactions
    /\ argsData' = NoData /\ localData' = NoData /\ commitPc' = "idle"
    /\ rec' = NoRecovery /\ verify' = "none"
    /\ UNCHANGED <<boots, fileLength, hashFile>>

Exit ==
    /\ phase = "run" /\ mainPc \in {"done", "aborted"}
    /\ ResetProcess
    /\ UNCHANGED <<logVars, historyVars>>

\* The process is killed.  The mapped pages outlive it and are written back.
Kill ==
    /\ phase # "down"
    /\ ResetProcess
    /\ SyncAll
    /\ UNCHANGED <<snap, txs, syncFailed, damaged, reported, writers, logMax>>

\* Power is lost.  Of a slot that was not synced the device holds the old or
\* the new contents.  Once an msync has failed nothing is promised.
PowerLoss ==
    /\ phase # "down"
    /\ ResetProcess
    /\ \E newSnap \in SUBSET {k \in Chunks : snap[k] # diskSnap[k]},
          newTxs \in SUBSET {k \in Chunks : txs[k] # diskTxs[k]} :
          /\ snap' = [k \in Chunks |-> IF k \in newSnap THEN snap[k] ELSE diskSnap[k]]
          /\ txs' = [k \in Chunks |-> IF k \in newTxs THEN txs[k] ELSE diskTxs[k]]
    /\ diskSnap' = snap' /\ diskTxs' = txs'
    /\ damaged' = (damaged \/ syncFailed)
    /\ UNCHANGED <<syncFailed, reported, writers, logMax>>

-----------------------------------------------------------------------------
MainNext == MainControl \/ ReadBatch \/ DispatchBatch \/ SaveHashAndSync
WorkerNext ==
    \/ WorkerControl \/ TakeBatch
    \/ CopySnapshot \/ CopyTransactions \/ SyncCommit \/ ReportCommit
BootNext == Boot \/ BootReference \/ RecoveryStep \/ FinishRecovery
CrashNext == Exit \/ Kill \/ PowerLoss

Next == BootNext \/ MainNext \/ WorkerNext \/ CrashNext

Spec == Init /\ [][Next]_vars

-----------------------------------------------------------------------------
\* Properties.

Intact == ~damaged /\ \A k \in Chunks : ~TornSlot(k)

\* A log written by one run, and not torn, gives back exactly the state after
\* the newest batch that is completely in it, however the run ended: every
\* chunk is brought to that version, none beyond it.
RecoveryExact ==
    phase = "replay" /\ Recovered /\ Intact /\ writers <= 1
        => \A k \in Chunks : rec.ver[k] = WholeId

\* What the worker has reported as committed survives kills and power losses, as
\* long as no msync has failed and no second run has begun to overwrite the log:
\* the commit in flight can tear its own slot and no other.
ReportedIsDurable ==
    ~syncFailed /\ writers <= 1 => WholeId >= reported

\* The snapshot that is written for batch b and the transactions logged for b
\* belong together: main may already have applied batch b + 1, but the worker
\* commits copies taken at dispatch.
CommitsOneVersion ==
    commitPc # "idle" => /\ localData.ver = localData.tx.id
                         /\ localData.ver = base + local + 1

\* The verdict on the recovered state is right: after an untorn log of a single
\* run, the hash file confirms the state when it belongs to the newest batch in
\* the log and is skipped when it belongs to another one.  (A hash file of a
\* state that never reached the log is left out: it may carry the label of the
\* newest batch and is then reported as a mismatch.)
VerdictRight ==
    /\ phase = "run" /\ mainPc = "start"
    /\ Intact /\ writers <= 1 /\ WholeId > 0 /\ hashFile.id <= logMax
    => verify = IF hashFile.id = WholeId THEN "ok" ELSE "skipped"

-----------------------------------------------------------------------------
\* What the report and the program's messages say, and the code does not do.

\* main.tex, Recovery: the missing transactions are replayed, "guaranteeing that
\* the in-memory state is fully up to date with batch b", b the highest batch
\* number on disk.  The worker writes the snapshot of b before the transactions
\* of b, and recovery takes b for complete as soon as the snapshot is there.
UpToDateWithHighestBatch ==
    phase = "replay" /\ Recovered /\ writers = 1 /\ ~syncFailed
        => \A k \in Chunks : rec.ver[k] = HighestBatch + 1

\* The same promise over restarts: whatever is in the ring, recovery ends in a
\* state that some execution has gone through.  Batch numbers start at 0 again
\* in every run, so slots of an older run can carry the higher numbers.
RecoversSomeVersion ==
    phase = "replay" /\ Recovered /\ Intact
        => \A k \in Chunks : rec.ver[k] = rec.ver[0] /\ rec.ver[k] # Wrong

\* "Initializing main state array with default balances as no prior state was
\* recovered": a program that starts on a log nobody has written to begins with
\* the default balances.  The zeros of slot 0 of a new file pass for the
\* snapshot of batch 0, chunk 0, and the balances stay zero.
FreshStartHasDefaults ==
    phase = "run" /\ mainPc = "start" /\ writers = 0 => memory = Default

\* main.tex, Complexity Analysis: "Phase 3 replays at most N batches for each
\* chunk".  The loop runs from the batch of the chunk to the highest one, and
\* between slots of two runs the distance is as large as the older run was long.
ReplaysAtMostN ==
    phase = "replay" /\ rec.left > 0 => HighestBatch - rec.label[rec.cur] <= N
=============================================================================
