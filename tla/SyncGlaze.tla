----------------------------- MODULE SyncGlaze -----------------------------
(***************************************************************************)
(* Remember Glaze without a worker (remember_glaze/state_management.c):    *)
(* the main thread applies a batch and commits it before it reads the      *)
(* next one.  The log and its recovery are those of module RingLog.  The   *)
(* program is killed or loses power at any point and is started again,     *)
(* each time with a new transaction file, on what is then on storage.      *)
(***************************************************************************)
EXTENDS RingLog

CONSTANTS
    MaxBatches,  \* bound: the largest number of batches in a transaction file
    MaxBoots     \* bound: how often the program is started

ASSUME SyncAssumption == MaxBatches \in Nat /\ MaxBoots \in Nat

Default == -2        \* the state of default balances, never replaced by zeros
NoHash == [id |-> 0, label |-> -1]
NoRecovery == [ver |-> [k \in Chunks |-> 0], label |-> [k \in Chunks |-> -1],
               latest |-> 0, cur |-> 0, left |-> 0, b |-> 0]

VARIABLES
    phase,       \* "down", "replay" (recovering) or "run"
    pc,          \* "read", "snapshot", "transactions", "sync", "truncate",
                 \* "hash", "finalize", "done"
    fileLength,  \* the number of batches in the transaction file
    batch,       \* current_batch_num_in_loop
    memory,      \* main_state_array, as a version
    txBuf,       \* tx_batch_buf, as it will be logged
    hashFile,    \* state_hash.dat; a hash stands for the state it was computed from
    verify,      \* the outcome of verify_recovered_state_hash
    boots,       \* history: how often the program was started
    newest,      \* history: the greatest id written to this log
    committed,   \* history: the newest batch whose commit has returned
    writers,     \* history: how many runs have written to this log
    syncFailed,  \* history: some msync has failed
    damaged      \* history: power was lost after that

processVars == <<phase, pc, fileLength, batch, memory, txBuf, verify>>
historyVars == <<boots, newest, committed, writers, syncFailed, damaged>>
vars == <<logVars, rec, processVars, hashFile, historyVars>>

Init ==
    /\ FreshLog
    /\ phase = "down" /\ pc = "done" /\ fileLength = 0 /\ batch = 0
    /\ memory = 0 /\ txBuf = NoTransactions /\ verify = "none" /\ rec = NoRecovery
    /\ hashFile = NoHash
    /\ boots = 0 /\ newest = 0 /\ committed = 0 /\ writers = 0
    /\ syncFailed = FALSE /\ damaged = FALSE

-----------------------------------------------------------------------------
\* Start of the program.

Boot ==
    /\ phase = "down" /\ boots < MaxBoots
    /\ boots' = boots + 1
    /\ fileLength' \in 0..MaxBatches
    /\ batch' = 0 /\ pc' = "read"
    /\ IF ValidChunks = {}
         THEN /\ phase' = "run" /\ memory' = Default
              /\ UNCHANGED rec
         ELSE /\ phase' = "replay" /\ LoadSnapshots
              /\ UNCHANGED memory
    /\ UNCHANGED <<logVars, txBuf, verify, hashFile, newest, committed, writers,
                   syncFailed, damaged>>

RecoveryStep ==
    /\ phase = "replay"
    /\ ReplayBatch \/ NextChunk
    /\ UNCHANGED <<logVars, processVars, hashFile, historyVars>>

\* A state whose chunks are not all of one version is of none.
Assembled ==
    IF \A k \in Chunks : rec.ver[k] = rec.ver[0] THEN rec.ver[0] ELSE Wrong

Verdict ==
    CASE hashFile.label # HighestBatch -> "skipped"
      [] hashFile.label = HighestBatch /\ hashFile.id = Assembled -> "ok"
      [] OTHER -> "mismatch"

\* The program goes on whatever the comparison with the hash file says.
FinishRecovery ==
    /\ phase = "replay" /\ Recovered
    /\ phase' = "run" /\ memory' = Assembled /\ verify' = Verdict
    /\ UNCHANGED <<logVars, rec, pc, fileLength, batch, txBuf, hashFile, historyVars>>

-----------------------------------------------------------------------------
\* The processing loop.

\* Fault: the batch is committed before it has been applied.
ApplyBatchLate ==
    /\ phase = "run" /\ pc = "read" /\ batch < fileLength
    /\ txBuf' = [id |-> newest + 1, parent |-> memory]
    /\ memory' = IF batch = 0 THEN memory ELSE newest
    /\ pc' = "snapshot"
    /\ UNCHANGED <<logVars, rec, phase, fileLength, batch, verify, hashFile, historyVars>>

\* The amounts of rejected transactions are zeroed in the buffer.
ApplyBatch ==
    /\ phase = "run" /\ pc = "read" /\ batch < fileLength
    /\ memory' = newest + 1
    /\ txBuf' = [id |-> newest + 1, parent |-> memory]
    /\ pc' = "snapshot"
    /\ UNCHANGED <<logVars, rec, phase, fileLength, batch, verify, hashFile, historyVars>>

CopySnapshot ==
    /\ phase = "run" /\ pc = "snapshot"
    /\ WriteSnapshot(batch, memory)
    /\ pc' = "transactions"
    /\ newest' = txBuf.id
    /\ writers' = IF batch = 0 THEN writers + 1 ELSE writers
    /\ UNCHANGED <<txs, diskSnap, diskTxs, rec, phase, fileLength, batch, memory, txBuf,
                   verify, hashFile, boots, committed, syncFailed, damaged>>

CopyTransactions ==
    /\ phase = "run" /\ pc = "transactions"
    /\ WriteBatch(batch, txBuf)
    /\ pc' = "sync"
    /\ UNCHANGED <<snap, diskSnap, diskTxs, rec, phase, fileLength, batch, memory, txBuf,
                   verify, hashFile, historyVars>>

\* A failing msync is reported on stderr and otherwise ignored.  (The header, which
\* is synced after a full pass, never changes.)
SyncCommit ==
    /\ phase = "run" /\ pc = "sync"
    /\ \/ SyncSlots(batch) /\ UNCHANGED syncFailed
       \/ UNCHANGED <<diskSnap, diskTxs>> /\ syncFailed' = TRUE
    /\ committed' = txBuf.id
    /\ batch' = batch + 1 /\ pc' = "read"
    /\ UNCHANGED <<snap, txs, rec, phase, fileLength, memory, txBuf, verify, hashFile,
                   boots, newest, writers, damaged>>

\* With no batch the label would be -1 and no hash is saved.
EndOfFile ==
    /\ phase = "run" /\ pc = "read" /\ batch = fileLength
    /\ pc' = IF batch > 0 THEN "truncate" ELSE "finalize"
    /\ UNCHANGED <<logVars, rec, phase, fileLength, batch, memory, txBuf, verify, hashFile,
                   historyVars>>

\* fopen with "wb": until the hash is written the file is empty.
TruncateHash ==
    /\ phase = "run" /\ pc = "truncate"
    /\ hashFile' = NoHash
    /\ pc' = "hash"
    /\ UNCHANGED <<logVars, rec, phase, fileLength, batch, memory, txBuf, verify, historyVars>>

\* Fault: the label is the number of batches, not the number of the last one.
SaveHashUnadjusted ==
    /\ phase = "run" /\ pc = "hash"
    /\ hashFile' = [id |-> memory, label |-> batch]
    /\ pc' = "finalize"
    /\ UNCHANGED <<logVars, rec, phase, fileLength, batch, memory, txBuf, verify, historyVars>>

\* A failing write leaves the file empty, and the program goes on.
SaveHash ==
    /\ phase = "run" /\ pc = "hash"
    /\ hashFile' \in {[id |-> memory, label |-> batch - 1], NoHash}
    /\ pc' = "finalize"
    /\ UNCHANGED <<logVars, rec, phase, fileLength, batch, memory, txBuf, verify, historyVars>>

Finalize ==
    /\ phase = "run" /\ pc = "finalize"
    /\ \/ SyncAll /\ UNCHANGED syncFailed
       \/ UNCHANGED <<diskSnap, diskTxs>> /\ syncFailed' = TRUE
    /\ pc' = "done"
    /\ UNCHANGED <<snap, txs, rec, phase, fileLength, batch, memory, txBuf, verify, hashFile,
                   boots, newest, committed, writers, damaged>>

-----------------------------------------------------------------------------
\* End of the program.

Stop ==
    /\ phase' = "down" /\ pc' = "done" /\ fileLength' = 0 /\ batch' = 0
    /\ memory' = 0 /\ txBuf' = NoTransactions /\ verify' = "none" /\ rec' = NoRecovery
    /\ UNCHANGED <<hashFile, boots, newest, committed, writers, syncFailed>>

Exit ==
    /\ phase = "run" /\ pc = "done"
    /\ Stop /\ UNCHANGED <<logVars, damaged>>

\* The mapped pages outlive a killed process and are written back.
Kill ==
    /\ phase # "down"
    /\ Stop /\ SyncAll
    /\ UNCHANGED <<snap, txs, damaged>>

\* Of a slot that was not synced the device holds the old or the new contents.
PowerLoss ==
    /\ phase # "down"
    /\ Stop
    /\ \E newSnap \in SUBSET {k \in Chunks : snap[k] # diskSnap[k]},
          newTxs \in SUBSET {k \in Chunks : txs[k] # diskTxs[k]} :
          /\ snap' = [k \in Chunks |-> IF k \in newSnap THEN snap[k] ELSE diskSnap[k]]
          /\ txs' = [k \in Chunks |-> IF k \in newTxs THEN txs[k] ELSE diskTxs[k]]
    /\ diskSnap' = snap' /\ diskTxs' = txs'
    /\ damaged' = (damaged \/ syncFailed)

-----------------------------------------------------------------------------
BootNext == Boot \/ RecoveryStep \/ FinishRecovery
MainNext ==
    \/ ApplyBatch \/ CopySnapshot \/ CopyTransactions \/ SyncCommit
    \/ EndOfFile \/ TruncateHash \/ SaveHash \/ Finalize
EndNext == Exit \/ Kill \/ PowerLoss

Next == BootNext \/ MainNext \/ EndNext

Spec == Init /\ [][Next]_vars

-----------------------------------------------------------------------------
\* Properties.

Intact == ~damaged /\ \A k \in Chunks : ~TornSlot(k)

\* Only the last run has left batches in the ring: there was no other, or every
\* slot has been written and the newest batch carries the highest number.
OneRunInRing ==
    \/ writers <= 1
    \/ ValidChunks = Chunks /\ snap[LatestChunk].ver = WholeId

\* Over any number of starts, with files of any length, kills and power losses:
\* a log that is not torn and holds the batches of one run only is recovered to
\* exactly the state after its newest batch, and that is no older than the last
\* batch whose commit had returned, unless an msync failed.
SyncRecoveryExact ==
    phase = "replay" /\ Recovered /\ Intact /\ OneRunInRing =>
        /\ \A k \in Chunks : rec.ver[k] = WholeId
        /\ ~syncFailed => WholeId >= committed

\* The hash is saved after the last commit, so that the verdict of the next start
\* is right about every log of one run, also one that was killed while the hash
\* was there and the log not yet finalized: the recovered state is confirmed if
\* it is the hashed one, and otherwise the comparison is skipped.
HashVerdictRight ==
    (/\ phase = "run" /\ verify # "none" /\ batch = 0
     /\ Intact /\ writers = 1 /\ WholeId > 0)
    => verify = IF hashFile.id = WholeId THEN "ok" ELSE "skipped"
=============================================================================
