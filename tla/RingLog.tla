------------------------------ MODULE RingLog ------------------------------
(***************************************************************************)
(* The checkpoint log of Remember Glaze and its recovery                   *)
(* (remember_glaze/state_management_multi.c).                              *)
(*                                                                         *)
(* The log is a ring of N snapshot slots and N transaction slots.  The     *)
(* commit of batch b writes chunk b % N of the state into snapshot slot    *)
(* b % N and the transactions of b into transaction slot b % N, so a full  *)
(* copy of the state is spread over the last N commits.  Recovery loads    *)
(* the N chunks, each as old as its slot, and brings every chunk forward   *)
(* with the logged transactions.                                           *)
(*                                                                         *)
(* Balances are abstracted to versions.  Version 0 is the all-zero state;  *)
(* applying a batch produces a state version that was never seen before,   *)
(* the id of the batch.  A logged batch remembers its id and its parent,   *)
(* the version it was applied to.  Replaying a logged batch on a chunk     *)
(* gives the chunk of version id when the chunk is of version parent, and  *)
(* a chunk that no execution ever held (Wrong) otherwise.  That the replay *)
(* of a logged batch on one chunk needs that chunk only is what module     *)
(* TransferSemantics establishes for the transactions themselves.          *)
(***************************************************************************)
EXTENDS Integers

CONSTANT N    \* NUM_STATE_CHUNKS, the number of chunks and of slots

ASSUME NAssumption == N \in Nat \ {0}

Chunks == 0..N-1
Wrong == -1                                  \* not the content of any version
NoTransactions == [id |-> 0, parent |-> 0]   \* a slot with tx_count = 0
ZeroSnapshot == [batch |-> 0, chunk |-> 0, ver |-> 0]
ZeroBatch == [batch |-> 0, tx |-> NoTransactions]

VARIABLES
    snap,    \* the snapshot slots as mapped into memory
    txs,     \* the transaction slots as mapped into memory
    diskSnap, diskTxs,  \* the slots as they are on the storage device
    rec      \* the local variables of recover_state_from_log

logVars == <<snap, txs, diskSnap, diskTxs>>

Slot(b) == b % N

\* A log file that was just created: preallocate_and_init_log_file extends it
\* with zeros and writes a valid header.
FreshLog ==
    /\ snap = [k \in Chunks |-> ZeroSnapshot]
    /\ txs = [k \in Chunks |-> ZeroBatch]
    /\ diskSnap = [k \in Chunks |-> ZeroSnapshot]
    /\ diskTxs = [k \in Chunks |-> ZeroBatch]

-----------------------------------------------------------------------------
\* The three steps of a commit.

WriteSnapshot(b, ver) ==
    snap' = [snap EXCEPT ![Slot(b)] = [batch |-> b, chunk |-> Slot(b), ver |-> ver]]

WriteBatch(b, tx) ==
    txs' = [txs EXCEPT ![Slot(b)] = [batch |-> b, tx |-> tx]]

\* Fault: only the pages of the transaction slot are synced.
SyncBatchOnly(b) ==
    /\ diskTxs' = [diskTxs EXCEPT ![Slot(b)] = txs[Slot(b)]]
    /\ UNCHANGED diskSnap

\* One msync from the start of the snapshot slot to the end of the transaction
\* slot: it covers the higher snapshot slots and the lower transaction slots.
SyncSlots(b) ==
    /\ diskSnap' = [k \in Chunks |-> IF k >= Slot(b) THEN snap[k] ELSE diskSnap[k]]
    /\ diskTxs' = [k \in Chunks |-> IF k <= Slot(b) THEN txs[k] ELSE diskTxs[k]]

SyncAll == diskSnap' = snap /\ diskTxs' = txs

-----------------------------------------------------------------------------
\* Recovery.

ValidChunks == {k \in Chunks : snap[k].chunk = k}

\* The valid chunk with the highest batch number, the first of them in a tie.
LatestChunk ==
    CHOOSE k \in ValidChunks : \A j \in ValidChunks :
        \/ snap[j].batch < snap[k].batch
        \/ snap[j].batch = snap[k].batch /\ k <= j

\* batch_number_of_chunk: -1 for a slot that is not valid.
ChunkBatch(k) == IF k \in ValidChunks THEN snap[k].batch ELSE -1

\* positive_modulo(k - 1, NUM_STATE_CHUNKS)
PreviousChunk(k) == IF k = 0 THEN N - 1 ELSE k - 1

\* Fault: the transactions of the chunk's own snapshot are applied once more.
LoadSnapshotsReplayOwn ==
    rec' = [ver    |-> [k \in Chunks |-> IF k \in ValidChunks THEN snap[k].ver ELSE 0],
            label  |-> [k \in Chunks |-> ChunkBatch(k)],
            latest |-> LatestChunk,
            cur    |-> PreviousChunk(LatestChunk),
            left   |-> N - 1,
            b      |-> IF ChunkBatch(PreviousChunk(LatestChunk)) = -1 THEN 0
                       ELSE ChunkBatch(PreviousChunk(LatestChunk))]

\* Steps 1 and 2: scan the slots, load every valid chunk, zero the others; the
\* replay starts with the chunk before the latest one.
LoadSnapshots ==
    rec' = [ver    |-> [k \in Chunks |-> IF k \in ValidChunks THEN snap[k].ver ELSE 0],
            label  |-> [k \in Chunks |-> ChunkBatch(k)],
            latest |-> LatestChunk,
            cur    |-> PreviousChunk(LatestChunk),
            left   |-> N - 1,
            b      |-> ChunkBatch(PreviousChunk(LatestChunk)) + 1]

HighestBatch == rec.label[rec.latest]

\* Replaying one logged batch on a chunk of version ver.
Replay(tx, ver) ==
    CASE tx = NoTransactions -> ver
      [] tx # NoTransactions /\ ver # Wrong /\ ver = tx.parent -> tx.id
      [] OTHER -> Wrong

\* Step 3, inner loop: the chunk being processed takes the next batch from the
\* slot where that batch should be.  The batch number in the slot is not read.
ReplayBatch ==
    /\ rec.left > 0
    /\ rec.b <= HighestBatch
    /\ rec' = [rec EXCEPT !.ver[rec.cur] = Replay(txs[Slot(rec.b)].tx, @),
                          !.b = @ + 1]

\* Step 3, outer loop: N - 1 chunks, backwards round the ring.
NextChunk ==
    /\ rec.left > 0
    /\ rec.b > HighestBatch
    /\ rec' = [rec EXCEPT !.cur = PreviousChunk(@),
                          !.left = @ - 1,
                          !.b = rec.label[PreviousChunk(rec.cur)] + 1]

\* Fault: the outer loop gives up one chunk early.
RecoveredEarly == rec.left <= 1

\* The replay has come to its end.
Recovered == rec.left = 0

-----------------------------------------------------------------------------
\* What the properties of the programs say about the log.

\* A slot of the log is torn when its snapshot is newer than its transactions,
\* or when the newer transactions do not have the higher batch number (the zeros
\* of a new slot 0 pass for a snapshot of batch 0; a second run numbers its
\* batches from 0 again).  Newer transactions of a higher batch do no harm:
\* recovery does not come to need the batch they have replaced.
TornSlot(k) ==
    \/ snap[k].ver > txs[k].tx.id
    \/ snap[k].ver < txs[k].tx.id /\ snap[k].batch >= txs[k].batch

\* The newest batch in the log; the transactions that came with its snapshot are
\* there or already replaced.
WholeId ==
    LET whole == {snap[k].ver : k \in {j \in Chunks : snap[j].ver <= txs[j].tx.id}}
    IN  CHOOSE id \in whole \cup {0} : \A other \in whole : other <= id
=============================================================================
