------------------------------ MODULE HybridLog ------------------------------
(***************************************************************************)
(* Hybrid logging: the variant that logs the balances changed by transfers *)
(* (the write set) and the range sets as they are                          *)
(* (glaze_and_r_glaze/state_management.c).                                 *)
(*                                                                         *)
(* Ring, handshake and restart are those of RememberGlaze; this module is  *)
(* about the data of one run.  The main thread builds the write set while  *)
(* it applies a batch and hands it over, but the worker does not use it:   *)
(* it applies the batch once more, to its copy of one chunk, indexed with  *)
(* the account numbers of the whole state, and logs what it finds there.   *)
(* What lies behind the chunk in memory is read and written with it.       *)
(***************************************************************************)
EXTENDS Integers, Sequences

CONSTANTS
    N,           \* NUM_STATE_CHUNKS
    ChunkSize,   \* ACCOUNTS_PER_STATE_CHUNK
    SmallCount,  \* SMALL_ACCOUNT_COUNT
    Batches,     \* the batches the transaction file is made of
    MaxBatches   \* bound: the largest number of batches in the input

\* func is the operation code, the same in both words of the transaction.
Transactions ==
    [func : {"transfer", "range", "other"}, from : Nat, to : Nat, amount : Nat]

ASSUME HybridAssumption ==
    /\ N \in Nat \ {0} /\ ChunkSize \in Nat \ {0} /\ MaxBatches \in Nat
    /\ SmallCount \in 1..N * ChunkSize
    /\ Batches \subseteq Seq(Transactions)

Chunks == 0..N-1
Accounts == 0..N * ChunkSize - 1
AccountsOf(k) == k * ChunkSize..(k + 1) * ChunkSize - 1
Slot(b) == b % N

VARIABLES
    live,      \* main_state_array
    pending,   \* the batch main has applied and not handed over: its effect
    nextBatch, \* current_batch_num_in_loop
    task,      \* the batch in the worker's hands
    buffer,    \* state_chunk_data and the memory behind it
    pc,        \* the worker: "idle", "snapshot", "batch", "sync"
    snap, logs,          \* the mapped slots
    diskSnap, diskLogs,  \* the slots on the storage device
    phase,     \* "run", "down" or "recovered"
    state,     \* the recovered state
    last,      \* last_recovered_batch_num
    versions,  \* history: the state after each batch
    effects    \* history: what main built for each batch

logVars == <<snap, logs, diskSnap, diskLogs>>
recoveryVars == <<phase, state, last>>
vars == <<live, pending, nextBatch, task, buffer, pc, logVars, recoveryVars,
          versions, effects>>

NoTask == [batch |-> -1, txs |-> <<>>]
EmptyLog == [batch |-> 0, writes |-> <<>>, ranges |-> <<>>]

-----------------------------------------------------------------------------
\* Applying a transaction to an array and recording its effect.

Span(tx) == tx.from..tx.from + tx.to - 1

\* Main clears the amount of a transaction it does not apply; the worker gets it
\* like that and finds it covered.
NotApplied(acc, tx) == [acc EXCEPT !.txs = Append(@, [tx EXCEPT !.amount = 0])]

Covered(s, tx) ==
    /\ tx.func = "transfer" /\ tx.from < SmallCount /\ tx.to < SmallCount
    /\ s[tx.from] >= tx.amount

\* A range set writes every account of its span that the state array has.
SetRange(acc, tx) ==
    [acc EXCEPT !.state = [i \in DOMAIN @ |-> IF i \in Span(tx) THEN tx.amount ELSE @[i]],
                !.ranges = Append(@, tx), !.txs = Append(@, tx)]

Moved(s, tx) == [[s EXCEPT ![tx.from] = @ - tx.amount] EXCEPT ![tx.to] = @ + tx.amount]

\* A transfer moves its amount and records the two balances of the state recorded.
Transfer(acc, tx, recorded) ==
    [acc EXCEPT !.state = Moved(@, tx), !.txs = Append(@, tx),
                !.writes = @ \o << <<tx.from, recorded[tx.from]>>,
                                   <<tx.to, recorded[tx.to]>> >>]

\* Fault: the balances are recorded before the transfer.
ApplyTxRecordBefore(acc, tx) ==
    CASE Covered(acc.state, tx) -> Transfer(acc, tx, acc.state)
      [] tx.func = "range" -> SetRange(acc, tx)
      [] OTHER -> NotApplied(acc, tx)

\* A transfer with cover records both balances after it.
ApplyTx(acc, tx) ==
    CASE Covered(acc.state, tx) -> Transfer(acc, tx, Moved(acc.state, tx))
      [] tx.func = "range" -> SetRange(acc, tx)
      [] OTHER -> NotApplied(acc, tx)

\* The loop over a batch: what has been built after each transaction.
Effects(s, txs) ==
    LET built[i \in 0..Len(txs)] ==
            IF i = 0 THEN [state |-> s, writes |-> <<>>, ranges |-> <<>>, txs |-> <<>>]
                     ELSE ApplyTx(built[i - 1], txs[i])
    IN  built

Effect(s, txs) == Effects(s, txs)[Len(txs)]

-----------------------------------------------------------------------------
\* A run on a new log: the zeros of the file pass for a snapshot of batch 0,
\* chunk 0, so the state is the recovered one, all zeros, and not the defaults.
Init ==
    /\ live = [i \in Accounts |-> 0]
    /\ pending = NoTask /\ task = NoTask /\ nextBatch = 0 /\ pc = "idle"
    \* the chunk is malloc'ed: its contents and its surroundings are arbitrary
    /\ \E garbage \in {0, 5} : buffer = [i \in Accounts |-> garbage]
    /\ snap = [k \in Chunks |->
                 [batch |-> 0, chunk |-> 0, data |-> [i \in AccountsOf(k) |-> 0]]]
    /\ logs = [k \in Chunks |-> EmptyLog]
    /\ diskSnap = snap /\ diskLogs = logs
    /\ phase = "run" /\ state = live /\ last = -1
    /\ versions = <<>> /\ effects = <<>>

\* Main reads a batch, applies it and records its effect.
ApplyBatch ==
    /\ phase = "run" /\ pending = NoTask /\ nextBatch < MaxBatches
    /\ \E txs \in Batches :
          LET effect == Effect(live, txs)
          IN  /\ live' = effect.state
              /\ pending' = [batch |-> nextBatch, txs |-> effect.txs]
              /\ versions' = Append(versions, effect.state)
              /\ effects' = Append(effects,
                    [before |-> live, txs |-> txs,
                     writes |-> effect.writes, ranges |-> effect.ranges])
    /\ nextBatch' = nextBatch + 1
    /\ UNCHANGED <<task, buffer, pc, logVars, recoveryVars>>

\* The batch is handed over when the worker is idle; the chunk is copied to the
\* buffer, of which both threads hold the address.
Dispatch ==
    /\ phase = "run" /\ pending # NoTask
    /\ pc = "idle"
    /\ task' = pending /\ pending' = NoTask /\ pc' = "snapshot"
    /\ LET k == Slot(pending.batch)
       IN  buffer' = [i \in Accounts |->
              IF i < ChunkSize THEN live[k * ChunkSize + i] ELSE buffer[i]]
    /\ UNCHANGED <<live, nextBatch, logVars, recoveryVars, versions, effects>>

\* The buffer as the data of chunk k.
BufferAsChunk(k, buf) == [i \in AccountsOf(k) |-> buf[i - k * ChunkSize]]

\* Fault: the snapshot is taken after the batch has been applied to the buffer.
CopySnapshotLate ==
    /\ phase = "run" /\ pc = "snapshot"
    /\ LET k == Slot(task.batch)
       IN  snap' = [snap EXCEPT ![k] =
              [batch |-> task.batch, chunk |-> k,
               data |-> BufferAsChunk(k, Effect(buffer, task.txs).state)]]
    /\ pc' = "batch"
    /\ UNCHANGED <<live, pending, nextBatch, task, buffer, logs, diskSnap, diskLogs,
                   recoveryVars, versions, effects>>

CopySnapshot ==
    /\ phase = "run" /\ pc = "snapshot"
    /\ LET k == Slot(task.batch)
       IN  snap' = [snap EXCEPT ![k] =
              [batch |-> task.batch, chunk |-> k, data |-> BufferAsChunk(k, buffer)]]
    /\ pc' = "batch"
    /\ UNCHANGED <<live, pending, nextBatch, task, buffer, logs, diskSnap, diskLogs,
                   recoveryVars, versions, effects>>

\* The worker applies the batch to the buffer and logs what that changes.
CopyBatch ==
    /\ phase = "run" /\ pc = "batch"
    /\ LET effect == Effect(buffer, task.txs)
       IN  /\ buffer' = effect.state
           /\ logs' = [logs EXCEPT ![Slot(task.batch)] =
                 [batch |-> task.batch, writes |-> effect.writes, ranges |-> effect.ranges]]
    /\ pc' = "sync"
    /\ UNCHANGED <<live, pending, nextBatch, task, snap, diskSnap, diskLogs,
                   recoveryVars, versions, effects>>

\* msync from the start of the transaction slot to its end; a failure is only
\* reported.
Sync ==
    /\ phase = "run" /\ pc = "sync"
    /\ \/ diskLogs' = [diskLogs EXCEPT ![Slot(task.batch)] = logs[Slot(task.batch)]]
       \/ UNCHANGED diskLogs
    /\ pc' = "idle" /\ task' = NoTask
    /\ UNCHANGED <<live, pending, nextBatch, buffer, snap, logs, diskSnap,
                   recoveryVars, versions, effects>>

\* The process ends, after its last batch or at any other moment: the mapped
\* pages stay in the page cache.
Kill ==
    /\ phase = "run"
    /\ phase' = "down"
    /\ diskSnap' = snap /\ diskLogs' = logs
    /\ UNCHANGED <<live, pending, nextBatch, task, buffer, pc, snap, logs,
                   state, last, versions, effects>>

-----------------------------------------------------------------------------
\* Recovery.

ValidChunks == {k \in Chunks : snap[k].chunk = k}
LatestChunk ==
    CHOOSE k \in ValidChunks : \A j \in ValidChunks :
        \/ snap[j].batch < snap[k].batch
        \/ snap[j].batch = snap[k].batch /\ k <= j
ChunkBatch(k) == IF k \in ValidChunks THEN snap[k].batch ELSE -1

Loaded == [i \in Accounts |->
             LET k == i \div ChunkSize
             IN  IF k \in ValidChunks THEN snap[k].data[i] ELSE 0]

Store(r, w) == [r EXCEPT ![w[1]] = w[2]]
ReplayRange(r, tx) == [i \in Accounts |-> IF i \in Span(tx) THEN tx.amount ELSE r[i]]

\* The two loops of the replay of a batch: what is left after each entry.
StoreWrites(s, writes) ==
    LET stored[i \in 0..Len(writes)] ==
            IF i = 0 THEN s ELSE Store(stored[i - 1], writes[i])
    IN  stored

ReplayRanges(s, ranges) ==
    LET replayed[i \in 0..Len(ranges)] ==
            IF i = 0 THEN s ELSE ReplayRange(replayed[i - 1], ranges[i])
    IN  replayed

\* All balances of the write set are stored, then all range sets are replayed.
ReplayLog(s, log) ==
    LET stored == StoreWrites(s, log.writes)[Len(log.writes)]
    IN  ReplayRanges(stored, log.ranges)[Len(log.ranges)]

\* The loop over the batches from first on, count of them.
ReplayFrom(s, first, count) ==
    LET replayed[j \in 0..count] ==
            IF j = 0 THEN s ELSE ReplayLog(replayed[j - 1], logs[Slot(first + j - 1)])
    IN  replayed

Behind(k) == ChunkBatch(LatestChunk) - ChunkBatch(k)

\* Fault: the replay for a chunk starts with the batch after the next.
ReplayBatchesSkipFirst(s, k) ==
    IF Behind(k) < 2 THEN s ELSE ReplayFrom(s, ChunkBatch(k) + 2, Behind(k) - 1)[Behind(k) - 1]

\* The batches after the snapshot of chunk k, each applied to the whole state.
ReplayBatches(s, k) == ReplayFrom(s, ChunkBatch(k) + 1, Behind(k))[Behind(k)]

\* The chunk j places before the latest one in the ring.
ChunkBefore(j) == (LatestChunk - j + N) % N

\* The chunks before the latest one in turn, from the one that is a batch behind.
ReplayChunks(s) ==
    LET replayed[j \in 0..N-1] ==
            IF j = 0 THEN s ELSE ReplayBatches(replayed[j - 1], ChunkBefore(j))
    IN  replayed

Recover ==
    /\ phase = "down" /\ ValidChunks # {}
    /\ phase' = "recovered"
    /\ state' = ReplayChunks(Loaded)[N-1]
    /\ last' = ChunkBatch(LatestChunk)
    /\ UNCHANGED <<live, pending, nextBatch, task, buffer, pc, logVars,
                   versions, effects>>

-----------------------------------------------------------------------------
Next ==
    \/ ApplyBatch \/ Dispatch
    \/ CopySnapshot \/ CopyBatch \/ Sync
    \/ Kill \/ Recover

Spec == Init /\ [][Next]_vars

-----------------------------------------------------------------------------
\* Properties.

\* A snapshot in the log is the chunk as it was after exactly the batch whose
\* number it carries, although main has moved on and the worker changes the
\* buffer it was copied from.
SnapshotsAreVersions ==
    \A k \in Chunks :
        snap[k].chunk = k /\ versions # <<>> /\ (k # 0 \/ snap[k].data[0] # 0)
            => \A i \in AccountsOf(k) :
                  snap[k].data[i] = versions[snap[k].batch + 1][i]

\* A transfer in a batch that touches an account after a range set has.
TransferAfterRange(txs) ==
    \E i, j \in DOMAIN txs :
        /\ i < j /\ txs[i].func = "range" /\ txs[j].func = "transfer"
        /\ {txs[j].from, txs[j].to} \cap Span(txs[i]) # {}

\* The effect that main records for a batch reproduces the batch: replaying it
\* on the state before gives the state after, provided that no transfer touches
\* an account that a range set of the same batch has already written.
EffectReproducesBatch ==
    \A b \in DOMAIN effects :
        ~TransferAfterRange(effects[b].txs)
            => ReplayLog(effects[b].before, effects[b]) = versions[b]

\* The worker is past both copies of every batch it has begun.
Whole == pc \in {"idle", "snapshot", "sync"}

Transfers(txs) == \E i \in DOMAIN txs : txs[i].func = "transfer"

\* Input of range sets only is recovered exactly after a kill between commits:
\* the ring is replayed once for every older chunk, over the whole state, and
\* the last of these passes leaves every account at the highest batch.
RangeSetsRecovered ==
    /\ phase = "recovered" /\ Whole
    /\ snap[Slot(last)].data # [i \in AccountsOf(Slot(last)) |-> 0]
    /\ ~\E b \in DOMAIN effects : Transfers(effects[b].txs)
    => /\ state = versions[last + 1]

-----------------------------------------------------------------------------
\* What the documents say, and the code does not do.

\* README.md, Core Concepts, Hybrid Logging: "Transfers: Only the changed
\* balances (write set) are logged."  What the worker logs are the balances in
\* its buffer after the batch has been applied a second time.
LogHoldsChangedBalances ==
    pc = "sync" => logs[Slot(task.batch)].writes = effects[task.batch + 1].writes

\* README.md, Core Concepts: recovery "replays logs".  A log that keeps the
\* balances and the range sets of a batch apart cannot tell in which order they
\* were applied.
ReplayReproducesBatch ==
    \A b \in DOMAIN effects :
        ReplayLog(effects[b].before, effects[b]) = versions[b]

\* "Combined msync failed (snap=%p, tx=%p, ...)": the msync is meant to cover the
\* snapshot and the transactions of the batch; it starts at the transactions.
\* When the worker is idle after syncs that have all succeeded, a slot whose
\* transactions are on the device has its snapshot there.
SyncCoversSnapshot ==
    pc = "idle" /\ diskLogs = logs => diskSnap = snap
=============================================================================
