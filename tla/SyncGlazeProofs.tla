--------------------------- MODULE SyncGlazeProofs ---------------------------
(***************************************************************************)
(* Proofs about the two programs that commit in their main thread, for     *)
(* every number of chunks and of starts and files of any length.           *)
(*                                                                         *)
(* Remember Glaze without a worker: a log that several runs have written   *)
(* to, one over the other, is recovered exactly when it holds the batches  *)
(* of the last one only, and the verdict on the hash is right.             *)
(*                                                                         *)
(* The test program with two cycles, for any batches: a log that is the    *)
(* last run's is recovered to its last batch wherever the run was killed,  *)
(* if the chunks of the completed cycle have settled.                      *)
(***************************************************************************)
EXTENDS MCSync, RingLogProofs, Sequences, SequenceTheorems

-----------------------------------------------------------------------------
\* The inductive invariant.

\* The program is between the copy of the snapshot and the end of msync.
InFlight == pc \in {"transactions", "sync"}

\* A batch was applied and is not yet committed.
Committing == pc \in {"snapshot", "transactions", "sync"}

\* How many batches this run has begun to write.
Begun == batch + (IF InFlight THEN 1 ELSE 0)

\* The newest batch id that some earlier run has written.
Base == newest - Begun

\* How many of the runs that have written are this one.
Started == IF Begun = 0 THEN 0 ELSE 1

\* Where the thread is while the program is down or replaying; a slot is spoilt only by a
\* power loss after a failed msync.
Control ==
    /\ phase \in {"down", "replay", "run"}
    /\ phase # "run" => batch = 0 /\ verify = "none" /\ pc \in {"read", "done"}
    /\ phase = "replay" => pc = "read"
    /\ batch \in Nat /\ (pc \in {"truncate", "hash"} => batch > 0)
    /\ damaged => syncFailed

\* Who has written how much, and what of it was reported.
Counts ==
    /\ newest \in Nat /\ committed \in Nat /\ writers \in Nat /\ Base \in Nat
    /\ writers >= Started /\ (writers = Started <=> Base = 0)
    /\ IF batch = 0 THEN committed <= Base ELSE committed = Base + batch

\* The state has the batches of this run, and the buffer has the last of them.
DataFollows ==
    phase = "run" =>
       /\ Committing => memory = Base + batch + 1 /\ txBuf.id = Base + batch + 1
       /\ ~Committing /\ batch > 0 => memory = Base + batch

\* Each batch of a run follows on the one before, and the first of the first run on zeros.
ParentFollows ==
    phase = "run" /\ ~damaged /\ (batch > 0 \/ Base = 0) =>
       /\ Committing => txBuf.parent = Base + batch
       /\ pc = "read" => memory = Base + batch

\* Every chunk has its slots, and there is nothing in them but what some run has written.
SlotsKnown ==
    /\ DOMAIN snap = Chunks /\ DOMAIN txs = Chunks
    /\ \A k \in Chunks :
          /\ LeftSnapshot(newest, snap[k], k) /\ LeftSnapshot(newest, diskSnap[k], k)
          /\ LeftTransactions(newest, txs[k]) /\ LeftTransactions(newest, diskTxs[k])

\* Slot k is torn in a log with snapshots s and transactions t.
Torn(s, t, k) ==
    \/ s[k].ver > t[k].tx.id
    \/ s[k].ver < t[k].tx.id /\ s[k].batch >= t[k].batch

\* The log is that of m batches of one run, over what older runs have left; the slot of
\* the batch before the last N may already have the transactions of the next one.
Resolved(base, m, s, t) ==
    /\ base > 0 => m > 0
    /\ \A k \in Chunks : HoldsSnapshot(base, s[k], k, m)
    /\ \A b \in 0..m-1 : m < b + N => HasTransactions(base, b, t[Slot(b)])
    /\ m = 0 => t[0].tx = NoTransactions

\* What was reported is among those batches, unless an msync failed; and if there was but
\* one run, it has found a new log.
Sufficient(base, m) ==
    /\ writers <= 1 => base = 0
    /\ ~syncFailed => base + m >= committed

\* In a log that nobody is writing to either a slot is torn or everything is in order.
Quiet(s, t) ==
    (\A k \in Chunks : ~Torn(s, t, k)) =>
        \E base \in Nat, m \in Nat : Resolved(base, m, s, t) /\ Sufficient(base, m)

\* The device has what is in memory, but for the slot of the batch in flight.
DiskFollows ==
    ~syncFailed => \A k \in Chunks :
       /\ diskSnap[k] = snap[k] \/ (InFlight /\ k = Slot(batch))
       /\ diskTxs[k] = txs[k] \/ (pc = "sync" /\ k = Slot(batch))

\* From its first batch on the log is that of this run.
RingHolds ==
    ~damaged =>
       /\ Begun = 0 => Quiet(snap, txs)
       /\ Begun > 0 => \A k \in Chunks :
             /\ HoldsSnapshot(Base, snap[k], k, Begun)
             /\ HoldsTransactions(Base, txs[k], k, IF pc = "transactions" THEN batch ELSE Begun)

\* While a batch is in flight the device has the log as it was before.
DiskHolds ==
    ~syncFailed /\ InFlight =>
       /\ batch = 0 => Quiet(diskSnap, diskTxs)
       /\ \A k \in Chunks : /\ HoldsSnapshot(Base, diskSnap[k], k, batch)
                            /\ HoldsTransactions(Base, diskTxs[k], k, batch)

\* The replay of a log of one run is on its way to the newest whole batch.
ReplayFollows ==
    phase = "replay" /\ Intact /\ OneRunInRing =>
       \E base \in Nat, m \in Nat :
          /\ Resolved(base, m, snap, txs) /\ Sufficient(base, m) /\ WholeId = base + m
          /\ Recoverable(base, m) /\ Replaying(base, m)

\* The hash file of a log of one run carries the number of its batch; before the first run
\* has committed anything there is none.
HashFollows ==
    /\ hashFile \in [id : Int, label : Int]
    /\ writers <= 1 => hashFile.label = hashFile.id - 1
    /\ writers = 0 => hashFile = NoHash
    /\ phase = "run" /\ batch = 0 /\ Base = 0 /\ ~damaged =>
          hashFile.id = 0 /\ verify = "skipped"

\* What the state of the program always satisfies, together with the verdict itself.
SyncInv ==
    /\ Control /\ Counts /\ DataFollows /\ ParentFollows /\ SlotsKnown
    /\ DiskFollows /\ RingHolds /\ DiskHolds /\ ReplayFollows /\ HashFollows
    /\ HashVerdictRight

-----------------------------------------------------------------------------
\* About logs.

\* Going from one batch to the next leaves what the older runs have left in its place.
LEMMA LeftLater ==
    ASSUME NEW base \in Nat, NEW more \in Nat, base <= more, NEW k \in Chunks, NEW s
    PROVE  /\ LeftSnapshot(base, s, k) => LeftSnapshot(more, s, k)
           /\ LeftTransactions(base, s) => LeftTransactions(more, s)
  BY DEF LeftSnapshot, LeftTransactions, Chunks

\* Only what the slots of the ring hold matters.
LEMMA SameLog ==
    ASSUME NEW s, NEW t, NEW u, NEW v, \A k \in Chunks : s[k] = u[k] /\ t[k] = v[k],
           NEW base \in Nat, NEW m \in Nat
    PROVE  /\ Resolved(base, m, s, t) => Resolved(base, m, u, v)
           /\ \A k \in Chunks : Torn(s, t, k) <=> Torn(u, v, k)
<1>1. 0 \in Chunks /\ \A b \in 0..m-1 : Slot(b) \in Chunks
  BY SlotInChunks, NAssumption DEF Chunks
<1>2. Resolved(base, m, s, t) => Resolved(base, m, u, v)
  BY <1>1 DEF Resolved
<1>3. \A k \in Chunks : Torn(s, t, k) <=> Torn(u, v, k)
  BY DEF Torn
<1>. QED  BY <1>2, <1>3

\* A log that holds m batches of a run is in order, whatever has become of the transactions
\* in the slot of the next batch.
LEMMA HeldIsResolved ==
    ASSUME NEW base \in Nat, NEW m \in Nat, m > 0, NEW s, NEW t,
           \A k \in Chunks : HoldsSnapshot(base, s[k], k, m),
           \A k \in Chunks : k # Slot(m) => HoldsTransactions(base, t[k], k, m)
    PROVE  Resolved(base, m, s, t)
<1>1. ASSUME NEW b \in 0..m-1, m < b + N PROVE HasTransactions(base, b, t[Slot(b)])
  <2>1. Slot(b) \in Chunks /\ Slot(b) # Slot(m) /\ m <= b + N
    BY <1>1, SlotInChunks, SlotsApart, NAssumption
  <2>. QED  BY <2>1, SlotIsTaken
<1>. QED  BY <1>1 DEF Resolved

\* A snapshot slot of the log of m batches is not of a later one, and the transactions of
\* the next batch are later than all of those before.
LEMMA AheadIsTorn ==
    ASSUME NEW base \in Nat, NEW m \in Nat, NEW s, NEW t, NEW k \in Chunks, k = Slot(m),
           s[k] = SnapshotOf(base, m), HoldsTransactions(base, t[k], k, m)
    PROVE  Torn(s, t, k)
<1>1. t[k].tx.id \in 0..base+m
  BY TransactionsFields
<1>2. s[k].ver = base + m + 1
  BY DEF SnapshotOf
<1>. QED  BY <1>1, <1>2 DEF Torn

\* The first transactions of a run next to an older snapshot: the number of the batch gives
\* the slot away.
LEMMA FirstIsTorn ==
    ASSUME NEW base \in Nat, NEW s, NEW t, NEW k \in Chunks,
           HoldsSnapshot(base, s[k], k, 0), HasTransactions(base, 0, t[k])
    PROVE  Torn(s, t, k)
<1>1. s[k].ver \in 0..base /\ s[k].batch \in Nat
  BY SnapshotFields
<1>2. t[k].tx.id = base + 1 /\ t[k].batch = 0
  BY DEF HasTransactions
<1>. QED  BY <1>1, <1>2 DEF Torn

\* The slots of an unfinished or an old run before this one has begun.
LEMMA NothingHeld ==
    ASSUME NEW base \in Nat, NEW k \in Chunks, NEW s
    PROVE  /\ LeftSnapshot(base, s, k) => HoldsSnapshot(base, s, k, 0)
           /\ LeftTransactions(base, s) => HoldsTransactions(base, s, k, 0)
  BY NAssumption DEF HoldsSnapshot, HoldsTransactions, Chunks

-----------------------------------------------------------------------------
\* What the state of the program tells.

\* The numbers of the invariant.
LEMMA Numbers ==
    ASSUME SyncInv
    PROVE  /\ batch \in Nat /\ newest \in Nat /\ committed \in Nat /\ writers \in Nat
           /\ Base \in Nat /\ Begun \in Nat /\ newest = Base + Begun
           /\ Slot(batch) \in Chunks
           /\ InFlight => Begun = batch + 1
           /\ ~InFlight => Begun = batch
<1>1. /\ batch \in Nat /\ newest \in Nat /\ committed \in Nat /\ writers \in Nat
      /\ Base \in Nat
  BY DEF SyncInv, Control, Counts
<1>2. Begun \in Nat /\ newest = Base + Begun
      /\ (InFlight => Begun = batch + 1) /\ (~InFlight => Begun = batch)
  BY <1>1 DEF Begun, Base
<1>. QED  BY <1>1, <1>2, SlotInChunks

\* The steps that leave alone the log, what is known of it, and how far the run has come.
LogStill ==
    /\ UNCHANGED <<logVars, batch, newest, committed, writers, syncFailed, damaged>>
    /\ \/ pc' = pc
       \/ pc \notin {"transactions", "sync"} /\ pc' \notin {"transactions", "sync"}

\* What is left are the copies, the syncs and the ends of the program.
LEMMA LogSteps ==
    ASSUME SyncInv, [Next]_vars
    PROVE  \/ LogStill \/ CopySnapshot \/ CopyTransactions \/ SyncCommit \/ Finalize
           \/ Exit \/ Kill \/ PowerLoss
<1>. USE DEF LogStill, processVars, historyVars
<1>1. Boot \/ RecoveryStep \/ FinishRecovery => LogStill
  BY DEF Boot, RecoveryStep, FinishRecovery, SyncInv, Control
<1>2. ApplyBatch \/ EndOfFile => LogStill
  BY DEF ApplyBatch, EndOfFile
<1>3. TruncateHash \/ SaveHash => LogStill
  BY DEF TruncateHash, SaveHash
<1>4. UNCHANGED vars => LogStill
  BY DEF vars
<1>. QED  BY <1>1, <1>2, <1>3, <1>4 DEF Next, BootNext, MainNext, EndNext

\* They do not move the count.
LEMMA StillCounts ==
    ASSUME SyncInv, LogStill
    PROVE  /\ Begun' = Begun /\ Base' = Base /\ InFlight' = InFlight /\ Started' = Started
           /\ \A base, m : Sufficient(base, m)' <=> Sufficient(base, m)
           /\ (pc' = "transactions") = (pc = "transactions") /\ (pc' = "sync") = (pc = "sync")
<1>1. InFlight' = InFlight
      /\ (pc' = "transactions") = (pc = "transactions") /\ (pc' = "sync") = (pc = "sync")
  BY DEF LogStill, InFlight
<1>2. Begun' = Begun
  BY <1>1 DEF Begun, LogStill
<1>3. Base' = Base /\ Started' = Started
  BY <1>2 DEF Base, Started, LogStill
<1>4. \A base, m : Sufficient(base, m)' <=> Sufficient(base, m)
  BY DEF Sufficient, LogStill
<1>. QED  BY <1>1, <1>2, <1>3, <1>4

\* The steps of a commit: the first makes the batch the newest one, the last counts it.
LEMMA CommitCounts ==
    ASSUME SyncInv
    PROVE  /\ CopySnapshot => /\ phase = "run" /\ pc = "snapshot" /\ pc' = "transactions"
                              /\ Begun = batch /\ Begun' = batch + 1 /\ batch' = batch
                              /\ newest' = newest + 1 /\ Base' = Base
                              /\ memory = Base + batch + 1
           /\ CopyTransactions => /\ phase = "run" /\ pc = "transactions" /\ pc' = "sync"
                                  /\ Begun = batch + 1 /\ Begun' = Begun /\ batch' = batch
                                  /\ Base' = Base
           /\ SyncCommit => /\ phase = "run" /\ pc = "sync" /\ pc' = "read"
                            /\ Begun = batch + 1 /\ Begun' = Begun /\ batch' = batch + 1
                            /\ Base' = Base
                            /\ committed' = Base + batch + 1 /\ memory = Base + batch + 1
           /\ Finalize => /\ phase = "run" /\ pc = "finalize" /\ pc' = "done"
                          /\ Begun' = Begun /\ batch' = batch /\ Base' = Base
<1>0. /\ batch \in Nat /\ newest \in Nat /\ Base \in Nat
      /\ phase = "run" /\ Committing =>
            memory = Base + batch + 1 /\ txBuf.id = Base + batch + 1
  BY Numbers DEF SyncInv, DataFollows
<1>1. ASSUME CopySnapshot
      PROVE  /\ phase = "run" /\ pc = "snapshot" /\ pc' = "transactions"
             /\ Begun = batch /\ Begun' = batch + 1 /\ batch' = batch
             /\ newest' = newest + 1 /\ Base' = Base /\ memory = Base + batch + 1
  <2>1. /\ phase = "run" /\ pc = "snapshot" /\ pc' = "transactions" /\ batch' = batch
        /\ newest' = txBuf.id
    BY <1>1 DEF CopySnapshot
  <2>2. Begun = batch /\ Begun' = batch + 1
    BY <1>0, <2>1 DEF Begun, InFlight
  <2>3. memory = Base + batch + 1 /\ newest' = Base + batch + 1
    BY <1>0, <2>1 DEF Committing
  <2>4. Base = newest - batch
    BY <2>2 DEF Base
  <2>5. newest' = newest + 1
    BY <1>0, <2>3, <2>4
  <2>6. Base' = newest' - Begun'
    BY DEF Base
  <2>7. Base' = Base
    BY <1>0, <2>2, <2>4, <2>5, <2>6
  <2>. QED  BY <2>1, <2>2, <2>3, <2>5, <2>7
<1>2. ASSUME CopyTransactions
      PROVE  /\ phase = "run" /\ pc = "transactions" /\ pc' = "sync"
             /\ Begun = batch + 1 /\ Begun' = Begun /\ batch' = batch /\ Base' = Base
  <2>1. /\ phase = "run" /\ pc = "transactions" /\ pc' = "sync" /\ batch' = batch
        /\ newest' = newest
    BY <1>2 DEF CopyTransactions, historyVars
  <2>2. Begun = batch + 1 /\ Begun' = batch + 1
    BY <1>0, <2>1 DEF Begun, InFlight
  <2>. QED  BY <2>1, <2>2 DEF Base
<1>3. ASSUME SyncCommit
      PROVE  /\ phase = "run" /\ pc = "sync" /\ pc' = "read"
             /\ Begun = batch + 1 /\ Begun' = Begun /\ batch' = batch + 1 /\ Base' = Base
             /\ committed' = Base + batch + 1 /\ memory = Base + batch + 1
  <2>1. /\ phase = "run" /\ pc = "sync" /\ pc' = "read" /\ batch' = batch + 1
        /\ newest' = newest /\ committed' = txBuf.id
    BY <1>3 DEF SyncCommit
  <2>2. Begun = batch + 1 /\ Begun' = batch + 1
    BY <1>0, <2>1 DEF Begun, InFlight
  <2>3. Base' = Base
    BY <2>1, <2>2 DEF Base
  <2>. QED  BY <1>0, <2>1, <2>2, <2>3 DEF Committing
<1>4. ASSUME Finalize
      PROVE  /\ phase = "run" /\ pc = "finalize" /\ pc' = "done"
             /\ Begun' = Begun /\ batch' = batch /\ Base' = Base
  <2>1. /\ phase = "run" /\ pc = "finalize" /\ pc' = "done" /\ batch' = batch
        /\ newest' = newest
    BY <1>4 DEF Finalize
  <2>2. Begun' = Begun
    BY <2>1 DEF Begun, InFlight
  <2>. QED  BY <2>1, <2>2 DEF Base
<1>. QED  BY <1>1, <1>2, <1>3, <1>4

\* The end of the program: the next run begins on what is in the log.
LEMMA EndCounts ==
    ASSUME SyncInv, Exit \/ Kill \/ PowerLoss
    PROVE  /\ phase' = "down" /\ pc' = "done" /\ batch' = 0 /\ verify' = "none"
           /\ Begun' = 0 /\ Base' = newest /\ ~InFlight'
           /\ UNCHANGED <<hashFile, newest, committed, writers, syncFailed>>
           /\ \A base, m : Sufficient(base, m)' <=> Sufficient(base, m)
<1>1. /\ phase' = "down" /\ pc' = "done" /\ batch' = 0 /\ verify' = "none"
      /\ UNCHANGED <<hashFile, newest, committed, writers, syncFailed>>
  BY DEF Exit, Kill, PowerLoss, Stop
<1>2. ~InFlight'
  BY <1>1 DEF InFlight
<1>3. Begun' = 0
  BY <1>1, <1>2 DEF Begun
<1>4. Base' = newest
  BY <1>1, <1>3, Numbers DEF Base
<1>5. \A base, m : Sufficient(base, m)' <=> Sufficient(base, m)
  BY <1>1 DEF Sufficient
<1>. QED  BY <1>1, <1>2, <1>3, <1>4, <1>5

-----------------------------------------------------------------------------
\* Where the program is, what it has counted, and its data.

\* There is nothing to commit outside the loop.
LEMMA ControlKept == ASSUME SyncInv, [Next]_vars PROVE Control'
<1>0. Control
  BY DEF SyncInv
<1>. USE DEF Control, processVars, historyVars
<1>1. CASE BootNext
  <2>1. CASE Boot
    BY <1>0, <2>1 DEF Boot
  <2>2. CASE RecoveryStep
    BY <1>0, <2>2 DEF RecoveryStep
  <2>3. CASE FinishRecovery
    BY <1>0, <2>3 DEF FinishRecovery
  <2>. QED  BY <1>1, <2>1, <2>2, <2>3 DEF BootNext
<1>2. CASE ApplyBatch \/ CopySnapshot \/ CopyTransactions
  BY <1>0, <1>2 DEF ApplyBatch, CopySnapshot, CopyTransactions
<1>3. CASE SyncCommit \/ Finalize
  BY <1>0, <1>3 DEF SyncCommit, Finalize
<1>4. CASE EndOfFile \/ TruncateHash \/ SaveHash
  BY <1>0, <1>4 DEF EndOfFile, TruncateHash, SaveHash
<1>5. CASE EndNext
  <2>1. /\ phase' = "down" /\ pc' = "done" /\ batch' = 0 /\ verify' = "none"
        /\ syncFailed' = syncFailed
    BY <1>5, EndCounts DEF EndNext
  <2>2. damaged' = damaged \/ damaged' = (damaged \/ syncFailed)
    BY <1>5 DEF EndNext, Exit, Kill, PowerLoss
  <2>3. damaged' => syncFailed
    BY <1>0, <2>2
  <2>. QED  BY <2>1, <2>3
<1>6. CASE UNCHANGED vars
  BY <1>0, <1>6 DEF vars
<1>. QED  BY <1>1, <1>2, <1>3, <1>4, <1>5, <1>6 DEF Next, MainNext

\* A run counts as a writer from its first batch on; the ids go on from run to run.
LEMMA CountsKept == ASSUME SyncInv, [Next]_vars PROVE Counts'
<1>0. Counts
  BY DEF SyncInv
<1>1. CASE LogStill
  BY <1>0, <1>1, StillCounts DEF Counts, LogStill
<1>2. CASE CopySnapshot
  <2>1. /\ Begun = batch /\ Begun' = batch + 1 /\ batch' = batch
        /\ newest' = newest + 1 /\ Base' = Base
    BY <1>2, CommitCounts
  <2>2. /\ writers' = (IF batch = 0 THEN writers + 1 ELSE writers)
        /\ committed' = committed
    BY <1>2 DEF CopySnapshot
  <2>3. Started = (IF batch = 0 THEN 0 ELSE 1) /\ Started' = 1
    BY <2>1, Numbers DEF Started
  <2>. QED  BY <1>0, <2>1, <2>2, <2>3, Numbers DEF Counts
<1>3. CASE CopyTransactions
  <2>1. Begun' = Begun /\ batch' = batch /\ Base' = Base
    BY <1>3, CommitCounts
  <2>2. UNCHANGED <<newest, committed, writers>>
    BY <1>3 DEF CopyTransactions, historyVars
  <2>. QED  BY <1>0, <2>1, <2>2 DEF Counts, Started
<1>4. CASE SyncCommit
  <2>1. /\ Begun' = Begun /\ batch' = batch + 1 /\ Base' = Base
        /\ committed' = Base + batch + 1
    BY <1>4, CommitCounts
  <2>2. UNCHANGED <<newest, writers>>
    BY <1>4 DEF SyncCommit
  <2>3. batch + 1 # 0 /\ Base + batch + 1 = Base + (batch + 1) /\ Base + batch + 1 \in Nat
    BY Numbers
  <2>. QED  BY <1>0, <2>1, <2>2, <2>3 DEF Counts, Started
<1>5. CASE Finalize
  <2>1. Begun' = Begun /\ batch' = batch /\ Base' = Base
    BY <1>5, CommitCounts
  <2>2. UNCHANGED <<newest, committed, writers>>
    BY <1>5 DEF Finalize
  <2>. QED  BY <1>0, <2>1, <2>2 DEF Counts, Started
<1>6. CASE Exit \/ Kill \/ PowerLoss
  <2>1. /\ batch' = 0 /\ Begun' = 0 /\ Base' = newest
        /\ UNCHANGED <<newest, committed, writers>>
    BY <1>6, EndCounts
  <2>2. Started' = 0
    BY <2>1 DEF Started
  <2>3. newest = Base + Begun /\ Begun \in Nat /\ Begun >= batch
    BY Numbers
  <2>4. writers = 0 <=> newest = 0
    BY <1>0, <2>3, Numbers DEF Counts, Started
  <2>5. committed <= newest
    BY <1>0, <2>3, Numbers DEF Counts
  <2>. QED  BY <1>0, <2>1, <2>2, <2>4, <2>5, Numbers DEF Counts
<1>. QED  BY <1>1, <1>2, <1>3, <1>4, <1>5, <1>6, LogSteps

\* The state moves with the batches.
LEMMA DataKept == ASSUME SyncInv, [Next]_vars PROVE DataFollows'
<1>0. /\ DataFollows /\ Control /\ batch \in Nat /\ Base \in Nat
  BY Numbers DEF SyncInv
<1>. SUFFICES ASSUME phase' = "run" PROVE DataFollows'
  BY DEF DataFollows
<1>1. CASE BootNext
  <2>1. batch' = 0 /\ (pc' = "read" \/ phase = "down")
    BY <1>0, <1>1
    DEF BootNext, Boot, RecoveryStep, FinishRecovery, Control, processVars
  <2>2. pc' = "read"
    BY <1>0, <1>1, <2>1 DEF BootNext, Boot, RecoveryStep, FinishRecovery, processVars
  <2>. QED  BY <2>1, <2>2 DEF DataFollows, Committing
<1>2. CASE ApplyBatch
  <2>1. /\ phase = "run" /\ pc = "read" /\ pc' = "snapshot"
        /\ memory' = newest + 1 /\ txBuf'.id = newest + 1 /\ LogStill
    BY <1>2 DEF ApplyBatch, LogStill, historyVars
  <2>2. Base' = Base /\ batch' = batch
    BY <2>1, StillCounts DEF LogStill
  <2>3. newest = Base + batch
    BY <2>1, Numbers DEF InFlight
  <2>. QED  BY <1>0, <2>1, <2>2, <2>3 DEF DataFollows, Committing
<1>3. CASE CopySnapshot \/ CopyTransactions
  <2>1. /\ phase = "run" /\ pc \in {"snapshot", "transactions"}
        /\ pc' \in {"transactions", "sync"} /\ Base' = Base /\ batch' = batch
    BY <1>3, CommitCounts
  <2>2. UNCHANGED <<memory, txBuf>>
    BY <1>3 DEF CopySnapshot, CopyTransactions
  <2>. QED  BY <1>0, <2>1, <2>2 DEF DataFollows, Committing
<1>4. CASE SyncCommit
  <2>1. /\ pc' = "read" /\ batch' = batch + 1 /\ Base' = Base /\ memory = Base + batch + 1
    BY <1>4, CommitCounts
  <2>2. memory' = memory
    BY <1>4 DEF SyncCommit
  <2>3. memory' = Base' + batch'
    BY <1>0, <2>1, <2>2
  <2>. QED  BY <2>1, <2>3 DEF DataFollows, Committing
<1>5. CASE EndOfFile \/ TruncateHash \/ SaveHash \/ Finalize
  <2>1. /\ phase = "run" /\ ~Committing /\ ~Committing' /\ UNCHANGED <<memory, batch, newest>>
    BY <1>5 DEF EndOfFile, TruncateHash, SaveHash, Finalize, Committing, historyVars
  <2>2. Base' = Base
    BY <2>1 DEF Base, Begun, InFlight, Committing
  <2>. QED  BY <1>0, <2>1, <2>2 DEF DataFollows
<1>6. CASE UNCHANGED vars
  <2>1. UNCHANGED <<phase, pc, memory, txBuf, batch, newest>>
    BY <1>6 DEF vars, processVars, historyVars
  <2>. QED
    BY <1>0, <2>1 DEF DataFollows, Committing, Base, Begun, InFlight
<1>7. ~EndNext
  BY EndCounts DEF EndNext
<1>. QED  BY <1>1, <1>2, <1>3, <1>4, <1>5, <1>6, <1>7 DEF Next, MainNext

\* In the log recovery always finds a snapshot: slot 0 of a new log passes for one.
LEMMA AlwaysValid == ASSUME SyncInv PROVE ValidChunks # {}
<1>1. 0 \in Chunks
  BY NAssumption DEF Chunks
<1>2. snap[0].chunk = 0
  BY <1>1 DEF SyncInv, SlotsKnown, LeftSnapshot, ZeroSnapshot
<1>. QED  BY <1>1, <1>2 DEF ValidChunks

\* The slots of a log nobody has written to are zeros, and recovery ends in zeros.
LEMMA NewLog ==
    ASSUME SyncInv, newest = 0
    PROVE  (\A k \in Chunks : ~TornSlot(k)) /\ WholeId = 0
<1>1. \A k \in Chunks : snap[k] = ZeroSnapshot /\ txs[k] = ZeroBatch
  BY DEF SyncInv, SlotsKnown, LeftSnapshot, LeftTransactions
<1>2. \A k \in Chunks : ~TornSlot(k) /\ snap[k].ver <= txs[k].tx.id
  BY <1>1 DEF TornSlot, ZeroSnapshot, ZeroBatch, NoTransactions
<1>3. \A k \in Chunks : HoldsSnapshot(0, snap[k], k, 0)
  BY <1>1, NothingHeld DEF LeftSnapshot
<1>4. WholeId = 0 + 0
  BY <1>2, <1>3, WholeIdIs
<1>. QED  BY <1>2, <1>4

\* Recovery from the log of one run ends in the newest batch that is whole.
LEMMA RecoveryIs ==
    ASSUME SyncInv, phase = "replay", Recovered, Intact, OneRunInRing
    PROVE  /\ \A k \in Chunks : rec.ver[k] = WholeId
           /\ WholeId \in Nat /\ HighestBatch \in Int
           /\ ~syncFailed => WholeId >= committed
           /\ writers <= 1 => HighestBatch = LastBatch(WholeId)
<1>1. PICK base \in Nat, m \in Nat :
         /\ Resolved(base, m, snap, txs) /\ Sufficient(base, m) /\ WholeId = base + m
         /\ Replaying(base, m)
  BY DEF SyncInv, ReplayFollows
<1>2. /\ \A k \in Chunks : rec.ver[k] = VersionBefore(base, m, m)
      /\ HighestBatch = LastBatch(m)
  BY <1>1, ReplayEnds
<1>3. VersionBefore(base, m, m) = WholeId
  BY <1>1 DEF VersionBefore, Resolved
<1>4. HighestBatch \in Int
  BY <1>2 DEF LastBatch
<1>5. writers <= 1 => WholeId = m
  BY <1>1 DEF Sufficient
<1>. QED  BY <1>1, <1>2, <1>3, <1>4, <1>5 DEF Sufficient

\* When all chunks have one version, that is what the state is put together to.
LEMMA AssembledIs ==
    ASSUME NEW v, \A k \in Chunks : rec.ver[k] = v PROVE Assembled = v
<1>1. 0 \in Chunks
  BY NAssumption DEF Chunks
<1>. QED  BY <1>1 DEF Assembled

\* Each batch follows on the one before.
LEMMA ParentKept == ASSUME SyncInv, [Next]_vars PROVE ParentFollows'
<1>0. /\ ParentFollows /\ Control /\ batch \in Nat /\ Base \in Nat
  BY Numbers DEF SyncInv
<1>. SUFFICES ASSUME phase' = "run", ~damaged', batch' > 0 \/ Base' = 0 PROVE ParentFollows'
  BY DEF ParentFollows
<1>1. CASE Boot
  BY <1>1, AlwaysValid DEF Boot
<1>2. CASE RecoveryStep
  BY <1>0, <1>2 DEF RecoveryStep, processVars
<1>3. CASE FinishRecovery
  <2>1. /\ phase = "replay" /\ Recovered /\ memory' = Assembled
        /\ UNCHANGED <<batch, pc, newest, damaged>>
    BY <1>3 DEF FinishRecovery, historyVars
  <2>2. batch = 0 /\ pc = "read" /\ Base' = Base
    BY <1>0, <2>1 DEF Control, Base, Begun, InFlight
  <2>3. newest = 0 /\ Base = 0
    BY <2>1, <2>2, Numbers DEF InFlight
  <2>4. writers = 0 /\ Started = 0
    BY <2>2, <2>3 DEF SyncInv, Counts, Started, Begun, InFlight
  <2>5. Intact /\ WholeId = 0
    BY <2>1, <2>3, NewLog DEF Intact
  <2>6. OneRunInRing
    BY <2>4 DEF OneRunInRing
  <2>7. \A k \in Chunks : rec.ver[k] = 0
    BY <2>1, <2>5, <2>6, RecoveryIs
  <2>8. memory' = 0
    BY <2>1, <2>7, AssembledIs
  <2>. QED  BY <2>1, <2>2, <2>3, <2>8 DEF ParentFollows, Committing
<1>4. CASE ApplyBatch
  <2>1. /\ phase = "run" /\ pc = "read" /\ pc' = "snapshot"
        /\ txBuf'.parent = memory /\ LogStill
    BY <1>4 DEF ApplyBatch, LogStill, historyVars
  <2>2. Base' = Base /\ batch' = batch /\ damaged' = damaged
    BY <2>1, StillCounts DEF LogStill
  <2>. QED  BY <1>0, <2>1, <2>2 DEF ParentFollows, Committing
<1>5. CASE CopySnapshot \/ CopyTransactions
  <2>1. /\ phase = "run" /\ pc \in {"snapshot", "transactions"}
        /\ pc' \in {"transactions", "sync"} /\ Base' = Base /\ batch' = batch
    BY <1>5, CommitCounts
  <2>2. UNCHANGED <<txBuf, damaged>>
    BY <1>5 DEF CopySnapshot, CopyTransactions, historyVars
  <2>. QED  BY <1>0, <2>1, <2>2 DEF ParentFollows, Committing
<1>6. CASE SyncCommit
  <2>1. pc' = "read" /\ batch' = batch + 1 /\ ~Committing'
    BY <1>6, CommitCounts DEF Committing
  <2>2. memory' = Base' + batch'
    BY <1>0, <2>1, DataKept DEF DataFollows
  <2>. QED  BY <2>1, <2>2 DEF ParentFollows
<1>7. CASE EndOfFile \/ TruncateHash \/ SaveHash \/ Finalize
  <2>1. ~Committing' /\ pc' # "read"
    BY <1>7 DEF EndOfFile, TruncateHash, SaveHash, Finalize, Committing
  <2>. QED  BY <2>1 DEF ParentFollows
<1>8. CASE UNCHANGED vars
  <2>1. UNCHANGED <<phase, pc, memory, txBuf, batch, newest, damaged>>
    BY <1>8 DEF vars, processVars, historyVars
  <2>. QED
    BY <1>0, <2>1 DEF ParentFollows, Committing, Base, Begun, InFlight
<1>9. ~EndNext
  BY EndCounts DEF EndNext
<1>. QED
  BY <1>1, <1>2, <1>3, <1>4, <1>5, <1>6, <1>7, <1>8, <1>9 DEF Next, BootNext, MainNext

-----------------------------------------------------------------------------
\* The slots, in memory and on the device.

\* A batch has the number of its slot at least.
LEMMA SlotIsLess == \A b \in Nat : Slot(b) <= b /\ Slot(b) \in Nat
<1>. TAKE b \in Nat
<1>1. PICK q \in Nat : b = N * q + Slot(b)
  BY SlotParts
<1>2. N * q \in Nat /\ Slot(b) \in Nat
  BY SlotInChunks, NAssumption DEF Chunks
<1>. QED  BY <1>1, <1>2

\* Only the two copies put something new into the log.
LEMMA SlotsKept == ASSUME SyncInv, [Next]_vars PROVE SlotsKnown'
<1>0. /\ SlotsKnown /\ batch \in Nat /\ newest \in Nat /\ Base \in Nat
      /\ Slot(batch) \in Chunks
  BY Numbers DEF SyncInv
<1>1. CASE LogStill
  BY <1>0, <1>1 DEF LogStill, logVars, SlotsKnown
<1>2. CASE CopySnapshot
  <2>1. /\ newest' = newest + 1 /\ memory = Base + batch + 1 /\ newest = Base + batch
    BY <1>2, CommitCounts, Numbers
  <2>2. /\ snap' = [snap EXCEPT ![Slot(batch)] =
                      [batch |-> batch, chunk |-> Slot(batch), ver |-> memory]]
        /\ UNCHANGED <<txs, diskSnap, diskTxs>>
    BY <1>2 DEF CopySnapshot, WriteSnapshot
  <2>3. LeftSnapshot(newest', snap'[Slot(batch)], Slot(batch))
    <3>1. snap'[Slot(batch)] = [batch |-> batch, chunk |-> Slot(batch), ver |-> memory]
      BY <1>0, <2>2 DEF SlotsKnown
    <3>2. batch \in Slot(batch)..newest'-1 /\ memory \in 1..newest'
      BY <1>0, <2>1, SlotIsLess
    <3>. QED  BY <3>1, <3>2 DEF LeftSnapshot
  <2>4. \A k \in Chunks :
          /\ k # Slot(batch) => LeftSnapshot(newest', snap'[k], k)
          /\ LeftSnapshot(newest', diskSnap'[k], k)
          /\ LeftTransactions(newest', txs'[k]) /\ LeftTransactions(newest', diskTxs'[k])
    BY <1>0, <2>1, <2>2, LeftLater DEF SlotsKnown
  <2>5. DOMAIN snap' = Chunks /\ DOMAIN txs' = Chunks
    BY <1>0, <2>2 DEF SlotsKnown
  <2>. QED  BY <2>3, <2>4, <2>5 DEF SlotsKnown
<1>3. CASE CopyTransactions
  <2>1. /\ txs' = [txs EXCEPT ![Slot(batch)] = [batch |-> batch, tx |-> txBuf]]
        /\ UNCHANGED <<snap, diskSnap, diskTxs, newest>>
    BY <1>3 DEF CopyTransactions, WriteBatch, historyVars
  <2>2. phase = "run" /\ Committing /\ InFlight
    BY <1>3 DEF CopyTransactions, Committing, InFlight
  <2>3. txBuf.id \in 1..newest
    BY <1>0, <2>2, Numbers DEF SyncInv, DataFollows
  <2>4. LeftTransactions(newest, txs'[Slot(batch)])
    BY <1>0, <2>1, <2>3 DEF SlotsKnown, LeftTransactions
  <2>. QED  BY <1>0, <2>1, <2>4 DEF SlotsKnown
<1>4. CASE SyncCommit
  <2>1. UNCHANGED <<snap, txs, newest>>
    BY <1>4 DEF SyncCommit
  <2>2. \A k \in Chunks :
          diskSnap'[k] \in {snap[k], diskSnap[k]} /\ diskTxs'[k] \in {txs[k], diskTxs[k]}
    BY <1>0, <1>4, SyncTakes DEF SyncCommit
  <2>. QED  BY <1>0, <2>1, <2>2 DEF SlotsKnown
<1>5. CASE Finalize \/ Exit \/ Kill
  <2>1. UNCHANGED <<snap, txs, newest>>
    BY <1>5 DEF Finalize, Exit, Kill, Stop, logVars
  <2>2. SyncAll \/ UNCHANGED <<diskSnap, diskTxs>>
    BY <1>5 DEF Finalize, Exit, Kill, logVars
  <2>. QED  BY <1>0, <2>1, <2>2 DEF SlotsKnown, SyncAll
<1>6. CASE PowerLoss
  <2>1. newest' = newest /\ diskSnap' = snap' /\ diskTxs' = txs'
    BY <1>6 DEF PowerLoss, Stop
  <2>2. DOMAIN snap' = Chunks /\ DOMAIN txs' = Chunks
    BY <1>6 DEF PowerLoss
  <2>3. \A k \in Chunks :
          /\ snap'[k] \in {snap[k], diskSnap[k]}
          /\ txs'[k] \in {txs[k], diskTxs[k]}
    BY <1>6 DEF PowerLoss
  <2>. QED  BY <1>0, <2>1, <2>2, <2>3 DEF SlotsKnown
<1>. QED  BY <1>1, <1>2, <1>3, <1>4, <1>5, <1>6, LogSteps

\* Before the next commit begins the device has caught up, unless an msync failed.
LEMMA DiskKept == ASSUME SyncInv, [Next]_vars PROVE DiskFollows'
<1>0. DiskFollows /\ batch \in Nat /\ DOMAIN snap = Chunks /\ DOMAIN txs = Chunks
  BY Numbers DEF SyncInv, SlotsKnown
<1>. SUFFICES ASSUME ~syncFailed' PROVE DiskFollows'
  BY DEF DiskFollows
<1>1. CASE LogStill
  BY <1>0, <1>1, StillCounts DEF LogStill, logVars, DiskFollows
<1>2. CASE CopySnapshot
  <2>1. pc = "snapshot" /\ InFlight' /\ batch' = batch /\ pc' # "sync"
    BY <1>2, CommitCounts DEF InFlight
  <2>2. \A k \in Chunks : diskSnap[k] = snap[k] /\ diskTxs[k] = txs[k]
    BY <1>0, <1>2, <2>1 DEF DiskFollows, InFlight, CopySnapshot
  <2>3. /\ UNCHANGED <<txs, diskSnap, diskTxs>>
        /\ \A k \in Chunks : k # Slot(batch) => snap'[k] = snap[k]
    BY <1>0, <1>2 DEF CopySnapshot, WriteSnapshot
  <2>. QED  BY <2>1, <2>2, <2>3 DEF DiskFollows
<1>3. CASE CopyTransactions
  <2>1. pc = "transactions" /\ InFlight' /\ batch' = batch /\ pc' = "sync"
    BY <1>3, CommitCounts DEF InFlight
  <2>2. /\ UNCHANGED <<snap, diskSnap, diskTxs, syncFailed>>
        /\ \A k \in Chunks : k # Slot(batch) => txs'[k] = txs[k]
    BY <1>0, <1>3 DEF CopyTransactions, WriteBatch, historyVars
  <2>. QED  BY <1>0, <2>1, <2>2 DEF DiskFollows
<1>4. CASE SyncCommit
  <2>1. SyncSlots(batch) /\ UNCHANGED <<snap, txs, syncFailed>>
    BY <1>4 DEF SyncCommit
  <2>2. \A k \in Chunks : diskSnap'[k] = snap[k] /\ diskTxs'[k] = txs[k]
    BY <1>0, <2>1, SyncTakes DEF DiskFollows
  <2>. QED  BY <2>1, <2>2 DEF DiskFollows
<1>5. CASE Finalize \/ Kill
  BY <1>5 DEF Finalize, Kill, SyncAll, DiskFollows
<1>6. CASE Exit
  <2>1. UNCHANGED logVars /\ UNCHANGED syncFailed /\ pc = "done"
    BY <1>6 DEF Exit, Stop
  <2>. QED  BY <1>0, <2>1 DEF DiskFollows, logVars, InFlight
<1>7. CASE PowerLoss
  BY <1>7 DEF PowerLoss, DiskFollows
<1>. QED  BY <1>1, <1>2, <1>3, <1>4, <1>5, <1>6, <1>7, LogSteps

-----------------------------------------------------------------------------
\* Whose log it is.

\* Before a commit the log holds the batches of the run so far.
LEMMA HeldBefore ==
    ASSUME SyncInv, ~damaged, ~InFlight
    PROVE  \A k \in Chunks : /\ HoldsSnapshot(Base, snap[k], k, batch)
                             /\ HoldsTransactions(Base, txs[k], k, batch)
<1>1. Begun = batch /\ newest = Base + batch /\ batch \in Nat /\ Base \in Nat
  BY Numbers
<1>2. CASE batch = 0
  <2>1. newest = Base
    BY <1>1, <1>2
  <2>. QED  BY <1>1, <1>2, <2>1, NothingHeld DEF SyncInv, SlotsKnown
<1>3. CASE batch > 0
  <2>1. pc # "transactions"
    BY DEF InFlight
  <2>. QED  BY <1>1, <1>3, <2>1 DEF SyncInv, RingHolds
<1>. QED  BY <1>1, <1>2, <1>3

\* The first copy puts the snapshot of the batch into its slot.
LEMMA CopySnapshotHolds ==
    ASSUME SyncInv, CopySnapshot, ~damaged
    PROVE  \A k \in Chunks : HoldsSnapshot(Base, snap'[k], k, batch + 1)
<1>1. /\ pc = "snapshot" /\ ~InFlight /\ memory = Base + batch + 1
      /\ batch \in Nat /\ Base \in Nat
      /\ snap' = [snap EXCEPT ![Slot(batch)] =
                    [batch |-> batch, chunk |-> Slot(batch), ver |-> memory]]
  BY CommitCounts, Numbers DEF CopySnapshot, WriteSnapshot, InFlight
<1>2. snap' = [snap EXCEPT ![Slot(batch)] = SnapshotOf(Base, batch)]
  BY <1>1 DEF SnapshotOf
<1>3. \A k \in Chunks : HoldsSnapshot(Base, snap[k], k, batch) /\ k \in DOMAIN snap
  BY <1>1, HeldBefore DEF SyncInv, SlotsKnown
<1>. TAKE k \in Chunks
<1>4. CASE k = Slot(batch)
  BY <1>1, <1>2, <1>3, <1>4, HoldsLast
<1>5. CASE k # Slot(batch)
  BY <1>1, <1>2, <1>3, <1>5, HoldsLater
<1>. QED  BY <1>4, <1>5

\* The second copy puts the transactions there.
LEMMA CopyTransactionsHolds ==
    ASSUME SyncInv, CopyTransactions, ~damaged
    PROVE  \A k \in Chunks : HoldsTransactions(Base, txs'[k], k, batch + 1)
<1>1. /\ phase = "run" /\ pc = "transactions" /\ Committing /\ Begun = batch + 1
      /\ batch \in Nat /\ Base \in Nat
      /\ txs' = [txs EXCEPT ![Slot(batch)] = [batch |-> batch, tx |-> txBuf]]
  BY CommitCounts, Numbers DEF CopyTransactions, WriteBatch, Committing
<1>2. \A k \in Chunks : HoldsTransactions(Base, txs[k], k, batch) /\ k \in DOMAIN txs
  BY <1>1 DEF SyncInv, RingHolds, SlotsKnown
<1>3. /\ txBuf.id = Base + batch + 1
      /\ batch > 0 \/ Base = 0 => txBuf.parent = Base + batch
  BY <1>1 DEF SyncInv, DataFollows, ParentFollows
<1>4. HasTransactions(Base, batch, [batch |-> batch, tx |-> txBuf])
  BY <1>3 DEF HasTransactions
<1>. TAKE k \in Chunks
<1>5. CASE k = Slot(batch)
  BY <1>1, <1>2, <1>4, <1>5, HoldsLast
<1>6. CASE k # Slot(batch)
  BY <1>1, <1>2, <1>6, HoldsLater
<1>. QED  BY <1>5, <1>6

\* What was reported is among the batches of a run that has begun to write.
LEMMA AllSufficient ==
    ASSUME SyncInv, Begun > 0
    PROVE  /\ Sufficient(Base, Begun)
           /\ batch > 0 => Sufficient(Base, batch)
<1>1. writers <= 1 => Base = 0
  BY Numbers DEF SyncInv, Counts, Started
<1>2. Base + Begun >= committed /\ (batch > 0 => Base + batch >= committed)
  BY Numbers DEF SyncInv, Counts
<1>. QED  BY <1>1, <1>2 DEF Sufficient

\* However a run ends, it leaves a torn slot or a log that is in order.
LEMMA EndsQuiet == ASSUME SyncInv, ~damaged PROVE Quiet(snap, txs)
<1>1. CASE Begun = 0
  BY <1>1 DEF SyncInv, RingHolds
<1>2. CASE Begun > 0 /\ pc # "transactions"
  <2>1. \A k \in Chunks : /\ HoldsSnapshot(Base, snap[k], k, Begun)
                          /\ HoldsTransactions(Base, txs[k], k, Begun)
    BY <1>2 DEF SyncInv, RingHolds
  <2>2. Resolved(Base, Begun, snap, txs)
    BY <1>2, <2>1, Numbers, HeldIsResolved
  <2>. QED  BY <1>2, <2>2, Numbers, AllSufficient DEF Quiet
<1>3. CASE pc = "transactions"
  <2>1. InFlight /\ Begun = batch + 1 /\ Begun > 0
    BY <1>3, Numbers DEF InFlight
  <2>2. Slot(batch) \in Chunks /\ batch \in Nat /\ Base \in Nat
        /\ HoldsSnapshot(Base, snap[Slot(batch)], Slot(batch), batch + 1)
        /\ HoldsTransactions(Base, txs[Slot(batch)], Slot(batch), batch)
    BY <1>3, <2>1, Numbers DEF SyncInv, RingHolds
  <2>3. snap[Slot(batch)] = SnapshotOf(Base, batch)
    <3>1. batch \in 0..(batch+1)-1 /\ batch + 1 <= batch + N /\ batch + 1 \in Nat
      BY <2>2, NAssumption
    <3>. QED  BY <2>2, <3>1, SlotIsTaken
  <2>4. Torn(snap, txs, Slot(batch))
    BY <2>2, <2>3, AheadIsTorn
  <2>. QED  BY <2>2, <2>4 DEF Quiet
<1>. QED  BY <1>1, <1>2, <1>3, Numbers

\* And so does a power loss, whatever of the batch in flight has reached the device.
LEMMA LossQuiet ==
    ASSUME SyncInv, ~damaged, ~syncFailed, NEW s, NEW t,
           \A k \in Chunks : s[k] \in {snap[k], diskSnap[k]} /\ t[k] \in {txs[k], diskTxs[k]}
    PROVE  Quiet(s, t)
<1>. DEFINE c == Slot(batch)
<1>0. /\ batch \in Nat /\ Base \in Nat /\ c \in Chunks
  BY Numbers
<1>1. \A k \in Chunks :
         /\ s[k] = snap[k] \/ (InFlight /\ k = c /\ s[k] = diskSnap[k])
         /\ t[k] = txs[k] \/ (pc = "sync" /\ k = c /\ t[k] = diskTxs[k])
  BY DEF SyncInv, DiskFollows
<1>2. CASE (\A k \in Chunks : s[k] = snap[k] /\ t[k] = txs[k])
  BY <1>2, EndsQuiet, SameLog DEF Quiet
<1>3. CASE InFlight /\ ~(\A k \in Chunks : s[k] = snap[k] /\ t[k] = txs[k])
  <2>. HIDE DEF c
  <2>1. /\ Begun = batch + 1 /\ Begun > 0
        /\ \A k \in Chunks : /\ HoldsSnapshot(Base, diskSnap[k], k, batch)
                             /\ HoldsTransactions(Base, diskTxs[k], k, batch)
        /\ batch = 0 => Quiet(diskSnap, diskTxs)
        /\ \A k \in Chunks : HoldsSnapshot(Base, snap[k], k, batch + 1)
    BY <1>0, <1>3, Numbers DEF SyncInv, DiskHolds, RingHolds
  <2>2. \A k \in Chunks : k # c => /\ s[k] = diskSnap[k] /\ t[k] = diskTxs[k]
    BY <1>1 DEF SyncInv, DiskFollows, c
  <2>3. snap[c] = SnapshotOf(Base, batch)
    <3>1. batch \in 0..(batch+1)-1 /\ batch + 1 <= batch + N /\ batch + 1 \in Nat
      BY <1>0, NAssumption
    <3>. QED  BY <1>0, <2>1, <3>1, SlotIsTaken DEF c
  <2>4. CASE s[c] = snap[c]
    <3>1. t[c] = diskTxs[c]
      BY <1>1, <1>3, <2>4 
    <3>2. Torn(s, t, c)
      BY <1>0, <2>1, <2>3, <2>4, <3>1, AheadIsTorn DEF c
    <3>. QED  BY <1>0, <3>2 DEF Quiet
  <2>5. CASE s[c] = diskSnap[c] /\ batch > 0
    <3>1. \A k \in Chunks : HoldsSnapshot(Base, s[k], k, batch)
      BY <2>1, <2>2, <2>5
    <3>2. \A k \in Chunks : k # c => HoldsTransactions(Base, t[k], k, batch)
      BY <2>1, <2>2
    <3>3. Resolved(Base, batch, s, t)
      BY <1>0, <2>5, <3>1, <3>2, HeldIsResolved DEF c
    <3>. QED  BY <1>0, <2>1, <2>5, <3>3, AllSufficient DEF Quiet
  <2>6. CASE s[c] = diskSnap[c] /\ batch = 0 /\ t[c] = diskTxs[c]
    <3>1. \A k \in Chunks : s[k] = diskSnap[k] /\ t[k] = diskTxs[k]
      BY <2>2, <2>6
    <3>. QED  BY <2>1, <2>6, <3>1, SameLog DEF Quiet
  <2>7. CASE s[c] = diskSnap[c] /\ batch = 0 /\ t[c] = txs[c] /\ t[c] # diskTxs[c]
    <3>1. pc = "sync"
      BY <1>0, <1>3, <2>7 DEF SyncInv, DiskFollows, c
    <3>2. HoldsTransactions(Base, txs[c], c, 1)
      BY <1>0, <2>1, <2>7, <3>1 DEF SyncInv, RingHolds
    <3>3. HasTransactions(Base, 0, txs[c])
      <4>1. 0 \in 0..1-1 /\ 1 <= 0 + N /\ 1 \in Nat /\ c = Slot(0)
        BY <2>7, NAssumption DEF c
      <4>. QED  BY <1>0, <3>2, <4>1, SlotIsTaken
    <3>4. HoldsSnapshot(Base, s[c], c, 0)
      BY <1>0, <2>1, <2>7
    <3>5. Torn(s, t, c)
      BY <1>0, <2>7, <3>3, <3>4, FirstIsTorn
    <3>. QED  BY <1>0, <3>5 DEF Quiet
  <2>8. /\ s[c] = snap[c] \/ s[c] = diskSnap[c]
        /\ t[c] = txs[c] \/ t[c] = diskTxs[c]
    BY <1>0
  <2>. QED  BY <1>0, <2>4, <2>5, <2>6, <2>7, <2>8
<1>4. ~InFlight => \A k \in Chunks : s[k] = snap[k] /\ t[k] = txs[k]
  BY <1>1 DEF InFlight
<1>. QED  BY <1>2, <1>3, <1>4

\* From the first copy on it is the log of this run, and when the run has ended it is
\* nobody's.
LEMMA RingKept == ASSUME SyncInv, [Next]_vars PROVE RingHolds'
<1>0. /\ RingHolds /\ batch \in Nat /\ Base \in Nat /\ Begun \in Nat
  BY Numbers DEF SyncInv
<1>. SUFFICES ASSUME ~damaged' PROVE RingHolds'
  BY DEF RingHolds
<1>1. CASE LogStill
  <2>1. /\ Begun' = Begun /\ Base' = Base /\ (pc' = "transactions") = (pc = "transactions")
        /\ \A base, m : Sufficient(base, m)' <=> Sufficient(base, m)
    BY <1>1, StillCounts
  <2>2. snap' = snap /\ txs' = txs /\ batch' = batch /\ damaged' = damaged
    BY <1>1 DEF LogStill, logVars
  <2>3. Begun = 0 => Quiet(snap, txs)'
    BY <1>0, <2>1, <2>2 DEF RingHolds, Quiet
  <2>. QED  BY <1>0, <2>1, <2>2, <2>3 DEF RingHolds
<1>2. CASE CopySnapshot
  <2>1. /\ pc = "snapshot" /\ ~InFlight /\ Begun' = batch + 1 /\ batch' = batch /\ Base' = Base
        /\ pc' = "transactions" /\ txs' = txs /\ damaged' = damaged
    BY <1>2, CommitCounts DEF CopySnapshot, InFlight
  <2>2. \A k \in Chunks : /\ HoldsSnapshot(Base, snap'[k], k, batch + 1)
                          /\ HoldsTransactions(Base, txs[k], k, batch)
    BY <1>2, <2>1, CopySnapshotHolds, HeldBefore
  <2>3. Begun' # 0
    BY <1>0, <2>1
  <2>. QED  BY <2>1, <2>2, <2>3 DEF RingHolds
<1>3. CASE CopyTransactions
  <2>1. /\ pc = "transactions" /\ Begun = batch + 1 /\ Begun' = Begun
        /\ batch' = batch /\ Base' = Base
        /\ pc' = "sync" /\ snap' = snap /\ damaged' = damaged
    BY <1>3, CommitCounts DEF CopyTransactions, historyVars
  <2>2. \A k \in Chunks : /\ HoldsSnapshot(Base, snap[k], k, batch + 1)
                          /\ HoldsTransactions(Base, txs'[k], k, batch + 1)
    BY <1>0, <1>3, <2>1, CopyTransactionsHolds DEF RingHolds
  <2>3. Begun' # 0
    BY <1>0, <2>1
  <2>. QED  BY <2>1, <2>2, <2>3 DEF RingHolds
<1>4. CASE SyncCommit
  <2>1. /\ pc = "sync" /\ Begun = batch + 1 /\ Begun' = Begun /\ Base' = Base /\ pc' = "read"
        /\ UNCHANGED <<snap, txs, damaged>>
    BY <1>4, CommitCounts DEF SyncCommit
  <2>2. Begun > 0
    BY <1>0, <2>1
  <2>. QED  BY <1>0, <2>1, <2>2 DEF RingHolds
<1>5. CASE Finalize
  <2>1. /\ pc = "finalize" /\ Begun' = Begun /\ Base' = Base /\ pc' = "done"
        /\ UNCHANGED <<snap, txs, damaged, writers, committed>>
    BY <1>5, CommitCounts DEF Finalize
  <2>2. \A base, m : Sufficient(base, m) => Sufficient(base, m)'
    <3>1. ~syncFailed' => ~syncFailed
      BY <1>5 DEF Finalize
    <3>. QED  BY <2>1, <3>1 DEF Sufficient
  <2>3. Begun = 0 => Quiet(snap, txs)'
    BY <1>0, <2>1, <2>2 DEF RingHolds, Quiet
  <2>. QED  BY <1>0, <2>1, <2>3 DEF RingHolds
<1>6. CASE Exit \/ Kill \/ PowerLoss
  <2>1. Begun' = 0 /\ \A base, m : Sufficient(base, m)' <=> Sufficient(base, m)
    BY <1>6, EndCounts
  <2>2. CASE Exit \/ Kill
    <3>1. snap' = snap /\ txs' = txs /\ damaged' = damaged
      BY <2>2 DEF Exit, Kill, logVars
    <3>2. Quiet(snap, txs)'
      BY <2>1, <3>1, EndsQuiet DEF Quiet
    <3>. QED  BY <2>1, <3>2 DEF RingHolds
  <2>3. CASE PowerLoss
    <3>1. ~damaged /\ ~syncFailed
      BY <2>3 DEF PowerLoss
    <3>2. \A k \in Chunks :
            snap'[k] \in {snap[k], diskSnap[k]} /\ txs'[k] \in {txs[k], diskTxs[k]}
      BY <2>3 DEF PowerLoss
    <3>3. \A s, t : (\A k \in Chunks : s[k] \in {snap[k], diskSnap[k]}
                                       /\ t[k] \in {txs[k], diskTxs[k]})
                    => Quiet(s, t)
      BY <3>1, LossQuiet
    <3>4. (\A k \in Chunks : ~Torn(snap', txs', k)) =>
             \E base \in Nat, m \in Nat :
                Resolved(base, m, snap', txs') /\ Sufficient(base, m)
      BY <3>2, <3>3 DEF Quiet
    <3>5. Quiet(snap, txs)'
      BY <2>1, <3>4 DEF Quiet
    <3>. QED  BY <2>1, <3>5 DEF RingHolds
  <2>. QED  BY <1>6, <2>2, <2>3
<1>. QED  BY <1>1, <1>2, <1>3, <1>4, <1>5, <1>6, LogSteps

\* A commit in flight changes nothing on the device before it syncs.
LEMMA DiskHoldsKept == ASSUME SyncInv, [Next]_vars PROVE DiskHolds'
<1>0. /\ DiskHolds /\ batch \in Nat /\ Base \in Nat
  BY Numbers DEF SyncInv
<1>. SUFFICES ASSUME ~syncFailed', InFlight' PROVE DiskHolds'
  BY DEF DiskHolds
<1>1. CASE LogStill
  <2>1. /\ InFlight' = InFlight /\ Base' = Base
        /\ \A base, m : Sufficient(base, m)' <=> Sufficient(base, m)
    BY <1>1, StillCounts
  <2>2. diskSnap' = diskSnap /\ diskTxs' = diskTxs /\ batch' = batch /\ syncFailed' = syncFailed
    BY <1>1 DEF LogStill, logVars
  <2>3. batch = 0 => Quiet(diskSnap, diskTxs)'
    BY <1>0, <2>1, <2>2 DEF DiskHolds, Quiet
  <2>. QED  BY <1>0, <2>1, <2>2, <2>3 DEF DiskHolds
<1>2. CASE CopySnapshot
  <2>1. /\ ~InFlight /\ pc # "sync" /\ batch' = batch /\ Base' = Base /\ Begun = batch
        /\ UNCHANGED <<diskSnap, diskTxs, syncFailed, committed>>
        /\ writers' \in {writers, writers + 1}
    BY <1>2, CommitCounts DEF CopySnapshot, InFlight
  <2>2. ~damaged /\ ~syncFailed
    BY <2>1 DEF SyncInv, Control
  <2>3. \A k \in Chunks : diskSnap[k] = snap[k] /\ diskTxs[k] = txs[k]
    BY <2>1, <2>2 DEF SyncInv, DiskFollows
  <2>4. \A k \in Chunks : /\ HoldsSnapshot(Base, diskSnap[k], k, batch)
                          /\ HoldsTransactions(Base, diskTxs[k], k, batch)
    BY <2>1, <2>2, <2>3, HeldBefore
  <2>5. \A base, m : Sufficient(base, m) => Sufficient(base, m)'
    BY <2>1, Numbers DEF Sufficient
  <2>6. batch = 0 => Quiet(diskSnap, diskTxs)'
    <3>1. batch = 0 => Quiet(snap, txs)
      BY <2>1, <2>2 DEF SyncInv, RingHolds
    <3>2. batch = 0 => Quiet(diskSnap, diskTxs)
      BY <2>3, <3>1, SameLog DEF Quiet
    <3>. QED  BY <2>1, <2>5, <3>2 DEF Quiet
  <2>. QED  BY <2>1, <2>4, <2>6 DEF DiskHolds
<1>3. CASE CopyTransactions
  <2>1. /\ InFlight /\ batch' = batch /\ Base' = Base
        /\ UNCHANGED <<diskSnap, diskTxs, syncFailed, committed, writers>>
    BY <1>3, CommitCounts DEF CopyTransactions, InFlight, historyVars
  <2>2. \A base, m : Sufficient(base, m) => Sufficient(base, m)'
    BY <2>1 DEF Sufficient
  <2>3. batch = 0 => Quiet(diskSnap, diskTxs)'
    BY <1>0, <2>1, <2>2 DEF DiskHolds, Quiet
  <2>. QED  BY <1>0, <2>1, <2>3 DEF DiskHolds
<1>4. ~(SyncCommit \/ Finalize)
  BY CommitCounts DEF InFlight
<1>5. ~(Exit \/ Kill \/ PowerLoss)
  BY EndCounts
<1>. QED  BY <1>1, <1>2, <1>3, <1>4, <1>5, LogSteps

-----------------------------------------------------------------------------
\* Recovery, the hash file and the verdict.

\* A log that is not torn and holds the batches of one run can be brought forward to the
\* newest one.
LEMMA QuietIsRecoverable ==
    ASSUME SyncInv, Begun = 0, Intact, OneRunInRing
    PROVE  \E base \in Nat, m \in Nat :
              /\ Resolved(base, m, snap, txs) /\ Sufficient(base, m)
              /\ WholeId = base + m /\ Recoverable(base, m)
<1>1. \A k \in Chunks : ~TornSlot(k) /\ ~Torn(snap, txs, k)
  BY DEF Intact, TornSlot, Torn
<1>2. Quiet(snap, txs)
  BY DEF SyncInv, RingHolds, Intact
<1>3. PICK base \in Nat, m \in Nat : Resolved(base, m, snap, txs) /\ Sufficient(base, m)
  BY <1>1, <1>2 DEF Quiet
<1>4. \A k \in Chunks : snap[k].ver <= txs[k].tx.id
  <2>. TAKE k \in Chunks
  <2>1. snap[k].ver \in Nat
    BY <1>3, SnapshotFields DEF Resolved
  <2>2. txs[k].tx.id \in Nat
    BY DEF SyncInv, SlotsKnown, LeftTransactions, ZeroBatch, NoTransactions
  <2>. QED  BY <1>1, <2>1, <2>2 DEF TornSlot
<1>5. WholeId = base + m
  BY <1>3, <1>4, WholeIdIs DEF Resolved
<1>6. base = 0 \/ N <= m
  <2>1. CASE writers <= 1
    BY <1>3, <2>1 DEF Sufficient
  <2>2. CASE base > 0 /\ ValidChunks = Chunks /\ snap[LatestChunk].ver = WholeId
    BY <1>3, <1>5, <2>2, GoneRound DEF Resolved
  <2>. QED  BY <2>1, <2>2 DEF OneRunInRing
<1>7. Recoverable(base, m)
  BY <1>3, <1>6, HeldIsRecoverable DEF Resolved
<1>. QED  BY <1>3, <1>5, <1>7

\* Nothing changes in the log while recovery reads it.
LEMMA LogReads ==
    ASSUME UNCHANGED <<logVars, writers, damaged, committed, syncFailed>>
    PROVE  /\ Intact' = Intact /\ OneRunInRing' = OneRunInRing /\ WholeId' = WholeId
           /\ \A base, m : /\ Resolved(base, m, snap, txs)' <=> Resolved(base, m, snap, txs)
                           /\ Sufficient(base, m)' <=> Sufficient(base, m)
                           /\ Recoverable(base, m) => Recoverable(base, m)'
<1>1. snap' = snap /\ txs' = txs
  BY DEF logVars
<1>2. /\ WholeId' = WholeId /\ ValidChunks' = ValidChunks /\ LatestChunk' = LatestChunk
      /\ \A base, m : Recoverable(base, m) => Recoverable(base, m)'
  BY LogStays
<1>3. Intact' = Intact
  BY <1>1 DEF Intact, TornSlot
<1>4. OneRunInRing' = OneRunInRing
  BY <1>1, <1>2 DEF OneRunInRing
<1>5. \A base, m : /\ Resolved(base, m, snap, txs)' <=> Resolved(base, m, snap, txs)
                   /\ Sufficient(base, m)' <=> Sufficient(base, m)
  BY <1>1 DEF Resolved, Sufficient
<1>. QED  BY <1>2, <1>3, <1>4, <1>5

\* Recovery begins with a log it can bring forward, and each step brings it forward.
LEMMA ReplayKept == ASSUME SyncInv, [Next]_vars PROVE ReplayFollows'
<1>. SUFFICES ASSUME phase' = "replay", Intact', OneRunInRing' PROVE ReplayFollows'
  BY DEF ReplayFollows
<1>1. CASE Boot
  <2>1. LoadSnapshots /\ phase = "down"
        /\ UNCHANGED <<logVars, writers, damaged, committed, syncFailed>>
    BY <1>1 DEF Boot
  <2>2. Begun = 0
    BY <2>1 DEF SyncInv, Control, Begun, InFlight
  <2>3. Intact /\ OneRunInRing
    BY <2>1, LogReads
  <2>4. PICK base \in Nat, m \in Nat :
           /\ Resolved(base, m, snap, txs) /\ Sufficient(base, m)
           /\ WholeId = base + m /\ Recoverable(base, m)
    BY <2>2, <2>3, QuietIsRecoverable
  <2>5. Replaying(base, m)'
    BY <2>1, <2>4, ReplayBegins
  <2>6. /\ Resolved(base, m, snap, txs)' /\ Sufficient(base, m)'
        /\ WholeId' = base + m /\ Recoverable(base, m)'
    BY <2>1, <2>4, LogReads
  <2>. QED  BY <2>5, <2>6 DEF ReplayFollows
<1>2. CASE RecoveryStep \/ UNCHANGED vars
  <2>1. phase = "replay" /\ (ReplayBatch \/ NextChunk \/ rec' = rec)
        /\ UNCHANGED <<logVars, writers, damaged, committed, syncFailed>>
    BY <1>2 DEF RecoveryStep, vars, processVars, historyVars
  <2>2. Intact /\ OneRunInRing
    BY <2>1, LogReads
  <2>3. PICK base \in Nat, m \in Nat :
           /\ Resolved(base, m, snap, txs) /\ Sufficient(base, m) /\ WholeId = base + m
           /\ Recoverable(base, m) /\ Replaying(base, m)
    BY <2>1, <2>2 DEF SyncInv, ReplayFollows
  <2>4. Replaying(base, m)'
    <3>1. CASE ReplayBatch \/ NextChunk
      BY <2>3, <3>1, ReplayGoesOn
    <3>2. CASE rec' = rec
      BY <2>3, <3>2 DEF Replaying, Behind, HighestBatch
    <3>. QED  BY <2>1, <3>1, <3>2
  <2>5. /\ Resolved(base, m, snap, txs)' /\ Sufficient(base, m)'
        /\ WholeId' = base + m /\ Recoverable(base, m)'
    BY <2>1, <2>3, LogReads
  <2>. QED  BY <2>4, <2>5 DEF ReplayFollows
<1>3. ~(FinishRecovery \/ MainNext)
  BY DEF FinishRecovery, MainNext, ApplyBatch, CopySnapshot, CopyTransactions, SyncCommit,
         EndOfFile, TruncateHash, SaveHash, Finalize
<1>4. ~EndNext
  BY EndCounts DEF EndNext
<1>. QED  BY <1>1, <1>2, <1>3, <1>4 DEF Next, BootNext

\* The hash file is written after the last commit of a run, with the number of its batch.
LEMMA HashKept == ASSUME SyncInv, [Next]_vars PROVE HashFollows'
<1>0. /\ HashFollows /\ Counts /\ Control /\ batch \in Nat /\ writers \in Nat /\ Base \in Nat
  BY Numbers DEF SyncInv
<1>1. CASE Boot
  <2>1. phase' = "replay" /\ UNCHANGED <<hashFile, writers>>
    BY <1>1, AlwaysValid DEF Boot
  <2>. QED  BY <1>0, <2>1 DEF HashFollows
<1>2. CASE FinishRecovery
  <2>1. /\ phase = "replay" /\ Recovered /\ verify' = Verdict
        /\ UNCHANGED <<hashFile, writers, batch, pc, newest, damaged>>
    BY <1>2 DEF FinishRecovery, historyVars
  <2>2. Base' = Base
    BY <2>1 DEF Base, Begun, InFlight
  <2>3. ASSUME batch = 0, Base = 0, ~damaged PROVE hashFile.id = 0 /\ verify' = "skipped"
    <3>1. ~InFlight
      BY <1>0, <2>1 DEF Control, InFlight
    <3>2. newest = 0 /\ Begun = 0
      BY <2>3, <3>1, Numbers
    <3>3. writers = 0
      BY <1>0, <2>3, <3>2 DEF Counts, Started
    <3>4. hashFile = NoHash
      BY <1>0, <3>3 DEF HashFollows
    <3>5. WholeId = 0 /\ Intact /\ OneRunInRing
      BY <2>3, <3>2, <3>3, NewLog DEF Intact, OneRunInRing
    <3>6. HighestBatch = 0
      BY <2>1, <3>3, <3>5, RecoveryIs DEF LastBatch
    <3>7. hashFile.label # HighestBatch
      BY <3>4, <3>6 DEF NoHash
    <3>8. hashFile.id = 0
      BY <3>4 DEF NoHash
    <3>. QED  BY <2>1, <3>7, <3>8 DEF Verdict
  <2>. QED  BY <1>0, <2>1, <2>2, <2>3 DEF HashFollows
<1>3. CASE CopySnapshot
  <2>1. /\ phase = "run" /\ batch' = batch /\ Base' = Base /\ Begun = batch
        /\ UNCHANGED <<hashFile, verify, damaged>>
        /\ writers' = (IF batch = 0 THEN writers + 1 ELSE writers)
    BY <1>3, CommitCounts DEF CopySnapshot
  <2>2. writers' > 0 /\ (writers' <= 1 => writers <= 1)
    BY <1>0, <2>1 DEF Counts, Started
  <2>. QED  BY <1>0, <2>1, <2>2 DEF HashFollows
<1>4. CASE CopyTransactions \/ Finalize
  <2>1. /\ phase = "run" /\ batch' = batch /\ Base' = Base
        /\ UNCHANGED <<hashFile, verify, damaged, writers>>
    BY <1>4, CommitCounts DEF CopyTransactions, Finalize, historyVars
  <2>. QED  BY <1>0, <2>1 DEF HashFollows
<1>5. CASE SyncCommit
  <2>1. batch' # 0 /\ UNCHANGED <<hashFile, writers>>
    BY <1>0, <1>5, CommitCounts DEF SyncCommit
  <2>. QED  BY <1>0, <2>1 DEF HashFollows
<1>6. CASE TruncateHash
  <2>1. batch' # 0 /\ hashFile' = NoHash
    BY <1>0, <1>6 DEF TruncateHash, Control
  <2>. QED  BY <2>1 DEF HashFollows, NoHash
<1>7. CASE SaveHash
  <2>1. /\ phase = "run" /\ batch > 0 /\ batch' = batch /\ ~Committing /\ ~InFlight
        /\ writers' = writers
        /\ hashFile' \in {[id |-> memory, label |-> batch - 1], NoHash}
    BY <1>0, <1>7 DEF SaveHash, Control, Committing, InFlight, historyVars
  <2>2. memory = Base + batch
    BY <2>1 DEF SyncInv, DataFollows
  <2>3. writers > 0 /\ (writers <= 1 => Base = 0)
    BY <1>0, <2>1, Numbers DEF Counts, Started
  <2>4. /\ hashFile' \in [id : Int, label : Int]
        /\ writers <= 1 => hashFile'.label = hashFile'.id - 1
    BY <1>0, <2>1, <2>2, <2>3 DEF NoHash
  <2>. QED  BY <2>1, <2>3, <2>4 DEF HashFollows
<1>8. CASE ApplyBatch \/ EndOfFile
  <2>1. /\ phase = "run" /\ LogStill /\ UNCHANGED <<hashFile, verify>>
    BY <1>8 DEF ApplyBatch, EndOfFile, LogStill, historyVars
  <2>2. Base' = Base /\ batch' = batch /\ UNCHANGED <<writers, damaged>>
    BY <2>1, StillCounts DEF LogStill
  <2>. QED  BY <1>0, <2>1, <2>2 DEF HashFollows
<1>9. CASE RecoveryStep \/ UNCHANGED vars
  <2>1. UNCHANGED <<phase, pc, hashFile, verify, writers, batch, newest, damaged>>
    BY <1>9 DEF RecoveryStep, vars, processVars, historyVars
  <2>2. Base' = Base
    BY <2>1 DEF Base, Begun, InFlight
  <2>. QED  BY <1>0, <2>1, <2>2 DEF HashFollows
<1>10. CASE EndNext
  <2>1. phase' = "down" /\ UNCHANGED <<hashFile, writers>>
    BY <1>10, EndCounts DEF EndNext
  <2>. QED  BY <1>0, <2>1 DEF HashFollows
<1>. QED
  BY <1>1, <1>2, <1>3, <1>4, <1>5, <1>6, <1>7, <1>8, <1>9, <1>10
  DEF Next, BootNext, MainNext

\* The verdict on the log of one run, when recovery has just ended.
LEMMA VerdictIs ==
    ASSUME SyncInv, FinishRecovery, Intact, writers = 1, WholeId > 0
    PROVE  verify' = IF hashFile.id = WholeId THEN "ok" ELSE "skipped"
<1>1. phase = "replay" /\ Recovered /\ OneRunInRing
  BY DEF FinishRecovery, OneRunInRing
<1>2. /\ \A k \in Chunks : rec.ver[k] = WholeId
      /\ WholeId \in Nat /\ HighestBatch = WholeId - 1
  BY <1>1, RecoveryIs DEF LastBatch
<1>3. Assembled = WholeId
  BY <1>2, AssembledIs
<1>4. hashFile.id \in Int /\ hashFile.label = hashFile.id - 1
  BY DEF SyncInv, HashFollows
<1>5. hashFile.label = HighestBatch <=> hashFile.id = WholeId
  BY <1>2, <1>4
<1>6. verify' = Verdict
  BY DEF FinishRecovery
<1>. QED  BY <1>3, <1>5, <1>6 DEF Verdict

\* After that the verdict stays, and so does what it is about, until the first commit.
LEMMA VerdictKept == ASSUME SyncInv, [Next]_vars PROVE HashVerdictRight'
<1>. SUFFICES ASSUME phase' = "run", verify' # "none", batch' = 0, Intact', writers' = 1,
                     WholeId' > 0
              PROVE  verify' = IF hashFile'.id = WholeId' THEN "ok" ELSE "skipped"
  BY DEF HashVerdictRight
<1>0. Control /\ batch \in Nat
  BY DEF SyncInv, Control
<1>1. CASE Begun' > 0
  <2>1. Base' = 0
    BY <1>1, CountsKept DEF Counts, Started
  <2>2. hashFile'.id = 0 /\ verify' = "skipped"
    BY <2>1, HashKept DEF HashFollows, Intact
  <2>3. hashFile'.id # WholeId'
    BY <2>2
  <2>. QED  BY <2>2, <2>3
<1>2. CASE Boot
  BY <1>0, <1>2 DEF Boot, Control
<1>3. CASE FinishRecovery
  <2>1. UNCHANGED <<logVars, writers, damaged, committed, syncFailed, hashFile>>
    BY <1>3 DEF FinishRecovery, historyVars
  <2>2. Intact /\ WholeId' = WholeId /\ writers = 1
    BY <2>1, LogReads
  <2>. QED  BY <1>3, <2>1, <2>2, VerdictIs
<1>4. CASE /\ UNCHANGED <<phase, verify, batch, hashFile, writers, damaged>>
           /\ snap' = snap /\ txs' = txs
  <2>1. Intact /\ WholeId' = WholeId
    BY <1>4 DEF Intact, TornSlot, WholeId
  <2>. QED  BY <1>4, <2>1 DEF SyncInv, HashVerdictRight
<1>5. CASE RecoveryStep \/ ApplyBatch \/ EndOfFile \/ UNCHANGED vars
  BY <1>4, <1>5
  DEF RecoveryStep, ApplyBatch, EndOfFile, vars, logVars, processVars, historyVars
<1>6. CASE Finalize
  BY <1>4, <1>6 DEF Finalize
<1>7. CASE CopySnapshot \/ CopyTransactions \/ SyncCommit
  <2>1. Begun' \in {batch + 1, batch'} /\ (SyncCommit => batch' = batch + 1)
        /\ (~SyncCommit => Begun' = batch + 1)
    BY <1>0, <1>7, CommitCounts
  <2>2. Begun' > 0
    BY <1>0, <2>1
  <2>. QED  BY <1>1, <2>2
<1>8. ~(TruncateHash \/ SaveHash)
  BY <1>0 DEF TruncateHash, SaveHash, Control
<1>9. ~EndNext
  BY EndCounts DEF EndNext
<1>. QED
  BY <1>2, <1>3, <1>5, <1>6, <1>7, <1>8, <1>9 DEF Next, BootNext, MainNext

-----------------------------------------------------------------------------
\* The theorems.

\* The program has not been started, and the log is new.
LEMMA SyncInitInv == Init => SyncInv
<1>. SUFFICES ASSUME Init PROVE SyncInv
  OBVIOUS
<1>1. /\ phase = "down" /\ pc = "done" /\ batch = 0 /\ verify = "none"
      /\ hashFile = NoHash /\ newest = 0 /\ committed = 0 /\ writers = 0
      /\ ~syncFailed /\ ~damaged
      /\ DOMAIN snap = Chunks /\ DOMAIN txs = Chunks
      /\ \A k \in Chunks : /\ snap[k] = ZeroSnapshot /\ diskSnap[k] = ZeroSnapshot
                           /\ txs[k] = ZeroBatch /\ diskTxs[k] = ZeroBatch
  <2>1. ~syncFailed /\ ~damaged
    BY DEF Init
  <2>2. /\ phase = "down" /\ pc = "done" /\ batch = 0 /\ verify = "none"
        /\ hashFile = NoHash /\ newest = 0 /\ committed = 0 /\ writers = 0
    BY DEF Init
  <2>3. FreshLog
    BY DEF Init
  <2>. QED  BY <2>1, <2>2, <2>3 DEF FreshLog
<1>2. ~InFlight /\ Begun = 0 /\ Base = 0 /\ Started = 0
  <2>1. pc = "done" /\ batch = 0 /\ newest = 0
    BY <1>1
  <2>2. ~InFlight
    BY <2>1 DEF InFlight
  <2>3. Begun = 0
    BY <2>1, <2>2 DEF Begun
  <2>. QED  BY <2>1, <2>2, <2>3 DEF Base, Started
<1>3. Control /\ Counts /\ DataFollows /\ ParentFollows
  BY <1>1, <1>2 DEF Control, Counts, DataFollows, ParentFollows
<1>4. SlotsKnown
  BY <1>1 DEF SlotsKnown, LeftSnapshot, LeftTransactions
<1>5. DiskFollows
  BY <1>1 DEF DiskFollows
<1>6. Quiet(snap, txs)
  <2>1. \A k \in Chunks : HoldsSnapshot(0, snap[k], k, 0)
    BY <1>1, NothingHeld DEF LeftSnapshot
  <2>2. 0 \in Chunks
    BY NAssumption DEF Chunks
  <2>3. txs[0].tx = NoTransactions
    BY <1>1, <2>2 DEF ZeroBatch
  <2>4. Resolved(0, 0, snap, txs)
    BY <2>1, <2>3 DEF Resolved
  <2>5. Sufficient(0, 0)
    BY <1>1 DEF Sufficient
  <2>. QED  BY <2>4, <2>5 DEF Quiet
<1>7. RingHolds /\ DiskHolds
  BY <1>2, <1>6 DEF RingHolds, DiskHolds
<1>8. ReplayFollows /\ HashVerdictRight
  BY <1>1 DEF ReplayFollows, HashVerdictRight
<1>9. HashFollows
  BY <1>1 DEF HashFollows, NoHash
<1>. QED  BY <1>3, <1>4, <1>5, <1>7, <1>8, <1>9 DEF SyncInv

\* Over any number of starts every part of the invariant is kept.
THEOREM SyncInvariant == Spec => []SyncInv
<1>1. SyncInv /\ [Next]_vars => SyncInv'
  BY ControlKept, CountsKept, DataKept, ParentKept, SlotsKept, DiskKept, RingKept,
     DiskHoldsKept, ReplayKept, HashKept, VerdictKept
  DEF SyncInv
<1>. QED  BY SyncInitInv, <1>1, PTL DEF Spec

\* A log that is not torn and holds the batches of one run only, the only one or one that
\* went over the others, is recovered to exactly the state after its newest batch, and to
\* none older than the last one committed unless an msync failed.
THEOREM SyncRecoveryIsExact == Spec => []SyncRecoveryExact
<1>1. SyncInv => SyncRecoveryExact
  BY RecoveryIs DEF SyncRecoveryExact
<1>. QED  BY <1>1, SyncInvariant, PTL

\* The verdict on the log of one run confirms the state if it is the hashed one, and skips
\* the comparison otherwise.
THEOREM SyncVerdictIsRight == Spec => []HashVerdictRight
<1>1. SyncInv => HashVerdictRight
  BY DEF SyncInv
<1>. QED  BY <1>1, SyncInvariant, PTL

-----------------------------------------------------------------------------
\* The inductive invariant of the program with two cycles.

\* How many chunks this run has copied into the log, how many batches it has applied, and
\* how often it has gone round the chunks.
Written == IF stage \in {"log", "header"} THEN number + 1 ELSE number
AppliedCount == IF stage \in {"snapshot", "log", "header"} THEN number + 1 ELSE number
Pass == number \div Ring

\* Slots with batch b of this run, in a log with chunks c and transactions t, and a slot
\* nothing was written to.
ChunkSlotOf(b, p) ==
    [batch |-> b, data |-> [a \in Test!ChunkAccounts(b % Ring) |-> p[b + 2][a]]]
Copied(c, b, p) == c[Test!CycleOf(b)][b % Ring] = ChunkSlotOf(b, p)
LoggedAs(t, b, i) == t[Test!CycleOf(b)][b % Ring] = [batch |-> b, txs |-> i[b + 1]]
Untouched(t, b) == t[Test!CycleOf(b)][b % Ring] = [batch |-> 0, txs |-> <<>>]

Balances == [Test!AllAccounts -> Int]

\* Where the thread is, and what of a batch is done there.
TestPlace ==
    /\ stage \in {"down", "apply", "snapshot", "log", "header", "saved", "unsaved"}
    /\ number \in Nat /\ all \in Nat /\ (stage = "down" => number = 0)
    /\ stage = "header" => (number + 1) % Ring = 0
    /\ logged = (IF stage = "header" THEN number + 1 ELSE number)
    /\ logged > 0 => label = logged - 1
    /\ AppliedCount <= all

\* The history of this run: its batches, and the balances around each of them.
TestHistory ==
    /\ inputs \in Seq(TestBatches) /\ Len(inputs) = AppliedCount
    /\ past \in Seq(Balances)
    /\ stage # "down" =>
          /\ Len(past) = AppliedCount + 1
          /\ accounts = past[AppliedCount + 1]
          /\ stage \in {"snapshot", "log"} => buffer = inputs[AppliedCount]

\* Every slot has its content, whoever wrote it.
TestSlots ==
    /\ oldest \in 0..1
    /\ DOMAIN chunkSlots = 0..1 /\ DOMAIN batchSlots = 0..1
    /\ \A c \in 0..1 : DOMAIN chunkSlots[c] = Test!ChunkIds
                       /\ DOMAIN batchSlots[c] = Test!ChunkIds
    /\ \A c \in 0..1, k \in Test!ChunkIds :
          /\ chunkSlots[c][k].batch \in 0..all
          /\ chunkSlots[c][k].data \in [Test!ChunkAccounts(k) -> Int]
          /\ batchSlots[c][k].batch \in 0..all
          /\ batchSlots[c][k].txs \in Seq(Test!Transactions)

\* The last two passes of this run are in the log: its chunks, and its batches.
ChunksHeld ==
    stage # "down" => \A b \in 0..Written - 1 :
                         b + 2 * Ring >= Written => Copied(chunkSlots, b, past)
BatchesHeld ==
    stage # "down" => \A b \in 0..logged - 1 :
                         b + 2 * Ring >= logged => LoggedAs(batchSlots, b, inputs)

\* The header names the last cycle this run has completed, and in a new log nothing is
\* ahead of this run.
HeaderHolds ==
    /\ stage # "down" => IF Pass = 0 THEN newLog => oldest = 0 ELSE oldest = (Pass - 1) % 2
    /\ all = 0 => oldest = 0 /\ \A b \in 0..2 * Ring - 1 : Untouched(batchSlots, b)
    /\ stage # "down" /\ newLog => \A b \in logged..2 * Ring - 1 : Untouched(batchSlots, b)

\* The hash that was saved is that of the last batch.
SavedHolds ==
    stage = "saved" => savedHash \in {Test!NoHash,
                                      [label |-> label, hash |-> Test!HashOf(accounts)]}

TestInv ==
    /\ TestPlace /\ TestHistory /\ TestSlots /\ ChunksHeld /\ BatchesHeld
    /\ HeaderHolds /\ SavedHolds

-----------------------------------------------------------------------------
\* Numbers: a batch has a cycle and a slot in it, and an account a chunk.

\* What the source says of the sizes and of the batches.
LEMMA Sizes == /\ Ring \in Nat \ {0} /\ PerChunk \in Nat \ {0} /\ Small \in 0..Ring * PerChunk
               /\ TestBatches \subseteq Seq(Test!Transactions) \ {<<>>}
  BY TestConstants DEF Test!TestAssumption, Test!Transactions

\* The number of a batch is some passes and the slot.
LEMMA PassParts ==
    \A b \in Nat : /\ b = Ring * (b \div Ring) + (b % Ring)
                   /\ b \div Ring \in Nat /\ b % Ring \in 0..Ring - 1
                   /\ b % Ring \in Test!ChunkIds /\ Test!CycleOf(b) \in 0..1
  BY Sizes DEF Test!ChunkIds, Test!CycleOf

\* A multiple of Ring below 2 * Ring is 0 or Ring.
LEMMA OnePass == \A q \in Int : 0 < Ring * q /\ Ring * q < 2 * Ring => q = 1
<1>1. \A q \in Nat : q >= 2 => Ring * q >= 2 * Ring
  <2>. SUFFICES ASSUME NEW q \in Nat, q >= 2 PROVE Ring * q >= 2 * Ring
    OBVIOUS
  <2>1. PICK d \in Nat : q = 2 + d
    OBVIOUS
  <2>2. Ring * q = 2 * Ring + Ring * d /\ Ring * d \in Nat
    BY <2>1, Sizes
  <2>. QED  BY <2>2, Sizes
<1>2. \A q \in Int : q <= 0 => Ring * q <= 0
  <2>. SUFFICES ASSUME NEW q \in Int, q <= 0 PROVE Ring * q <= 0
    OBVIOUS
  <2>1. PICK d \in Nat : q = -d
    OBVIOUS
  <2>2. Ring * d \in Nat /\ Ring * q = -(Ring * d)
    BY <2>1, Sizes
  <2>. QED  BY <2>2
<1>. QED  BY <1>1, <1>2, Sizes

\* The parts of a number that is given by its pass and its slot.
LEMMA PartsAre ==
    \A q \in Nat, r \in 0..Ring - 1 :
        /\ Ring * q + r \in Nat
        /\ (Ring * q + r) \div Ring = q /\ (Ring * q + r) % Ring = r
<1>. SUFFICES ASSUME NEW q \in Nat, NEW r \in 0..Ring - 1
              PROVE  /\ Ring * q + r \in Nat
                     /\ (Ring * q + r) \div Ring = q /\ (Ring * q + r) % Ring = r
  OBVIOUS
<1>1. PICK b : b = Ring * q + r
  OBVIOUS
<1>2. b \in Nat
  <2>1. Ring * q \in Nat
    BY Sizes
  <2>. QED  BY <1>1, <2>1
<1>3. PICK p \in Nat, s \in 0..Ring - 1 :
         b = Ring * p + s /\ p = b \div Ring /\ s = b % Ring
  BY <1>2, PassParts
<1>4. Ring * (p - q) = r - s /\ Ring * (q - p) = s - r
  BY <1>1, <1>3, Sizes
<1>5. p - q = 0
  <2>1. \A d \in Int : d >= 1 => Ring * d >= Ring
    <3>. SUFFICES ASSUME NEW d \in Int, d >= 1 PROVE Ring * d >= Ring
      OBVIOUS
    <3>1. PICK e \in Nat : d = 1 + e
      OBVIOUS
    <3>2. Ring * d = Ring + Ring * e /\ Ring * e \in Nat
      BY <3>1, Sizes
    <3>. QED  BY <3>2, Sizes
  <2>2. ~ (p - q >= 1) /\ ~ (q - p >= 1)
    BY <1>4, <2>1, Sizes
  <2>. QED  BY <2>2
<1>. QED  BY <1>1, <1>2, <1>3, <1>4, <1>5, Sizes

\* Less than two passes apart, no two batches share a slot of a cycle.
LEMMA PlacesApart ==
    \A b, c \in Nat : b < c /\ c < b + 2 * Ring
                         => Test!CycleOf(b) # Test!CycleOf(c) \/ b % Ring # c % Ring
<1>. SUFFICES ASSUME NEW b \in Nat, NEW c \in Nat, b < c, c < b + 2 * Ring,
                     Test!CycleOf(b) = Test!CycleOf(c), b % Ring = c % Ring
              PROVE  FALSE
  OBVIOUS
<1>1. PICK p \in Nat, r \in 0..Ring - 1 :
         b = Ring * p + r /\ p = b \div Ring /\ r = b % Ring
  BY PassParts
<1>2. PICK q \in Nat : c = Ring * q + r /\ q = c \div Ring
  BY <1>1, PassParts
<1>3. Ring * (q - p) = c - b
  <2>1. Ring * (q - p) = Ring * q - Ring * p /\ Ring * q \in Nat /\ Ring * p \in Nat
    BY Sizes
  <2>. QED  BY <1>1, <1>2, <2>1
<1>4. q - p = 1
  BY <1>3, OnePass, Sizes
<1>. QED  BY <1>1, <1>2, <1>4 DEF Test!CycleOf

\* An account is in one of the chunks.
LEMMA AccountHasChunk ==
    \A a \in Test!AllAccounts :
        a \div PerChunk \in Test!ChunkIds /\ a \in Test!ChunkAccounts(a \div PerChunk)
<1>. TAKE a \in Test!AllAccounts
<1>1. a \in Nat /\ a < Ring * PerChunk
  BY Sizes DEF Test!AllAccounts
<1>2. /\ a = PerChunk * (a \div PerChunk) + (a % PerChunk) /\ (a \div PerChunk) \in Nat
      /\ a % PerChunk \in 0..PerChunk-1
  BY <1>1, Sizes
<1>. DEFINE h == a \div PerChunk  r == a % PerChunk
<1>3. h \in Nat /\ r \in 0..PerChunk-1 /\ a = PerChunk * h + r
  BY <1>2
<1>. HIDE DEF h, r
<1>4. h < Ring
  <2>. SUFFICES ASSUME h >= Ring PROVE FALSE
    BY <1>3, Sizes
  <2>1. PICK d \in Nat : h = Ring + d
    BY <1>3, Sizes
  <2>2. PerChunk * h = Ring * PerChunk + PerChunk * d /\ PerChunk * d \in Nat
    BY <2>1, Sizes
  <2>. QED  BY <1>1, <1>3, <2>2, Sizes
<1>5. h * PerChunk = PerChunk * h /\ (h + 1) * PerChunk = PerChunk * h + PerChunk
  BY <1>3, Sizes
<1>6. PerChunk * h \in Nat
  BY <1>3, Sizes
<1>7. a \in h * PerChunk..(h + 1) * PerChunk - 1
  BY <1>3, <1>5, <1>6, Sizes
<1>. QED  BY <1>3, <1>4, <1>7, Sizes DEF Test!ChunkIds, Test!ChunkAccounts, h

\* The accounts of a chunk are accounts.
LEMMA ChunkHasAccounts ==
    \A k \in Test!ChunkIds : \A a \in Test!ChunkAccounts(k) : a \in Test!AllAccounts
<1>. TAKE k \in Test!ChunkIds
<1>. TAKE a \in Test!ChunkAccounts(k)
<1>1. k \in Nat /\ k + 1 <= Ring
  BY Sizes DEF Test!ChunkIds
<1>2. PICK d \in Nat : Ring = k + 1 + d
  <2>1. Ring - (k + 1) \in Nat /\ Ring = k + 1 + (Ring - (k + 1))
    BY <1>1, Sizes
  <2>. QED  BY <2>1
<1>3. k * PerChunk \in Nat /\ (k + 1) * PerChunk \in Nat /\ d * PerChunk \in Nat
  BY <1>1, <1>2, Sizes
<1>4. Ring * PerChunk = (k + 1) * PerChunk + d * PerChunk
  BY <1>1, <1>2, Sizes
<1>5. PICK low \in Nat, high \in Nat, rest \in Nat, top \in Int :
         /\ low = k * PerChunk /\ high = (k + 1) * PerChunk /\ rest = d * PerChunk
         /\ top = Ring * PerChunk
  BY <1>3, Sizes
<1>6. a \in low..high - 1 /\ top = high + rest
  BY <1>4, <1>5 DEF Test!ChunkAccounts
<1>7. a \in 0..top - 1
  BY <1>5, <1>6
<1>. QED  BY <1>5, <1>7 DEF Test!AllAccounts

\* The greatest of some numbers that are at most m.
LEMMA GreatestOf ==
    ASSUME NEW S \in SUBSET Nat, S # {}, NEW m \in Nat, \A n \in S : n <= m
    PROVE  /\ Test!Max(S) \in S
           /\ \A n \in S : n <= Test!Max(S)
<1>. DEFINE short == {m - n : n \in S}
<1>1. short \in SUBSET Nat /\ short # {}
  <2>1. \A n \in S : m - n \in Nat
    OBVIOUS
  <2>. QED  BY <2>1
<1>2. PICK least \in short : \A x \in short : least <= x
  BY <1>1, LeastOf
<1>3. PICK g \in S : least = m - g
  BY <1>2
<1>4. \A n \in S : n <= g
  <2>1. \A n \in S : m - n \in short
    OBVIOUS
  <2>2. \A n \in S : least <= m - n
    BY <1>2, <2>1
  <2>. HIDE DEF short
  <2>. QED  BY <1>3, <2>2
<1>. QED  BY <1>3, <1>4 DEF Test!Max

\* It is t, if t is among them and none is greater.
LEMMA GreatestIs ==
    ASSUME NEW S \in SUBSET Nat, NEW t \in S, \A n \in S : n <= t
    PROVE  Test!Max(S) = t
<1>. DEFINE g == Test!Max(S)
<1>1. g \in S /\ \A n \in S : n <= g
  BY DEF Test!Max
<1>. HIDE DEF g
<1>2. g \in Nat /\ t \in Nat /\ g <= t /\ t <= g
  BY <1>1
<1>3. g = t
  BY <1>2
<1>. QED  BY <1>3 DEF g

\* Induction: what holds of 0, and of the next number with each, holds up to n.
LEMMA UpTo ==
    ASSUME NEW n \in Nat, NEW H, 0 \in H, \A i \in 0..n - 1 : i \in H => i + 1 \in H
    PROVE  \A i \in 0..n : i \in H
<1>. SUFFICES ASSUME NEW j \in 0..n, j \notin H PROVE FALSE
  OBVIOUS
<1>. DEFINE M == {i \in 0..n : i \notin H}
<1>1. PICK least \in M : \A i \in M : least <= i
  <2>1. M \in SUBSET Nat /\ M # {}
    OBVIOUS
  <2>. QED  BY <2>1, LeastOf
<1>2. least # 0 /\ least - 1 \in 0..n - 1
  BY <1>1
<1>3. least - 1 \in H
  BY <1>1, <1>2
<1>. QED  BY <1>1, <1>2, <1>3

-----------------------------------------------------------------------------
\* The loops of the program, and what they keep.

\* The loop over the transactions of a batch.
LEMMA EachOf ==
    ASSUME NEW s, NEW q, Len(q) \in Nat
    PROVE  LET e == Test!AppliedEach(s, q)
           IN  /\ e[0] = s
               /\ \A i \in 1..Len(q) : e[i] = Test!Applied(e[i - 1], q[i])
<1>. DEFINE Is(f, n) == f = [i \in 0..n |-> IF i = 0 THEN s
                                          ELSE Test!Applied(f[i - 1], q[i])]
            H == {n \in 0..Len(q) : \E f : Is(f, n)}
<1>. HIDE DEF Is
<1>1. 0 \in H
  <2>1. Is([i \in 0..0 |-> s], 0)
    BY DEF Is
  <2>. QED  BY <2>1
<1>2. ASSUME NEW n \in 0..Len(q) - 1, n \in H PROVE n + 1 \in H
  <2>1. PICK f : Is(f, n)
    BY <1>2
  <2>. DEFINE g == [i \in 0..n + 1 |-> IF i <= n THEN f[i]
                                    ELSE Test!Applied(f[n], q[(n + 1)])]
  <2>2. ASSUME NEW i \in 0..n + 1
        PROVE  g[i] = IF i = 0 THEN s ELSE Test!Applied(g[i - 1], q[i])
    <3>1. CASE i = 0
      BY <2>1, <3>1 DEF Is
    <3>2. CASE i \in 1..n
      BY <2>1, <3>2 DEF Is
    <3>3. CASE i = n + 1
      BY <3>3
    <3>. QED  BY <3>1, <3>2, <3>3
  <2>3. Is(g, n + 1)
    BY <2>2 DEF Is
  <2>. HIDE DEF g
  <2>. QED  BY <2>3
<1>3. Len(q) \in H
  <2>. HIDE DEF H
  <2>1. \A i \in 0..Len(q) : i \in H
    BY <1>1, <1>2, UpTo
  <2>. QED  BY <2>1
<1>4. Is(Test!AppliedEach(s, q), Len(q))
  BY <1>3 DEF Is, Test!AppliedEach
<1>. QED  BY <1>4 DEF Is

\* The loop of recovery over the numbers of the batches.
LEMMA ReplayedEachIs ==
    ASSUME NEW steps, steps \in Nat, steps = Test!RecoveredLabel - Test!BaseLabel
    PROVE  LET e == Test!ReplayedEach
           IN  /\ e[0] = {Test!Base}
               /\ \A i \in 1..steps : e[i] = Test!ReplayedNumber(e[i - 1], Test!BaseLabel + i)
<1>. DEFINE start == {Test!Base}
            Is(f, n) == f = [i \in 0..n |-> IF i = 0 THEN start
                                   ELSE Test!ReplayedNumber(f[i - 1], Test!BaseLabel + i)]
            H == {n \in 0..steps : \E f : Is(f, n)}
<1>. HIDE DEF start, Is
<1>1. 0 \in H
  <2>1. Is([i \in 0..0 |-> start], 0)
    BY DEF Is
  <2>. QED  BY <2>1
<1>2. ASSUME NEW n \in 0..steps - 1, n \in H PROVE n + 1 \in H
  <2>1. PICK f : Is(f, n)
    BY <1>2
  <2>. DEFINE g == [i \in 0..n + 1 |-> IF i <= n THEN f[i]
                                    ELSE Test!ReplayedNumber(f[n], Test!BaseLabel + (n + 1))]
  <2>2. ASSUME NEW i \in 0..n + 1
        PROVE  g[i] = IF i = 0 THEN start ELSE Test!ReplayedNumber(g[i - 1], Test!BaseLabel + i)
    <3>1. CASE i = 0
      BY <2>1, <3>1 DEF Is
    <3>2. CASE i \in 1..n
      BY <2>1, <3>2 DEF Is
    <3>3. CASE i = n + 1
      BY <3>3
    <3>. QED  BY <3>1, <3>2, <3>3
  <2>3. Is(g, n + 1)
    BY <2>2 DEF Is
  <2>. HIDE DEF g
  <2>. QED  BY <2>3
<1>3. steps \in H
  <2>. HIDE DEF H
  <2>1. \A i \in 0..steps : i \in H
    BY <1>1, <1>2, UpTo
  <2>. QED  BY <2>1
<1>. DEFINE Loop(f, m) == [i \in 0..m |->
                          IF i = 0 THEN start
                              ELSE Test!ReplayedNumber(f[i - 1], Test!BaseLabel + i)]
<1>4. Is(Test!ReplayedEach, steps)
  <2>1. \E f : f = Loop(f, Test!RecoveredLabel - Test!BaseLabel)
    BY <1>3 DEF Is
  <2>2. Test!ReplayedEach =
          CHOOSE f : f = Loop(f, Test!RecoveredLabel - Test!BaseLabel)
    BY DEF Test!ReplayedEach, start
  <2>. HIDE DEF Loop
  <2>3. Test!ReplayedEach = Loop(Test!ReplayedEach, steps)
    BY <2>1, <2>2
  <2>. QED  BY <2>3 DEF Is, Loop
<1>. HIDE DEF Loop
<1>5. /\ Test!ReplayedEach[0] = start
      /\ \A i \in 1..steps : Test!ReplayedEach[i] =
            Test!ReplayedNumber(Test!ReplayedEach[i - 1], Test!BaseLabel + i)
  BY <1>4 DEF Is
<1>. QED  BY <1>5 DEF start

\* A transaction turns balances into balances.
LEMMA AppliedIsState ==
    ASSUME NEW s \in Balances, NEW tx \in Test!Transactions
    PROVE  Test!Applied(s, tx) \in Balances
<1>1. /\ tx.func \in {"transfer", "range"} /\ tx.from \in Nat /\ tx.to \in Nat
      /\ tx.amount \in Int
  BY DEF Test!Transactions
<1>2. \A a \in Nat : a < Small => a \in Test!AllAccounts
  <2>1. Ring * PerChunk \in Nat
    BY Sizes
  <2>2. PICK top \in Nat : top = Ring * PerChunk
    BY <2>1
  <2>3. \A a \in Nat : a < Small => a \in 0..top - 1
    BY <2>2, Sizes
  <2>. QED  BY <2>2, <2>3 DEF Test!AllAccounts
<1>. DEFINE moved == [[s EXCEPT ![tx.from] = @ - tx.amount] EXCEPT ![tx.to] = @ + tx.amount]
            filled == [a \in Test!AllAccounts |->
                         IF a \in tx.from..tx.from + tx.to - 1 THEN tx.amount ELSE s[a]]
<1>3. filled \in Balances
  BY <1>1 DEF Balances
<1>4. tx.from < Small /\ tx.to < Small => moved \in Balances
  <2>. SUFFICES ASSUME tx.from < Small, tx.to < Small PROVE moved \in Balances
    OBVIOUS
  <2>1. tx.from \in Test!AllAccounts /\ tx.to \in Test!AllAccounts
    BY <1>1, <1>2
  <2>. DEFINE mid == [s EXCEPT ![tx.from] = @ - tx.amount]
  <2>2. mid \in Balances
    BY <1>1, <2>1 DEF Balances
  <2>. HIDE DEF mid
  <2>3. [mid EXCEPT ![tx.to] = @ + tx.amount] \in Balances
    BY <1>1, <2>1, <2>2 DEF Balances
  <2>. QED  BY <2>3 DEF mid
<1>5. \/ Test!Applied(s, tx) = filled
      \/ Test!Applied(s, tx) = s
      \/ tx.from < Small /\ tx.to < Small /\ Test!Applied(s, tx) = moved
  BY <1>1 DEF Test!Applied
<1>. HIDE DEF moved, filled
<1>. QED  BY <1>3, <1>4, <1>5

\* So does a batch.
LEMMA AppliedAllIsState ==
    ASSUME NEW s \in Balances, NEW q \in Seq(Test!Transactions)
    PROVE  Test!ApplyAll(s, q) \in Balances
<1>. DEFINE e == Test!AppliedEach(s, q)
            H == {i \in 0..Len(q) : e[i] \in Balances}
<1>1. Len(q) \in Nat /\ \A i \in 1..Len(q) : q[i] \in Test!Transactions
  OBVIOUS
<1>2. e[0] = s /\ \A i \in 1..Len(q) : e[i] = Test!Applied(e[i - 1], q[i])
  BY <1>1, EachOf
<1>. HIDE DEF e
<1>3. 0 \in H
  BY <1>1, <1>2
<1>4. ASSUME NEW i \in 0..Len(q) - 1, i \in H PROVE i + 1 \in H
  <2>1. i + 1 \in 1..Len(q) /\ (i + 1) - 1 = i /\ e[i] \in Balances
    BY <1>1, <1>4
  <2>2. e[i + 1] = Test!Applied(e[i], q[i + 1]) /\ q[i + 1] \in Test!Transactions
    BY <1>1, <1>2, <2>1
  <2>3. e[i + 1] \in Balances
    BY <2>1, <2>2, AppliedIsState
  <2>. QED  BY <2>1, <2>3
<1>. HIDE DEF H
<1>5. Len(q) \in H
  <2>1. \A i \in 0..Len(q) : i \in H
    BY <1>1, <1>3, <1>4, UpTo
  <2>. QED  BY <1>1, <2>1
<1>. QED  BY <1>5 DEF H, e, Test!ApplyAll

\* So does a batch in any order of its transactions.
LEMMA ReplayedAreStates ==
    ASSUME NEW S \in SUBSET Balances, NEW q \in Seq(Test!Transactions)
    PROVE  Test!Replayed(S, q) \subseteq Balances
<1>1. ASSUME NEW o \in Test!Orders(q) PROVE o \in Seq(Test!Transactions)
  <2>1. PICK p \in Test!Bijection(DOMAIN q, DOMAIN q) : o = [i \in DOMAIN q |-> q[p[i]]]
    BY <1>1 DEF Test!Orders
  <2>2. p \in [DOMAIN q -> DOMAIN q] /\ DOMAIN q = 1..Len(q) /\ Len(q) \in Nat
    BY <2>1 DEF Test!Bijection, Test!Injection
  <2>3. \A i \in 1..Len(q) : q[p[i]] \in Test!Transactions
    BY <2>2
  <2>4. o \in [1..Len(q) -> Test!Transactions]
    BY <2>1, <2>2, <2>3
  <2>. QED  BY <2>2, <2>4, IsASeq
<1>2. ASSUME NEW s \in S, NEW o \in Test!Orders(q) PROVE Test!ApplyAll(s, o) \in Balances
  <2>1. o \in Seq(Test!Transactions)
    BY <1>1
  <2>. QED  BY <2>1, AppliedAllIsState
<1>. QED  BY <1>2 DEF Test!Replayed

-----------------------------------------------------------------------------
\* What recovery reads is always a state of the accounts.

\* A batch has the number of a slot, and the numbers in the log are bounded.
LEMMA SlotFacts ==
    ASSUME TestInv
    PROVE  /\ oldest \in 0..1 /\ 1 - oldest \in 0..1 /\ all \in Nat
           /\ \A c \in 0..1, k \in Test!ChunkIds :
                 /\ chunkSlots[c][k].batch \in 0..all
                 /\ chunkSlots[c][k].data \in [Test!ChunkAccounts(k) -> Int]
                 /\ batchSlots[c][k].batch \in 0..all
                 /\ batchSlots[c][k].txs \in Seq(Test!Transactions)
           /\ 0 \in Test!ChunkIds
  BY Sizes DEF TestInv, TestPlace, TestSlots, Test!ChunkIds

\* The chunks have a newest number, and the batches to be replayed one that is not older.
LEMMA LabelsExist ==
    ASSUME TestInv
    PROVE  Test!BaseLabel \in Nat /\ Test!RecoveredLabel - Test!BaseLabel \in Nat
<1>. DEFINE ages == {chunkSlots[oldest][k].batch : k \in Test!ChunkIds}
            later == {batchSlots[1 - oldest][k].batch : k \in Test!Newer}
<1>1. ages \in SUBSET Nat /\ ages # {} /\ \A n \in ages : n <= all
  BY SlotFacts
<1>2. Test!BaseLabel \in Nat
  <2>. HIDE DEF ages
  <2>1. Test!Max(ages) \in ages
    BY <1>1, SlotFacts, GreatestOf
  <2>2. Test!BaseLabel = Test!Max(ages)
    BY DEF Test!BaseLabel, ages
  <2>. QED  BY <1>1, <2>1, <2>2
<1>3. CASE Test!Newer = {}
  BY <1>2, <1>3 DEF Test!RecoveredLabel
<1>4. CASE Test!Newer # {}
  <2>1. later \in SUBSET Nat /\ later # {} /\ \A n \in later : n <= all
    <3>1. \A k \in Test!Newer : batchSlots[1 - oldest][k].batch \in 0..all
      BY SlotFacts DEF Test!Newer
    <3>2. \A k \in Test!Newer : batchSlots[1 - oldest][k].batch \in Nat
                                /\ batchSlots[1 - oldest][k].batch <= all
      BY <3>1, SlotFacts
    <3>. QED  BY <1>4, <3>2
  <2>4. \A n \in later : n > Test!BaseLabel
    BY DEF Test!Newer
  <2>. HIDE DEF later
  <2>2. Test!Max(later) \in later
    BY <2>1, SlotFacts, GreatestOf
  <2>3. Test!RecoveredLabel = Test!Max(later)
    BY <1>4 DEF Test!RecoveredLabel, later
  <2>5. PICK top \in Nat : top = Test!Max(later) /\ top > Test!BaseLabel
    BY <2>1, <2>2, <2>4
  <2>. QED  BY <1>2, <2>3, <2>5
<1>. QED  BY <1>3, <1>4

\* Whatever is in the log, every state a start may recover is one of the accounts.
LEMMA RecoveredAreStates == ASSUME TestInv PROVE Test!RecoveredStates \subseteq Balances
<1>. DEFINE steps == Test!RecoveredLabel - Test!BaseLabel
            e == Test!ReplayedEach
            H == {i \in 0..steps : e[i] \subseteq Balances}
<1>1. steps \in Nat
  BY LabelsExist
<1>2. /\ e[0] = {Test!Base}
      /\ \A i \in 1..steps : e[i] = Test!ReplayedNumber(e[i - 1], Test!BaseLabel + i)
  <2>. HIDE DEF e
  <2>. QED  BY <1>1, ReplayedEachIs DEF e
<1>3. Test!Base \in Balances
  <2>1. \A a \in Test!AllAccounts : chunkSlots[oldest][a \div PerChunk].data[a] \in Int
    BY SlotFacts, AccountHasChunk
  <2>. QED  BY <2>1 DEF Test!Base, Balances
<1>4. \A S \in SUBSET Balances : \A b : Test!ReplayedNumber(S, b) \in SUBSET Balances
  <2>. SUFFICES ASSUME NEW S \in SUBSET Balances, NEW b
                PROVE  Test!ReplayedNumber(S, b) \in SUBSET Balances
    OBVIOUS
  <2>. DEFINE found == {k \in Test!Newer : batchSlots[1 - oldest][k].batch = b}
              one == CHOOSE k \in found : TRUE
  <2>1. CASE found = {}
    BY <2>1 DEF Test!ReplayedNumber
  <2>2. CASE found # {}
    <3>1. one \in Test!ChunkIds
      BY <2>2 DEF Test!Newer
    <3>2. batchSlots[1 - oldest][one].txs \in Seq(Test!Transactions)
      <4>. HIDE DEF one
      <4>. QED  BY <3>1, SlotFacts
    <3>3. Test!Replayed(S, batchSlots[1 - oldest][one].txs) \subseteq Balances
      <4>. HIDE DEF one
      <4>. QED  BY <3>2, ReplayedAreStates
    <3>. QED  BY <2>2, <3>3 DEF Test!ReplayedNumber
  <2>. QED  BY <2>1, <2>2
<1>. HIDE DEF e, steps
<1>5. 0 \in H
  BY <1>1, <1>2, <1>3
<1>6. ASSUME NEW i \in 0..steps - 1, i \in H PROVE i + 1 \in H
  <2>1. i + 1 \in 1..steps /\ (i + 1) - 1 = i /\ e[i] \in SUBSET Balances
    BY <1>1, <1>6
  <2>2. e[i + 1] = Test!ReplayedNumber(e[i], Test!BaseLabel + (i + 1))
    BY <1>2, <2>1
  <2>3. e[i + 1] \in SUBSET Balances
    BY <1>4, <2>1, <2>2
  <2>. QED  BY <1>1, <2>1, <2>3
<1>. HIDE DEF H
<1>7. steps \in H
  <2>1. \A i \in 0..steps : i \in H
    BY <1>1, <1>5, <1>6, UpTo
  <2>. QED  BY <1>1, <2>1
<1>. QED  BY <1>7 DEF H, steps, e, Test!RecoveredStates

-----------------------------------------------------------------------------
\* The steps of the program keep the invariant.

\* A copy of a chunk puts the slot of the batch in its place, and no other.
LEMMA CopyChunkWrites ==
    ASSUME TestInv, Test!CopyChunk
    PROVE  /\ DOMAIN chunkSlots' = 0..1
           /\ \A c \in 0..1 : DOMAIN chunkSlots'[c] = Test!ChunkIds
           /\ \A c \in 0..1, k \in Test!ChunkIds :
                 chunkSlots'[c][k] =
                    IF c = Test!CycleOf(number) /\ k = number % Ring
                      THEN [batch |-> number,
                            data |-> [a \in Test!ChunkAccounts(k) |-> accounts[a]]]
                      ELSE chunkSlots[c][k]
<1>1. PICK h, r, d :
         /\ h = Test!CycleOf(number) /\ r = number % Ring
         /\ d = [batch |-> number,
                 data |-> [a \in Test!ChunkAccounts(number % Ring) |-> accounts[a]]]
  OBVIOUS
<1>2. h \in 0..1 /\ r \in Test!ChunkIds
  BY <1>1, PassParts DEF TestInv, TestPlace
<1>3. chunkSlots' = [chunkSlots EXCEPT ![h][r] = d]
  BY <1>1 DEF Test!CopyChunk
<1>4. DOMAIN chunkSlots = 0..1 /\ \A c \in 0..1 : DOMAIN chunkSlots[c] = Test!ChunkIds
  BY DEF TestInv, TestSlots
<1>5. /\ DOMAIN chunkSlots' = 0..1
      /\ \A c \in 0..1 : DOMAIN chunkSlots'[c] = Test!ChunkIds
      /\ \A c \in 0..1, k \in Test!ChunkIds :
            chunkSlots'[c][k] = IF c = h /\ k = r THEN d ELSE chunkSlots[c][k]
  BY <1>2, <1>3, <1>4
<1>. QED  BY <1>1, <1>5

\* So does a copy of the transactions.
LEMMA CopyTransactionsWrites ==
    ASSUME TestInv, Test!CopyTransactions
    PROVE  /\ DOMAIN batchSlots' = 0..1
           /\ \A c \in 0..1 : DOMAIN batchSlots'[c] = Test!ChunkIds
           /\ \A c \in 0..1, k \in Test!ChunkIds :
                 batchSlots'[c][k] =
                    IF c = Test!CycleOf(number) /\ k = number % Ring
                      THEN [batch |-> number, txs |-> buffer] ELSE batchSlots[c][k]
<1>1. PICK h, r, d :
         /\ h = Test!CycleOf(number) /\ r = number % Ring
         /\ d = [batch |-> number, txs |-> buffer]
  OBVIOUS
<1>2. h \in 0..1 /\ r \in Test!ChunkIds
  BY <1>1, PassParts DEF TestInv, TestPlace
<1>3. batchSlots' = [batchSlots EXCEPT ![h][r] = d]
  BY <1>1 DEF Test!CopyTransactions
<1>4. DOMAIN batchSlots = 0..1 /\ \A c \in 0..1 : DOMAIN batchSlots[c] = Test!ChunkIds
  BY DEF TestInv, TestSlots
<1>5. /\ DOMAIN batchSlots' = 0..1
      /\ \A c \in 0..1 : DOMAIN batchSlots'[c] = Test!ChunkIds
      /\ \A c \in 0..1, k \in Test!ChunkIds :
            batchSlots'[c][k] = IF c = h /\ k = r THEN d ELSE batchSlots[c][k]
  BY <1>2, <1>3, <1>4
<1>. QED  BY <1>1, <1>5

\* The place of the thread.
LEMMA PlaceKept ==
    ASSUME TestInv, [Test!TestNext]_(Test!testVars)
    PROVE  TestPlace'
<1>. USE DEF TestInv, TestPlace, AppliedCount
<1>0. number \in Nat /\ all \in Nat /\ Ring \in Nat
  BY Sizes
<1>1. CASE Test!Start
  BY <1>0, <1>1 DEF Test!Start
<1>2. CASE Test!ReadAndApply
  BY <1>0, <1>2 DEF Test!ReadAndApply
<1>3. CASE Test!CopyChunk
  BY <1>0, <1>3 DEF Test!CopyChunk
<1>4. CASE Test!CopyTransactions
  BY <1>0, <1>4 DEF Test!CopyTransactions
<1>5. CASE Test!UpdateHeader
  BY <1>0, <1>5 DEF Test!UpdateHeader
<1>6. CASE Test!SaveHash
  BY <1>0, <1>6 DEF Test!SaveHash, Test!WriteHash
<1>7. CASE Test!Gone
  BY <1>0, <1>7 DEF Test!Gone
<1>8. CASE UNCHANGED Test!testVars
  BY <1>0, <1>8 DEF Test!testVars
<1>. QED  BY <1>1, <1>2, <1>3, <1>4, <1>5, <1>6, <1>7, <1>8
          DEF Test!TestNext, Test!Exit, Test!Kill

\* The history follows: every batch is applied to the balances before it.
LEMMA HistoryKept ==
    ASSUME TestInv, [Test!TestNext]_(Test!testVars)
    PROVE  TestHistory'
<1>. USE DEF TestInv, TestPlace, TestHistory, AppliedCount
<1>0. /\ number \in Nat /\ inputs \in Seq(TestBatches) /\ past \in Seq(Balances)
      /\ <<>> \in Seq(TestBatches) /\ <<>> \in Seq(Balances)
  OBVIOUS
<1>1. CASE Test!Start
  <2>1. PICK s \in Test!RecoveredStates :
           IF Test!Mismatch(s)
             THEN refused' = TRUE /\ UNCHANGED <<stage, accounts, label, past>>
             ELSE /\ refused' = FALSE /\ stage' = "apply"
                  /\ accounts' = s /\ past' = <<s>> /\ label' = Test!RecoveredLabel
    BY <1>1 DEF Test!Start
  <2>2. s \in Balances
    BY <2>1, RecoveredAreStates
  <2>3. <<s>> \in Seq(Balances) /\ Len(<<s>>) = 1 /\ <<s>>[1] = s
    BY <2>2
  <2>4. stage = "down" /\ UNCHANGED <<number, buffer, inputs>>
    BY <1>1 DEF Test!Start
  <2>5. CASE Test!Mismatch(s)
    BY <1>0, <2>1, <2>4, <2>5
  <2>6. CASE ~Test!Mismatch(s)
    <3>1. number' = 0 /\ Len(inputs') = 0 /\ stage' = "apply"
      BY <2>1, <2>4, <2>6
    <3>2. past' = <<s>> /\ accounts' = s
      BY <2>1, <2>6
    <3>. QED  BY <1>0, <2>3, <2>4, <3>1, <3>2
  <2>. QED  BY <2>5, <2>6
<1>2. CASE Test!ReadAndApply
  <2>1. PICK q \in TestBatches :
           /\ buffer' = q /\ inputs' = Append(inputs, q)
           /\ accounts' = Test!ApplyAll(accounts, q)
           /\ past' = Append(past, Test!ApplyAll(accounts, q))
    BY <1>2 DEF Test!ReadAndApply
  <2>2. PICK after : after = Test!ApplyAll(accounts, q)
    OBVIOUS
  <2>3. stage = "apply" /\ stage' = "snapshot" /\ number' = number
    BY <1>2 DEF Test!ReadAndApply
  <2>4. Len(past) = number + 1 /\ accounts = past[number + 1] /\ Len(inputs) = number
    BY <2>3
  <2>5. accounts \in Balances
    BY <1>0, <2>4
  <2>6. after \in Balances
    <3>1. q \in Seq(Test!Transactions)
      BY Sizes
    <3>. QED  BY <2>2, <2>5, <3>1, AppliedAllIsState
  <2>7. /\ inputs' \in Seq(TestBatches) /\ past' \in Seq(Balances)
        /\ Len(inputs') = number + 1 /\ Len(past') = number + 2
        /\ inputs'[number + 1] = q /\ past'[number + 2] = after
    BY <1>0, <2>1, <2>2, <2>4, <2>6
  <2>. QED  BY <1>0, <2>1, <2>2, <2>3, <2>7
<1>3. CASE Test!CopyChunk
  BY <1>0, <1>3 DEF Test!CopyChunk
<1>4. CASE Test!CopyTransactions
  BY <1>0, <1>4 DEF Test!CopyTransactions
<1>5. CASE Test!UpdateHeader
  BY <1>0, <1>5 DEF Test!UpdateHeader
<1>6. CASE Test!SaveHash
  BY <1>0, <1>6 DEF Test!SaveHash, Test!WriteHash
<1>7. CASE Test!Gone
  BY <1>0, <1>7 DEF Test!Gone
<1>8. CASE UNCHANGED Test!testVars
  BY <1>0, <1>8 DEF Test!testVars
<1>. QED  BY <1>1, <1>2, <1>3, <1>4, <1>5, <1>6, <1>7, <1>8
          DEF Test!TestNext, Test!Exit, Test!Kill

\* The slots keep their form.
LEMMA TestSlotsKept ==
    ASSUME TestInv, [Test!TestNext]_(Test!testVars)
    PROVE  TestSlots'
<1>1. /\ TestSlots /\ number \in Nat /\ all \in Nat /\ all' \in Nat
      /\ Test!CycleOf(number) \in 0..1 /\ number % Ring \in Test!ChunkIds
  BY PlaceKept, PassParts DEF TestInv, TestPlace
<1>2. all' >= all
  BY <1>1 DEF Test!TestNext, Test!Start, Test!ReadAndApply, Test!CopyChunk,
              Test!CopyTransactions, Test!UpdateHeader, Test!SaveHash, Test!WriteHash,
              Test!Exit, Test!Kill, Test!Gone, Test!testVars
<1>3. \A n \in 0..all : n \in 0..all'
  BY <1>1, <1>2
<1>4. CASE UNCHANGED Test!logState
  <2>1. UNCHANGED <<oldest, chunkSlots, batchSlots>>
    BY <1>4 DEF Test!logState
  <2>. QED  BY <1>1, <1>3, <2>1 DEF TestSlots
<1>5. CASE Test!CopyChunk
  <2>1. UNCHANGED <<oldest, batchSlots>> /\ stage = "snapshot"
    BY <1>5 DEF Test!CopyChunk
  <2>2. number \in 0..all' /\ accounts \in Balances
    <3>1. number + 1 <= all
      BY <2>1 DEF TestInv, TestPlace, AppliedCount
    <3>2. Len(past) = number + 2 /\ accounts = past[number + 2] /\ past \in Seq(Balances)
      BY <1>1, <2>1 DEF TestInv, TestHistory, AppliedCount
    <3>. QED  BY <1>1, <1>2, <3>1, <3>2
  <2>3. \A k \in Test!ChunkIds : [a \in Test!ChunkAccounts(k) |-> accounts[a]]
                                    \in [Test!ChunkAccounts(k) -> Int]
    <3>1. \A k \in Test!ChunkIds : \A a \in Test!ChunkAccounts(k) : accounts[a] \in Int
      BY <2>2, ChunkHasAccounts DEF Balances
    <3>. QED  BY <3>1
  <2>4. ASSUME NEW c \in 0..1, NEW k \in Test!ChunkIds
        PROVE  /\ chunkSlots'[c][k].batch \in 0..all'
               /\ chunkSlots'[c][k].data \in [Test!ChunkAccounts(k) -> Int]
    <3>1. CASE c = Test!CycleOf(number) /\ k = number % Ring
      <4>1. chunkSlots'[c][k] = [batch |-> number,
                                 data |-> [a \in Test!ChunkAccounts(k) |-> accounts[a]]]
        BY <1>5, <3>1, CopyChunkWrites
      <4>. QED  BY <2>2, <2>3, <4>1
    <3>2. CASE ~(c = Test!CycleOf(number) /\ k = number % Ring)
      <4>1. chunkSlots'[c][k] = chunkSlots[c][k]
        BY <1>5, <3>2, CopyChunkWrites
      <4>. QED  BY <1>1, <1>3, <4>1 DEF TestSlots
    <3>. QED  BY <3>1, <3>2
  <2>. QED  BY <1>1, <1>3, <1>5, <2>1, <2>4, CopyChunkWrites DEF TestSlots
<1>6. CASE Test!CopyTransactions
  <2>1. UNCHANGED <<oldest, chunkSlots>> /\ stage = "log"
    BY <1>6 DEF Test!CopyTransactions
  <2>2. number \in 0..all' /\ buffer \in Seq(Test!Transactions)
    <3>1. number + 1 <= all
      BY <2>1 DEF TestInv, TestPlace, AppliedCount
    <3>2. Len(inputs) = number + 1 /\ buffer = inputs[number + 1]
          /\ inputs \in Seq(TestBatches)
      BY <1>1, <2>1 DEF TestInv, TestHistory, AppliedCount
    <3>. QED  BY <1>1, <1>2, <3>1, <3>2, Sizes
  <2>4. ASSUME NEW c \in 0..1, NEW k \in Test!ChunkIds
        PROVE  /\ batchSlots'[c][k].batch \in 0..all'
               /\ batchSlots'[c][k].txs \in Seq(Test!Transactions)
    <3>1. CASE c = Test!CycleOf(number) /\ k = number % Ring
      <4>1. batchSlots'[c][k] = [batch |-> number, txs |-> buffer]
        BY <1>6, <3>1, CopyTransactionsWrites
      <4>. QED  BY <2>2, <4>1
    <3>2. CASE ~(c = Test!CycleOf(number) /\ k = number % Ring)
      <4>1. batchSlots'[c][k] = batchSlots[c][k]
        BY <1>6, <3>2, CopyTransactionsWrites
      <4>. QED  BY <1>1, <1>3, <4>1 DEF TestSlots
    <3>. QED  BY <3>1, <3>2
  <2>. QED  BY <1>1, <1>3, <1>6, <2>1, <2>4, CopyTransactionsWrites DEF TestSlots
<1>7. CASE Test!UpdateHeader
  <2>1. oldest' = Test!CycleOf(number) /\ UNCHANGED <<chunkSlots, batchSlots>>
    BY <1>7 DEF Test!UpdateHeader
  <2>. QED  BY <1>1, <1>3, <2>1 DEF TestSlots
<1>. QED  BY <1>4, <1>5, <1>6, <1>7
          DEF Test!TestNext, Test!Start, Test!ReadAndApply, Test!SaveHash, Test!WriteHash,
              Test!Exit, Test!Kill, Test!Gone, Test!testVars

\* What later steps append to a history leaves what is in it.
LEMMA HistoryGrows ==
    ASSUME TestInv, Test!ReadAndApply
    PROVE  /\ \A i \in 1..number + 1 : past'[i] = past[i]
           /\ \A i \in 1..number : inputs'[i] = inputs[i]
           /\ number' = number /\ logged' = logged /\ stage = "apply" /\ stage' = "snapshot"
           /\ UNCHANGED <<chunkSlots, batchSlots, oldest, newLog>>
<1>1. PICK q \in TestBatches :
         /\ inputs' = Append(inputs, q)
         /\ past' = Append(past, Test!ApplyAll(accounts, q))
  BY DEF Test!ReadAndApply
<1>2. /\ number' = number /\ logged' = logged /\ stage = "apply" /\ stage' = "snapshot"
      /\ UNCHANGED <<chunkSlots, batchSlots, oldest, newLog>>
  BY DEF Test!ReadAndApply, Test!logState
<1>3. /\ past \in Seq(Balances) /\ Len(past) = number + 1 /\ number \in Nat
      /\ inputs \in Seq(TestBatches) /\ Len(inputs) = number
  BY <1>2 DEF TestInv, TestPlace, TestHistory, AppliedCount
<1>4. PICK after : after = Test!ApplyAll(accounts, q)
  OBVIOUS
<1>5. \A i \in 1..number + 1 : past'[i] = past[i]
  <2>1. past' = Append(past, after)
    BY <1>1, <1>4
  <2>. QED  BY <1>3, <2>1
<1>6. \A i \in 1..number : inputs'[i] = inputs[i]
  BY <1>1, <1>3
<1>. QED  BY <1>2, <1>5, <1>6

\* The copy of a chunk is decided by what is in its slot and by the history.
LEMMA CopiedStays ==
    ASSUME NEW c, NEW d, NEW p, NEW q, NEW b,
           c[Test!CycleOf(b)][b % Ring] = d[Test!CycleOf(b)][b % Ring], p[b + 2] = q[b + 2],
           Copied(c, b, p)
    PROVE  Copied(d, b, q)
  BY DEF Copied, ChunkSlotOf

\* The chunks of the last two passes are in the log.
LEMMA ChunksKept ==
    ASSUME TestInv, [Test!TestNext]_(Test!testVars)
    PROVE  ChunksHeld'
<1>1. number \in Nat /\ Ring \in Nat \ {0} /\ Written \in Nat
  BY Sizes DEF TestInv, TestPlace, Written
<1>. SUFFICES ASSUME stage' # "down", NEW b \in 0..Written' - 1, b + 2 * Ring >= Written'
              PROVE  Copied(chunkSlots', b, past')
  BY DEF ChunksHeld
<1>2. ChunksHeld
  BY DEF TestInv
<1>3. CASE UNCHANGED <<chunkSlots, past>> /\ Written' = Written /\ stage # "down"
  <2>1. Copied(chunkSlots, b, past)
    BY <1>1, <1>2, <1>3 DEF ChunksHeld
  <2>. QED  BY <1>3, <2>1
<1>4. CASE Test!Start
  <2>1. stage = "down" /\ number' = number
    BY <1>4 DEF Test!Start
  <2>2. number = 0 /\ stage' \notin {"log", "header"}
    BY <1>4, <2>1 DEF TestInv, TestPlace, Test!Start
  <2>. QED  BY <2>1, <2>2 DEF Written
<1>5. CASE Test!ReadAndApply
  <2>1. Written = number /\ Written' = number
    BY <1>5, HistoryGrows DEF Written
  <2>2. Copied(chunkSlots, b, past)
    BY <1>1, <1>2, <1>5, <2>1, HistoryGrows DEF ChunksHeld
  <2>3. past'[b + 2] = past[b + 2] /\ chunkSlots' = chunkSlots
    <3>1. b + 2 \in 1..number + 1
      BY <1>1, <2>1
    <3>. QED  BY <1>5, <3>1, HistoryGrows
  <2>. QED  BY <2>2, <2>3, CopiedStays
<1>6. CASE Test!CopyChunk
  <2>1. stage = "snapshot" /\ stage' = "log" /\ UNCHANGED <<number, past>>
    BY <1>6 DEF Test!CopyChunk
  <2>2. Written = number /\ Written' = number + 1 /\ b \in 0..number
    BY <1>1, <2>1 DEF Written
  <2>3. b \in Nat /\ Test!CycleOf(b) \in 0..1 /\ b % Ring \in Test!ChunkIds
    BY <2>2, PassParts
  <2>4. CASE b = number
    <3>1. accounts = past[number + 2]
      BY <1>1, <2>1 DEF TestInv, TestHistory, AppliedCount
    <3>2. chunkSlots'[Test!CycleOf(b)][b % Ring] =
             [batch |-> number,
              data |-> [a \in Test!ChunkAccounts(b % Ring) |-> accounts[a]]]
      BY <1>6, <2>3, <2>4, CopyChunkWrites
    <3>. QED  BY <2>1, <2>4, <3>1, <3>2 DEF Copied, ChunkSlotOf
  <2>5. CASE b # number
    <3>1. b < number /\ number < b + 2 * Ring
      BY <1>1, <2>2, <2>5
    <3>2. Test!CycleOf(b) # Test!CycleOf(number) \/ b % Ring # number % Ring
      BY <1>1, <2>3, <3>1, PlacesApart
    <3>3. chunkSlots'[Test!CycleOf(b)][b % Ring] = chunkSlots[Test!CycleOf(b)][b % Ring]
      BY <1>6, <2>3, <3>2, CopyChunkWrites
    <3>4. Copied(chunkSlots, b, past)
      BY <1>1, <1>2, <2>1, <2>2, <3>1 DEF ChunksHeld
    <3>. QED  BY <2>1, <3>3, <3>4, CopiedStays
  <2>. QED  BY <2>4, <2>5
<1>7. CASE Test!Gone
  BY <1>7 DEF Test!Gone
<1>8. CASE Test!CopyTransactions
  BY <1>1, <1>3, <1>8 DEF Test!CopyTransactions, Written
<1>9. CASE Test!UpdateHeader
  BY <1>1, <1>3, <1>9 DEF Test!UpdateHeader, Written
<1>10. CASE Test!SaveHash
  BY <1>1, <1>3, <1>10 DEF Test!SaveHash, Test!WriteHash, Test!logState, Written
<1>11. CASE UNCHANGED Test!testVars
  BY <1>1, <1>3, <1>11 DEF Test!testVars, Test!logState, Written
<1>. QED  BY <1>4, <1>5, <1>6, <1>7, <1>8, <1>9, <1>10, <1>11
          DEF Test!TestNext, Test!Exit, Test!Kill

\* So are their batches.
LEMMA BatchesKept ==
    ASSUME TestInv, [Test!TestNext]_(Test!testVars)
    PROVE  BatchesHeld'
<1>1. number \in Nat /\ Ring \in Nat \ {0} /\ logged \in Nat
  BY Sizes DEF TestInv, TestPlace
<1>. SUFFICES ASSUME stage' # "down", NEW b \in 0..logged' - 1, b + 2 * Ring >= logged'
              PROVE  LoggedAs(batchSlots', b, inputs')
  BY DEF BatchesHeld
<1>2. BatchesHeld
  BY DEF TestInv
<1>3. CASE UNCHANGED <<batchSlots, inputs, logged>> /\ stage # "down"
  <2>1. LoggedAs(batchSlots, b, inputs)
    BY <1>1, <1>2, <1>3 DEF BatchesHeld
  <2>. QED  BY <1>3, <2>1
<1>4. CASE Test!Start
  <2>1. stage = "down" /\ logged' = logged
    BY <1>4 DEF Test!Start
  <2>2. logged = 0
    BY <2>1 DEF TestInv, TestPlace
  <2>. QED  BY <2>1, <2>2
<1>5. CASE Test!ReadAndApply
  <2>1. logged = number
    BY <1>5, HistoryGrows DEF TestInv, TestPlace
  <2>2. LoggedAs(batchSlots, b, inputs)
    BY <1>1, <1>2, <1>5, <2>1, HistoryGrows DEF BatchesHeld
  <2>3. inputs'[b + 1] = inputs[b + 1] /\ batchSlots' = batchSlots
    <3>1. b + 1 \in 1..number
      BY <1>1, <1>5, <2>1, HistoryGrows
    <3>. QED  BY <1>5, <3>1, HistoryGrows
  <2>. QED  BY <2>2, <2>3 DEF LoggedAs
<1>6. CASE Test!CopyTransactions
  <2>1. stage = "log" /\ logged' = logged + 1 /\ UNCHANGED inputs
    BY <1>6 DEF Test!CopyTransactions
  <2>2. logged = number /\ b \in 0..number
    BY <1>1, <2>1 DEF TestInv, TestPlace
  <2>3. b \in Nat /\ Test!CycleOf(b) \in 0..1 /\ b % Ring \in Test!ChunkIds
    BY <2>2, PassParts
  <2>4. CASE b = number
    <3>1. buffer = inputs[number + 1]
      BY <1>1, <2>1 DEF TestInv, TestHistory, AppliedCount
    <3>2. batchSlots'[Test!CycleOf(b)][b % Ring] = [batch |-> number, txs |-> buffer]
      BY <1>6, <2>3, <2>4, CopyTransactionsWrites
    <3>. QED  BY <2>1, <2>4, <3>1, <3>2 DEF LoggedAs
  <2>5. CASE b # number
    <3>1. b < number /\ number < b + 2 * Ring
      BY <1>1, <2>1, <2>2, <2>5
    <3>2. Test!CycleOf(b) # Test!CycleOf(number) \/ b % Ring # number % Ring
      BY <1>1, <2>3, <3>1, PlacesApart
    <3>3. batchSlots'[Test!CycleOf(b)][b % Ring] = batchSlots[Test!CycleOf(b)][b % Ring]
      BY <1>6, <2>3, <3>2, CopyTransactionsWrites
    <3>4. LoggedAs(batchSlots, b, inputs)
      BY <1>1, <1>2, <2>1, <2>2, <3>1 DEF BatchesHeld
    <3>. QED  BY <2>1, <3>3, <3>4 DEF LoggedAs
  <2>. QED  BY <2>4, <2>5
<1>7. CASE Test!Gone
  BY <1>7 DEF Test!Gone
<1>. QED  BY <1>3, <1>4, <1>5, <1>6, <1>7
          DEF Test!TestNext, Test!Exit, Test!Kill, Test!CopyChunk, Test!UpdateHeader,
              Test!SaveHash, Test!WriteHash, Test!logState, Test!testVars

\* A pass is over where the program looks for that.
LEMMA NextPass ==
    \A n \in Nat : IF (n + 1) % Ring = 0
                     THEN (n + 1) \div Ring = n \div Ring + 1
                          /\ n = Ring * (n \div Ring) + (Ring - 1)
                     ELSE (n + 1) \div Ring = n \div Ring
<1>. TAKE n \in Nat
<1>1. PICK q \in Nat, r \in 0..Ring - 1 :
         n = Ring * q + r /\ q = n \div Ring /\ r = n % Ring
  BY PassParts
<1>2. CASE r = Ring - 1
  <2>1. Ring * q \in Nat /\ Ring * (q + 1) = Ring * q + Ring
    BY Sizes
  <2>2. n + 1 = Ring * (q + 1) + 0
    <3>1. PICK low \in Nat : low = Ring * q
      BY <2>1
    <3>2. PICK high \in Nat : high = Ring * (q + 1) /\ high = low + Ring
      BY <2>1, <3>1, Sizes
    <3>3. n = low + r
      BY <1>1, <3>1
    <3>4. n + 1 = low + Ring
      BY <1>2, <3>1, <3>3, Sizes
    <3>. QED  BY <3>2, <3>4
  <2>3. q + 1 \in Nat /\ 0 \in 0..Ring - 1
    BY Sizes
  <2>4. (n + 1) \div Ring = q + 1 /\ (n + 1) % Ring = 0
    BY <2>2, <2>3, PartsAre
  <2>. QED  BY <1>1, <1>2, <2>4
<1>3. CASE r # Ring - 1
  <2>1. Ring * q \in Nat
    BY Sizes
  <2>2. n + 1 = Ring * q + (r + 1)
    BY <1>1, <2>1
  <2>3. r + 1 \in 0..Ring - 1
    BY <1>3, Sizes
  <2>4. (n + 1) \div Ring = q /\ (n + 1) % Ring = r + 1
    BY <2>2, <2>3, PartsAre
  <2>. QED  BY <1>1, <2>4
<1>. QED  BY <1>2, <1>3

\* The header follows the passes.
LEMMA HeaderKept ==
    ASSUME TestInv, [Test!TestNext]_(Test!testVars)
    PROVE  HeaderHolds'
<1>1. /\ number \in Nat /\ all \in Nat /\ Ring \in Nat \ {0} /\ Pass \in Nat /\ logged \in Nat
      /\ AppliedCount <= all /\ HeaderHolds
  BY Sizes, PassParts DEF TestInv, TestPlace, Pass
<1>2. CASE /\ UNCHANGED <<number, oldest, batchSlots, logged, newLog>>
           /\ stage # "down" \/ stage' = "down"
           /\ all' = 0 => all = 0
  BY <1>1, <1>2 DEF HeaderHolds, Pass, Untouched
<1>3. CASE Test!Start
  <2>1. /\ stage = "down" /\ newLog' = (all = 0)
        /\ UNCHANGED <<number, oldest, batchSlots, logged, all>>
    BY <1>3 DEF Test!Start, Test!logState
  <2>2. number = 0 /\ logged = 0
    BY <2>1 DEF TestInv, TestPlace
  <2>3. Pass' = 0
    <3>1. 0 = Ring * 0 + 0 /\ 0 \in 0..Ring - 1
      BY <1>1
    <3>2. 0 \div Ring = 0
      BY <3>1, PartsAre
    <3>. QED  BY <2>1, <2>2, <3>2 DEF Pass
  <2>. QED  BY <1>1, <2>1, <2>2, <2>3 DEF HeaderHolds, Untouched
<1>4. CASE Test!ReadAndApply
  <2>1. all' # 0 /\ stage # "down"
    BY <1>1, <1>4 DEF Test!ReadAndApply
  <2>. QED  BY <1>2, <1>4, <2>1, HistoryGrows
<1>5. CASE Test!CopyChunk
  BY <1>2, <1>5 DEF Test!CopyChunk
<1>6. CASE Test!CopyTransactions
  <2>1. /\ stage = "log" /\ stage' \in {"header", "apply"} /\ logged' = logged + 1
        /\ UNCHANGED <<oldest, newLog, all>>
        /\ IF (number + 1) % Ring = 0 THEN number' = number ELSE number' = number + 1
    BY <1>6 DEF Test!CopyTransactions
  <2>2. logged = number /\ all # 0
    BY <1>1, <2>1 DEF TestInv, TestPlace, AppliedCount
  <2>3. Pass' = Pass
    BY <1>1, <2>1, NextPass DEF Pass
  <2>4. ASSUME newLog, NEW b \in number + 1..2 * Ring - 1 PROVE Untouched(batchSlots', b)
    <3>1. b \in Nat /\ number < b /\ b < number + 2 * Ring
      BY <1>1
    <3>2. Test!CycleOf(b) \in 0..1 /\ b % Ring \in Test!ChunkIds
      BY <3>1, PassParts
    <3>3. Test!CycleOf(b) # Test!CycleOf(number) \/ b % Ring # number % Ring
      BY <1>1, <3>1, PlacesApart
    <3>4. batchSlots'[Test!CycleOf(b)][b % Ring] = batchSlots[Test!CycleOf(b)][b % Ring]
      BY <1>6, <3>2, <3>3, CopyTransactionsWrites
    <3>5. Untouched(batchSlots, b)
      BY <1>1, <2>1, <2>2, <2>4 DEF HeaderHolds
    <3>. QED  BY <3>4, <3>5 DEF Untouched
  <2>. QED  BY <1>1, <2>1, <2>2, <2>3, <2>4 DEF HeaderHolds
<1>7. CASE Test!UpdateHeader
  <2>1. /\ stage = "header" /\ stage' = "apply" /\ number' = number + 1
        /\ oldest' = Test!CycleOf(number)
        /\ UNCHANGED <<batchSlots, logged, newLog, all>>
    BY <1>7 DEF Test!UpdateHeader
  <2>2. all # 0 /\ (number + 1) % Ring = 0
    BY <1>1, <2>1 DEF TestInv, TestPlace, AppliedCount
  <2>3. Pass' = Pass + 1
    BY <1>1, <2>1, <2>2, NextPass DEF Pass
  <2>4. oldest' = (Pass' - 1) % 2 /\ Pass' # 0
    BY <1>1, <2>1, <2>3 DEF Test!CycleOf, Pass
  <2>. QED  BY <1>1, <2>1, <2>2, <2>4 DEF HeaderHolds, Untouched
<1>8. CASE Test!SaveHash
  BY <1>2, <1>8 DEF Test!SaveHash, Test!WriteHash, Test!logState
<1>9. CASE Test!Gone
  BY <1>1, <1>9 DEF Test!Gone, Test!logState, HeaderHolds, Untouched
<1>10. CASE UNCHANGED Test!testVars
  BY <1>2, <1>10 DEF Test!testVars, Test!logState
<1>. QED  BY <1>3, <1>4, <1>5, <1>6, <1>7, <1>8, <1>9, <1>10
          DEF Test!TestNext, Test!Exit, Test!Kill

\* The saved hash is that of the state the program ends with.
LEMMA SavedKept ==
    ASSUME TestInv, [Test!TestNext]_(Test!testVars)
    PROVE  SavedHolds'
<1>. DEFINE SavedOf(h, l, s) == h \in {Test!NoHash, [label |-> l, hash |-> Test!HashOf(s)]}
<1>1. CASE Test!SaveHash
  <2>1. /\ stage' = "saved" => SavedOf(savedHash', label, accounts)
        /\ UNCHANGED <<label, accounts>>
    BY <1>1 DEF Test!SaveHash, Test!WriteHash
  <2>. QED  BY <2>1 DEF SavedHolds
<1>2. CASE stage' # "saved"
  BY <1>2 DEF SavedHolds
<1>3. CASE stage = "saved" /\ UNCHANGED <<savedHash, label, accounts>>
  <2>1. SavedOf(savedHash, label, accounts)
    BY <1>3 DEF TestInv, SavedHolds
  <2>. QED  BY <1>3, <2>1 DEF SavedHolds
<1>4. CASE Test!Start
  BY <1>2, <1>4 DEF Test!Start
<1>. QED  BY <1>1, <1>2, <1>3, <1>4
          DEF Test!TestNext, Test!ReadAndApply, Test!CopyChunk,
              Test!CopyTransactions, Test!UpdateHeader, Test!Exit, Test!Kill, Test!Gone,
              Test!testVars

\* A new log satisfies the invariant.
LEMMA TestInitInv == Test!TestInit => TestInv
<1>. SUFFICES ASSUME Test!TestInit PROVE TestInv
  OBVIOUS
<1>1. TestPlace /\ TestHistory /\ ChunksHeld /\ BatchesHeld /\ SavedHolds
  BY DEF Test!TestInit, TestPlace, TestHistory, ChunksHeld, BatchesHeld, SavedHolds,
         AppliedCount
<1>2. chunkSlots = [c \in 0..1 |-> [k \in Test!ChunkIds |->
                       [batch |-> 0, data |-> [a \in Test!ChunkAccounts(k) |-> 0]]]]
      /\ oldest = 0 /\ all = 0 /\ stage = "down"
  BY DEF Test!TestInit
<1>3. batchSlots = [c \in 0..1 |-> [k \in Test!ChunkIds |-> [batch |-> 0, txs |-> <<>>]]]
  BY DEF Test!TestInit
<1>4. \A c \in 0..1, k \in Test!ChunkIds :
         chunkSlots[c][k] = [batch |-> 0, data |-> [a \in Test!ChunkAccounts(k) |-> 0]]
  BY <1>2
<1>5. \A c \in 0..1, k \in Test!ChunkIds : batchSlots[c][k] = [batch |-> 0, txs |-> <<>>]
  BY <1>3
<1>6. TestSlots
  <2>1. ASSUME NEW c \in 0..1, NEW k \in Test!ChunkIds
        PROVE  /\ chunkSlots[c][k].batch = 0 /\ batchSlots[c][k].batch = 0
               /\ chunkSlots[c][k].data = [a \in Test!ChunkAccounts(k) |-> 0]
               /\ batchSlots[c][k].txs = <<>>
    <3>1. chunkSlots[c][k] = [batch |-> 0, data |-> [a \in Test!ChunkAccounts(k) |-> 0]]
      BY <1>4
    <3>2. batchSlots[c][k] = [batch |-> 0, txs |-> <<>>]
      BY <1>5
    <3>. QED  BY <3>1, <3>2
  <2>2. 0 \in 0..all /\ <<>> \in Seq(Test!Transactions) /\ oldest \in 0..1
        /\ \A k \in Test!ChunkIds :
              [a \in Test!ChunkAccounts(k) |-> 0] \in [Test!ChunkAccounts(k) -> Int]
    BY <1>2
  <2>3. /\ DOMAIN chunkSlots = 0..1 /\ DOMAIN batchSlots = 0..1
        /\ \A c \in 0..1 : DOMAIN chunkSlots[c] = Test!ChunkIds
                           /\ DOMAIN batchSlots[c] = Test!ChunkIds
    BY <1>2, <1>3
  <2>. QED  BY <2>1, <2>2, <2>3 DEF TestSlots
<1>7. HeaderHolds
  <2>1. \A b \in 0..2 * Ring - 1 : Test!CycleOf(b) \in 0..1 /\ b % Ring \in Test!ChunkIds
    <3>1. \A b \in 0..2 * Ring - 1 : b \in Nat
      BY Sizes
    <3>. QED  BY <3>1, PassParts
  <2>2. \A b \in 0..2 * Ring - 1 : Untouched(batchSlots, b)
    BY <1>5, <2>1 DEF Untouched
  <2>. QED  BY <1>2, <2>2 DEF HeaderHolds
<1>. QED  BY <1>1, <1>6, <1>7 DEF TestInv

\* The two cycles hold the last passes of the run, whatever was in them before, and the
\* header the last of them that is complete.
THEOREM TwoCycleInvariant == Test!TestSpec => []TestInv
<1>1. TestInv /\ [Test!TestNext]_(Test!testVars) => TestInv'
  BY PlaceKept, HistoryKept, TestSlotsKept, ChunksKept, BatchesKept, HeaderKept, SavedKept
     DEF TestInv
<1>. QED  BY <1>1, TestInitInv, PTL DEF Test!TestSpec

-----------------------------------------------------------------------------
\* What recovery reads from a log of this run.

\* Base is a pass of this run, the last one but for the one being written, and t its last
\* batch: the chunks are those of that pass, the newer batches are those after it.
ReadsPass(base, t) ==
    /\ t = Ring * base + (Ring - 1) /\ t < logged /\ logged <= t + 1 + Ring
    /\ \A k \in Test!ChunkIds :
          chunkSlots[oldest][k] =
             [batch |-> Ring * base + k,
              data |-> [a \in Test!ChunkAccounts(k) |-> past[Ring * base + k + 2][a]]]
    /\ \A k \in Test!ChunkIds :
          IF t + 1 + k < logged
            THEN batchSlots[1 - oldest][k] = [batch |-> t + 1 + k, txs |-> inputs[t + 2 + k]]
            ELSE batchSlots[1 - oldest][k].batch <= t

\* When the log is this run's, recovery reads such a pass.
LEMMA OwnLogReads ==
    ASSUME TestInv, Test!OwnLog
    PROVE  \E base, t \in Nat : ReadsPass(base, t)
<1>1. /\ number \in Nat /\ Ring \in Nat \ {0} /\ logged \in Nat /\ oldest \in 0..1
      /\ stage # "down" /\ logged >= (IF newLog THEN Ring ELSE 2 * Ring)
      /\ logged = (IF stage = "header" THEN number + 1 ELSE number)
      /\ HeaderHolds /\ ChunksHeld /\ BatchesHeld
  BY Sizes DEF TestInv, TestPlace, TestSlots, Test!OwnLog
<1>2. PICK h \in Nat, r \in 0..Ring - 1 :
         number = Ring * h + r /\ h = Pass /\ r = number % Ring
  BY <1>1, PassParts DEF Pass
<1>. DEFINE base == IF h = 0 THEN 0 ELSE h - 1
<1>3. base \in Nat /\ (h = 0 => base = 0) /\ (h # 0 => h = base + 1)
  BY <1>2
<1>4. PICK low \in Nat, t \in Nat :
         low = Ring * base /\ t = low + (Ring - 1)
  <2>1. Ring * base \in Nat
    BY <1>1, <1>3
  <2>2. Ring * base + (Ring - 1) \in Nat
    BY <1>1, <2>1
  <2>. QED  BY <2>1, <2>2
<1>. HIDE DEF base
<1>5. IF h = 0 THEN /\ newLog /\ logged = Ring /\ low = 0 /\ number = Ring - 1
                    /\ stage = "header"
               ELSE number = low + Ring + r
  <2>1. CASE h = 0
    <3>1. Ring * h = 0 /\ low = 0
      BY <1>1, <1>3, <1>4, <2>1
    <3>2. number = r
      BY <1>1, <1>2, <3>1
    <3>. QED  BY <1>1, <1>2, <2>1, <3>1, <3>2
  <2>2. CASE h # 0
    <3>1. Ring * h = low + Ring
      BY <1>1, <1>3, <1>4, <2>2
    <3>2. PICK top \in Nat : top = Ring * h
      BY <1>1, <1>2
    <3>. QED  BY <1>1, <1>2, <1>4, <2>2, <3>1, <3>2
  <2>. QED  BY <2>1, <2>2
<1>6. t < logged /\ logged <= t + 1 + Ring
  BY <1>1, <1>2, <1>4, <1>5
<1>7. t < Written /\ Written <= t + 1 + Ring
  BY <1>1, <1>2, <1>4, <1>5 DEF Written
<1>8. oldest = base % 2 /\ 1 - oldest = (base + 1) % 2
  <2>1. oldest = base % 2
    <3>1. CASE h = 0
      BY <1>1, <1>2, <1>3, <1>5, <3>1 DEF HeaderHolds
    <3>2. CASE h # 0
      BY <1>1, <1>2, <1>3, <3>2 DEF HeaderHolds
    <3>. QED  BY <3>1, <3>2
  <2>. QED  BY <1>3, <2>1
<1>9. ASSUME NEW k \in Test!ChunkIds
      PROVE  chunkSlots[oldest][k] =
                [batch |-> Ring * base + k,
                 data |-> [a \in Test!ChunkAccounts(k) |-> past[Ring * base + k + 2][a]]]
  <2>1. k \in 0..Ring - 1 /\ k \in Nat
    BY <1>1 DEF Test!ChunkIds
  <2>2. PICK b \in Nat : b = Ring * base + k /\ b \div Ring = base /\ b % Ring = k
    BY <1>3, <2>1, PartsAre
  <2>3. b = low + k
    BY <1>4, <2>2
  <2>4. b \in 0..Written - 1 /\ b + 2 * Ring >= Written
    <3>1. Written \in Nat
      BY <1>1 DEF Written
    <3>. QED  BY <1>1, <1>4, <1>7, <2>1, <2>3, <3>1
  <2>5. Copied(chunkSlots, b, past)
    BY <1>1, <2>4 DEF ChunksHeld
  <2>6. Test!CycleOf(b) = oldest
    BY <1>8, <2>2 DEF Test!CycleOf
  <2>7. chunkSlots[oldest][k] =
           [batch |-> b, data |-> [a \in Test!ChunkAccounts(k) |-> past[b + 2][a]]]
    BY <2>2, <2>5, <2>6 DEF Copied, ChunkSlotOf
  <2>. QED  BY <2>2, <2>7
<1>10. ASSUME NEW k \in Test!ChunkIds
       PROVE  IF t + 1 + k < logged
                THEN batchSlots[1 - oldest][k] =
                        [batch |-> t + 1 + k, txs |-> inputs[t + 2 + k]]
                ELSE batchSlots[1 - oldest][k].batch <= t
  <2>1. k \in 0..Ring - 1 /\ k \in Nat
    BY <1>1 DEF Test!ChunkIds
  <2>2. PICK b \in Nat : b = Ring * (base + 1) + k /\ b \div Ring = base + 1 /\ b % Ring = k
    <3>1. base + 1 \in Nat
      BY <1>3
    <3>. QED  BY <2>1, <3>1, PartsAre
  <2>3. b = t + 1 + k
    <3>1. Ring * (base + 1) = low + Ring
      BY <1>1, <1>3, <1>4
    <3>. QED  BY <1>1, <1>4, <2>1, <2>2, <3>1
  <2>4. Test!CycleOf(b) = 1 - oldest
    BY <1>8, <2>2 DEF Test!CycleOf
  <2>5. CASE b < logged
    <3>1. b \in 0..logged - 1 /\ b + 2 * Ring >= logged
      BY <1>1, <1>4, <1>6, <2>1, <2>3, <2>5
    <3>2. LoggedAs(batchSlots, b, inputs)
      BY <1>1, <3>1 DEF BatchesHeld
    <3>3. batchSlots[1 - oldest][k] = [batch |-> b, txs |-> inputs[b + 1]]
      BY <2>2, <2>4, <3>2 DEF LoggedAs
    <3>4. b + 1 = t + 2 + k
      BY <1>4, <2>1, <2>2, <2>3
    <3>5. batchSlots[1 - oldest][k] = [batch |-> t + 1 + k, txs |-> inputs[t + 2 + k]]
      BY <2>3, <3>3, <3>4
    <3>. QED  BY <2>3, <2>5, <3>5
  <2>6. CASE b >= logged /\ b < 2 * Ring
    <3>1. newLog
      BY <1>1, <2>6
    <3>2. Untouched(batchSlots, b)
      BY <1>1, <2>6, <3>1 DEF HeaderHolds
    <3>3. batchSlots[1 - oldest][k].batch = 0
      BY <2>2, <2>4, <3>2 DEF Untouched
    <3>4. batchSlots[1 - oldest][k].batch <= t
      BY <1>4, <3>3
    <3>5. ~(t + 1 + k < logged)
      <4>1. logged \in Nat
        BY <1>1
      <4>. QED  BY <2>1, <2>3, <2>6, <4>1
    <3>. QED  BY <3>4, <3>5
  <2>7. CASE b >= logged /\ b >= 2 * Ring
    <3>1. base >= 1 /\ base - 1 \in Nat
      <4>1. base = 0 => low = 0
        BY <1>1, <1>4
      <4>. QED  BY <1>1, <1>3, <1>4, <2>1, <2>3, <2>7, <4>1
    <3>2. PICK d \in Nat : /\ d = Ring * (base - 1) + k
                           /\ d \div Ring = base - 1 /\ d % Ring = k
      BY <2>1, <3>1, PartsAre
    <3>3. d = b - 2 * Ring
      <4>1. Ring * (base - 1) = low - Ring
        BY <1>1, <1>3, <1>4
      <4>. QED  BY <1>1, <1>4, <2>1, <2>3, <3>2, <4>1
    <3>4. d \in 0..logged - 1 /\ d + 2 * Ring >= logged /\ d <= t
      BY <1>1, <1>4, <1>6, <2>1, <2>3, <2>7, <3>3
    <3>5. LoggedAs(batchSlots, d, inputs)
      BY <1>1, <3>4 DEF BatchesHeld
    <3>6. Test!CycleOf(d) = 1 - oldest
      BY <1>3, <1>8, <3>1, <3>2 DEF Test!CycleOf
    <3>7. batchSlots[1 - oldest][k].batch = d
      BY <3>2, <3>5, <3>6 DEF LoggedAs
    <3>8. batchSlots[1 - oldest][k].batch <= t
      BY <1>4, <3>2, <3>4, <3>7
    <3>9. ~(t + 1 + k < logged)
      <4>1. logged \in Nat
        BY <1>1
      <4>. QED  BY <2>1, <2>3, <2>7, <4>1
    <3>. QED  BY <3>8, <3>9
  <2>. QED  BY <1>1, <2>2, <2>5, <2>6, <2>7
<1>. QED  BY <1>3, <1>4, <1>6, <1>9, <1>10 DEF ReadsPass

\* The newest of the chunks is the last batch of the pass.
LEMMA BaseLabelIs ==
    ASSUME NEW base \in Nat, NEW t \in Nat, ReadsPass(base, t)
    PROVE  Test!BaseLabel = t
<1>. DEFINE ages == {chunkSlots[oldest][k].batch : k \in Test!ChunkIds}
<1>1. PICK low \in Nat : low = Ring * base /\ t = low + (Ring - 1)
  <2>1. Ring * base \in Nat
    BY Sizes
  <2>. QED  BY <2>1 DEF ReadsPass
<1>2. \A k \in Test!ChunkIds : chunkSlots[oldest][k].batch = low + k
  <2>1. ASSUME NEW k \in Test!ChunkIds PROVE chunkSlots[oldest][k].batch = Ring * base + k
    <3>1. PICK d : chunkSlots[oldest][k] = [batch |-> Ring * base + k, data |-> d]
      BY DEF ReadsPass
    <3>. QED  BY <3>1
  <2>. QED  BY <1>1, <2>1
<1>3. \A k \in Test!ChunkIds : k \in Nat /\ low + k \in Nat /\ low + k <= t
  BY <1>1, Sizes DEF Test!ChunkIds
<1>4. ages \in SUBSET Nat /\ \A n \in ages : n <= t
  BY <1>2, <1>3
<1>5. t \in ages
  <2>1. Ring - 1 \in Test!ChunkIds
    BY Sizes DEF Test!ChunkIds
  <2>2. chunkSlots[oldest][Ring - 1].batch = t
    BY <1>1, <1>2, <2>1
  <2>. QED  BY <2>1, <2>2
<1>. HIDE DEF ages
<1>6. Test!Max(ages) = t
  BY <1>4, <1>5, GreatestIs
<1>. QED  BY <1>6 DEF Test!BaseLabel, ages

\* The slots with newer batches are those of the pass being written.
LEMMA NewerIs ==
    ASSUME TestInv, NEW base \in Nat, NEW t \in Nat, ReadsPass(base, t)
    PROVE  \A k \in Test!ChunkIds :
              /\ t + 1 + k < logged <=> k \in Test!Newer
              /\ k \in Test!Newer => batchSlots[1 - oldest][k] =
                                        [batch |-> t + 1 + k, txs |-> inputs[t + 2 + k]]
<1>1. Test!BaseLabel = t
  BY BaseLabelIs
<1>. TAKE k \in Test!ChunkIds
<1>2. k \in Nat
  BY Sizes DEF Test!ChunkIds
<1>3. CASE t + 1 + k < logged
  <2>1. batchSlots[1 - oldest][k] = [batch |-> t + 1 + k, txs |-> inputs[t + 2 + k]]
    BY <1>3 DEF ReadsPass
  <2>2. inputs[t + 2 + k] # <<>>
    <3>1. /\ inputs \in Seq(TestBatches) /\ Len(inputs) = AppliedCount /\ logged \in Nat
          /\ logged <= AppliedCount
      BY DEF TestInv, TestHistory, TestPlace, AppliedCount
    <3>2. t + 2 + k \in 1..Len(inputs)
      BY <1>2, <1>3, <3>1
    <3>3. inputs[t + 2 + k] \in TestBatches
      BY <3>1, <3>2
    <3>. QED  BY <3>3, Sizes
  <2>3. /\ batchSlots[1 - oldest][k].batch = t + 1 + k
        /\ batchSlots[1 - oldest][k].txs = inputs[t + 2 + k]
    BY <2>1
  <2>4. t + 1 + k > t
    BY <1>2
  <2>5. k \in Test!Newer
    BY <1>1, <2>2, <2>3, <2>4 DEF Test!Newer
  <2>. QED  BY <1>3, <2>1, <2>5
<1>4. CASE ~(t + 1 + k < logged)
  <2>1. batchSlots[1 - oldest][k].batch <= t
    BY <1>4 DEF ReadsPass
  <2>2. batchSlots[1 - oldest][k].batch \in Nat
    BY SlotFacts
  <2>3. k \notin Test!Newer
    BY <1>1, <2>1, <2>2 DEF Test!Newer
  <2>. QED  BY <1>4, <2>3
<1>. QED  BY <1>3, <1>4

\* The last of them is the last batch in the log.
LEMMA RecoveredLabelIs ==
    ASSUME TestInv, NEW base \in Nat, NEW t \in Nat, ReadsPass(base, t)
    PROVE  Test!RecoveredLabel = logged - 1
<1>. DEFINE later == {batchSlots[1 - oldest][k].batch : k \in Test!Newer}
<1>1. logged \in Nat /\ t < logged /\ logged <= t + 1 + Ring /\ Ring \in Nat
  BY Sizes DEF ReadsPass, TestInv, TestPlace
<1>2. \A k \in Test!Newer : /\ k \in Test!ChunkIds /\ k \in Nat /\ t + 1 + k < logged
                            /\ batchSlots[1 - oldest][k].batch = t + 1 + k
  <2>. SUFFICES ASSUME NEW k \in Test!Newer
                PROVE  /\ k \in Test!ChunkIds /\ k \in Nat /\ t + 1 + k < logged
                       /\ batchSlots[1 - oldest][k].batch = t + 1 + k
    OBVIOUS
  <2>1. k \in Test!ChunkIds
    BY DEF Test!Newer
  <2>2. k \in Nat
    BY <2>1, Sizes DEF Test!ChunkIds
  <2>3. /\ t + 1 + k < logged
        /\ batchSlots[1 - oldest][k] = [batch |-> t + 1 + k, txs |-> inputs[t + 2 + k]]
    BY <2>1, NewerIs
  <2>. QED  BY <2>1, <2>2, <2>3
<1>3. CASE logged = t + 1
  <2>1. Test!Newer = {}
    BY <1>1, <1>2, <1>3
  <2>. QED  BY <1>1, <1>3, <2>1, BaseLabelIs DEF Test!RecoveredLabel
<1>4. CASE logged # t + 1
  <2>. DEFINE last == logged - 1 - (t + 1)
  <2>1. last \in Test!ChunkIds /\ last \in Nat /\ t + 1 + last = logged - 1
    BY <1>1, <1>4 DEF Test!ChunkIds
  <2>. HIDE DEF last
  <2>2. last \in Test!Newer
    <3>1. t + 1 + last < logged
      BY <1>1, <2>1
    <3>. QED  BY <2>1, <3>1, NewerIs
  <2>3. later \in SUBSET Nat /\ \A n \in later : n <= logged - 1
    <3>1. \A k \in Test!Newer : t + 1 + k \in Nat /\ t + 1 + k <= logged - 1
      BY <1>1, <1>2
    <3>. QED  BY <1>2, <3>1
  <2>4. logged - 1 \in later
    BY <1>2, <2>1, <2>2
  <2>. HIDE DEF later
  <2>5. Test!Max(later) = logged - 1
    BY <2>3, <2>4, GreatestIs
  <2>. QED  BY <2>2, <2>5 DEF Test!RecoveredLabel, later
<1>. QED  BY <1>3, <1>4

\* The chunks together are the state after that pass, if no batch of it has changed a
\* chunk after its copy.
LEMMA BaseIs ==
    ASSUME TestInv, NEW base \in Nat, NEW t \in Nat, ReadsPass(base, t), Test!Settled
    PROVE  Test!Base = past[t + 2]
<1>1. PICK low \in Nat : low = Ring * base /\ t = low + (Ring - 1)
  <2>1. Ring * base \in Nat
    BY Sizes
  <2>. QED  BY <2>1 DEF ReadsPass
<1>2. Test!BaseLabel = t
  BY BaseLabelIs
<1>3. Test!FirstOfBase = low
  BY <1>1, <1>2, Sizes DEF Test!FirstOfBase
<1>4. past[t + 2] \in Balances
  <2>1. /\ logged \in Nat /\ t < logged /\ logged <= AppliedCount /\ AppliedCount \in Nat
        /\ past \in Seq(Balances) /\ Len(past) = AppliedCount + 1
    <3>1. logged \in Nat /\ t < logged
      BY DEF ReadsPass, TestInv, TestPlace
    <3>2. stage # "down"
      BY <3>1 DEF TestInv, TestPlace
    <3>. QED  BY <3>1, <3>2 DEF TestInv, TestHistory, TestPlace, AppliedCount
  <2>2. t + 2 \in 1..Len(past)
    BY <2>1
  <2>. QED  BY <2>1, <2>2
<1>5. ASSUME NEW a \in Test!AllAccounts
      PROVE  chunkSlots[oldest][a \div PerChunk].data[a] = past[t + 2][a]
  <2>1. PICK k \in Test!ChunkIds : k = a \div PerChunk /\ a \in Test!ChunkAccounts(k)
    BY AccountHasChunk
  <2>2. chunkSlots[oldest][k] =
           [batch |-> low + k, data |-> [c \in Test!ChunkAccounts(k) |-> past[low + k + 2][c]]]
    BY <1>1 DEF ReadsPass
  <2>3. chunkSlots[oldest][k].data[a] = past[low + k + 2][a]
    BY <2>1, <2>2
  <2>4. past[low + k + 2][a] = past[t + 2][a]
    BY <1>2, <1>3, <2>1 DEF Test!Settled
  <2>. QED  BY <2>1, <2>3, <2>4
<1>6. Test!Base = [a \in Test!AllAccounts |-> past[t + 2][a]]
  BY <1>5 DEF Test!Base
<1>7. past[t + 2] = [a \in Test!AllAccounts |-> past[t + 2][a]]
  BY <1>4 DEF Balances
<1>. QED  BY <1>6, <1>7

\* One number of the replay takes the state before a batch to the one after it.
LEMMA NumberReplays ==
    ASSUME TestInv, NEW base \in Nat, NEW t \in Nat, ReadsPass(base, t), Test!Recoverable,
           NEW b \in t + 1..logged - 1
    PROVE  Test!ReplayedNumber({past[b + 1]}, b) = {past[b + 2]}
<1>1. logged \in Nat /\ logged <= t + 1 + Ring /\ Ring \in Nat
  BY Sizes DEF ReadsPass, TestInv, TestPlace
<1>. DEFINE found == {k \in Test!Newer : batchSlots[1 - oldest][k].batch = b}
            j == b - (t + 1)
<1>2. /\ j \in Test!ChunkIds /\ j \in Nat
      /\ t + 1 + j = b /\ t + 2 + j = b + 1 /\ t + 1 + j < logged
  BY <1>1 DEF Test!ChunkIds
<1>. HIDE DEF j
<1>3. found = {j}
  <2>1. j \in found
    <3>1. /\ j \in Test!Newer
          /\ batchSlots[1 - oldest][j] = [batch |-> t + 1 + j, txs |-> inputs[t + 2 + j]]
      BY <1>2, NewerIs
    <3>. QED  BY <1>2, <3>1
  <2>2. ASSUME NEW k \in found PROVE k = j
    <3>1. k \in Test!ChunkIds /\ k \in Nat /\ k \in Test!Newer
      BY Sizes DEF Test!Newer, Test!ChunkIds
    <3>2. batchSlots[1 - oldest][k] = [batch |-> t + 1 + k, txs |-> inputs[t + 2 + k]]
      BY <3>1, NewerIs
    <3>3. t + 1 + k = b
      BY <3>2
    <3>. QED  BY <1>2, <3>1, <3>3
  <2>. QED  BY <2>1, <2>2
<1>4. batchSlots[1 - oldest][j].txs = inputs[b + 1]
  <2>1. batchSlots[1 - oldest][j] = [batch |-> t + 1 + j, txs |-> inputs[t + 2 + j]]
    BY <1>2, NewerIs
  <2>. QED  BY <1>2, <2>1
<1>5. Test!Replayed({past[b + 1]}, inputs[b + 1]) = {past[b + 2]}
  <2>1. b + 1 \in Test!BaseLabel + 2..logged
    BY <1>1, BaseLabelIs
  <2>2. Test!OrderFree(b + 1)
    BY <2>1 DEF Test!Recoverable
  <2>3. (b + 1) + 1 = b + 2
    BY <1>1
  <2>. QED  BY <2>2, <2>3 DEF Test!OrderFree
<1>6. (CHOOSE k \in found : TRUE) = j
  <2>. HIDE DEF found
  <2>. QED  BY <1>3
<1>7. Test!ReplayedNumber({past[b + 1]}, b) =
         Test!Replayed({past[b + 1]}, batchSlots[1 - oldest][CHOOSE k \in found : TRUE].txs)
  BY <1>3 DEF Test!ReplayedNumber
<1>. QED  BY <1>4, <1>5, <1>6, <1>7

\* What a start recovers from such a log is the last batch in it.
LEMMA RecoversLast ==
    ASSUME TestInv, Test!Recoverable
    PROVE  /\ Test!RecoveredLabel = logged - 1
           /\ Test!RecoveredStates = {past[logged + 1]}
<1>1. PICK base \in Nat, t \in Nat : ReadsPass(base, t)
  BY OwnLogReads DEF Test!Recoverable
<1>. DEFINE steps == Test!RecoveredLabel - Test!BaseLabel
            e == Test!ReplayedEach
            H == {i \in 0..steps : e[i] = {past[t + i + 2]}}
<1>2. Test!RecoveredLabel = logged - 1 /\ Test!BaseLabel = t
  BY <1>1, RecoveredLabelIs, BaseLabelIs
<1>3. logged \in Nat /\ t < logged
  BY <1>1 DEF ReadsPass, TestInv, TestPlace
<1>4. steps = logged - 1 - t /\ steps \in Nat
  BY <1>2, <1>3
<1>5. /\ e[0] = {past[t + 2]}
      /\ \A i \in 1..steps : e[i] = Test!ReplayedNumber(e[i - 1], t + i)
  <2>1. /\ e[0] = {Test!Base}
        /\ \A i \in 1..steps : e[i] = Test!ReplayedNumber(e[i - 1], Test!BaseLabel + i)
    <3>. HIDE DEF e
    <3>. QED  BY <1>4, ReplayedEachIs DEF e
  <2>2. Test!Base = past[t + 2]
    BY <1>1, BaseIs DEF Test!Recoverable
  <2>. HIDE DEF e, steps
  <2>. QED  BY <1>2, <2>1, <2>2
<1>. HIDE DEF e, steps
<1>6. 0 \in H
  <2>1. t + 0 + 2 = t + 2
    OBVIOUS
  <2>. QED  BY <1>4, <1>5, <2>1
<1>7. ASSUME NEW i \in 0..steps - 1, i \in H PROVE i + 1 \in H
  <2>1. i + 1 \in 1..steps /\ (i + 1) - 1 = i /\ e[i] = {past[t + i + 2]}
    BY <1>4, <1>7
  <2>2. PICK b \in t + 1..logged - 1 : b = t + (i + 1)
    BY <1>3, <1>4
  <2>3. b + 1 = t + i + 2 /\ b + 2 = t + (i + 1) + 2
    BY <1>4, <2>2
  <2>4. e[i + 1] = Test!ReplayedNumber({past[b + 1]}, b)
    BY <1>5, <2>1, <2>2, <2>3
  <2>5. e[i + 1] = {past[t + (i + 1) + 2]}
    BY <1>1, <2>3, <2>4, NumberReplays
  <2>. QED  BY <1>4, <2>1, <2>5
<1>. HIDE DEF H
<1>8. steps \in H
  <2>1. \A i \in 0..steps : i \in H
    BY <1>4, <1>6, <1>7, UpTo
  <2>. QED  BY <1>4, <2>1
<1>9. Test!RecoveredStates = {past[logged + 1]}
  <2>1. t + steps + 2 = logged + 1
    BY <1>3, <1>4
  <2>2. e[steps] = {past[logged + 1]}
    BY <1>8, <2>1 DEF H
  <2>. QED  BY <2>2 DEF e, steps, Test!RecoveredStates
<1>. QED  BY <1>2, <1>9

\* Killed anywhere, inside a commit or before the header is updated included, a log that is
\* this run's is recovered to exactly its last batch, if no batch of the completed cycle
\* has touched a chunk after its copy and the order within later batches is irrelevant.
THEOREM TwoCyclesAreRecovered == Test!TestSpec => []TwoCyclesRecover
<1>1. TestInv => TwoCyclesRecover
  BY RecoversLast DEF TwoCyclesRecover, Test!TwoCyclesRecover
<1>. QED  BY <1>1, TwoCycleInvariant, PTL

\* After an orderly end that could open the hash file the next start accepts such a log,
\* and if the hash was written it has been compared with it.
THEOREM OrderlyEndIsAccepted == Test!TestSpec => []OrderlyEndAccepted
<1>1. TestInv => OrderlyEndAccepted
  <2>. SUFFICES ASSUME TestInv, stage = "saved", Test!Recoverable
                PROVE  /\ \A s \in Test!RecoveredStates : ~Test!Mismatch(s)
                       /\ savedHash # Test!NoHash => savedHash.label = Test!RecoveredLabel
    BY DEF OrderlyEndAccepted, Test!OrderlyEndAccepted
  <2>1. Test!RecoveredLabel = logged - 1 /\ Test!RecoveredStates = {past[logged + 1]}
    BY RecoversLast
  <2>2. /\ logged \in Nat /\ logged > 0 /\ label = logged - 1 /\ accounts = past[logged + 1]
    <3>1. logged = number /\ number \in Nat
      BY DEF TestInv, TestPlace
    <3>2. logged > 0
      BY <3>1, Sizes DEF Test!Recoverable, Test!OwnLog
    <3>. QED  BY <3>1, <3>2 DEF TestInv, TestPlace, TestHistory, AppliedCount
  <2>3. savedHash \in {Test!NoHash, [label |-> label, hash |-> Test!HashOf(accounts)]}
    BY DEF TestInv, SavedHolds
  <2>4. CASE savedHash = Test!NoHash
    <3>1. savedHash.label = -1 /\ -1 # logged - 1
      BY <2>2, <2>4 DEF Test!NoHash
    <3>2. savedHash.label # Test!RecoveredLabel
      BY <2>1, <3>1
    <3>. QED  BY <2>4, <3>2 DEF Test!Mismatch
  <2>5. CASE savedHash = [label |-> label, hash |-> Test!HashOf(accounts)]
    <3>1. savedHash.label = logged - 1 /\ savedHash.hash = Test!HashOf(accounts)
      BY <2>2, <2>5
    <3>2. \A s \in Test!RecoveredStates : s = accounts
      BY <2>1, <2>2
    <3>. QED  BY <2>1, <3>1, <3>2 DEF Test!Mismatch
  <2>. QED  BY <2>3, <2>4, <2>5
<1>. QED  BY <1>1, TwoCycleInvariant, PTL
=============================================================================
