# Formal models of High-Throughput Persistence

TLA+ models of the persistence programs in this repository, TLC configurations that
model-check them, and theorems that TLAPS proves about them.

The repository is a family of C programs with one shape.  A program keeps an array of
account balances in memory, applies transactions to it in batches, and after every batch
writes one *chunk* of the array, and something from which the batch can be redone, into
a *ring* of slots in a log file; so the last N commits hold the whole array, each chunk
as old as its slot.  When the program starts it rebuilds the array from the ring.  The
programs differ in what they log (transactions, changed balances, both), in their threads
(one, a commit worker, a reader and a commit thread) and in how they recover.  Two
baselines use a log and full snapshots instead.  The interesting question is the same
everywhere: what does recovery find after the program was stopped at an arbitrary point,
and do the threads hand every batch to the log exactly once?

## 1. Inventory

| Component | State | Operations | Hard behaviour | What makes it correct |
|---|---|---|---|---|
| **Remember Glaze** `remember_glaze/state_management_multi.c`: handshake | argument block, `commit_data_is_ready_for_worker`, `commit_by_worker_is_in_progress`, `worker_thread_should_exit`, one mutex, two condition variables | main: apply, wait for the previous commit, dispatch, shut down; worker: wait, take, commit, report | interleavings, lost wakeups, shutdown with a commit in flight, failing setup | every batch committed once, in order, none lost at exit; no wakeup lost; the process ends |
| Remember Glaze: log and recovery | N snapshot and N transaction slots mapped into memory, the device behind them, hash file | copy snapshot, copy transactions, msync; preallocate, load chunks, replay round the ring, verify hash | kill and power loss between any two steps, slots of different ages, restarts over an old log | recovery gives exactly the state after a batch; reported commits survive; the replay is bounded by the ring |
| Remember Glaze: transactions | balances, padding | transfer, range set, rejection, replay on one chunk | a replay that knows one chunk must not depend on the others; index edges | the chunk follows the state; no overdraft; padding untouched |
| **Glaze and R-Glaze** `glaze_and_r_glaze` | as above, slots with a write set and range sets | main builds the write set, the worker builds another one | two threads use one buffer; write set and range sets lose their order | snapshots are versions; the log redoes the batch |
| **Ring buffer Glaze** `ring_buffer_glaze` (`multithreaded_server_testing`) | bounded transaction queue, bounded job queue, ring of slots in a file | reader, main, commit thread; reconstruction; hash file | three threads, one condition variable for two conditions, failing writes, short files, kill between `pwrite`s | batches whole and in order; nothing lost at exit; synced batches are reconstructed; it ends |
| Group version `ring_buffer_glaze_group` (`multithreaded_server_testing_group_batching`) | queue of groups | reader groups batches, main applies and numbers them | the last, smaller group; end of file inside a group; a log that does not open, failing writes | the file reaches the log batch by batch; a full file ends the program, with every batch logged but those whose write failed |
| **Baselines** `log_optim`, `log_direct_addressing` | log file, snapshot file, state copy, flag | append, fsync, snapshot (in a thread), remove log, load, replay | the snapshot thread removes a log that main writes to; kill between snapshot and removal, or inside an append; a removal or a flush that fails | no synced batch lost or applied twice outside these windows |
| Remember Glaze, synchronous `remember_glaze/state_management.c` | the same ring | commit in the main thread | kill inside a commit, several runs over one log | recovery exact, also over the remains of an older run |
| **Snapshot rings**: `glaze`, `breaking_glaze` (two programs), `glaze_server_testing`, `opcode_glaze`, `s_fixing_glaze`, `Report_testing/dealing_with_memset/glaze_with_memset.c` | rings of slots with chunk and write set; in the last a box for one checkpoint | checkpoint per batch or per ring, in main or a second thread; reconstruction by copying, by highest number, or by sorted replay | kill inside a pass, header before data, failing writes, error flag read without the mutex | reconstruction gives one version, or damage only where the interrupted commit wrote; all that was applied is logged at an orderly end |
| `transaction_ring_glaze` | head, tail, entries with a marker | two-phase append, discard of the oldest, replay from head to tail | marker and data without fsync between; a full ring; balance checks against chunks not yet put back; a read that fails in the middle of recovery | the ring is the latest entries in order; every account whose balance follows from the ring is restored |
| Parameterized copies of Remember Glaze (`state_management_parametrized.c`, two `state_management_parameterized.c`) | the same, sizes from the command line and in the header of the log; the argument block holds a pointer to the chunk; a reference state in a file | the same, and range sets that are logged as they are | the replay for one chunk writes a range set to all chunks; a log written with other sizes is read with these | an account comes back unless a later chunk's range set reaches it; the pointer is safe because main fills the block only when nothing is in flight (`OneInFlight`) |
| Test program `remember_glaze/test.c` | two cycles of slots, the header names the completed one; hash file | commit in the main thread, change of the cycle, recovery that sorts the batches of the open cycle and applies them to the whole state | the chunks of the completed cycle are of different ages; a start refuses a log whose hash differs, and the hash file may fail to open | the logs it does recover, exactly; those of an orderly end that could write its hash are accepted then |
| Baseline with range sets `Report_testing/scalability_testing/log_optim_parameterized.c` | as `log_optim`, with balances; number of accounts and batches from the command line | as `log_optim`, a snapshot account by account | as `log_optim`; a start with fewer accounts than wrote the files | the reported balances come back outside the windows; transfers between two accounts keep their sum at any number of kills |
| Copies with other sizes (`debug.c`, `state_management_multi_txt_output.c`, `dealing_with_memset/state_management_multi.c`, `multithreaded_server_testing*`) | | | | the same as their originals |
| In-memory baselines `local_testing*` | arrays, hash tables | apply | none: sequential, not persistent | |
| Generators, scripts | | write input files, run programs | none | |

Components share no memory and send no messages; they meet in files: the generators write
`transactions.bin`, a program writes its log and `state_hash` file, its next run reads them.
Inside a program the threads share queues or an argument block under mutexes.

## 2. Modules

| Module | Models | State and actions, in terms of the code |
|---|---|---|
| `OrderedCommit` | the abstract specification of the pipeline | `applied`, `committed`, `stopped`; a batch is applied, the oldest applied batch is committed, the process stops with all committed |
| `CommitHandoff` | the handshake of Remember Glaze | one action per critical section (the mutex makes it atomic) and per step between two; `mainPc`, `workerPc` are places in `main` and `commit_worker_func`; a thread in `pthread_cond_wait` is asleep until a signal or a spurious wakeup |
| `RingLog` | the mapped slots, the device, the three steps of a commit, recovery step by step | `snap`, `txs` mapped; `diskSnap`, `diskTxs` on the device; `rec` the locals of `recover_state_from_log` |
| `RingLogProofs` | what the slots hold, and that the replay round the ring uses it up | |
| `RememberGlaze` | the whole program: composes `CommitHandoff` and `RingLog`, with boot, hash file, exit, kill, power loss | an action of the handshake and what it does to the data happen in one step |
| `RememberGlazeProofs` | theorems about the handshake, and on these and `RingLogProofs` about the whole program | |
| `SyncGlaze` | the synchronous version: composes `RingLog` with one thread that applies and commits | `pc` is the place in `main` and in `commit_batch_data_to_log`; files of any length, hash file truncated and then written |
| `SyncGlazeProofs` | theorems about it, on `RingLogProofs`, and about `TwoCycleLog` | |
| `TwoCycleLog`, `MCSync` | `test.c` with real balances; `MCSync` checks it beside `SyncGlaze` | `stage` is the place in `main`; `oldest`, `chunkSlots`, `batchSlots` the mapped log; a sort that leaves the order of equals open is a set of possible states |
| `TransferSemantics` | transactions on balances, and their replay on one chunk | `live` the state array, `replica` an array one chunk of which is being replayed |
| `HybridLog`, `MCHybrid` | `glaze_and_r_glaze` with real balances | main applies and builds an effect, the worker copies, applies again, logs, syncs; recovery; `MCHybrid` checks it beside `ParamGlaze` and `TransferSemantics` |
| `HybridLogProofs` | theorems about `HybridLog`, `TransferSemantics` and `ParamGlaze` | |
| `ParamGlaze` | the parameterized copies with real balances; `MCHybrid` checks it beside `HybridLog` | `logFile` is a header and cells of eight bytes, read with the sizes of the run; the worker copies the chunk the block points to, then the batch; recovery, hash file, reference run |
| `StagedQueues` | the two bounded queues with their condition variables | parameter: what a signal wakes is chosen among the waiting threads |
| `CheckpointRing` | the ring of slots of `ring_buffer_glaze` and its reconstruction | `file` is the page cache, `disk` the device; one `WritePart` per `pwrite` |
| `BatchPipeline` | `ring_buffer_glaze`: composes the two | reader, main, commit thread, start, end, kill, power loss |
| `BatchPipelineProofs` | theorems about it and about `GroupPipeline` | |
| `GroupPipeline`, `MCGroup` | `ring_buffer_glaze_group` over the same queues | groups, real balances, one run on a new log |
| `SlotFile` | the slot file and the five ways to reconstruct a state from it | `file` the page cache, `disk` the device; a slot is header, chunk and writes |
| `SnapshotRings`, `MCSnapshotRings` | the seven programs with such a file; `program` says which one | a commit is the list `todo` of its writes and its sync, one action per step; `box` is `g_checkpoint_slot`; main and worker of the asynchronous program step by step |
| `SnapshotRingsProofs` | theorems about the seven programs | |
| `TransactionRing`, `MCTransactionRing` | `transaction_ring_glaze` with real balances, a chunk being one account | `slots`, `fileMeta` the file, `diskSlots`, `diskMeta` the device; one action per write of an entry or of the metadata, per fsync, per recovered entry |
| `TransactionRingProofs` | theorems about the ring of entries | |
| `WalSnapshot` | `log_optim` and `log_direct_addressing` | main and snapshot thread; `Async` chooses which program |
| `WalSnapshotProofs` | theorems about it and about `WalAccounts` | |
| `WalAccounts`, `MCWal` | `log_optim_parameterized.c` with real balances; `MCWal` checks it beside `WalSnapshot` | `walFile`, `snapFile` the two files, `handle` what `log_fp` refers to, `count` the number of accounts of this start |

Abstractions common to all: times, statistics and output are left out.  Balances are
versions in `RingLog`, `RememberGlaze`, `SyncGlaze`, `BatchPipeline` and `WalSnapshot`: a state is
named by the batches it has seen, and a replay on the wrong version gives `Wrong`.  In
`SlotFile` a balance is named by the write that made it, so that any two are told apart.  That this
is sound for Remember Glaze, where a chunk is replayed alone, is the subject of
`TransferSemantics`, which has the balances.  Each module has, next to some definitions,
a `Fault` variant: the definition with a bug one could make.  It belongs to no
specification; `PROJECT.json` says which property it breaks.

## 3. Runs

All are finite and exhaustive within their bounds.  State counts are orders of magnitude.

| Run | Bounds, and why they suffice | What holds |
|---|---|---|
| `handoff` | 4 batches: the first does not wait, two find a commit running, one is the last | batches in order and once, no lost wakeup, the argument block overwritten only when consumed, the refinement of `OrderedCommit` (so nothing is lost at exit), termination |
| `remember` | 3 chunks, 5 batches, 2 starts: the ring wraps, recovery finds three ages, a slot is torn | recovery over one run's log is exact; reported commits survive kill and power loss; the worker's copies belong together; the hash verdict is right |
| `sync` | `SyncGlaze`: 2 chunks, files of 0 to 3 batches, 3 starts: the ring wraps, and a third start finds what two runs have left. `TwoCycleLog`: 2 chunks of two accounts, one of them padding, files of 0 to 5 batches, 6 in 2 starts: both cycles are rewritten and a batch more | recovery is exact whenever the ring holds batches of one run only (one writer, or every slot written and the newest batch numbered highest), and no older than the last commit that returned; the hash verdict is right. The test program recovers exactly the last batch, killed anywhere, when no batch of the completed cycle changed a chunk after its snapshot and the order inside later batches is irrelevant; it then accepts the log of an orderly end, if that could open its hash file (if not, the code only prints a message, the hash of an older end stays, and the next start may refuse the log) |
| `hybrid` | `HybridLog`: 3 chunks of one account, 4 batches of transfers and range sets, covered or not. `ParamGlaze`: 4 accounts in chunks of two or 3 in chunks of one, 4 batches in 2 runs, whose sizes may differ. `TransferSemantics`: 4 accounts, one of them padding, chunks of 2, indices up to one past the array, balances to 3, amounts that the cast to `int64_t` makes negative, transfers to oneself: every kind of rejection | snapshots are versions although both threads use the buffer; main's write set redoes its batch; input of range sets alone is recovered. The parameterized copies recover the last batch, each account as it was unless a range set replayed for a later chunk sets it back, also over a log of other sizes, as long as no batch that is replayed has a transfer to oneself; after an orderly end that wrote its files, with none set back, the hash is verified. Replay on one chunk follows the state for all amounts, and overdraws nothing as long as no amount is 2^63 or more (that padding stays zero and no other chunk is touched is proved) |
| `pipeline` | 2 slots, 3 batches, files of 0 to 4 batches, queues of 1 and of all batches | batches stay whole, no lost wakeup, synced batches are reconstructed, an orderly end loses nothing, it ends, and not on a full job queue when that has the program's capacity |
| `group` | 5 batches in groups of 2, files of 0 to 6; a log that does not open, writes and syncs that fail | the file reaches the log batch by batch; a full file ends the program, with every batch in the log but those whose write or sync failed, or none if the log could not be opened |
| `wal` | `WalSnapshot`, both programs: 4 batches a run, a snapshot every 2, 3 starts: two snapshots in a run, and recovery from each; a kill inside an append, a flush, a snapshot or a removal that fails | no synced batch is lost or applied twice unless the process ended in a vulnerable state; the snapshot is never ahead of the log; main does not wait for ever |
| `wal_accounts` | `WalAccounts`: 2 or 3 accounts, 2 batches a run with a snapshot after each, 2 starts; negative amounts and a transfer to oneself are among the inputs | outside the windows a start with as many accounts recovers what was reported, or one batch more, and one with fewer accounts those it has, whatever the transactions; transfers between two accounts, of less than 2^63, keep their sum and overdraw nothing, whatever is lost |
| `transaction_ring` | 3 chunks (a ring of six slots), 2 batches a run, 5 starts: fewer batches in a run than chunks, as in the program, so some chunks are never stored; a run that ends before its metadata is stored, one that wraps the ring, one that recovers from it; a recovery whose read fails | the ring in the file is the latest entries, whole and in order, with every committed one, unless the device took entries and metadata in another order; every account that the ring tells is recovered as it was after the newest entry, though other chunks are missing and a sender may not be able to pay |
| `rings` | a ring of 3 slots, chunks of one account, write sets of 4; 2 to 4 batches, so that a pass, a wrap and a flush happen; one failing write; two starts where recovery does not go by numbers, else one; a transfer between chunks, for the programs that know them range sets that overflow a write set, and for the asynchronous one an applied batch that is dropped because memory is short | outside a commit the last finished pass or batch is reconstructed exactly; inside it each balance is of one of the versions the commit mixes, and no other; the asynchronous program loses nothing at an orderly end and commits at most one batch after a failed or dropped one; the stored hash is that of the log unless a short file ends `glaze`; every program ends |
| `torn_commit`, `wal_lost` | the smallest that show it | each checks a statement of the repository that the code does not meet: section 5 |

`CHECK_DEADLOCK FALSE` is in every configuration because every program stops: at its
end, on an error, or when the bound on starts is reached.

`Vulnerable` in `WalSnapshot` names the states in which a kill damages what recovery finds:
the snapshot is not whole; the log repeats a whole snapshot (from the moment it is whole to the
removal of the log, and if `remove` fails, which the code prints and ignores, to the next removal
that succeeds); or a removed log has a batch that the snapshot lacks.  A process also does damage
(`damaged`) when it ends inside an append, which leaves part of a batch, or when an `fflush`
fails, which the code does not look at.  `RecoversSynced` says that in the model, with its
I/O failures, there are no other windows.  `Unharmed` in `WalAccounts` is the same with balances,
where repeating range sets does no harm.

`MCSync` and `MCWal` can check two programs each, `MCHybrid` two and the transactions alone.  These
share nothing: the initial state chooses one, and the others never take a step.  (`wal` and
`wal_accounts` choose one each by the constant `Programs`.)

**Fairness.**  Weak fairness of each thread's steps: the operating system schedules a
thread that can run, and a critical section is short.  Kills, power losses, failures,
spurious wakeups and starts are never assumed to happen.  Spurious wakeups are possible
but no property needs them.  Liveness is checked only for `handoff`, `pipeline`, `group`,
`wal` and `rings`, each under fairness of its threads and nothing else.

**Bounds.**  `MaxBatches` (length of the input; the programs read 50 to 5000 batches),
`MaxBoots`/`MaxRuns`/`MaxStarts` (starts), `MaxId` (integers in `TransferSemantics`), `Half` (in place
of 2^63).  `SelfGain` is what the build makes of a transfer to oneself; the theorems are for
each of its values.
The ring has two or three slots instead of 8 to 2000: one wrap of it suffices, because what a
slot holds depends on the last batch that used it only.

## 4. Proofs

All theorems are for every value of the constants that meets the modules' assumptions.

The loops of the programs (over the transactions of a batch, the entries of a write set, the
batches of a log) are recursive functions, not the folds of the community modules: of a
recursive function the provers can be shown that it exists, and that it satisfies its
equation, step by step.  The library's induction takes an operator, which no backend can
instantiate; each induction here is therefore on a set of numbers, `UpTo`, which rests on a
least counterexample (`LeastOf`) and that on the well-foundedness of inclusion between finite
intervals.  So what a loop keeps is proved for inputs of every length.

`RememberGlazeProofs`, the handshake.  The argument is an inductive invariant, `HandoffInv`.  The safety
properties are not inductive: that the argument block is free when main writes to it
depends on what the worker holds, and that on the flags.  `OneInFlight` says that from the
moment main raises `inProgress` until the worker lowers it exactly one batch is in flight,
in the block with `dataReady` up or in the worker's hands; outside, `dataReady` is up only
to make the worker see `shouldExit`.  `MainKnows` says what main may rely on at each
place.  From it follow order (`CommitOrder`), no lost wakeup (`NoWakeupLost`), nothing
lost at exit (`ExitLosesNothing`), the action property `ArgsConsumed`, and `Refinement`:
the handshake implements `OrderedCommit` with a lag of two batches.

`HybridLogProofs`, the transactions.  `ReplayFollowsApply`: for a transaction of any kind, replaying
what main logs on one chunk equals applying the transaction to the state, on that chunk,
and leaves the others alone.  It rests on the logged amount being zero for a rejected
transfer, so that the replay need not look at the sender.  By induction over behaviours
a chunk replayed alone follows the state (`ChunkReplay`), and `BalancesSound` gives no
overdraft and a padding that stays zero.  The amount is read as a `uint64_t` and cast to
`int64_t` for the check and for a range set: from 2^63 on it is negative (`Signed`), a transfer
of it passes the check and a range set makes balances negative.  The replay still follows the
state then; that nothing is overdrawn holds up to the first such amount that is accepted
(`negative`).  A transfer from an account to itself goes
through two `restrict` pointers to one balance in `apply_transaction_to_state_array`: the
outcome is a choice among what a compiler may produce, and the invariants are stated up
to the first such transfer that is accepted.

`HybridLogProofs`, the hybrid log, for every number and size of chunks and all batches.  Main and
the worker are never at the same batch: `HybridInv` counts those main has handed over (`Begun`),
those whose chunk is in the ring (`Copied`) and those whose log is (`Logged`), and says what
main and the worker hold (`InHand`), that the buffer has the chunk at hand as it was after the
worker's batch although main shares it (`BufferHolds`), and that the ring has the snapshots
and range sets of the last N batches (`SnapshotsHeld`, `LogsHeld`).  `SnapshotsHoldVersions`
follows.  `EffectsReproduce`: the loop over a batch names in its write set every account a transfer
changes, with the last balance, unless a range set of the batch covers it; the write set and
then the range sets therefore give what the batch gave.  `RangeSetsAreRecovered`: recovery brings
the chunks forward one after the other, each with the range sets since its own snapshot, so
an account that some batch since the oldest snapshot sets gets its last value in the last pass
(the one for the oldest chunk), and one that none sets has had the same balance in every version.

`HybridLogProofs`, the parameterized copies, for all sizes on the command line, any batches and any
number of runs.  The log is a sequence of cells, and the model says of none whose it is:
`ParamInv` relates the cells to the history of the run.  The snapshots of the last round are in
their slots, those of a new log that have no batch yet are zero, and the last round of batches
reads back as main passed it on (`ParamRing`); each of them is what executing its input on the
state before it gives (`ParamExecuted`); main, the worker and the buffer they share hold what
their places say (`ParamHistory`, `ParamBuffer`).  Of the cells that an earlier run has left it says
only that they are integers, which is enough for a start with other sizes: recovery gives some
balances (`RecoveryType`), and from them the run goes on.  The steps rest on lemmas about the
store: the slots of two places, or of the two rings, share no cell (`SlotsDisjoint`,
`SnapshotStored`, `BatchStored`), and a stored batch is read back (`BatchReadBack`).  For
`RecoveredUpToRangeSets` the ring is read backwards: the chunk j places before the latest one has
label latest - j, or none yet (`BackChunks`, `LabelsAre`), so the pass for it replays the batches
from `Replayed(j)` on (`PassIs`).  One account is then followed through the passes
(`AccountReplayed`): the pass for its own chunk brings it to the present, because replaying the
logged form of a batch does to an account of the chunk what executing it did (`RedoneBatch`), and
each later pass leaves it alone or sets it to the last range set it finds (`LastSetNext`).  The
last of those is the one `SetBack` chooses (`ReachingIs`).  Both theorems have the premise that
none of the batches still to be replayed has a transfer from an account to itself
(`NoSelfPayment`): executing it goes through two `restrict` pointers, and the build may add or
take away the amount, which the replay never does.  With both numbers of a slot below
`Word`, as `ParamAssumption` says, labels are exact; sizes only have to be positive.
`OrderlyEndIsVerified` follows with the hash of what was saved (`ParamSaved`), for an end that could
open and write its files; one that could not goes on to its end all the same, with an old hash, an
empty one or none.

`RingLogProofs` has the two facts about the log on which recovery rests.  What a slot holds
follows from how many batches were begun, over what `base` earlier ones have left
(`HoldsSnapshot`, `HoldsTransactions`): the snapshot of the last batch b that used it, version
base + b + 1, with b % N its number, and so for the transactions, or what was there before;
the last batch may be missing in one of them or in both (`NearlyHolds...`).
`OneRunRecoverable`: if no slot is torn, such slots are a log from which every chunk, as old
as its slot, finds the transactions up to the newest whole batch.  That needs a little number
theory, which the provers do not bring: two of N consecutive numbers never share a slot.
`GoneRound` is for a run over the log of older ones: if the highest number in the ring is of
this run, and the versions say that the ring is of one run, then it has gone round, and
nothing older is left.  That recovery's choice of the highest number exists (`LatestExists`)
is a least element of a set of numbers (`LeastOf`).
`ReplayEnds` is the end of an induction over the steps of the replay (`Replaying`): the chunks
behind the latest one are done, the one at hand has got to batch `rec.b`, and the rest are as
old as their slots.

`RememberGlazeProofs`, the program, composes this with the handshake.  The inductive invariant,
`RememberInv`, is `HandoffInv` together with: where the threads are when the program is down or
replaying (`Control`); that the state travels from main to the worker with its batch
(`DataFollows`, for a run over a new log `FirstFollows`); who has written how much
(`WritersCount`); what the slots hold in memory and on the device, between commits and inside
one (`LogHolds`, `FirstHolds`, `LastIsSafe`); where the replay is (`ReplayFollows`); and what
the hash file is of (`HashFollows`).  The conjuncts over one run's log are conditional on
`writers <= 1`, on no torn slot or on no failed `msync`, as the properties are; the steps show
that a kill, a power loss and another start leave them true.  `RecoveryIsExact`,
`CommitsTogether` and `VerdictIsRight` need no assumption beyond the module's;
`ReportedSurvives` needs N > 1: with one slot the next commit overwrites the only snapshot,
and a kill inside it leaves nothing of the batch reported before.

`SyncGlazeProofs`, for files of any length and any number of runs one over the other.  Neither
property is inductive, and neither looks at more than the ring; what a slot holds depends on
the run that is writing and on the one that wrote before.  `SyncInv` has `Base`, the newest
batch of an earlier run, and `Begun`, how many this run has begun: from its first batch on
the slots hold that many over that base (`RingHolds`), and the device has them but for the
batch in flight (`DiskFollows`, `DiskHolds`).  Between two runs it is no longer known which
run has written last, or how much of a batch a kill has cut off, so the invariant says what
recovery can rely on (`Quiet`): a slot is torn, or the slots are those of some m batches over
some base, what was committed among them.  A kill in the middle of a commit is where this is
delicate: the transactions of the batch in flight may already be in their slot
(`Resolved`), with the snapshot missing or not, and it has to be shown that each of the mixtures
a kill or a power loss leaves is torn or is whole.  The replay is followed as in
`RingLogProofs` (`ReplayFollows`), and the hash by `HashFollows` and `ParentFollows`, which say
that over a new log each batch was applied to the state of the one before.  From this
`SyncRecoveryIsExact` and `SyncVerdictIsRight`, with no assumption beyond the module's.

`SyncGlazeProofs`, the test program, for every number and size of chunks and any batches.
Recovery reads both cycles as they are, also what older runs have left there, and chooses by
numbers that start again with each run.  `TestInv` says that the last two passes of the run are in
their slots, chunks and batches (`ChunksHeld`, `BatchesHeld`), that the header names the last
complete pass, and that in a new log nothing is ahead of the run (`HeaderHolds`).  So when the log is
the run's (`OwnLog`) recovery reads one pass, and behind it exactly the batches of the next
(`OwnLogReads`): every other slot of the open cycle has a lower number, of the pass two before, or
none.  `TwoCyclesAreRecovered` is then an induction over these numbers, one batch for each
(`NumberReplays`), and `OrderlyEndIsAccepted` compares the result with the hash, for an end that
could open its hash file (`stage = "saved"`; the other one is `"unsaved"`).  That a start
recovers balances at all, whatever the log holds, is `RecoveredAreStates`.

`WalSnapshotProofs`.  `WalInv` says, as long as no process has ended in a vulnerable state:
the log goes on where the removed ones end, whether it repeats the snapshot or not, and has at
most part of the batch that main is appending behind it (`LogFollows`); of what main has applied all but
the batch in hand is in the logs, and all but one batch for each run is synced
(`StateLogged`); a whole snapshot is of synced batches, and goes as far as the removed logs when
the process may start (`SnapshotFits`); and so does what the thread is about to write
(`CopySynced`).  From it `SnapshotBehindLog`, and `RecoversSynced`: outside the windows of
`Vulnerable` recovery finds every synced batch, once.

`WalSnapshotProofs`, the baseline with balances, for every number of accounts and batches and all
transactions.  `AccountInv` relates three states: the log, replayed on what a start loads, leads to
the current balances (`LogLeads`); a whole snapshot, and the copy the thread writes from, lie on the
way there (`FileFits`, `TaskFits`), unless a batch is in a removed log only.  A snapshot that the log
repeats does no harm where only range sets are repeated, as range sets applied twice do what they
do once; a start with fewer accounts sees the beginning of every state, and cutting states commutes
with the replay as long as no transfer crosses the cut.  `AccountsRecoverPrefix` follows.  For
`MoneyIsKept`, whose premise is that all transfers so far were between two accounts and of less
than 2^63 (`Kind`), `MoneyInv` follows the balances of transfers alone, which add up to what the accounts
began with whatever is lost or replayed twice: a snapshot that is cut short is refused by a start
that wants more accounts than it has (`CountsUsed`), and a transfer that cannot pay is rejected.

`BatchPipelineProofs`, for every size of the ring and of the queues.  `PipelineInv` follows the
batches: what was read is with main or in its queue, in order (`Reading`); main's place tells
what it has applied and seen of the queues (`Applying`); the jobs in the queue continue the one
in hand, and that one what is committed (`Committing`).  In the log every header is in its
slot (`Headers`), a slot that is not half written is of one batch (`SlotsWhole`,
`PartsWritten`), the device has nothing of the batch in hand (`DiskBehind`), equals the page
cache between two commits (`Synced`), and has the last synced batch whole (`LastSynced`).  From
it `NoLostWakeup`, `OneBatchPerSlot` and `NothingLostAtExit`.  `ReconstructsNewest` needs
Ring > 1, for the reason above, and that recovery's choice of the slot of the highest batch
exists: a least element, from the well-foundedness of inclusion between finite intervals, as
the library's induction on the naturals takes an operator.  A failed write or sync is
remembered (`ioFailed`) and excuses the conjuncts on the log from then on, as it does the
properties: the code goes on after such an error.

`BatchPipelineProofs`, the version with groups, for every size of the groups, the queues and the
file.  `GroupInv` says that the groups the reader has and those in the queue follow on one another
and on what main has in hand (`GroupsFollow`), and that the jobs main has made are, in their order, in
the log, in hand, and in the queue (`JobsInOrder`).  `GroupCommitsInOrder` is that for an empty
queue as for any other.

`TransactionRingProofs`, for every number of chunks, all batches and starts.  `RingInv` says that
the file holds the ring of the metadata in the file, and the device that of the metadata on the
device, each the latest entries of its count (`Holds` in `Files`); that the metadata in memory
differs from the file's only by the head, while an entry is written (`InMemory`, `Ahead`); and
what of the entry is in the slot behind the tail (`Behind`), which is never in the ring
(`TailIsFree`).  `MoveTail` is the step in which the tail passes the entry and the head leaves
the oldest one.  All of it is conditional on `~disordered`, as the property is.  So
`RingIsLatestEntries` holds after any number of kills.

`RestoreInv` adds the data, as long as the device kept the order of writes and no recovery was cut
short.  Every entry of the ring, in the file and on the device, holds the state after the entry
before it, or the one recovered from the entries before it when recovery began with some balances,
as those have left the ring (`Linked`, `Continues`); recovery has redone the entries behind its
index, and the state of a run continues the ring (`StateFollows`).  `RingRestoresKnown` is then an
argument about pure functions.  A run stores fewer entries than there are chunks, so recovery
begins with balances that are wrong, and a wrong sender may be refused or may pay what it could
not.  `Known` follows what that can reach: an account is right once its chunk is put back,
and until it receives from one that is not (`Touched`, `KnownAfter`).  Two states that agree on the
known accounts before a batch agree after it on those it leaves known (`SameTransfer`,
`SameBatch`); so redoing an entry gives there what the program had (`RedoneAlike`), and by
induction over the ring recovery gives it for all of them (`ChainTells`, `KnownIs`).  The code's
loops over a batch are recursive functions here, and the inductions over them go by the least
index at which the claim would fail (`UpTo`).

`SnapshotRingsProofs`, for every size of the ring and of a chunk, all inputs and any number of
starts.  `InputsAssumption` names the seven programs, and says that batches of transfers all
enter the same number of balances: the code calls this `WRITE_SET_COUNT` and `server`
compares it with the header of each slot.  The invariants come in four layers.

- `Base`: types, what is counted in a write set is there (`SetsCounted`), the places of the two
  threads (`Control`), a new log is empty (`Untouched`), and the steps that are left of a commit
  are the end of its plan (`TodoFollows`).  `RingsTypesAndControl`.
- For the version with a checkpoint thread, `HandOver`: how many batches main has put into
  the box and the thread has taken, at each place of the two, and what the device has then, as
  long as no batch has failed or been dropped.
  `DrainedAtEnd` follows.  After a failure `FailureBounded` takes over: until the flag is up
  the worker is about to raise it, and the box has the next batch or none.  `ErrorBoundsGap`
  follows.
- For the programs that log the state in a pass, `PassFollows`: the slots that the pass has done
  have the new parts, those it has not reached give the old balances, and the one at hand has as
  many parts as there were steps (`HasPart`).  The same of the device (`DevicePass`), which
  trails by a sync, and of what a write set redone over its chunk gives (`JobFits`, `FreshSets`).
  `StateFollows` relates the state main works on to the last pass.  A process that has ended has
  no commit any more, so what it left is said of the slots (`PassLeft`): each gives the old
  balance or the new one.  The delicate cases are the slot that a pass was stopped in, where an
  old header can meet a new chunk, and the first pass of a log.  `ReconstructsPass` follows.
- For the programs that log a slot for a batch, `JobsFollow`: each write set, redone on the state
  before its batch, gives the state after it.  `BatchFollows`: slot s has the last batch that
  went to it, on the device too, but for the parts of the batch under way; `BatchLeft` is what
  is left of this when the process has ended.  `ReconstructsBatch` then needs what reconstruction
  reads: the valid slots are those of the last round and no others (`Numbered`, `Earliest`); the
  replay of their write sets, in the order of the numbers, starts at the chunk of one version and
  goes from each version to the next (`ReplayIs`, `ReplayGives`); an account that no write set of
  the round names has not changed in it (`Unchanging`).  These are inductions on the number of
  the batch, by least counterexample.  A slot whose commit was cut off has the old header with
  some of the new parts, or the new header with some of the old (`OldHeaderRead`,
  `NewHeaderRead`); each mixture gives balances of the versions that the property names.

`HashVerifies` is from the second and the last two.  The entries of a write set are selected by
their rank (`Nth`, `Pick`), not with the recursive operators of the community modules, of
which the provers know nothing.

Only model-checked: liveness (`Terminates`, `Ends` and the like), for which the prover has no rules
for fairness and `ENABLED`.

## 5. What the code says and does not do

`torn_commit` and `wal_lost` are runs; TLC gives the behaviour.  The others are properties at the end of
their module, under a heading that says so, or follow from the model; to see one, put
the property into the module's configuration.

| Claim | What happens | Where |
|---|---|---|
| main.tex: after recovery the state "is fully up to date with batch b", b the highest number | the worker copies the snapshot of b before the transactions of b; killed between them, recovery takes b for complete and replays the transactions that were in the slot | run `torn_commit`, `state_management_multi.c:415` |
| README: "Only the changed balances (write set) are logged" | the worker ignores main's write set and applies the batch once more to one chunk, indexed with accounts of the whole state | `LogHoldsChangedBalances`, `glaze_and_r_glaze/state_management.c:417` |
| "End-of-file reached; free this batch and adjust group size" | at the end of a short file the reader frees the empty group and tries again for ever; main waits for it | `Terminates` in `GroupPipeline`, `ring_buffer_glaze_group/state_management.c:324` |
| "ALWAYS FSync here to ensure this batch is safely on disk" | the snapshot thread removes the log by name after main has opened it again; later batches are synced to an unlinked file until the next snapshot. A kill between snapshot and removal, or a removal that fails (line 175 prints it), replays the log twice; a short write of the snapshot still removes the log; `fflush` is not checked | run `wal_lost`, `log_optim/state_management.c:174` |
| recovery gives a state the program had | a second run numbers batches from 0 over slots with higher numbers; recovery mixes the runs | `RecoversSomeVersion`, `state_management_multi.c:1082` |
| "Initializing main state array with default balances" | the zeros of a new log pass for the snapshot of batch 0, chunk 0, so the branch is not reached and balances stay zero | `FreshStartHasDefaults`, `:908` |
| main.tex: at most N batches replayed per chunk | more, after a short second run | `ReplaysAtMostN`, `:595` |
| README: recovery "replays logs" | the hybrid log replays the write set of a batch before its range sets, whatever their order was | `ReplayReproducesBatch`, `glaze_and_r_glaze/state_management.c:616` |
| "Combined msync" | it starts at the page of the transaction slot and leaves the snapshot out | `SyncCoversSnapshot`, `:468` |
| "Reconstructed state from log up to batch %d" | the header with the new number is written before the snapshot | `ReconstructedUpToBatch`, `ring_buffer_glaze/state_management.c:273` |
| README: reconstruction "from the latest valid snapshot" | after a restart from number 0 the older run's slots win | `ReconstructsLatest`, `:454` |
| "Reconstructed state hash matches stored hash" | with a short file the state is updated once more than it is logged | `VerifiesAfterOrderlyEnd`, `:458` |
| "record the updated balances in the write-set" | no transaction is applied to the zero state, and its write-set entry is never initialised | `BalancesRecorded`, `ring_buffer_glaze_group/state_management.c:517` |
| "valid_marker (1 => fully valid, 0 => partial)" | nothing is synced between the two phases and the metadata: after a power loss a torn entry can carry the marker | `ValidIsWhole`, `transaction_ring_glaze/state_management.c:201` |
| "Ring replay complete. In-memory chunks are up-to-date." | chunks without an entry stay zero, and a sender that is not yet put back cannot pay; with 50 batches a run, 62 chunks and a rotation that starts over with every run, this is every recovery of a ring with balances | `ReplayIsUpToDate`, `:288` |
| "no data => set all accounts to initial" | an absent file is taken for an opened one and the balances stay zero; they are set when the first run was stopped between its first entry and its first metadata | `Boot` in `TransactionRing`, `:317` |
| "Reconstructed state from log up to batch %d" | the header comes first: after a kill the number is of the new batch and the chunk of the one that had the slot; in `ReconstructsBatch` this is the version `b - Ring` | `glaze_server_testing/state_management.c:359`, `breaking_glaze/state_management.c:282` |
| "Write header (LAST, to commit the slot)" | nothing is synced between the parts: after a power loss the header may be alone; `ReconstructsBatch` excludes it | `glaze_with_memset.c:437` |
| "Final reconstructed state reflects batch %u" | accounts outside the first chunk come from write sets of the slots that are left; a kill or a restart loses the rest | `glaze_with_memset.c:198` |
| "Commit all slots in the checkpoint file so the snapshot is consistent" | a slot's header is copied after its write set: killed inside, the old header counts entries of the new write set (in `opcode_glaze` the new header those of the old); `Spoilt` excludes it | `s_fixing_glaze/state_management.c:402` |
| "Recovery: Log file parameters mismatch. Cannot recover." | the header is written before it is compared, with the sizes of this run, so that it never differs; a log of other sizes is read with these | `MismatchIsNoticed` in `ParamGlaze`, `state_management_parametrized.c:426` |
| recovery gives back the state | in the parameterized copies a range set found while one chunk is replayed is written to all chunks, those already brought forward included; `RecoversUpToRangeSets` says which accounts are set back | `SetBack` in `ParamGlaze` |
| "Cycle %u fully checkpointed" | the chunks of a complete cycle are of different ages, and recovery never looks at the transactions logged with them | `CompletedCycleIsACopy` in `TwoCycleLog`, `test.c:624` |
| "FATAL: Post-recovery state hash verification FAILED" | it also meets logs of an orderly end, and then every later start; an end that cannot open its hash file (line 390) only prints so and leaves the old hash | `NeverRefusedAfterOrderlyEnd` in `TwoCycleLog`, `test.c:535` |
| "Snapshot file incomplete or corrupted" | a start with no more accounts than a cut snapshot has takes it for whole | `IncompleteRefused` in `WalAccounts`, `log_optim_parameterized.c:208` |
| the hash of the final state verifies the log | `glaze` flushes by `NUMBER_OF_BATCHES`, which is a multiple of the ring: a short file leaves the last batches unlogged, and the hash has them; `HashVerifies` excludes it | `glaze/state_management.c:247` |

## 6. Not modelled

- A kill inside the `memcpy` of a chunk into the mapped log: the copy is one step; a slot
  half old and half new is outside the models.
- In `GroupPipeline` the commit of a slot is one step and the log is that of one run.
- In `SnapshotRings` no power loss for `opcode` and `fixing`, which never wait for the
  device; no step after a write past the end of `ws_accum`, which `glaze` and `opcode` do
  not look for; no transfer that is refused; memory that `malloc` leaves uninitialised counts
  as empty.  One I/O failure per behaviour.
- A part of a slot (header, chunk, write set) is written, and reaches the device, whole or not at
  all.  Write sets have up to some MB, and nothing in the code makes that so: a kill inside a
  `pwrite` or a power loss can leave half of one, which `SlotFile` and `CheckpointRing` do not have.
- A failing file system beyond failing calls: directory entries are durable at once.
- Failures that are printed or ignored and change nothing the properties look at: the `fsync` of
  `transaction_ring_glaze/state_management.c:166` and of `log_direct_addressing/state_management.c:220`
  (no power loss in `WalSnapshot`), the hash file that `ring_buffer_glaze` cannot open, which it
  also truncates before it writes (`Finish` in `BatchPipeline` saves it in one step, as does
  `RememberGlaze` in `SaveHashAndSync`: no property is about a kill in between).  An allocation that fails
  before a batch is read ends `glaze_with_memset.c` like the end of the file.
- Data races: the flags are used under the mutex in the modelled programs, with these exceptions,
  whose reads and writes are single steps here: `g_snapshot_in_progress` in `log_optim`, and
  the flags that main and the second thread of `glaze_with_memset.c` and `opcode_glaze` set or test
  without it.
- Signed overflow of a balance.  `TwoCycleLog` compares amounts as integers, as if below 2^63.
  In `GroupPipeline` balances fit into the `uint32_t` they are cast to.
- In `ParamGlaze`, `TwoCycleLog` and `WalAccounts` no power loss, only kills; the handshake and `msync` of
  the first are those of `CommitHandoff` and `RingLog`.  In `WalAccounts` a batch in the log, and an
  account in the snapshot, is written in one step; part of a batch is in `WalSnapshot`.
- In-memory baselines (`local_testing*`), generators and scripts have no concurrency and nothing to recover.

## 7. Plan

Done: handshake, ring and recovery with and without a worker, transactions, hybrid log,
queues and pipelines, baselines, transaction ring, snapshot rings, parameterized copies, test
program, baseline with range sets; proofs for the handshake, the transactions, the log and its
recovery, the whole of Remember Glaze with and without its worker, the test program, the hybrid
log, the parameterized copies, both pipelines, the transaction ring, both baselines, and all
safety properties of the snapshot rings.

Left: power loss in `ParamGlaze` and `TwoCycleLog`.
