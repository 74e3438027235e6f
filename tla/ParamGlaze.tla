----------------------------- MODULE ParamGlaze ------------------------------
(***************************************************************************)
(* Remember Glaze with its sizes on the command line                       *)
(* (remember_glaze/state_management_parametrized.c).                       *)
(*                                                                         *)
(* The log is what it is in memory and on disk: a header and then cells of *)
(* eight bytes, whose meaning depends on the sizes the program was started *)
(* with.  A run reads the cells an earlier run has left, maybe with other  *)
(* sizes.  A cell is an integer: the two halves of the first cell of a     *)
(* slot are cell % Word and cell \div Word, and an operation code is above *)
(* both of them.                                                           *)
(*                                                                         *)
(* Unlike the other copies this one lets a range set reach the padding,    *)
(* and its recovery replays a range set, found for one chunk, on all       *)
(* chunks.  Only the process is stopped here; msync changes nothing then.  *)
(***************************************************************************)
EXTENDS Integers, Sequences, FiniteSets

CONSTANTS
    Sizes,       \* the command lines to consider: [accounts, perChunk]
    Inputs,      \* the batches a transaction file is made of, BatchSize transactions
    BatchSize,   \* BATCH_SIZE
    Segments,    \* the bits of a hash, 64 in the program
    SelfGain,    \* how often the build adds the amount of a transfer to itself: -1, 0, 1
    Word,        \* 2^32
    MaxTotal,    \* bound: batches in all runs together
    MaxStarts    \* bound: starts of the program

VARIABLES
    size,       \* SMALL_ACCOUNT_COUNT and ACCOUNTS_PER_STATE_CHUNK
    main,       \* "down", "loop", and at the end "saved", or "unsaved": the hash, or the
                \* state of a reference run, may not have been written
    worker,     \* "idle", "snapshot", "batch"
    balances,   \* main_state_array
    next,       \* current_batch_num_in_loop
    applied,    \* tx_batch_buf of the batch that is applied and not handed over
    args,       \* the worker's copy of the argument block
    chunkData,  \* state_chunk_data, which the block and its copy point to
    logFile,    \* checkpoint_log.dat
    hashFile,   \* state_hash.dat
    reference,  \* reference_state.bin
    isReference,\* is_reference_run
    outcome,    \* what the start has reported: of recovery and of the hash
    starts, total, \* history: starts, batches read in all of them
    states,     \* history: the state at the start of this run and after each batch
    batches,    \* history: the batches of this run as they are to be logged
    done,       \* history: batches of this run that are in the log
    fresh       \* history: the log was new when this run started

paramVars == <<size, main, worker, balances, next, applied, args, chunkData, logFile,
               hashFile, reference, isReference, outcome, starts, total, states,
               batches, done, fresh>>

Transactions == [sender : Int, receiver : Int, amount : Int]

\* There is a chunk; the numbers of batches are below 2^32.
ParamAssumption ==
    /\ \A z \in Sizes : z.accounts \in Nat \ {0} /\ z.perChunk \in Nat \ {0}
    /\ BatchSize \in Nat \ {0} /\ Inputs \subseteq [1..BatchSize -> Transactions]
    /\ SelfGain \in -1..1
    /\ Word \in Nat /\ MaxTotal \in Nat /\ MaxTotal < Word

-----------------------------------------------------------------------------
\* initialize_parameters and the layout of the log.

ChunkCount(z) == (z.accounts + z.perChunk - 1) \div z.perChunk
ChunkIds(z) == 0..ChunkCount(z) - 1
Padded(z) == ChunkCount(z) * z.perChunk
AllAccounts(z) == 0..Padded(z) - 1

SlotCells(z) == 1 + z.perChunk
BatchCells == 1 + 3 * BatchSize
SnapshotAt(z, k) == k * SlotCells(z)
BatchAt(z, k) == ChunkCount(z) * SlotCells(z) + k * BatchCells
LogCells(z) == ChunkCount(z) * (SlotCells(z) + BatchCells)

HeaderOf(z) == <<ChunkCount(z), z.perChunk>>
NoLog == [header |-> <<>>, cells |-> <<>>]
NoFile == [label |-> -1, hash |-> <<>>]

Low(cell) == cell % Word
High(cell) == cell \div Word
GetFunc(cell) == IF cell < 0 THEN 15 ELSE cell \div (Word * Word)
GetData(cell) == cell % (Word * Word)

Cell(f, at) == f.cells[at + 1]
Store(cells, at, new) ==
    [i \in DOMAIN cells |-> IF i - at \in DOMAIN new THEN new[i - at] ELSE cells[i]]

-----------------------------------------------------------------------------
\* apply_transaction_to_state_array

IsTransfer(tx) == GetFunc(tx.sender) = 0 /\ GetFunc(tx.receiver) = 0
IsRangeSet(tx) == GetFunc(tx.sender) = 1 /\ GetFunc(tx.receiver) = 1

InRange(tx, a) ==
    a >= GetData(tx.sender) /\ a < GetData(tx.sender) + GetData(tx.receiver)

SetRange(z, s, tx) ==
    [a \in AllAccounts(z) |-> IF InRange(tx, a) THEN tx.amount ELSE s[a]]

\* The two pointers are restrict: when they alias, both updates may count, or only the one
\* that is stored last.
Moved(s, tx) ==
    LET from == GetData(tx.sender)
        to   == GetData(tx.receiver)
        paid == [s EXCEPT ![from] = @ - tx.amount]
    IN  IF from = to THEN [s EXCEPT ![from] = @ + SelfGain * tx.amount]
                     ELSE [paid EXCEPT ![to] = @ + tx.amount]

Takes(z, s, tx) ==
    LET from == GetData(tx.sender)
        to   == GetData(tx.receiver)
    IN  \/ IsTransfer(tx) /\ from < z.accounts /\ to < z.accounts /\ s[from] >= tx.amount
        \/ IsRangeSet(tx) /\ from < Padded(z)

Executed(z, s, tx) ==
    CASE Takes(z, s, tx) /\ IsTransfer(tx) -> Moved(s, tx)
      [] Takes(z, s, tx) /\ IsRangeSet(tx) -> SetRange(z, s, tx)
      [] OTHER -> s

\* The balances before a batch and after each of its transactions.
ExecutedEach(z, s, txs) ==
    LET e[n \in 0..Len(txs)] == IF n = 0 THEN s ELSE Executed(z, e[n - 1], txs[n])
    IN  e

\* The batch as it will be logged: the amount of a transaction that is not taken is zeroed.
ToLog(z, s, txs) ==
    [n \in DOMAIN txs |-> IF Takes(z, ExecutedEach(z, s, txs)[n - 1], txs[n])
                            THEN txs[n] ELSE [txs[n] EXCEPT !.amount = 0]]

-----------------------------------------------------------------------------
\* preallocate_and_init_log_file

Extended(f, z) ==
    f.cells \o [i \in 1..LogCells(z) - Len(f.cells) |-> 0]

\* A header with other sizes is replaced; what follows it stays as it is.
Preallocated(f, z) == [header |-> HeaderOf(z), cells |-> Extended(f, z)]

-----------------------------------------------------------------------------
\* recover_state_from_log

LabelOf(f, z, k) ==
    LET cell == Cell(f, SnapshotAt(z, k))
    IN  IF High(cell) = k THEN Low(cell) ELSE -1

LatestIn(f, z) ==
    CHOOSE k \in ChunkIds(z) : \A j \in ChunkIds(z) :
        \/ LabelOf(f, z, j) < LabelOf(f, z, k)
        \/ LabelOf(f, z, j) = LabelOf(f, z, k) /\ k <= j

LoadedFrom(f, z) ==
    [a \in AllAccounts(z) |->
       LET k == a \div z.perChunk
       IN  IF LabelOf(f, z, k) # -1
             THEN Cell(f, SnapshotAt(z, k) + 1 + (a % z.perChunk)) ELSE 0]

\* A transaction slot as it is read, whatever was written there, its count clamped.
LoggedIn(f, z, b) ==
    LET at == BatchAt(z, b % ChunkCount(z))
        count == High(Cell(f, at))
    IN  [i \in 1..(IF count > BatchSize THEN BatchSize ELSE count) |->
           [sender   |-> Cell(f, at + 3 * i - 2),
            receiver |-> Cell(f, at + 3 * i - 1),
            amount   |-> Cell(f, at + 3 * i)]]

\* One transaction replayed for chunk k: of a transfer what concerns the chunk, of a
\* range set everything.
ReplayOne(z, k, s, tx) ==
    LET from == GetData(tx.sender)
        to   == GetData(tx.receiver)
        delta(a) == (IF a = to /\ from < Padded(z) THEN tx.amount ELSE 0)
                      - (IF a = from THEN tx.amount ELSE 0)
    IN  CASE IsTransfer(tx) ->
               [a \in AllAccounts(z) |->
                  IF a \div z.perChunk = k THEN s[a] + delta(a) ELSE s[a]]
          [] IsRangeSet(tx) -> SetRange(z, s, tx)
          [] OTHER -> s

ReplayTxs(z, k, s, txs) ==
    LET r[n \in 0..Len(txs)] == IF n = 0 THEN s ELSE ReplayOne(z, k, r[n - 1], txs[n])
    IN  r

ReplayBatch(z, k, s, txs) == ReplayTxs(z, k, s, txs)[Len(txs)]

\* So many batches, from the slots where they should be.
ReplayBatches(f, z, k, s, first, count) ==
    LET r[n \in 0..count] ==
            IF n = 0 THEN s ELSE ReplayBatch(z, k, r[n - 1], LoggedIn(f, z, first + n - 1))
    IN  r

\* How far the snapshot of chunk k is behind the latest one.
Behind(f, z, k) == LabelOf(f, z, LatestIn(f, z)) - LabelOf(f, z, k)

\* Fault: the replay for a chunk starts with the batch after the next.
ReplayForSkipFirst(f, z, k, s) ==
    LET count == Behind(f, z, k) - 1
    IN  IF count > 0 THEN ReplayBatches(f, z, k, s, LabelOf(f, z, k) + 2, count)[count]
                     ELSE s

\* The batches after the snapshot of chunk k.
ReplayFor(f, z, k, s) ==
    LET count == Behind(f, z, k)
    IN  ReplayBatches(f, z, k, s, LabelOf(f, z, k) + 1, count)[count]

\* Backwards round the ring, from the chunk before the latest one.
ChunkBefore(f, z, i) == (LatestIn(f, z) - i) % ChunkCount(z)

ReplayChunks(f, z) ==
    LET r[i \in 0..ChunkCount(z) - 1] ==
            IF i = 0 THEN LoadedFrom(f, z)
                     ELSE ReplayFor(f, z, ChunkBefore(f, z, i), r[i - 1])
    IN  r

\* What a start makes of the log; without any valid snapshot slot it is not taken.
Recovery(f, z) ==
    IF f.header # HeaderOf(z) \/ LabelOf(f, z, LatestIn(f, z)) = -1
      THEN [taken |-> FALSE, batch |-> -1, balances |-> [a \in AllAccounts(z) |-> 0]]
      ELSE [taken |-> TRUE, batch |-> LabelOf(f, z, LatestIn(f, z)),
            balances |-> ReplayChunks(f, z)[ChunkCount(z) - 1]]

\* compute_state_hash: the parities of equal parts of the accounts, without padding.
HashOf(z, s) ==
    [i \in 1..Segments |->
       LET odd == {a \in ((i - 1) * z.accounts) \div Segments
                            ..(i * z.accounts) \div Segments - 1 : s[a] % 2 = 1}
       IN  Cardinality(odd) % 2]

\* verify_recovered_state_hash
Verdict(hash, z, r) ==
    CASE hash.label # r.batch -> "skipped"
      [] hash.label = r.batch /\ hash.hash = HashOf(z, r.balances) -> "verified"
      [] OTHER -> "failed"

-----------------------------------------------------------------------------
\* The program.  Default balances stand for themselves: 10 instead of 10000000.

DefaultBalances(z) == [a \in AllAccounts(z) |-> IF a < z.accounts THEN 10 ELSE 0]
NoBatch == <<>>
NoArgs == [batch |-> -1, txs |-> <<>>]

ParamInit ==
    /\ size \in Sizes /\ (\A z \in Sizes : z.accounts <= size.accounts)
    /\ main = "down" /\ worker = "idle" /\ balances = <<>> /\ next = 0
    /\ applied = NoBatch /\ args = NoArgs /\ chunkData = <<>>
    /\ logFile = NoLog /\ hashFile = NoFile /\ reference = <<>>
    /\ isReference = FALSE /\ outcome = [taken |-> TRUE, verdict |-> "none"]
    /\ starts = 0 /\ total = 0 /\ states = <<>> /\ batches = <<>> /\ done = 0
    /\ fresh = TRUE

\* A start, up to the processing loop.  A mismatch of the hash is printed, and the
\* program goes on.
StartWith(z, saveref) ==
    /\ main = "down" /\ starts < MaxStarts
    /\ size' = z /\ isReference' = saveref
    /\ LET old  == IF saveref THEN NoLog ELSE logFile
           hash == IF saveref THEN NoFile ELSE hashFile
           new  == Preallocated(old, z)
           r    == Recovery(new, z)
           from == IF r.taken THEN r.balances ELSE DefaultBalances(z)
       IN  /\ logFile' = new /\ hashFile' = hash
           /\ reference' = IF saveref THEN <<>> ELSE reference
           /\ balances' = from /\ states' = <<from>>
           /\ outcome' = [taken |-> r.taken,
                          verdict |-> IF r.taken THEN Verdict(hash, z, r) ELSE "none"]
           /\ fresh' = (old = NoLog)
    /\ main' = "loop" /\ next' = 0 /\ batches' = <<>> /\ done' = 0
    /\ chunkData' = [i \in 0..z.perChunk - 1 |-> 0]
    /\ starts' = starts + 1
    /\ UNCHANGED <<worker, applied, args, total>>

Start == \E z \in Sizes, saveref \in BOOLEAN : StartWith(z, saveref)

\* Main reads a batch and applies it; the worker may still commit the one before.
ReadAndApply ==
    /\ main = "loop" /\ applied = NoBatch /\ total < MaxTotal
    /\ \E txs \in Inputs :
          /\ balances' = ExecutedEach(size, balances, txs)[Len(txs)]
          /\ applied' = ToLog(size, balances, txs)
          /\ states' = Append(states, balances')
          /\ batches' = Append(batches, applied')
    /\ total' = total + 1
    /\ UNCHANGED <<size, main, worker, next, args, chunkData, logFile, hashFile, reference,
                   isReference, outcome, starts, done, fresh>>

\* When no commit is in progress main fills the block, copies the chunk to where the
\* block points, and signals.
HandOver ==
    /\ main = "loop" /\ applied # NoBatch
    /\ worker = "idle"
    /\ args' = [batch |-> next, txs |-> applied]
    /\ chunkData' = [i \in 0..size.perChunk - 1 |->
                       balances[(next % ChunkCount(size)) * size.perChunk + i]]
    /\ worker' = "snapshot" /\ applied' = NoBatch /\ next' = next + 1
    /\ UNCHANGED <<size, main, balances, logFile, hashFile, reference, isReference, outcome,
                   starts, total, states, batches, done, fresh>>

\* The slots of a batch, as they are stored.
SnapshotSlot(z, batch, data) ==
    [i \in 1..SlotCells(z) |->
       IF i = 1 THEN batch + Word * (batch % ChunkCount(z)) ELSE data[i - 2]]

BatchSlot(batch, txs) ==
    [i \in 1..1 + 3 * Len(txs) |->
       CASE i = 1 -> batch + Word * Len(txs)
         [] i # 1 /\ i % 3 = 2 -> txs[(i + 1) \div 3].sender
         [] i # 1 /\ i % 3 = 0 -> txs[(i + 1) \div 3].receiver
         [] i # 1 /\ i % 3 = 1 -> txs[(i + 1) \div 3].amount]

\* The worker copies the snapshot slot: its header and the chunk behind the pointer.
CopySnapshot ==
    /\ main # "down" /\ worker = "snapshot"
    /\ LET k == args.batch % ChunkCount(size)
       IN  logFile' = [logFile EXCEPT
              !.cells = Store(@, SnapshotAt(size, k),
                              SnapshotSlot(size, args.batch, chunkData))]
    /\ worker' = "batch"
    /\ UNCHANGED <<size, main, balances, next, applied, args, chunkData, hashFile, reference,
                   isReference, outcome, starts, total, states, batches, done, fresh>>

\* It copies the transaction slot, syncs both and reports.
CopyBatch ==
    /\ main # "down" /\ worker = "batch"
    /\ LET k == args.batch % ChunkCount(size)
       IN  logFile' = [logFile EXCEPT
              !.cells = Store(@, BatchAt(size, k), BatchSlot(args.batch, args.txs))]
    /\ worker' = "idle" /\ args' = NoArgs /\ done' = done + 1
    /\ UNCHANGED <<size, main, balances, next, applied, chunkData, hashFile, reference,
                   isReference, outcome, starts, total, states, batches, fresh>>

\* Files that are opened for writing are empty; one that cannot be opened stays, and main,
\* which looks at no result, goes on.  Without a batch there is nothing to save.
WriteFiles(hash) ==
    \/ /\ next > 0 /\ main' = "saved"
       /\ hashFile' = hash
       /\ reference' = IF isReference THEN balances ELSE reference
    \/ /\ next > 0 /\ main' = "unsaved"
       /\ hashFile' \in {hashFile, NoFile, hash}
       /\ reference' \in IF isReference THEN {reference, <<>>, balances} ELSE {reference}
    \/ next = 0 /\ main' = "saved" /\ UNCHANGED <<hashFile, reference>>

\* Fault: the label is the number of batches.
SaveHashUnadjusted ==
    /\ main = "loop" /\ applied = NoBatch
    /\ WriteFiles([label |-> next, hash |-> HashOf(size, balances)])
    /\ UNCHANGED <<size, worker, balances, next, applied, args, chunkData, logFile,
                   isReference, outcome, starts, total, states, batches, done, fresh>>

\* The end of the file: the hash, and in a reference run the state, are saved while
\* the last commit may still be under way.
SaveHash ==
    /\ main = "loop" /\ applied = NoBatch
    /\ WriteFiles([label |-> next - 1, hash |-> HashOf(size, balances)])
    /\ UNCHANGED <<size, worker, balances, next, applied, args, chunkData, logFile,
                   isReference, outcome, starts, total, states, batches, done, fresh>>

Gone ==
    /\ main' = "down" /\ worker' = "idle" /\ applied' = NoBatch /\ args' = NoArgs
    /\ balances' = <<>> /\ chunkData' = <<>> /\ states' = <<>> /\ batches' = <<>>
    /\ next' = 0 /\ done' = 0 /\ outcome' = [taken |-> TRUE, verdict |-> "none"]
    /\ UNCHANGED <<size, logFile, hashFile, reference, isReference, starts, total, fresh>>

\* Main waits for the last commit, ends the worker and exits.
Exit == main \in {"saved", "unsaved"} /\ worker = "idle" /\ Gone

\* Killed at any point; the mapped pages outlive the process.
Kill == main # "down" /\ Gone

ParamNext ==
    \/ Start \/ ReadAndApply \/ HandOver \/ SaveHash \/ Exit
    \/ CopySnapshot \/ CopyBatch \/ Kill

ParamSpec == ParamInit /\ [][ParamNext]_paramVars

-----------------------------------------------------------------------------
\* Properties.

\* What a start with the same sizes would recover now.
Restart == Recovery(logFile, size)

\* The log is between two commits, and holds the batches of this run only: it was new,
\* or a full pass has been made, whatever sizes it was written with before.
OwnLog ==
    /\ main # "down" /\ worker \in {"idle", "snapshot"}
    /\ fresh \/ done >= ChunkCount(size)

\* The range sets that are replayed last, for the oldest chunk: those of the last
\* ChunkCount - 1 batches that reach an account, each as its batch and its place in it.
Reaching(a) ==
    {p \in (1..done) \X (1..BatchSize) :
        /\ p[1] > done - ChunkCount(size) + 1 /\ p[2] \in DOMAIN batches[p[1]]
        /\ IsRangeSet(batches[p[1]][p[2]]) /\ InRange(batches[p[1]][p[2]], a)}

LastReaching(a) ==
    CHOOSE p \in Reaching(a) :
        \A q \in Reaching(a) : \/ q[1] < p[1]
                               \/ q[1] = p[1] /\ q[2] <= p[2]

\* None of these batches has a transfer to itself, where recovery adds nothing.
PaysItself(tx) ==
    IsTransfer(tx) /\ GetData(tx.sender) = GetData(tx.receiver) /\ tx.amount # 0

NoSelfPayment ==
    \A b \in 1..done : b > done - ChunkCount(size) + 1 =>
        \A i \in DOMAIN batches[b] : ~PaysItself(batches[b][i])

\* The chunk that is replayed last.
OldestChunk == done % ChunkCount(size)

\* An account comes back as it was, unless its chunk was replayed before another one
\* that found a range set for it: then it is set back to that.
SetBack(a) ==
    IF a \div size.perChunk # OldestChunk /\ Reaching(a) # {}
      THEN batches[LastReaching(a)[1]][LastReaching(a)[2]].amount
      ELSE states[done + 1][a]

\* Exactly this is recovered after a kill between two commits, whatever the build makes of
\* transfers to oneself, if none is replayed.
RecoversUpToRangeSets ==
    OwnLog /\ NoSelfPayment =>
              /\ done > 0 => Restart.batch = done - 1
              /\ Restart.balances = [a \in AllAccounts(size) |-> SetBack(a)]

\* After an orderly end that could write its files, on a log of its own, in which no account
\* was set back, the next start finds the hash verified, and the state a reference run has
\* saved.
OrderlyEndVerified ==
    main = "saved" /\ worker = "idle" /\ next > 0 /\ OwnLog /\ NoSelfPayment
        /\ (\A a \in AllAccounts(size) : SetBack(a) = balances[a]) =>
        /\ Verdict(hashFile, size, Restart) = "verified"
        /\ isReference => reference = Restart.balances

\* "Recovery: Log file parameters mismatch. Cannot recover." (line 426): a log that was
\* written with other sizes is not taken for one.
MismatchIsNoticed ==
    [][\A z \in Sizes : StartWith(z, FALSE) /\ logFile.header # HeaderOf(z)
                            /\ logFile # NoLog => ~outcome'.taken]_paramVars
=============================================================================
