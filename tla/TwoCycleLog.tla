----------------------------- MODULE TwoCycleLog -----------------------------
(***************************************************************************)
(* The test program remember_glaze/test.c: a log of two cycles, each with  *)
(* a snapshot and a transaction slot for every chunk.  Batches go to one   *)
(* cycle while the header names the other, the last one completed; from it *)
(* recovery takes the chunks, and from the cycle being written the         *)
(* transactions.  It applies them to the whole state, without a look at    *)
(* the age of each chunk.                                                  *)
(*                                                                         *)
(* A single thread applies and logs (another one only calls msync without  *)
(* waiting).  The program is killed anywhere and started again on the log  *)
(* it finds; the mapped pages outlive it, and power loss is not modelled.  *)
(***************************************************************************)
EXTENDS Integers, Sequences, Functions, FiniteSetsExt

CONSTANTS
    Ring,        \* NUM_STATE_CHUNKS
    PerChunk,    \* ACCOUNTS_PER_STATE_CHUNK
    Small,       \* SMALL_ACCOUNT_COUNT
    TestBatches, \* the batches a transaction file is made of
    MaxFile,     \* bound: batches in a file
    MaxAll,      \* bound: batches in all runs together
    MaxRuns      \* bound: starts of the program

Transactions == [func : {"transfer", "range"}, from : Nat, to : Nat, amount : Int]

\* A batch has at least one transaction: reading none ends the file.
TestAssumption ==
    /\ Ring \in Nat \ {0} /\ PerChunk \in Nat \ {0} /\ Small \in 0..Ring * PerChunk
    /\ TestBatches \subseteq Seq(Transactions) \ {<<>>}
    /\ MaxFile \in Nat /\ MaxAll \in Nat /\ MaxRuns \in Nat

VARIABLES
    stage,     \* place in main: "down", "apply", "snapshot", "log", "header", and at the
               \* end "saved", or "unsaved" when the hash file could not be opened
    accounts,  \* main_state_array
    number,    \* current_batch_num_for_tx_file_processing
    buffer,    \* tx_batch_buf
    label,     \* recovered_batch, then last_batch_processed_from_tx_file_this_run
    oldest,    \* oldest_cycle in the header
    chunkSlots, batchSlots,  \* the slots, by cycle and chunk
    savedHash, \* state_hash.dat; a hash stands for the balances it was made from
    refused,   \* the last start has ended with a mismatch of the hash
    runs, all, \* history: starts, batches applied in all of them
    logged,    \* history: batches of this run whose transactions are in the log
    past,      \* history: the state at the start of this run and after each batch
    inputs,    \* history: the batches of this run
    newLog     \* history: no earlier run has written to the log

logState == <<oldest, chunkSlots, batchSlots>>
testVars == <<stage, accounts, number, buffer, label, logState, savedHash, refused,
              runs, all, logged, past, inputs, newLog>>

ChunkIds == 0..Ring - 1
AllAccounts == 0..Ring * PerChunk - 1
ChunkAccounts(k) == k * PerChunk..(k + 1) * PerChunk - 1
CycleOf(b) == (b \div Ring) % 2
NoHash == [label |-> -1, hash |-> <<>>]

-----------------------------------------------------------------------------
\* apply_transaction_to_state_array.  A transaction that is not applied stays in the
\* buffer, and in the log, as it is.

Applied(s, tx) ==
    CASE /\ tx.func = "transfer" /\ tx.from < Small /\ tx.to < Small
         /\ s[tx.from] >= tx.amount ->
           [[s EXCEPT ![tx.from] = @ - tx.amount] EXCEPT ![tx.to] = @ + tx.amount]
      [] tx.func = "range" /\ tx.to # 0 /\ tx.from + tx.to <= Small ->
           [a \in AllAccounts |-> IF a \in tx.from..tx.from + tx.to - 1 THEN tx.amount
                                                                       ELSE s[a]]
      [] OTHER -> s

\* The states on the way through a sequence of transactions, and the last of them.
AppliedEach(s, txs) ==
    LET after[i \in 0..Len(txs)] == IF i = 0 THEN s ELSE Applied(after[i - 1], txs[i])
    IN  after

ApplyAll(s, txs) == AppliedEach(s, txs)[Len(txs)]

-----------------------------------------------------------------------------
\* recover_state_from_log

\* Fault: the lowest number of the completed cycle instead of the highest.
BaseLabelMin == Min({chunkSlots[oldest][k].batch : k \in ChunkIds})

BaseLabel == Max({chunkSlots[oldest][k].batch : k \in ChunkIds})

Base == [a \in AllAccounts |-> chunkSlots[oldest][a \div PerChunk].data[a]]

\* Slots of the other cycle with higher numbers and with transactions.
Newer == {k \in ChunkIds : /\ batchSlots[1 - oldest][k].batch > BaseLabel
                           /\ batchSlots[1 - oldest][k].txs # <<>>}

\* qsort orders the transactions by their batch; it promises no order among equals.
Orders(txs) ==
    {[i \in DOMAIN txs |-> txs[p[i]]] : p \in Bijection(DOMAIN txs, DOMAIN txs)}

Replayed(states, txs) == {ApplyAll(s, order) : s \in states, order \in Orders(txs)}

RecoveredLabel ==
    IF Newer = {} THEN BaseLabel
                  ELSE Max({batchSlots[1 - oldest][k].batch : k \in Newer})

\* One number of the replay, from the states before it.  No two slots of a cycle have the
\* same number and transactions.
ReplayedNumber(states, b) ==
    LET found == {k \in Newer : batchSlots[1 - oldest][k].batch = b}
        slot == CHOOSE k \in found : TRUE
    IN  IF found = {} THEN states ELSE Replayed(states, batchSlots[1 - oldest][slot].txs)

\* All states a start may recover: the numbers above those of the chunks, in their order.
ReplayedEach ==
    LET after[i \in 0..RecoveredLabel - BaseLabel] ==
            IF i = 0 THEN {Base} ELSE ReplayedNumber(after[i - 1], BaseLabel + i)
    IN  after

RecoveredStates == ReplayedEach[RecoveredLabel - BaseLabel]

\* compute_state_hash leaves the padding out.
HashOf(s) == [a \in 0..Small - 1 |-> s[a]]

\* verify_recovered_state_hash
Mismatch(s) == savedHash.label = RecoveredLabel /\ savedHash.hash # HashOf(s)

-----------------------------------------------------------------------------
\* A new log: the zeros pass for a snapshot of batch 0, so that nothing starts with
\* the default balances.
TestInit ==
    /\ stage = "down" /\ accounts = [a \in AllAccounts |-> 0] /\ number = 0
    /\ buffer = <<>> /\ label = -1 /\ oldest = 0
    /\ chunkSlots = [c \in 0..1 |-> [k \in ChunkIds |->
                       [batch |-> 0, data |-> [a \in ChunkAccounts(k) |-> 0]]]]
    /\ batchSlots = [c \in 0..1 |-> [k \in ChunkIds |-> [batch |-> 0, txs |-> <<>>]]]
    /\ savedHash = NoHash /\ refused = FALSE
    /\ runs = 0 /\ all = 0 /\ logged = 0 /\ past = <<>> /\ inputs = <<>> /\ newLog = TRUE

\* A start, up to the loop.  If the hash does not match the program ends.
Start ==
    /\ stage = "down" /\ runs < MaxRuns
    /\ runs' = runs + 1
    /\ \E s \in RecoveredStates :
          IF Mismatch(s)
            THEN refused' = TRUE /\ UNCHANGED <<stage, accounts, label, past>>
            ELSE /\ refused' = FALSE /\ stage' = "apply"
                 /\ accounts' = s /\ past' = <<s>> /\ label' = RecoveredLabel
    /\ newLog' = (all = 0)
    /\ UNCHANGED <<number, buffer, logState, savedHash, all, logged, inputs>>

ReadAndApply ==
    /\ stage = "apply" /\ number < MaxFile /\ all < MaxAll
    /\ \E txs \in TestBatches :
          /\ buffer' = txs /\ inputs' = Append(inputs, txs)
          /\ accounts' = ApplyAll(accounts, txs)
          /\ past' = Append(past, ApplyAll(accounts, txs))
    /\ all' = all + 1 /\ stage' = "snapshot"
    /\ UNCHANGED <<number, label, logState, savedHash, refused, runs, logged, newLog>>

CopyChunk ==
    /\ stage = "snapshot"
    /\ LET k == number % Ring
       IN  chunkSlots' = [chunkSlots EXCEPT ![CycleOf(number)][k] =
              [batch |-> number, data |-> [a \in ChunkAccounts(k) |-> accounts[a]]]]
    /\ stage' = "log"
    /\ UNCHANGED <<accounts, number, buffer, label, oldest, batchSlots, savedHash, refused,
                   runs, all, logged, past, inputs, newLog>>

\* The header is due when the last slot of a cycle has been written.
CopyTransactions ==
    /\ stage = "log"
    /\ batchSlots' = [batchSlots EXCEPT ![CycleOf(number)][number % Ring] =
                        [batch |-> number, txs |-> buffer]]
    /\ logged' = logged + 1 /\ label' = number
    /\ IF (number + 1) % Ring = 0
         THEN stage' = "header" /\ UNCHANGED number
         ELSE stage' = "apply" /\ number' = number + 1
    /\ UNCHANGED <<accounts, buffer, oldest, chunkSlots, savedHash, refused, runs, all,
                   past, inputs, newLog>>

UpdateHeader ==
    /\ stage = "header"
    /\ oldest' = CycleOf(number)
    /\ stage' = "apply" /\ number' = number + 1
    /\ UNCHANGED <<accounts, buffer, label, chunkSlots, batchSlots, savedHash, refused,
                   runs, all, logged, past, inputs, newLog>>

\* The file is truncated when it is opened, and a write that fails leaves no hash.
WriteHash(hash) ==
    \/ stage' = "saved" /\ savedHash' \in {NoHash, hash}
    \/ stage' = "unsaved" /\ UNCHANGED savedHash

\* Fault: the hash is labelled with the number of the next batch.
SaveHashNext ==
    /\ stage = "apply"
    /\ WriteHash([label |-> number, hash |-> HashOf(accounts)])
    /\ UNCHANGED <<accounts, number, buffer, label, logState, refused, runs, all, logged,
                   past, inputs, newLog>>

\* The end of the file, which may be empty.  Main does not look at the result of saving:
\* when the hash file cannot be opened it ends in the same way, and the old hash stays.
SaveHash ==
    /\ stage = "apply"
    /\ WriteHash([label |-> label, hash |-> HashOf(accounts)])
    /\ UNCHANGED <<accounts, number, buffer, label, logState, refused, runs, all, logged,
                   past, inputs, newLog>>

Gone ==
    /\ stage' = "down" /\ accounts' = [a \in AllAccounts |-> 0] /\ number' = 0
    /\ buffer' = <<>> /\ label' = -1 /\ logged' = 0 /\ past' = <<>> /\ inputs' = <<>>
    /\ UNCHANGED <<logState, savedHash, refused, runs, all, newLog>>

Exit == stage \in {"saved", "unsaved"} /\ Gone

Kill == stage \notin {"down", "saved", "unsaved"} /\ Gone

TestNext ==
    \/ Start \/ ReadAndApply \/ CopyChunk \/ CopyTransactions \/ UpdateHeader
    \/ SaveHash \/ Exit \/ Kill

TestSpec == TestInit /\ [][TestNext]_testVars

-----------------------------------------------------------------------------
\* Properties.

\* The batches in the log that matter are of this run, and a cycle is complete: the log
\* was new, or both cycles have been rewritten.
OwnLog ==
    stage # "down" /\ logged >= (IF newLog THEN Ring ELSE 2 * Ring)

\* The first batch of the cycle recovery starts from.
FirstOfBase == BaseLabel + 1 - Ring

\* No batch of that cycle has changed a chunk after its snapshot.
Settled ==
    \A k \in ChunkIds : \A a \in ChunkAccounts(k) :
        past[FirstOfBase + k + 2][a] = past[BaseLabel + 2][a]

\* The outcome of a batch does not depend on the order of its transactions.
OrderFree(i) == Replayed({past[i]}, inputs[i]) = {past[i + 1]}

Recoverable == OwnLog /\ Settled /\ \A i \in BaseLabel + 2..logged : OrderFree(i)

\* What a start recovers is exactly the last batch in the log, killed anywhere, inside a
\* commit or before the header is updated included, when no batch of the completed cycle
\* has touched a chunk after its snapshot, and the order in later batches is irrelevant.
TwoCyclesRecover ==
    Recoverable => /\ RecoveredLabel = logged - 1
                   /\ RecoveredStates = {past[logged + 1]}

\* After an orderly end that could open the hash file the next start then accepts this
\* log, and has compared it with the hash if that was written.  An older hash that stayed
\* may have the label of this log, of an earlier run, and refuse it.
OrderlyEndAccepted ==
    stage = "saved" /\ Recoverable =>
        /\ \A s \in RecoveredStates : ~Mismatch(s)
        /\ savedHash # NoHash => savedHash.label = RecoveredLabel

\* "Cycle %u fully checkpointed" (line 624): a complete cycle is a copy of the state.
\* The chunks of a cycle are of different ages, and recovery never looks at the
\* transactions logged with them.
CompletedCycleIsACopy == OwnLog => RecoveredStates = {past[logged + 1]}

\* "FATAL: Post-recovery state hash verification FAILED" (line 535) is for damaged logs.
\* It also meets logs of an orderly end, and then every later start.
NeverRefusedAfterOrderlyEnd == stage = "saved" => \A s \in RecoveredStates : ~Mismatch(s)
=============================================================================
