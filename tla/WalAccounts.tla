----------------------------- MODULE WalAccounts -----------------------------
(***************************************************************************)
(* The baseline with its number of accounts on the command line and with   *)
(* range sets (Report_testing/scalability_testing/                         *)
(* log_optim_parameterized.c).                                             *)
(*                                                                         *)
(* Threads and files are those of log_optim in WalSnapshot; here the files *)
(* hold transactions and balances, a run may have another number of        *)
(* accounts than the one that wrote them, a snapshot is written account by *)
(* account, and the log may stay where it is when it cannot be removed.    *)
(***************************************************************************)
EXTENDS Integers, Sequences

CONSTANTS
    Counts,      \* the command lines to consider
    Inputs,      \* the batches a transaction file is made of
    Initial,     \* INITIAL_BALANCE
    BatchesARun, \* TOTAL_BATCHES
    SnapshotEach,\* MAX_LOG_BATCHES
    SelfGain,    \* what a transfer from an account to itself adds to it, in amounts
    MaxStarts,   \* bound: starts of the program
    Nothing      \* a file that does not exist

\* The amount is a uint64_t that is cast to int64_t where it is used: from 2^63 on it is
\* negative.  Here it is what the cast gives.
Transactions ==
    [func : {"transfer", "range", "other"}, from : Nat, to : Nat, amount : Int]

AccountAssumption ==
    /\ Counts \subseteq Nat \ {0} /\ Inputs \subseteq Seq(Transactions) /\ Initial \in Nat
    /\ SelfGain \in -1..1
    /\ BatchesARun \in Nat /\ SnapshotEach \in Nat \ {0} /\ MaxStarts \in Nat
    /\ Nothing \notin Seq(Transactions) /\ Nothing \notin Seq(Int)

VARIABLES
    up,        \* "down" or "run"
    at,        \* place of the main thread
    thread,    \* the snapshot thread
    count,     \* g_max_accounts
    balances,  \* g_state; account a is at a + 1
    batch,     \* the batch read last
    task,      \* snapshot_state, and as history the number of its last batch
    busy,      \* g_snapshot_in_progress
    ended,     \* g_processed_batches
    walFile,   \* state_log.bin
    handle,    \* log_fp: "closed", to that file ("linked"), or to a removed one
    snapFile,  \* state_snapshot.bin, as far as it has been written
    starts,    \* history: starts of the program
    counts,    \* history: command lines used
    kinds,     \* history: kinds of transactions used
    safe,      \* history: balances after the last batch reported as safely on disk
    newest,    \* history: balances after the last batch
    applied,   \* history: batches of this run, and of them:
    inLog,     \*     the last one in the log
    orphan,    \*     the last one in a removed log
    inSnapshot,\*     the last one in the snapshot
    whole,     \* history: the snapshot is not being written, or cut short
    repeats    \* history: the snapshot has batches that are still in the log, too

marks == <<applied, inLog, orphan, inSnapshot, whole, repeats>>
process == <<at, thread, count, balances, batch, task, busy, ended, handle>>
accountVars == <<up, process, walFile, snapFile, starts, counts, kinds, safe, newest,
                 marks>>

NoTask == [balances |-> <<>>, last |-> 0]

-----------------------------------------------------------------------------
\* apply_transaction_to_state_array, with as many accounts as s has.  A transaction
\* is logged as it was read.

\* From and to are restrict pointers.  For one account the compiler may let the second
\* write see the first, or either of them prevail: the build decides, once for all.
Received(tx) == IF tx.from = tx.to THEN (1 + SelfGain) * tx.amount ELSE tx.amount

Applied(s, tx) ==
    CASE /\ tx.func = "transfer" /\ tx.from < Len(s) /\ tx.to < Len(s)
         /\ s[tx.from + 1] >= tx.amount ->
           [[s EXCEPT ![tx.from + 1] = @ - tx.amount] EXCEPT ![tx.to + 1] = @ + Received(tx)]
      [] tx.func = "range" ->
           [i \in DOMAIN s |->
              IF i > tx.from /\ i <= tx.from + tx.to THEN tx.amount ELSE s[i]]
      [] OTHER -> s

\* History: transfers of a negative amount, and to oneself, are kinds of their own.
Kind(tx) ==
    IF tx.func # "transfer" THEN tx.func
    ELSE IF tx.amount < 0 THEN "negative" ELSE IF tx.from = tx.to THEN "self" ELSE "transfer"

\* The balances after each of the transactions, and after all.
AppliedEach(s, txs) ==
    LET after[i \in 0..Len(txs)] ==
            IF i = 0 THEN s ELSE Applied(after[i - 1], txs[i])
    IN  after

ApplyAll(s, txs) == AppliedEach(s, txs)[Len(txs)]

\* Fault: what fread has returned is not looked at; the rest is what malloc found.
LoadsUnchecked(z) == TRUE

\* load_or_init_state: a snapshot with fewer accounts is refused, one with more is cut.
Loads(z) == IF snapFile = Nothing THEN TRUE ELSE Len(snapFile) >= z

Loaded(z) ==
    [i \in 1..z |-> IF snapFile = Nothing THEN Initial
                    ELSE IF i \in DOMAIN snapFile THEN snapFile[i] ELSE 0]

WalContents == IF walFile = Nothing THEN <<>> ELSE walFile

\* ... and replay_log: what a start with z accounts begins with.
Recovered(z) == ApplyAll(Loaded(z), WalContents)

-----------------------------------------------------------------------------
AccountInit ==
    /\ up = "down" /\ at = "apply" /\ thread = "idle" /\ count = 0 /\ balances = <<>>
    /\ batch = <<>> /\ task = NoTask /\ busy = FALSE /\ ended = 0 /\ handle = "closed"
    /\ walFile = Nothing /\ snapFile = Nothing
    /\ starts = 0 /\ counts = {} /\ kinds = {} /\ safe = <<>> /\ newest = <<>>
    /\ applied = 0 /\ inLog = 0 /\ orphan = 0 /\ inSnapshot = 0
    /\ whole = TRUE /\ repeats = FALSE

\* What a run begins with is from then on the state that must not be lost.  A start
\* that is refused leaves everything as it was.
Start ==
    /\ up = "down" /\ starts < MaxStarts
    /\ starts' = starts + 1
    /\ \E z \in Counts :
         \/ /\ ~Loads(z)
            /\ UNCHANGED <<up, count, counts, balances, safe, newest, walFile, handle, marks>>
         \/ /\ Loads(z)
            /\ up' = "run" /\ count' = z /\ counts' = counts \union {z}
            /\ balances' = Recovered(z) /\ safe' = balances' /\ newest' = balances'
            /\ walFile' = WalContents /\ handle' = "linked"
            /\ applied' = 0 /\ inLog' = 0 /\ orphan' = 0 /\ inSnapshot' = 0
            /\ whole' = TRUE /\ repeats' = FALSE
    /\ UNCHANGED <<at, thread, batch, task, busy, ended, snapFile, kinds>>

-----------------------------------------------------------------------------
\* The main thread.  The file is read from its start again when it ends.

ReadAndApply ==
    /\ up = "run" /\ at = "apply" /\ ended < BatchesARun
    /\ \E txs \in Inputs :
          /\ batch' = txs /\ balances' = ApplyAll(balances, txs)
          /\ kinds' = kinds \union {Kind(txs[i]) : i \in DOMAIN txs}
    /\ newest' = balances' /\ applied' = applied + 1
    /\ at' = "append"
    /\ UNCHANGED <<up, thread, count, task, busy, ended, walFile, handle, snapFile, starts,
                   counts, safe, inLog, orphan, inSnapshot, whole, repeats>>

AppendToLog ==
    /\ up = "run" /\ at = "append"
    /\ IF handle = "linked"
         THEN walFile' = walFile \o batch /\ inLog' = applied /\ UNCHANGED orphan
         ELSE orphan' = applied /\ UNCHANGED <<walFile, inLog>>
    /\ at' = "fsync"
    /\ UNCHANGED <<up, thread, count, balances, batch, task, busy, ended, handle, snapFile,
                   starts, counts, kinds, safe, newest, applied, inSnapshot, whole, repeats>>

FsyncLog ==
    /\ up = "run" /\ at = "fsync"
    /\ safe' = newest /\ ended' = ended + 1
    /\ at' = IF ended' % SnapshotEach = 0 THEN "close" ELSE "apply"
    /\ UNCHANGED <<up, thread, count, balances, batch, task, busy, walFile, handle,
                   snapFile, starts, counts, kinds, newest, marks>>

CloseLog ==
    /\ up = "run" /\ at = "close"
    /\ handle' = "closed" /\ at' = "create"
    /\ UNCHANGED <<up, thread, count, balances, batch, task, busy, ended, walFile, snapFile,
                   starts, counts, kinds, safe, newest, marks>>

\* create_snapshot_async waits for the previous one, copies the state and starts the
\* thread, or goes on without, for want of memory or of a thread.
StartSnapshot ==
    /\ up = "run" /\ at = "create" /\ (busy => thread = "idle")
    /\ \/ task' = [balances |-> balances, last |-> applied] /\ busy' = TRUE
          /\ thread' = "open"
       \/ busy' = FALSE /\ UNCHANGED <<task, thread>>
    /\ at' = "reopen"
    /\ UNCHANGED <<up, count, balances, batch, ended, walFile, handle, snapFile, starts,
                   counts, kinds, safe, newest, marks>>

\* Fault: opened for writing, which truncates it.
ReopenTruncated ==
    /\ up = "run" /\ at = "reopen"
    /\ walFile' = <<>> /\ handle' = "linked" /\ at' = "apply"
    /\ UNCHANGED <<up, thread, count, balances, batch, task, busy, ended, snapFile, starts,
                   counts, kinds, safe, newest, marks>>

ReopenLog ==
    /\ up = "run" /\ at = "reopen"
    /\ walFile' = WalContents /\ handle' = "linked" /\ at' = "apply"
    /\ UNCHANGED <<up, thread, count, balances, batch, task, busy, ended, snapFile, starts,
                   counts, kinds, safe, newest, marks>>

Gone ==
    /\ up' = "down" /\ at' = "apply" /\ thread' = "idle" /\ count' = 0
    /\ balances' = <<>> /\ batch' = <<>> /\ task' = NoTask /\ busy' = FALSE /\ ended' = 0
    /\ handle' = "closed"
    /\ UNCHANGED <<walFile, snapFile, starts, counts, kinds, safe, newest, marks>>

Finish ==
    /\ up = "run" /\ at = "apply" /\ ended = BatchesARun
    /\ busy => thread = "idle"
    /\ Gone

\* The process is killed, or exits on an error.
Kill == up = "run" /\ Gone

-----------------------------------------------------------------------------
\* The snapshot thread.

\* The old snapshot is truncated.  If that fails the thread ends.
OpenSnapshot ==
    /\ up = "run" /\ thread = "open"
    /\ \/ thread' = "write" /\ snapFile' = <<>> /\ whole' = FALSE
       \/ thread' = "idle" /\ UNCHANGED <<snapFile, whole>>
    /\ UNCHANGED <<up, at, count, balances, batch, task, busy, ended, walFile, handle,
                   starts, counts, kinds, safe, newest, applied, inLog, orphan, inSnapshot,
                   repeats>>

\* Account by account, to the last one or to where the write stops short.
WriteAccount ==
    /\ up = "run" /\ thread = "write"
    /\ \/ /\ snapFile' = Append(snapFile, task.balances[Len(snapFile) + 1])
          /\ whole' = (Len(snapFile') = count)
          /\ IF whole' THEN thread' = "remove" /\ inSnapshot' = task.last /\ repeats' = TRUE
                       ELSE UNCHANGED <<thread, inSnapshot, repeats>>
       \/ thread' = "remove" /\ UNCHANGED <<snapFile, whole, inSnapshot, repeats>>
    /\ UNCHANGED <<up, at, count, balances, batch, task, busy, ended, walFile, handle,
                   starts, counts, kinds, safe, newest, applied, inLog, orphan>>

\* The log goes, with what has been appended to it; or it cannot be removed.
RemoveLog ==
    /\ up = "run" /\ thread = "remove"
    /\ \/ /\ walFile' = Nothing /\ repeats' = FALSE
          /\ handle' = IF handle = "linked" THEN "removed" ELSE handle
          /\ orphan' = IF WalContents = <<>> THEN orphan ELSE inLog
       \/ UNCHANGED <<walFile, repeats, handle, orphan>>
    /\ thread' = "done"
    /\ UNCHANGED <<up, at, count, balances, batch, task, busy, ended, snapFile, starts,
                   counts, kinds, safe, newest, applied, inLog, inSnapshot, whole>>

SnapshotDone ==
    /\ up = "run" /\ thread = "done"
    /\ thread' = "idle" /\ busy' = FALSE /\ task' = NoTask
    /\ UNCHANGED <<up, at, count, balances, batch, ended, walFile, handle, snapFile, starts,
                   counts, kinds, safe, newest, marks>>

-----------------------------------------------------------------------------
AccountNext ==
    \/ Start \/ ReadAndApply \/ AppendToLog \/ FsyncLog \/ CloseLog \/ StartSnapshot
    \/ ReopenLog \/ Finish \/ Kill
    \/ OpenSnapshot \/ WriteAccount \/ RemoveLog \/ SnapshotDone

AccountSpec == AccountInit /\ [][AccountNext]_accountVars

-----------------------------------------------------------------------------
\* Properties.

Transfers == {i \in DOMAIN WalContents : WalContents[i].func = "transfer"}

\* Some transfer in the log would be refused by a run with z accounts only.
Crosses(z) ==
    \E i \in Transfers : (WalContents[i].from < z) # (WalContents[i].to < z)

\* A kill at this moment loses nothing: no batch is in a removed log only, and the
\* snapshot is whole.  That the log repeats it does no harm to range sets.
Unharmed ==
    /\ whole /\ orphan <= inSnapshot
    /\ repeats => Transfers = {}

\* After a kill outside of these windows a start with the same number of accounts
\* recovers the balances after the last batch, or after the last one reported; one
\* with fewer accounts those it has, unless the log has a transfer across its limit.
RecoversPrefix ==
    up = "run" /\ Unharmed =>
        \A z \in Counts : z <= count /\ (z < count => ~Crosses(z)) =>
            Recovered(z) \in {SubSeq(safe, 1, z), SubSeq(newest, 1, z)}

Sums(s) == LET sum[i \in 0..Len(s)] == IF i = 0 THEN 0 ELSE sum[i - 1] + s[i] IN sum
Total(s) == Sums(s)[Len(s)]

\* Whatever is lost or replayed twice, at any number of kills: as long as there are
\* only transfers, between two accounts each and of less than 2^63, and the number of
\* accounts stays the same, no money is made or lost, and no account is overdrawn.
MoneyKept ==
    up = "run" /\ kinds \subseteq {"transfer"} /\ (\E z \in Counts : counts = {z}) =>
        /\ Total(balances) = count * Initial
        /\ \A i \in DOMAIN balances : balances[i] >= 0

\* "Snapshot file incomplete or corrupted" (line 208): a snapshot that was cut short is
\* not taken.  It is by a run with no more accounts than had been written.
IncompleteRefused == up = "down" /\ ~whole => \A z \in Counts : ~Loads(z)
=============================================================================
