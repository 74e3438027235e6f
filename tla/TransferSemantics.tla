------------------------- MODULE TransferSemantics -------------------------
(***************************************************************************)
(* What a transaction does, and what replaying it on one chunk does        *)
(* (remember_glaze/state_management_multi.c).                              *)
(*                                                                         *)
(* The main thread applies a transaction to the whole state and decides    *)
(* there whether it is accepted; a rejected one is logged with amount 0.   *)
(* Recovery brings the chunks forward one at a time: for chunk k it takes  *)
(* from a logged transaction what concerns the accounts of k, and does not *)
(* check the sender's balance again, because the sender's chunk may be of  *)
(* an older batch.  The module runs the two side by side: live is the      *)
(* state, replica an array whose chunk was once equal to that of live.     *)
(***************************************************************************)
EXTENDS Integers

CONSTANTS
    AccountCount,  \* PADDED_ACCOUNT_COUNT, the length of the state array
    SmallCount,    \* SMALL_ACCOUNT_COUNT: the accounts that are not padding
    ChunkSize,     \* ACCOUNTS_PER_STATE_CHUNK
    MaxId,         \* bound: the largest index or length in a transaction
    Half           \* 2^63: an amount is below 2 * Half, a balance in -Half..Half - 1

SizeAssumption ==
    /\ AccountCount \in Nat /\ SmallCount \in Nat /\ SmallCount <= AccountCount
    /\ ChunkSize \in Nat \ {0}
    /\ MaxId \in Nat /\ Half \in Nat \ {0}

Accounts == 0..AccountCount-1
States == [Accounts -> Int]
ChunkOf(i) == i \div ChunkSize

\* func is the operation in the top bits of both words: 0 for a transfer (data
\* is the sender, arg the receiver), 1 for a range set (data is the start, arg
\* the length); transactions that mix functions or use others do nothing.
Transactions ==
    [func : {"transfer", "range", "other"}, data : 0..MaxId, arg : 0..MaxId,
     amount : 0..2 * Half - 1]

-----------------------------------------------------------------------------
\* apply_transaction_to_state_array

\* The amount is unsigned and is cast to int64_t wherever it is used.
Signed(tx) == IF tx.amount < Half THEN tx.amount ELSE tx.amount - 2 * Half

InRange(tx, i) == tx.data <= i /\ i < tx.data + tx.arg /\ i < SmallCount

Accepts(tx, s) ==
    \/ /\ tx.func = "transfer"
       /\ tx.data < SmallCount /\ tx.arg < SmallCount
       /\ s[tx.data] >= Signed(tx)
    \/ /\ tx.func = "range"
       /\ tx.data < SmallCount /\ tx.arg # 0

Debit(s, i, amount) == [s EXCEPT ![i] = @ - amount]
Credit(s, i, amount) == [s EXCEPT ![i] = @ + amount]

\* The two restrict pointers of a transfer to oneself alias: the build may keep
\* both updates, or let either of the two stores overwrite the other.
TransferResults(tx, s) ==
    IF tx.data # tx.arg
      THEN {Credit(Debit(s, tx.data, Signed(tx)), tx.arg, Signed(tx))}
      ELSE {s, Debit(s, tx.data, Signed(tx)), Credit(s, tx.data, Signed(tx))}

\* Fault: the balance of the sender is not checked.
ApplyResultsUnchecked(tx, s) ==
    CASE tx.func = "transfer" /\ tx.data < SmallCount /\ tx.arg < SmallCount ->
            TransferResults(tx, s)
      [] tx.func = "range" /\ tx.data < SmallCount ->
            {[i \in Accounts |-> IF InRange(tx, i) THEN Signed(tx) ELSE s[i]]}
      [] OTHER -> {s}

ApplyResults(tx, s) ==
    CASE Accepts(tx, s) /\ tx.func = "transfer" -> TransferResults(tx, s)
      [] Accepts(tx, s) /\ tx.func = "range" ->
            {[i \in Accounts |-> IF InRange(tx, i) THEN Signed(tx) ELSE s[i]]}
      [] OTHER -> {s}

\* The amount of a rejected transaction is zeroed in the batch buffer.
Logged(tx, s) == IF Accepts(tx, s) THEN tx ELSE [tx EXCEPT !.amount = 0]

-----------------------------------------------------------------------------
\* recover_state_from_log, the replay of one transaction on chunk k.

\* Fault: the sender's balance is evaluated again.
ReplayOnRechecked(k, tx, r) ==
    LET funds == tx.data < AccountCount /\ r[tx.data] >= Signed(tx)
        delta(i) == (IF i = tx.arg /\ funds THEN Signed(tx) ELSE 0)
                        - (IF i = tx.data /\ funds THEN Signed(tx) ELSE 0)
    IN  [i \in Accounts |->
            CASE ChunkOf(i) = k /\ tx.func = "transfer" -> r[i] + delta(i)
              [] ChunkOf(i) = k /\ tx.func = "range" /\ InRange(tx, i) -> Signed(tx)
              [] OTHER -> r[i]]

\* Fault: the replay does not ask in which chunk an account is.
ReplayOnAllChunks(k, tx, r) ==
    CHOOSE t \in ApplyResults(tx, r) : TRUE

ReplayOn(k, tx, r) ==
    LET known == tx.data < AccountCount
        delta(i) == (IF i = tx.arg /\ known THEN Signed(tx) ELSE 0)
                        - (IF i = tx.data /\ known THEN Signed(tx) ELSE 0)
    IN  [i \in Accounts |->
            CASE ChunkOf(i) = k /\ tx.func = "transfer" -> r[i] + delta(i)
              [] ChunkOf(i) = k /\ tx.func = "range" /\ InRange(tx, i) -> Signed(tx)
              [] OTHER -> r[i]]

-----------------------------------------------------------------------------
VARIABLES
    live,     \* main_state_array
    chunk,    \* the chunk being replayed
    replica,  \* state_array_to_recover
    aliased,  \* history: a transfer to oneself has been accepted
    negative  \* history: an amount that the cast makes negative has been accepted

vars == <<live, chunk, replica, aliased, negative>>

\* A snapshot of one chunk; the rest of the array holds something else.
Init ==
    /\ live \in [Accounts -> 0..Half - 1]
    /\ \A i \in Accounts : i >= SmallCount => live[i] = 0
    /\ chunk \in {ChunkOf(i) : i \in Accounts}
    /\ replica = [i \in Accounts |-> IF ChunkOf(i) = chunk THEN live[i] ELSE 0]
    /\ aliased = FALSE /\ negative = FALSE

\* One transaction of a batch, applied, logged, and replayed from the log; a
\* behaviour is followed up to the first transfer to oneself, or balance that overflows.
Step(tx) ==
    /\ ~aliased
    /\ live' \in ApplyResults(tx, live)
    /\ \A i \in Accounts : live'[i] \in -Half..Half - 1
    /\ replica' = ReplayOn(chunk, Logged(tx, live), replica)
    /\ aliased' = (aliased \/ (Accepts(tx, live) /\ tx.func = "transfer"
                                  /\ tx.data = tx.arg))
    /\ negative' = (negative \/ (Accepts(tx, live) /\ Signed(tx) < 0))
    /\ UNCHANGED chunk

Next == \E tx \in Transactions : Step(tx)

Spec == Init /\ [][Next]_vars

-----------------------------------------------------------------------------
\* Properties.

\* Both arrays keep their shape.
TransferTypeOK ==
    /\ live \in States /\ replica \in States
    /\ chunk \in {ChunkOf(i) : i \in Accounts} /\ aliased \in BOOLEAN
    /\ negative \in BOOLEAN

\* Replaying the log on a chunk by itself, with the accounts of other chunks
\* out of date, follows the state of that chunk exactly, as long as no account
\* has paid itself; negative amounts included.
ChunkTracksState ==
    ~aliased => \A i \in Accounts : ChunkOf(i) = chunk => replica[i] = live[i]

\* The replay of a chunk writes to no account of another chunk.
OtherChunksUntouched ==
    \A i \in Accounts : ChunkOf(i) # chunk => replica[i] = 0

\* No balance goes below zero: a transfer is checked against the balance that
\* all earlier transactions of the batch have left.  This holds for amounts below 2^63;
\* a larger one is a negative amount to the check, and to a range set.
NoOverdraft == ~aliased /\ ~negative => \A i \in Accounts : live[i] >= 0

\* The padding at the end of the last chunk stays zero, so the hash over the
\* accounts without it covers all there is.
PaddingStaysZero ==
    \A i \in Accounts : i >= SmallCount => live[i] = 0
=============================================================================
