--------------------------- MODULE HybridLogProofs ---------------------------
(***************************************************************************)
(* That the hybrid log holds what its run has done, for every number and   *)
(* size of chunks and every input: what main records of a batch reproduces *)
(* it, the snapshots in the ring are versions of the state, and input of   *)
(* range sets alone is recovered.  Of Remember Glaze, that a chunk can be  *)
(* replayed by itself, for every sequence of transactions.  And of its     *)
(* parameterized copies, that a restart finds exactly the state after the  *)
(* last batch up to the accounts that are set back, whatever sizes the log *)
(* was written with before.                                                *)
(*                                                                         *)
(* The loops of the program are recursive functions here.  That such a     *)
(* function exists is shown first, for each of them; after that a loop is  *)
(* what its steps say, and a fact about it is shown from each step to the  *)
(* next.                                                                   *)
(***************************************************************************)
EXTENDS MCHybrid, FiniteSetTheorems, SequenceTheorems, WellFoundedInduction, TLAPS

-----------------------------------------------------------------------------
\* Numbers.

\* A nonempty set of naturals has a least element.
LEMMA LeastOf ==
    ASSUME NEW M \in SUBSET Nat, M # {}
    PROVE  \E n \in M : \A m \in M : n <= m
<1>. DEFINE ordering == StrictSubsetOrdering(Nat)
            intervals == {0..n : n \in M}
<1>1. IsWellFoundedOn(ordering, FiniteSubsetsOf(Nat))
  BY FS_StrictSubsetOrderingWellFounded
<1>2. intervals \subseteq FiniteSubsetsOf(Nat) /\ intervals # {}
  <2>1. \A n \in M : 0..n \in SUBSET Nat /\ IsFiniteSet(0..n)
    BY FS_Interval
  <2>. QED  BY <2>1 DEF FiniteSubsetsOf
<1>. HIDE DEF ordering
<1>3. PICK least \in intervals : \A i \in intervals : ~ (<<i, least>> \in ordering)
  BY <1>1, <1>2, WFMin
<1>4. PICK n \in M : least = 0..n
  BY <1>3
<1>5. \A m \in M : m < n => <<0..m, 0..n>> \in ordering
  <2>1. \A m \in M : m < n => 0..m \subseteq 0..n /\ n \notin 0..m /\ n \in 0..n
    OBVIOUS
  <2>2. \A m \in M : 0..m \in SUBSET Nat
    OBVIOUS
  <2>3. \A m \in M : m < n => 0..m # 0..n
    BY <2>1
  <2>. QED  BY <2>1, <2>2, <2>3 DEF ordering, StrictSubsetOrdering
<1>6. \A m \in M : 0..m \in intervals
  OBVIOUS
<1>. HIDE DEF intervals
<1>7. \A m \in M : ~ (m < n)
  BY <1>3, <1>4, <1>5, <1>6
<1>. QED  BY <1>7

\* Induction: what holds of 0, and of the next number with each, holds up to n.
LEMMA UpTo ==
    ASSUME NEW n \in Nat, NEW H, 0 \in H, \A i \in 0..n - 1 : i \in H => i + 1 \in H
    PROVE  \A i \in 0..n : i \in H
<1>. SUFFICES ASSUME NEW j \in 0..n, j \notin H PROVE FALSE
  OBVIOUS
<1>. DEFINE M == {i \in 0..n : i \notin H}
<1>1. PICK least \in M : \A i \in M : least <= i
  <2>1. M \in SUBSET Nat /\ M # {}
    OBVIOUS
  <2>. QED  BY <2>1, LeastOf
<1>2. least # 0 /\ least - 1 \in 0..n - 1
  BY <1>1
<1>3. least - 1 \in H
  BY <1>1, <1>2
<1>. QED  BY <1>1, <1>2, <1>3

-----------------------------------------------------------------------------
\* What the loops compute.

\* The loop over a batch.
LEMMA EffectsAre ==
    ASSUME NEW s, NEW txs, Len(txs) \in Nat
    PROVE  LET e == Effects(s, txs)
           IN  /\ e[0] = [state |-> s, writes |-> <<>>, ranges |-> <<>>, txs |-> <<>>]
               /\ \A i \in 1..Len(txs) : e[i] = ApplyTx(e[i - 1], txs[i])
<1>. DEFINE start == [state |-> s, writes |-> <<>>, ranges |-> <<>>, txs |-> <<>>]
            Is(f, n) == f = [i \in 0..n |-> IF i = 0 THEN start
                                          ELSE ApplyTx(f[i - 1], txs[i])]
            H == {n \in 0..Len(txs) : \E f : Is(f, n)}
<1>. HIDE DEF start, Is
<1>1. 0 \in H
  <2>1. Is([i \in 0..0 |-> start], 0)
    BY DEF Is
  <2>. QED  BY <2>1
<1>2. ASSUME NEW n \in 0..Len(txs) - 1, n \in H PROVE n + 1 \in H
  <2>1. PICK f : Is(f, n)
    BY <1>2
  <2>. DEFINE g == [i \in 0..n + 1 |-> IF i <= n THEN f[i]
                                    ELSE ApplyTx(f[n], txs[n + 1])]
  <2>2. ASSUME NEW i \in 0..n + 1
        PROVE  g[i] = IF i = 0 THEN start ELSE ApplyTx(g[i - 1], txs[i])
    <3>1. CASE i = 0
      BY <2>1, <3>1 DEF Is
    <3>2. CASE i \in 1..n
      BY <2>1, <3>2 DEF Is
    <3>3. CASE i = n + 1
      BY <3>3
    <3>. QED  BY <3>1, <3>2, <3>3
  <2>3. Is(g, n + 1)
    BY <2>2 DEF Is
  <2>. HIDE DEF g
  <2>. QED  BY <2>3
<1>3. Len(txs) \in H
  <2>. HIDE DEF H
  <2>1. \A i \in 0..Len(txs) : i \in H
    BY <1>1, <1>2, UpTo
  <2>. QED  BY <2>1
<1>4. Is(Effects(s, txs), Len(txs))
  BY <1>3 DEF Is, Effects, start
<1>. QED  BY <1>4 DEF Is, start

\* The loops of the replay of a batch.
LEMMA StoreWritesAre ==
    ASSUME NEW s, NEW ws, Len(ws) \in Nat
    PROVE  LET e == StoreWrites(s, ws)
           IN  /\ e[0] = s
               /\ \A i \in 1..Len(ws) : e[i] = Store(e[i - 1], ws[i])
<1>. DEFINE Is(f, n) == f = [i \in 0..n |-> IF i = 0 THEN s
                                          ELSE Store(f[i - 1], ws[i])]
            H == {n \in 0..Len(ws) : \E f : Is(f, n)}
<1>. HIDE DEF Is
<1>1. 0 \in H
  <2>1. Is([i \in 0..0 |-> s], 0)
    BY DEF Is
  <2>. QED  BY <2>1
<1>2. ASSUME NEW n \in 0..Len(ws) - 1, n \in H PROVE n + 1 \in H
  <2>1. PICK f : Is(f, n)
    BY <1>2
  <2>. DEFINE g == [i \in 0..n + 1 |-> IF i <= n THEN f[i]
                                    ELSE Store(f[n], ws[n + 1])]
  <2>2. ASSUME NEW i \in 0..n + 1
        PROVE  g[i] = IF i = 0 THEN s ELSE Store(g[i - 1], ws[i])
    <3>1. CASE i = 0
      BY <2>1, <3>1 DEF Is
    <3>2. CASE i \in 1..n
      BY <2>1, <3>2 DEF Is
    <3>3. CASE i = n + 1
      BY <3>3
    <3>. QED  BY <3>1, <3>2, <3>3
  <2>3. Is(g, n + 1)
    BY <2>2 DEF Is
  <2>. HIDE DEF g
  <2>. QED  BY <2>3
<1>3. Len(ws) \in H
  <2>. HIDE DEF H
  <2>1. \A i \in 0..Len(ws) : i \in H
    BY <1>1, <1>2, UpTo
  <2>. QED  BY <2>1
<1>4. Is(StoreWrites(s, ws), Len(ws))
  BY <1>3 DEF Is, StoreWrites
<1>. QED  BY <1>4 DEF Is

\* And over the range sets.
LEMMA ReplayRangesAre ==
    ASSUME NEW s, NEW rs, Len(rs) \in Nat
    PROVE  LET e == ReplayRanges(s, rs)
           IN  /\ e[0] = s
               /\ \A i \in 1..Len(rs) : e[i] = ReplayRange(e[i - 1], rs[i])
<1>. DEFINE Is(f, n) == f = [i \in 0..n |-> IF i = 0 THEN s
                                          ELSE ReplayRange(f[i - 1], rs[i])]
            H == {n \in 0..Len(rs) : \E f : Is(f, n)}
<1>. HIDE DEF Is
<1>1. 0 \in H
  <2>1. Is([i \in 0..0 |-> s], 0)
    BY DEF Is
  <2>. QED  BY <2>1
<1>2. ASSUME NEW n \in 0..Len(rs) - 1, n \in H PROVE n + 1 \in H
  <2>1. PICK f : Is(f, n)
    BY <1>2
  <2>. DEFINE g == [i \in 0..n + 1 |-> IF i <= n THEN f[i]
                                    ELSE ReplayRange(f[n], rs[n + 1])]
  <2>2. ASSUME NEW i \in 0..n + 1
        PROVE  g[i] = IF i = 0 THEN s ELSE ReplayRange(g[i - 1], rs[i])
    <3>1. CASE i = 0
      BY <2>1, <3>1 DEF Is
    <3>2. CASE i \in 1..n
      BY <2>1, <3>2 DEF Is
    <3>3. CASE i = n + 1
      BY <3>3
    <3>. QED  BY <3>1, <3>2, <3>3
  <2>3. Is(g, n + 1)
    BY <2>2 DEF Is
  <2>. HIDE DEF g
  <2>. QED  BY <2>3
<1>3. Len(rs) \in H
  <2>. HIDE DEF H
  <2>1. \A i \in 0..Len(rs) : i \in H
    BY <1>1, <1>2, UpTo
  <2>. QED  BY <2>1
<1>4. Is(ReplayRanges(s, rs), Len(rs))
  BY <1>3 DEF Is, ReplayRanges
<1>. QED  BY <1>4 DEF Is

\* The loop over the batches after a snapshot.
LEMMA ReplayFromIs ==
    ASSUME NEW s, NEW first, NEW count, count \in Nat
    PROVE  LET e == ReplayFrom(s, first, count)
           IN  /\ e[0] = s
               /\ \A i \in 1..count : e[i] = ReplayLog(e[i - 1], logs[Slot(first + i - 1)])
<1>. DEFINE Is(f, n) == f = [i \in 0..n |-> IF i = 0 THEN s
                                          ELSE ReplayLog(f[i - 1], logs[Slot(first + i - 1)])]
            H == {n \in 0..count : \E f : Is(f, n)}
<1>. HIDE DEF Is
<1>1. 0 \in H
  <2>1. Is([i \in 0..0 |-> s], 0)
    BY DEF Is
  <2>. QED  BY <2>1
<1>2. ASSUME NEW n \in 0..count - 1, n \in H PROVE n + 1 \in H
  <2>1. PICK f : Is(f, n)
    BY <1>2
  <2>. DEFINE g == [i \in 0..n + 1 |-> IF i <= n THEN f[i]
                                    ELSE ReplayLog(f[n], logs[Slot(first + (n + 1) - 1)])]
  <2>2. ASSUME NEW i \in 0..n + 1
        PROVE  g[i] = IF i = 0 THEN s ELSE ReplayLog(g[i - 1], logs[Slot(first + i - 1)])
    <3>1. CASE i = 0
      BY <2>1, <3>1 DEF Is
    <3>2. CASE i \in 1..n
      BY <2>1, <3>2 DEF Is
    <3>3. CASE i = n + 1
      BY <3>3
    <3>. QED  BY <3>1, <3>2, <3>3
  <2>3. Is(g, n + 1)
    BY <2>2 DEF Is
  <2>. HIDE DEF g
  <2>. QED  BY <2>3
<1>3. count \in H
  <2>. HIDE DEF H
  <2>1. \A i \in 0..count : i \in H
    BY <1>1, <1>2, UpTo
  <2>. QED  BY <2>1
<1>4. Is(ReplayFrom(s, first, count), count)
  BY <1>3 DEF Is, ReplayFrom
<1>. QED  BY <1>4 DEF Is

\* The loop over the chunks.
LEMMA ReplayChunksIs ==
    ASSUME NEW s
    PROVE  LET e == ReplayChunks(s)
           IN  /\ e[0] = s
               /\ \A i \in 1..N - 1 : e[i] = ReplayBatches(e[i - 1], ChunkBefore(i))
<1>0. N \in Nat /\ N - 1 \in Nat
  BY HybridAssumption
<1>. DEFINE Is(f, n) == f = [i \in 0..n |-> IF i = 0 THEN s
                                          ELSE ReplayBatches(f[i - 1], ChunkBefore(i))]
            H == {n \in 0..N - 1 : \E f : Is(f, n)}
<1>. HIDE DEF Is
<1>1. 0 \in H
  <2>1. Is([i \in 0..0 |-> s], 0)
    BY DEF Is
  <2>. QED  BY <1>0, <2>1
<1>2. ASSUME NEW n \in 0..N - 1 - 1, n \in H PROVE n + 1 \in H
  <2>1. PICK f : Is(f, n)
    BY <1>2
  <2>. DEFINE g == [i \in 0..n + 1 |-> IF i <= n THEN f[i]
                                    ELSE ReplayBatches(f[n], ChunkBefore(n + 1))]
  <2>2. ASSUME NEW i \in 0..n + 1
        PROVE  g[i] = IF i = 0 THEN s ELSE ReplayBatches(g[i - 1], ChunkBefore(i))
    <3>1. CASE i = 0
      BY <1>0, <2>1, <3>1 DEF Is
    <3>2. CASE i \in 1..n
      BY <1>0, <2>1, <3>2 DEF Is
    <3>3. CASE i = n + 1
      BY <1>0, <3>3
    <3>. QED  BY <3>1, <3>2, <3>3
  <2>3. Is(g, n + 1)
    BY <1>0, <2>2 DEF Is
  <2>. HIDE DEF g
  <2>. QED  BY <1>0, <2>3
<1>3. N - 1 \in H
  <2>. HIDE DEF H
  <2>1. \A i \in 0..N - 1 : i \in H
    BY <1>0, <1>1, <1>2, UpTo
  <2>. QED  BY <1>0, <2>1
<1>4. Is(ReplayChunks(s), N - 1)
  BY <1>3 DEF Is, ReplayChunks
<1>5. ReplayChunks(s) =
         [i \in 0..N - 1 |-> IF i = 0 THEN s
                             ELSE ReplayBatches(ReplayChunks(s)[i - 1], ChunkBefore(i))]
  BY <1>4 DEF Is
<1>6. PICK f : f = ReplayChunks(s)
  OBVIOUS
<1>7. f[0] = s /\ \A i \in 1..N - 1 : f[i] = ReplayBatches(f[i - 1], ChunkBefore(i))
  <2>1. 0 \in 0..N - 1 /\ \A i \in 1..N - 1 : i \in 0..N - 1 /\ i # 0
    BY <1>0
  <2>2. f = [i \in 0..N - 1 |-> IF i = 0 THEN s ELSE ReplayBatches(f[i - 1], ChunkBefore(i))]
    BY <1>5, <1>6
  <2>3. f[0] = s
    BY <2>1, <2>2
  <2>4. ASSUME NEW i \in 1..N - 1 PROVE f[i] = ReplayBatches(f[i - 1], ChunkBefore(i))
    BY <2>1, <2>2
  <2>. QED  BY <2>3, <2>4
<1>. QED  BY <1>6, <1>7

-----------------------------------------------------------------------------
\* The effect of a batch, and its replay.

States == [Accounts -> Int]

\* What the loop over a batch builds.
Built == [state : States, writes : Seq(Accounts \X Int), ranges : Seq(Transactions),
          txs : Seq(Transactions)]

\* What a transaction does: it moves balances and adds two entries to the write set, or
\* sets a range and is added to the range sets, or is cleared.
Moves(acc, tx, new) ==
    /\ tx.func = "transfer" /\ tx.from \in Accounts /\ tx.to \in Accounts
    /\ new.state = Moved(acc.state, tx) /\ new.ranges = acc.ranges
    /\ new.writes = acc.writes \o << <<tx.from, new.state[tx.from]>>,
                                     <<tx.to, new.state[tx.to]>> >>

Sets(acc, tx, new) ==
    /\ tx.func = "range" /\ new.state = ReplayRange(acc.state, tx)
    /\ new.writes = acc.writes /\ new.ranges = Append(acc.ranges, tx)
    /\ new.txs[Len(acc.txs) + 1] = tx

Clears(acc, tx, new) ==
    /\ tx.func # "range" /\ new.state = acc.state
    /\ new.writes = acc.writes /\ new.ranges = acc.ranges
    /\ new.txs[Len(acc.txs) + 1].func = tx.func

Grows(acc, new) ==
    Len(new.txs) = Len(acc.txs) + 1 /\ \A i \in 1..Len(acc.txs) : new.txs[i] = acc.txs[i]

\* Every transaction does one of these, and is added to the batch as it is passed on.
LEMMA OneTransaction ==
    ASSUME NEW acc \in Built, NEW tx \in Transactions
    PROVE  /\ ApplyTx(acc, tx) \in Built /\ Grows(acc, ApplyTx(acc, tx))
           /\ \/ Moves(acc, tx, ApplyTx(acc, tx)) \/ Sets(acc, tx, ApplyTx(acc, tx))
              \/ Clears(acc, tx, ApplyTx(acc, tx))
<1>. DEFINE new == ApplyTx(acc, tx)
<1>1. /\ acc.state \in States /\ acc.writes \in Seq(Accounts \X Int)
      /\ acc.ranges \in Seq(Transactions) /\ acc.txs \in Seq(Transactions)
      /\ acc = [state |-> acc.state, writes |-> acc.writes, ranges |-> acc.ranges,
                txs |-> acc.txs]
      /\ tx.from \in Nat /\ tx.to \in Nat /\ tx.amount \in Nat
      /\ tx.func \in {"transfer", "range", "other"}
  BY DEF Built, Transactions
<1>2. CASE Covered(acc.state, tx)
  <2>1. /\ tx.func = "transfer" /\ tx.from < SmallCount /\ tx.to < SmallCount
        /\ new = Transfer(acc, tx, Moved(acc.state, tx))
    BY <1>2 DEF ApplyTx, Covered
  <2>2. tx.from \in Accounts /\ tx.to \in Accounts
    <3>1. SmallCount \in Nat /\ SmallCount <= N * ChunkSize /\ N * ChunkSize \in Nat
      BY HybridAssumption
    <3>. QED  BY <1>1, <2>1, <3>1 DEF Accounts
  <2>3. Moved(acc.state, tx) \in States
    BY <1>1, <2>2 DEF Moved, States
  <2>. DEFINE two == << <<tx.from, Moved(acc.state, tx)[tx.from]>>,
                        <<tx.to, Moved(acc.state, tx)[tx.to]>> >>
  <2>4. two \in Seq(Accounts \X Int)
    <3>1. Moved(acc.state, tx)[tx.from] \in Int /\ Moved(acc.state, tx)[tx.to] \in Int
      BY <2>2, <2>3 DEF States
    <3>. QED  BY <2>2, <3>1
  <2>5. new = [state |-> Moved(acc.state, tx), writes |-> acc.writes \o two,
               ranges |-> acc.ranges, txs |-> Append(acc.txs, tx)]
    BY <1>1, <2>1 DEF Transfer
  <2>. HIDE DEF two
  <2>6. acc.writes \o two \in Seq(Accounts \X Int) /\ Append(acc.txs, tx) \in Seq(Transactions)
    BY <1>1, <2>4
  <2>7. new \in Built
    BY <1>1, <2>3, <2>5, <2>6 DEF Built
  <2>. HIDE DEF new
  <2>8. Grows(acc, new)
    BY <1>1, <2>5 DEF Grows
  <2>9. Moves(acc, tx, new)
    BY <2>1, <2>2, <2>5 DEF Moves, two
  <2>. QED  BY <2>7, <2>8, <2>9 DEF new
<1>3. CASE tx.func = "range"
  <2>1. new = SetRange(acc, tx)
    BY <1>3 DEF ApplyTx, Covered
  <2>2. ReplayRange(acc.state, tx) \in States
    BY <1>1 DEF ReplayRange, States
  <2>3. new = [state |-> ReplayRange(acc.state, tx), writes |-> acc.writes,
               ranges |-> Append(acc.ranges, tx), txs |-> Append(acc.txs, tx)]
    BY <1>1, <2>1 DEF SetRange, ReplayRange, States
  <2>4. /\ Append(acc.ranges, tx) \in Seq(Transactions)
        /\ Append(acc.txs, tx) \in Seq(Transactions)
    BY <1>1
  <2>5. new \in Built
    BY <1>1, <2>2, <2>3, <2>4 DEF Built
  <2>. HIDE DEF new
  <2>6. Grows(acc, new)
    BY <1>1, <2>3 DEF Grows
  <2>7. Sets(acc, tx, new)
    BY <1>1, <1>3, <2>3 DEF Sets
  <2>. QED  BY <2>5, <2>6, <2>7 DEF new
<1>4. CASE ~Covered(acc.state, tx) /\ tx.func # "range"
  <2>. DEFINE cleared == [tx EXCEPT !.amount = 0]
  <2>1. new = [state |-> acc.state, writes |-> acc.writes, ranges |-> acc.ranges,
               txs |-> Append(acc.txs, cleared)]
    BY <1>1, <1>4 DEF ApplyTx, NotApplied
  <2>2. cleared \in Transactions /\ cleared.func = tx.func
    BY DEF Transactions
  <2>. HIDE DEF cleared
  <2>3. Append(acc.txs, cleared) \in Seq(Transactions)
    BY <1>1, <2>2
  <2>4. new \in Built
    BY <1>1, <2>1, <2>3 DEF Built
  <2>. HIDE DEF new
  <2>5. Grows(acc, new)
    BY <1>1, <2>1 DEF Grows
  <2>6. Clears(acc, tx, new)
    BY <1>1, <1>4, <2>1, <2>2 DEF Clears
  <2>. QED  BY <2>4, <2>5, <2>6 DEF new
<1>. QED  BY <1>2, <1>3, <1>4

\* The types of the loop over a batch.
LEMMA EffectsTypes ==
    ASSUME NEW s \in States, NEW txs \in Seq(Transactions)
    PROVE  \A i \in 0..Len(txs) :
              Effects(s, txs)[i] \in Built /\ Len(Effects(s, txs)[i].txs) = i
<1>. DEFINE e == Effects(s, txs)
            H == {i \in 0..Len(txs) : e[i] \in Built /\ Len(e[i].txs) = i}
<1>1. /\ Len(txs) \in Nat
      /\ e[0] = [state |-> s, writes |-> <<>>, ranges |-> <<>>, txs |-> <<>>]
      /\ \A i \in 1..Len(txs) : e[i] = ApplyTx(e[i - 1], txs[i])
  BY EffectsAre
<1>. HIDE DEF e
<1>2. 0 \in H
  <2>1. /\ <<>> \in Seq(Accounts \X Int) /\ <<>> \in Seq(Transactions)
        /\ e[0].txs = <<>> /\ Len(<<>>) = 0 /\ 0 \in 0..Len(txs)
    BY <1>1
  <2>2. e[0] \in Built
    BY <1>1, <2>1 DEF Built
  <2>. QED  BY <2>1, <2>2
<1>3. ASSUME NEW i \in 0..Len(txs) - 1, i \in H PROVE i + 1 \in H
  <2>1. e[i] \in Built /\ Len(e[i].txs) = i /\ txs[i + 1] \in Transactions
    BY <1>3
  <2>2. e[i + 1] = ApplyTx(e[i], txs[i + 1])
    <3>1. i + 1 \in 1..Len(txs) /\ (i + 1) - 1 = i
      BY <1>1
    <3>2. e[i + 1] = ApplyTx(e[(i + 1) - 1], txs[i + 1])
      BY <1>1, <3>1
    <3>. QED  BY <3>1, <3>2
  <2>3. e[i + 1] \in Built /\ Len(e[i + 1].txs) = Len(e[i].txs) + 1
    BY <2>1, <2>2, OneTransaction DEF Grows
  <2>. QED  BY <1>1, <2>1, <2>3
<1>4. \A i \in 0..Len(txs) : i \in H
  <2>. HIDE DEF H
  <2>. QED  BY <1>1, <1>2, <1>3, UpTo
<1>. QED  BY <1>4 DEF e

\* The loop over the write set keeps a state a state, and of a longer write set it begins
\* in the same way.
LEMMA StoreBegins ==
    ASSUME NEW s \in States, NEW ws \in Seq(Accounts \X Int), NEW more \in Seq(Accounts \X Int),
           Len(ws) <= Len(more), \A i \in 1..Len(ws) : more[i] = ws[i]
    PROVE  \A i \in 0..Len(ws) : /\ StoreWrites(s, ws)[i] \in States
                                 /\ StoreWrites(s, more)[i] = StoreWrites(s, ws)[i]
<1>. DEFINE e == StoreWrites(s, ws)  f == StoreWrites(s, more)
            H == {i \in 0..Len(ws) : e[i] \in States /\ f[i] = e[i]}
<1>1. Len(ws) \in Nat /\ Len(more) \in Nat
  OBVIOUS
<1>2. e[0] = s /\ \A i \in 1..Len(ws) : e[i] = Store(e[i - 1], ws[i])
  BY <1>1, StoreWritesAre
<1>3. f[0] = s /\ \A i \in 1..Len(more) : f[i] = Store(f[i - 1], more[i])
  BY <1>1, StoreWritesAre
<1>. HIDE DEF e, f
<1>4. 0 \in H
  BY <1>1, <1>2, <1>3
<1>5. ASSUME NEW i \in 0..Len(ws) - 1, i \in H PROVE i + 1 \in H
  <2>1. i + 1 \in 1..Len(ws) /\ i + 1 \in 1..Len(more) /\ (i + 1) - 1 = i
    BY <1>1
  <2>2. e[i + 1] = Store(e[i], ws[i + 1]) /\ f[i + 1] = Store(f[i], more[i + 1])
    BY <1>2, <1>3, <2>1
  <2>3. e[i] \in States /\ f[i] = e[i] /\ ws[i + 1] = more[i + 1]
    BY <1>5, <2>1
  <2>4. Store(e[i], ws[i + 1]) \in States
    <3>1. ws[i + 1] \in Accounts \X Int
      BY <2>1
    <3>2. ws[i + 1][1] \in Accounts /\ ws[i + 1][2] \in Int
      BY <3>1
    <3>. QED  BY <2>3, <3>2 DEF Store, States
  <2>. QED  BY <1>1, <2>2, <2>3, <2>4
<1>6. \A i \in 0..Len(ws) : i \in H
  <2>. HIDE DEF H
  <2>. QED  BY <1>1, <1>4, <1>5, UpTo
<1>. QED  BY <1>6 DEF e, f

\* A range set keeps a state a state.
LEMMA RangeType == \A s \in States, tx \in Transactions : ReplayRange(s, tx) \in States
  BY DEF ReplayRange, States, Transactions

\* The same of the loop over the range sets.
LEMMA RangesBegin ==
    ASSUME NEW s \in States, NEW rs \in Seq(Transactions), NEW more \in Seq(Transactions),
           Len(rs) <= Len(more), \A i \in 1..Len(rs) : more[i] = rs[i]
    PROVE  \A i \in 0..Len(rs) : /\ ReplayRanges(s, rs)[i] \in States
                                 /\ ReplayRanges(s, more)[i] = ReplayRanges(s, rs)[i]
<1>. DEFINE e == ReplayRanges(s, rs)  f == ReplayRanges(s, more)
            H == {i \in 0..Len(rs) : e[i] \in States /\ f[i] = e[i]}
<1>1. Len(rs) \in Nat /\ Len(more) \in Nat
  OBVIOUS
<1>2. e[0] = s /\ \A i \in 1..Len(rs) : e[i] = ReplayRange(e[i - 1], rs[i])
  BY <1>1, ReplayRangesAre
<1>3. f[0] = s /\ \A i \in 1..Len(more) : f[i] = ReplayRange(f[i - 1], more[i])
  BY <1>1, ReplayRangesAre
<1>. HIDE DEF e, f
<1>4. 0 \in H
  BY <1>1, <1>2, <1>3
<1>5. ASSUME NEW i \in 0..Len(rs) - 1, i \in H PROVE i + 1 \in H
  <2>1. i + 1 \in 1..Len(rs) /\ i + 1 \in 1..Len(more) /\ (i + 1) - 1 = i
    BY <1>1
  <2>2. e[i + 1] = ReplayRange(e[i], rs[i + 1]) /\ f[i + 1] = ReplayRange(f[i], more[i + 1])
    BY <1>2, <1>3, <2>1
  <2>3. e[i] \in States /\ f[i] = e[i] /\ rs[i + 1] = more[i + 1] /\ rs[i + 1] \in Transactions
    BY <1>5, <2>1
  <2>4. ReplayRange(e[i], rs[i + 1]) \in States
    BY <2>3, RangeType
  <2>. QED  BY <1>1, <2>2, <2>3, <2>4
<1>6. \A i \in 0..Len(rs) : i \in H
  <2>. HIDE DEF H
  <2>. QED  BY <1>1, <1>4, <1>5, UpTo
<1>. QED  BY <1>6 DEF e, f

\* What range sets do to one account: if one of them has it, the balance is the same
\* whatever it was; if none has, the balance stays.
LEMMA RangesAt ==
    ASSUME NEW s \in States, NEW t \in States, NEW rs \in Seq(Transactions), NEW a \in Accounts
    PROVE  \/ /\ \E i \in 1..Len(rs) : a \in Span(rs[i])
              /\ ReplayRanges(s, rs)[Len(rs)][a] = ReplayRanges(t, rs)[Len(rs)][a]
           \/ /\ \A i \in 1..Len(rs) : a \notin Span(rs[i])
              /\ ReplayRanges(s, rs)[Len(rs)][a] = s[a]
              /\ ReplayRanges(t, rs)[Len(rs)][a] = t[a]
<1>. DEFINE e == ReplayRanges(s, rs)  f == ReplayRanges(t, rs)
            Set(i) == (\E j \in 1..i : a \in Span(rs[j])) /\ e[i][a] = f[i][a]
            Kept(i) == /\ \A j \in 1..i : a \notin Span(rs[j])
                       /\ e[i][a] = s[a] /\ f[i][a] = t[a]
            H == {i \in 0..Len(rs) : Set(i) \/ Kept(i)}
<1>1. Len(rs) \in Nat
  OBVIOUS
<1>2. e[0] = s /\ \A i \in 1..Len(rs) : e[i] = ReplayRange(e[i - 1], rs[i])
  BY <1>1, ReplayRangesAre
<1>3. f[0] = t /\ \A i \in 1..Len(rs) : f[i] = ReplayRange(f[i - 1], rs[i])
  BY <1>1, ReplayRangesAre
<1>. HIDE DEF e, f
<1>4. 0 \in H
  BY <1>1, <1>2, <1>3
<1>5. ASSUME NEW i \in 0..Len(rs) - 1, i \in H PROVE i + 1 \in H
  <2>1. i + 1 \in 1..Len(rs) /\ (i + 1) - 1 = i
    BY <1>1
  <2>2. e[i + 1] = ReplayRange(e[i], rs[i + 1]) /\ f[i + 1] = ReplayRange(f[i], rs[i + 1])
    BY <1>2, <1>3, <2>1
  <2>3. CASE a \in Span(rs[i + 1])
    <3>1. e[i + 1][a] = f[i + 1][a]
      BY <2>2, <2>3 DEF ReplayRange
    <3>2. Set(i + 1)
      BY <2>1, <2>3, <3>1
    <3>. QED  BY <2>1, <3>2
  <2>4. CASE a \notin Span(rs[i + 1])
    <3>1. e[i + 1][a] = e[i][a] /\ f[i + 1][a] = f[i][a]
      BY <2>2, <2>4 DEF ReplayRange
    <3>2. CASE Set(i)
      <4>1. Set(i + 1)
        BY <2>1, <3>1, <3>2
      <4>. QED  BY <2>1, <4>1
    <3>3. CASE Kept(i)
      <4>1. \A j \in 1..i + 1 : j \in 1..i \/ j = i + 1
        OBVIOUS
      <4>2. Kept(i + 1)
        BY <2>4, <3>1, <3>3, <4>1
      <4>. QED  BY <2>1, <4>2
    <3>. QED  BY <1>5, <3>2, <3>3
  <2>. QED  BY <2>3, <2>4
<1>6. \A i \in 0..Len(rs) : i \in H
  <2>. HIDE DEF H
  <2>. QED  BY <1>1, <1>4, <1>5, UpTo
<1>. QED  BY <1>1, <1>6 DEF e, f

\* The replay of a write set and of range sets.
Redone(s, ws, rs) == ReplayRanges(StoreWrites(s, ws)[Len(ws)], rs)[Len(rs)]

\* Every range set in the effect is one of the transactions applied so far.
FromBatch(txs, i, built) ==
    \A r \in 1..Len(built.ranges) :
        \E j \in 1..i : built.ranges[r] = txs[j] /\ txs[j].func = "range"

\* No range set has the account.
NoRangeHas(a, rs) == \A i \in 1..Len(rs) : a \notin Span(rs[i])

\* An entry of the write set is of such an account; the write set is longer by two entries;
\* the replay ends with them.
NoRangeFor(entry, rs) == NoRangeHas(entry[1], rs)

TwoMore(ws, more, x, y) ==
    /\ Len(more) = Len(ws) + 2 /\ \A i \in 1..Len(ws) : more[i] = ws[i]
    /\ more[Len(ws) + 1] = x /\ more[Len(ws) + 2] = y

Stores(s, ws, rs, more, x, y) ==
    Redone(s, more, rs) = Store(Store(Redone(s, ws, rs), x), y)

\* Two more balances in the write set, of accounts that no range set of the effect has, are
\* the balances after the replay.
LEMMA TwoMoreWrites ==
    ASSUME NEW s \in States, NEW ws \in Seq(Accounts \X Int), NEW rs \in Seq(Transactions),
           NEW more \in Seq(Accounts \X Int), NEW x, NEW y, TwoMore(ws, more, x, y),
           NoRangeFor(x, rs), NoRangeFor(y, rs)
    PROVE  Stores(s, ws, rs, more, x, y)
<1>. DEFINE before == StoreWrites(s, ws)[Len(ws)]
            after == StoreWrites(s, more)[Len(more)]
<1>1. /\ Len(ws) \in Nat /\ Len(more) \in Nat
      /\ Len(more) = Len(ws) + 2 /\ \A i \in 1..Len(ws) : more[i] = ws[i]
      /\ more[Len(ws) + 1] = x /\ more[Len(ws) + 2] = y
      /\ NoRangeHas(x[1], rs) /\ NoRangeHas(y[1], rs)
  BY DEF TwoMore, NoRangeFor
<1>2. /\ x[1] \in Accounts /\ x[2] \in Int /\ y[1] \in Accounts /\ y[2] \in Int
      /\ NoRangeHas(x[1], rs) /\ NoRangeHas(y[1], rs)
  <2>1. Len(ws) + 1 \in 1..Len(more) /\ Len(ws) + 2 \in 1..Len(more)
    BY <1>1
  <2>2. x \in Accounts \X Int /\ y \in Accounts \X Int
    BY <1>1, <2>1
  <2>. QED  BY <1>1, <2>2
<1>3. before \in States /\ StoreWrites(s, more)[Len(ws)] = before
  <2>1. Len(ws) \in 0..Len(ws) /\ Len(ws) <= Len(more)
    BY <1>1
  <2>. QED  BY <1>1, <2>1, StoreBegins
<1>4. after = Store(Store(before, x), y)
  <2>1. \A i \in 1..Len(more) :
           StoreWrites(s, more)[i] = Store(StoreWrites(s, more)[i - 1], more[i])
    <3>1. Len(more) \in Nat
      BY <1>1
    <3>. QED  BY <3>1, StoreWritesAre
  <2>2. StoreWrites(s, more)[Len(ws) + 1] = Store(before, x)
    <3>1. Len(ws) + 1 \in 1..Len(more) /\ (Len(ws) + 1) - 1 = Len(ws)
      BY <1>1
    <3>. QED  BY <1>1, <1>3, <2>1, <3>1
  <2>3. Len(ws) + 2 \in 1..Len(more) /\ (Len(ws) + 2) - 1 = Len(ws) + 1
    BY <1>1
  <2>. QED  BY <1>1, <2>1, <2>2, <2>3
<1>. HIDE DEF before, after
<1>5. after \in States
  BY <1>2, <1>3, <1>4 DEF Store, States
<1>. DEFINE old == ReplayRanges(before, rs)[Len(rs)]  new == ReplayRanges(after, rs)[Len(rs)]
<1>6. old \in States /\ new \in States
  <2>1. Len(rs) \in 0..Len(rs) /\ Len(rs) <= Len(rs)
    OBVIOUS
  <2>2. \A st \in States : ReplayRanges(st, rs)[Len(rs)] \in States
    BY <2>1, RangesBegin
  <2>. QED  BY <1>3, <1>5, <2>2
<1>7. ASSUME NEW a \in Accounts PROVE new[a] = Store(Store(old, x), y)[a]
  <2>1. \/ old[a] = new[a] /\ \E i \in 1..Len(rs) : a \in Span(rs[i])
        \/ old[a] = before[a] /\ new[a] = after[a]
    BY <1>3, <1>5, RangesAt
  <2>2. CASE a # x[1] /\ a # y[1]
    <3>1. after[a] = before[a] /\ Store(Store(old, x), y)[a] = old[a]
      BY <1>2, <1>3, <1>4, <1>6, <2>2 DEF Store, States
    <3>. QED  BY <2>1, <3>1
  <2>3. CASE a = x[1] \/ a = y[1]
    <3>1. new[a] = after[a]
      BY <1>2, <2>1, <2>3 DEF NoRangeHas
    <3>2. after[a] = Store(Store(old, x), y)[a]
      BY <1>2, <1>3, <1>4, <1>6, <2>3 DEF Store, States
    <3>. QED  BY <3>1, <3>2
  <2>. QED  BY <2>2, <2>3
<1>8. Store(Store(old, x), y) \in States
  BY <1>2, <1>6 DEF Store, States
<1>9. new = Store(Store(old, x), y)
  <2>. HIDE DEF new, old
  <2>. QED  BY <1>6, <1>7, <1>8 DEF States
<1>. QED  BY <1>9 DEF Stores, Redone, before, after, old, new

\* One more range set is replayed last.
LEMMA OneMoreRange ==
    ASSUME NEW s \in States, NEW ws \in Seq(Accounts \X Int), NEW rs \in Seq(Transactions),
           NEW tx \in Transactions
    PROVE  Redone(s, ws, Append(rs, tx)) = ReplayRange(Redone(s, ws, rs), tx)
<1>. DEFINE more == Append(rs, tx)  stored == StoreWrites(s, ws)[Len(ws)]
<1>1. /\ more \in Seq(Transactions) /\ Len(more) = Len(rs) + 1 /\ Len(rs) \in Nat
      /\ \A i \in 1..Len(rs) : more[i] = rs[i]
      /\ more[Len(rs) + 1] = tx /\ Len(rs) \in 0..Len(rs) /\ Len(rs) <= Len(more)
  OBVIOUS
<1>2. stored \in States
  <2>1. Len(ws) \in 0..Len(ws) /\ Len(ws) <= Len(ws)
    OBVIOUS
  <2>. QED  BY <2>1, StoreBegins
<1>. HIDE DEF more, stored
<1>3. ReplayRanges(stored, more)[Len(rs)] = ReplayRanges(stored, rs)[Len(rs)]
  BY <1>1, <1>2, RangesBegin
<1>4. ReplayRanges(stored, more)[Len(more)] =
         ReplayRange(ReplayRanges(stored, more)[Len(rs)], tx)
  <2>1. \A i \in 1..Len(more) :
           ReplayRanges(stored, more)[i] =
               ReplayRange(ReplayRanges(stored, more)[i - 1], more[i])
    BY <1>1, ReplayRangesAre
  <2>2. Len(more) \in 1..Len(more) /\ Len(more) - 1 = Len(rs) /\ more[Len(more)] = tx
    BY <1>1
  <2>3. ReplayRanges(stored, more)[Len(more)] =
           ReplayRange(ReplayRanges(stored, more)[Len(more) - 1], more[Len(more)])
    BY <2>1, <2>2
  <2>. QED  BY <2>2, <2>3
<1>. QED  BY <1>3, <1>4 DEF Redone, stored, more

\* A transfer stores the two balances that it adds to the write set.
LEMMA MovedIsStored ==
    ASSUME NEW s \in States, NEW tx \in Transactions, tx.from \in Accounts, tx.to \in Accounts
    PROVE  LET new == Moved(s, tx)
           IN  /\ new \in States
               /\ Store(Store(s, <<tx.from, new[tx.from]>>), <<tx.to, new[tx.to]>>) = new
<1>1. tx.amount \in Int
  BY DEF Transactions
<1>2. Moved(s, tx) \in States
  BY <1>1 DEF Moved, States
<1>3. \A a \in Accounts : a # tx.from /\ a # tx.to => Moved(s, tx)[a] = s[a]
  BY DEF Moved, States
<1>. DEFINE new == Moved(s, tx)
            stored == Store(Store(s, <<tx.from, new[tx.from]>>), <<tx.to, new[tx.to]>>)
<1>4. stored \in States /\ \A a \in Accounts : stored[a] = new[a]
  <2>. HIDE DEF new
  <2>1. new \in States
    BY <1>2 DEF new
  <2>2. \A a \in Accounts : a # tx.from /\ a # tx.to => new[a] = s[a]
    BY <1>3 DEF new
  <2>. QED  BY <2>1, <2>2 DEF Store, States
<1>5. stored = new
  <2>. HIDE DEF new, stored
  <2>. QED  BY <1>2, <1>4 DEF States, new
<1>. QED  BY <1>2, <1>5

\* Replaying what main has built so far gives the state that it has reached.
LEMMA EffectReplays ==
    ASSUME NEW s \in States, NEW txs \in Seq(Transactions), ~TransferAfterRange(txs)
    PROVE  LET effect == Effect(s, txs)
           IN  Redone(s, effect.writes, effect.ranges) = effect.state
<1>. DEFINE e == Effects(s, txs)
            H == {i \in 0..Len(txs) : /\ Redone(s, e[i].writes, e[i].ranges) = e[i].state
                                   /\ FromBatch(txs, i, e[i])}
<1>1. /\ Len(txs) \in Nat
      /\ e[0] = [state |-> s, writes |-> <<>>, ranges |-> <<>>, txs |-> <<>>]
      /\ \A i \in 1..Len(txs) : e[i] = ApplyTx(e[i - 1], txs[i])
      /\ \A i \in 0..Len(txs) : e[i] \in Built
  BY EffectsAre, EffectsTypes
<1>. HIDE DEF e
<1>2. 0 \in H
  <2>1. Redone(s, e[0].writes, e[0].ranges) = s
    <3>1. Len(<<>>) = 0 /\ 0 \in Nat
      OBVIOUS
    <3>2. StoreWrites(s, <<>>)[0] = s /\ ReplayRanges(s, <<>>)[0] = s
      BY <3>1, StoreWritesAre, ReplayRangesAre
    <3>. QED  BY <1>1, <3>1, <3>2 DEF Redone
  <2>2. FromBatch(txs, 0, e[0])
    BY <1>1 DEF FromBatch
  <2>. QED  BY <1>1, <2>1, <2>2
<1>3. ASSUME NEW i \in 0..Len(txs) - 1, i \in H PROVE i + 1 \in H
  <2>1. PICK acc, tx, new : acc = e[i] /\ tx = txs[i + 1] /\ new = e[i + 1]
    OBVIOUS
  <2>2. i + 1 \in 1..Len(txs) /\ i + 1 \in 0..Len(txs) /\ (i + 1) - 1 = i /\ i \in 0..Len(txs)
    BY <1>1
  <2>3. /\ acc \in Built /\ tx \in Transactions /\ new = ApplyTx(acc, tx) /\ new \in Built
        /\ Redone(s, acc.writes, acc.ranges) = acc.state /\ FromBatch(txs, i, acc)
    <3>1. e[i + 1] = ApplyTx(e[(i + 1) - 1], txs[i + 1])
      BY <1>1, <2>2
    <3>. QED  BY <1>1, <1>3, <2>1, <2>2, <3>1
  <2>4. /\ acc.state \in States /\ acc.writes \in Seq(Accounts \X Int)
        /\ acc.ranges \in Seq(Transactions) /\ Len(acc.ranges) \in Nat
    BY <2>3 DEF Built
  <2>5. CASE Moves(acc, tx, new)
    <3>1. /\ tx.func = "transfer" /\ tx.from \in Accounts /\ tx.to \in Accounts
          /\ new.state = Moved(acc.state, tx) /\ new.ranges = acc.ranges
      BY <2>5 DEF Moves
    <3>2. PICK v1, v2 : v1 = new.state[tx.from] /\ v2 = new.state[tx.to]
      OBVIOUS
    <3>3. new.state \in States /\ v1 \in Int /\ v2 \in Int
          /\ Store(Store(acc.state, <<tx.from, v1>>), <<tx.to, v2>>) = new.state
      <4>1. /\ new.state \in States
            /\ Store(Store(acc.state, <<tx.from, new.state[tx.from]>>),
                     <<tx.to, new.state[tx.to]>>) = new.state
        BY <2>3, <2>4, <3>1, MovedIsStored
      <4>. QED  BY <3>1, <3>2, <4>1 DEF States
    <3>4. new.writes = acc.writes \o << <<tx.from, v1>>, <<tx.to, v2>> >>
      BY <2>5, <3>2 DEF Moves
    <3>5. NoRangeHas(tx.from, acc.ranges) /\ NoRangeHas(tx.to, acc.ranges)
      <4>1. ASSUME NEW r \in 1..Len(acc.ranges)
            PROVE  tx.from \notin Span(acc.ranges[r]) /\ tx.to \notin Span(acc.ranges[r])
        <5>1. PICK j \in 1..i : acc.ranges[r] = txs[j] /\ txs[j].func = "range"
          BY <2>3 DEF FromBatch
        <5>2. j \in DOMAIN txs /\ i + 1 \in DOMAIN txs /\ j < i + 1
          BY <2>2
        <5>3. {tx.from, tx.to} \cap Span(txs[j]) = {}
          BY <2>1, <3>1, <5>1, <5>2 DEF TransferAfterRange
        <5>. QED  BY <5>1, <5>3
      <4>. QED  BY <4>1 DEF NoRangeHas
    <3>6. Redone(s, new.writes, new.ranges) =
             Store(Store(Redone(s, acc.writes, acc.ranges), <<tx.from, v1>>), <<tx.to, v2>>)
      <4>1. PICK x, y, ws, rs, more :
               /\ x = <<tx.from, v1>> /\ y = <<tx.to, v2>>
               /\ ws = acc.writes /\ rs = acc.ranges /\ more = new.writes
        OBVIOUS
      <4>2. /\ ws \in Seq(Accounts \X Int) /\ rs \in Seq(Transactions)
            /\ more \in Seq(Accounts \X Int) /\ more = ws \o <<x, y>>
        BY <2>3, <2>4, <3>4, <4>1 DEF Built
      <4>3. TwoMore(ws, more, x, y)
        BY <4>2 DEF TwoMore
      <4>4. NoRangeFor(x, rs) /\ NoRangeFor(y, rs)
        BY <3>5, <4>1 DEF NoRangeFor
      <4>5. /\ s \in States /\ ws \in Seq(Accounts \X Int) /\ rs \in Seq(Transactions)
            /\ more \in Seq(Accounts \X Int)
        BY <4>2
      <4>6. Stores(s, ws, rs, more, x, y)
        BY <4>3, <4>4, <4>5, TwoMoreWrites
      <4>. QED  BY <3>1, <4>1, <4>6 DEF Stores
    <3>7. Redone(s, new.writes, new.ranges) = new.state
      BY <2>3, <3>3, <3>6
    <3>8. FromBatch(txs, i + 1, new)
      BY <2>3, <3>1 DEF FromBatch
    <3>. QED  BY <2>1, <2>2, <3>7, <3>8
  <2>6. CASE Sets(acc, tx, new)
    <3>1. /\ tx.func = "range" /\ new.state = ReplayRange(acc.state, tx)
          /\ new.writes = acc.writes /\ new.ranges = Append(acc.ranges, tx)
      BY <2>6 DEF Sets
    <3>2. Redone(s, new.writes, new.ranges) = new.state
      <4>1. PICK ws, rs : ws = acc.writes /\ rs = acc.ranges
        OBVIOUS
      <4>2. ws \in Seq(Accounts \X Int) /\ rs \in Seq(Transactions)
        BY <2>4, <4>1
      <4>3. Redone(s, ws, Append(rs, tx)) = ReplayRange(Redone(s, ws, rs), tx)
        BY <2>3, <4>2, OneMoreRange
      <4>. QED  BY <2>3, <3>1, <4>1, <4>3
    <3>3. FromBatch(txs, i + 1, new)
      <4>1. ASSUME NEW r \in 1..Len(new.ranges)
            PROVE  \E j \in 1..i + 1 : new.ranges[r] = txs[j] /\ txs[j].func = "range"
        <5>1. CASE r \in 1..Len(acc.ranges)
          <6>1. new.ranges[r] = acc.ranges[r]
            BY <2>3, <2>4, <3>1, <5>1
          <6>2. PICK j \in 1..i : acc.ranges[r] = txs[j] /\ txs[j].func = "range"
            BY <2>3, <5>1 DEF FromBatch
          <6>. QED  BY <6>1, <6>2
        <5>2. CASE r = Len(acc.ranges) + 1
          <6>1. new.ranges[r] = tx
            BY <2>3, <2>4, <3>1, <5>2
          <6>. QED  BY <2>1, <3>1, <6>1
        <5>. QED  BY <2>3, <2>4, <3>1, <5>1, <5>2
      <4>. QED  BY <4>1 DEF FromBatch
    <3>. QED  BY <2>1, <2>2, <3>2, <3>3
  <2>7. CASE Clears(acc, tx, new)
    <3>1. new.state = acc.state /\ new.writes = acc.writes /\ new.ranges = acc.ranges
      BY <2>7 DEF Clears
    <3>2. Redone(s, new.writes, new.ranges) = new.state /\ FromBatch(txs, i + 1, new)
      BY <2>3, <3>1 DEF FromBatch
    <3>. QED  BY <2>1, <2>2, <3>2
  <2>. QED  BY <2>3, <2>5, <2>6, <2>7, OneTransaction
<1>4. Len(txs) \in H
  <2>. HIDE DEF H
  <2>1. \A i \in 0..Len(txs) : i \in H
    BY <1>1, <1>2, <1>3, UpTo
  <2>. QED  BY <1>1, <2>1
<1>. QED  BY <1>4 DEF e, Effect

-----------------------------------------------------------------------------
\* Slots and chunks.

\* The slot is one of the ring, and the first N batches go round it once.
LEMMA SlotIs == \A b \in Nat : Slot(b) \in Chunks /\ Slot(b) \in Nat /\ (b < N => Slot(b) = b)
  BY HybridAssumption DEF Slot, Chunks

\* A multiple of N between -N and N is 0.
LEMMA SmallMultiple == \A q \in Int : -N < N * q /\ N * q < N => q = 0
<1>1. \A q \in Nat \ {0} : N * q >= N /\ N * (-q) <= -N
  BY HybridAssumption
<1>2. \A q \in Int : q < 0 => -q \in Nat \ {0} /\ q = -(-q)
  OBVIOUS
<1>. QED  BY <1>1, <1>2, HybridAssumption

\* A number is some rounds and the slot.
LEMMA SlotParts == \A b \in Nat : \E q \in Nat : b = N * q + Slot(b)
<1>. TAKE b \in Nat
<1>1. b = N * (b \div N) + (b % N) /\ (b \div N) \in Nat
  BY HybridAssumption
<1>. QED  BY <1>1 DEF Slot

\* Fewer than N batches apart, no two share a slot.
LEMMA SlotsApart == \A b, c \in Nat : b < c /\ c < b + N => Slot(b) # Slot(c)
<1>. SUFFICES ASSUME NEW b \in Nat, NEW c \in Nat, b < c, c < b + N, Slot(b) = Slot(c)
              PROVE  FALSE
  OBVIOUS
<1>1. PICK p \in Nat : b = N * p + Slot(b)
  BY SlotParts
<1>2. PICK q \in Nat : c = N * q + Slot(c)
  BY SlotParts
<1>3. c - b = N * (q - p)
  BY <1>1, <1>2, SlotIs, HybridAssumption
<1>4. q - p = 0
  <2>1. -N < N * (q - p) /\ N * (q - p) < N
    BY <1>3, HybridAssumption
  <2>. QED  BY <2>1, SmallMultiple
<1>. QED  BY <1>3, <1>4, HybridAssumption

\* The chunk j places before the one of batch c is that of the batch j before, if there
\* was one.
LEMMA SlotBack ==
    \A c \in Nat, j \in 0..N - 1 :
        /\ j <= c => (Slot(c) - j + N) % N = Slot(c - j)
        /\ c < j => (Slot(c) - j + N) % N = c - j + N
<1>. TAKE c \in Nat, j \in 0..N - 1
<1>1. N \in Nat /\ N > 0 /\ j \in Nat /\ Slot(c) \in 0..N - 1
  BY SlotIs, HybridAssumption DEF Chunks
<1>2. ASSUME j <= c PROVE (Slot(c) - j + N) % N = Slot(c - j)
  <2>1. PICK x : x = Slot(c) - j + N
    OBVIOUS
  <2>2. x \in Nat /\ c - j \in Nat
    BY <1>1, <1>2, <2>1
  <2>3. PICK p \in Nat : x = N * p + Slot(x)
    BY <2>2, SlotParts
  <2>4. PICK q \in Nat : c = N * q + Slot(c)
    BY SlotParts
  <2>5. PICK s \in Nat : c - j = N * s + Slot(c - j)
    BY <2>2, SlotParts
  <2>6. Slot(x) \in 0..N - 1 /\ Slot(c - j) \in 0..N - 1
    BY <2>2, SlotIs DEF Chunks
  <2>7. Slot(x) - Slot(c - j) = N * (s + 1 - q - p)
    <3>1. PICK u, v, w : u = Slot(x) /\ v = Slot(c - j) /\ w = Slot(c)
      OBVIOUS
    <3>2. /\ u \in Int /\ v \in Int /\ w \in Int /\ x = w - j + N
          /\ x = N * p + u /\ c = N * q + w /\ c - j = N * s + v
      BY <1>1, <2>1, <2>3, <2>4, <2>5, <2>6, <3>1
    <3>3. u - v = N * s - N * q + N - N * p
      BY <1>1, <3>2
    <3>4. N * s - N * q + N - N * p = N * (s + 1 - q - p)
      BY <1>1
    <3>. QED  BY <3>1, <3>3, <3>4
  <2>8. s + 1 - q - p = 0
    <3>1. -N < N * (s + 1 - q - p) /\ N * (s + 1 - q - p) < N
      BY <1>1, <2>6, <2>7
    <3>. QED  BY <3>1, SmallMultiple
  <2>9. N * 0 = 0
    BY <1>1
  <2>. QED  BY <2>1, <2>6, <2>7, <2>8, <2>9 DEF Slot
<1>3. ASSUME c < j PROVE (Slot(c) - j + N) % N = c - j + N
  <2>1. c < N
    BY <1>1, <1>3
  <2>2. Slot(c) = c
    BY <2>1, SlotIs
  <2>3. c - j + N \in 0..N - 1
    BY <1>1, <1>3
  <2>4. \A x \in 0..N - 1 : x % N = x
    BY <1>1
  <2>. QED  BY <2>2, <2>3, <2>4
<1>. QED  BY <1>2, <1>3

\* The accounts of a chunk, and their places in the buffer.
LEMMA ChunkAccounts ==
    \A k \in Chunks : \A a \in AccountsOf(k) :
        /\ a \in Accounts /\ a - k * ChunkSize \in Accounts /\ a - k * ChunkSize < ChunkSize
        /\ k * ChunkSize + (a - k * ChunkSize) = a
<1>. TAKE k \in Chunks
<1>. TAKE a \in AccountsOf(k)
<1>1. N \in Nat /\ ChunkSize \in Nat /\ k \in Nat /\ k + 1 <= N /\ N >= 1
  BY HybridAssumption DEF Chunks
<1>2. PICK d \in Nat : N = k + 1 + d
  <2>1. N - (k + 1) \in Nat /\ N = k + 1 + (N - (k + 1))
    BY <1>1
  <2>. QED  BY <2>1
<1>3. PICK low : low = k * ChunkSize
  OBVIOUS
<1>4. low \in Nat /\ (k + 1) * ChunkSize = low + ChunkSize
  BY <1>1, <1>3
<1>5. N * ChunkSize = low + ChunkSize + d * ChunkSize /\ d * ChunkSize \in Nat
  BY <1>1, <1>2, <1>3
<1>6. a \in low..low + ChunkSize - 1
  <2>1. PICK high : high = (k + 1) * ChunkSize
    OBVIOUS
  <2>2. a \in low..high - 1
    BY <1>3, <2>1 DEF AccountsOf
  <2>3. low \in Nat /\ ChunkSize \in Nat /\ high = low + ChunkSize
    BY <1>1, <1>4, <2>1
  <2>. QED  BY <2>2, <2>3
<1>7. PICK top : top = N * ChunkSize
  OBVIOUS
<1>8. a \in 0..top - 1 /\ a - low \in 0..top - 1 /\ a - low < ChunkSize /\ low + (a - low) = a
  <2>1. PICK rest \in Nat : top = low + ChunkSize + rest
    BY <1>5, <1>7
  <2>. QED  BY <1>1, <1>4, <1>6, <2>1
<1>. QED  BY <1>3, <1>7, <1>8 DEF Accounts

\* Every account is in one of the chunks.
LEMMA ChunkOf ==
    \A a \in Accounts :
        a \div ChunkSize \in Chunks /\ a \in AccountsOf(a \div ChunkSize)
<1>. TAKE a \in Accounts
<1>1. a \in Nat /\ a < N * ChunkSize /\ N \in Nat /\ ChunkSize \in Nat \ {0}
  BY HybridAssumption DEF Accounts
<1>2. /\ a = ChunkSize * (a \div ChunkSize) + (a % ChunkSize) /\ (a \div ChunkSize) \in Nat
      /\ a % ChunkSize \in 0..ChunkSize-1
  BY <1>1
<1>. DEFINE h == a \div ChunkSize  r == a % ChunkSize
<1>3. h \in Nat /\ r \in 0..ChunkSize-1 /\ a = ChunkSize * h + r
  BY <1>2
<1>. HIDE DEF h, r
<1>4. h < N
  <2>. SUFFICES ASSUME h >= N PROVE FALSE
    BY <1>1, <1>3
  <2>1. PICK d \in Nat : h = N + d
    BY <1>1, <1>3
  <2>2. ChunkSize * h = N * ChunkSize + ChunkSize * d /\ ChunkSize * d \in Nat
    BY <1>1, <2>1
  <2>. QED  BY <1>1, <1>3, <2>2
<1>5. h * ChunkSize = ChunkSize * h /\ (h + 1) * ChunkSize = ChunkSize * h + ChunkSize
  BY <1>1, <1>3
<1>6. h \in Chunks
  BY <1>1, <1>3, <1>4 DEF Chunks
<1>7. a \in h * ChunkSize..(h + 1) * ChunkSize - 1
  BY <1>1, <1>3, <1>5
<1>. QED  BY <1>6, <1>7 DEF h, AccountsOf

-----------------------------------------------------------------------------
\* The inductive invariant.

\* What an entry of the history holds, and a slot of the log.
Recorded == [before : States, txs : Seq(Transactions), writes : Seq(Accounts \X Int),
             ranges : Seq(Transactions)]
LogRecords == [batch : Int, writes : Seq(Accounts \X Int), ranges : Seq(Transactions)]

Zeros == [a \in Accounts |-> 0]

\* The state after batch b; before the first one, it is all zeros.
Version(b) == IF b = -1 THEN Zeros ELSE versions[b + 1]

\* Batch b as main hands it over: without the amounts it has cleared.
Passed(b) == Effect(effects[b + 1].before, effects[b + 1].txs).txs

\* The batches that main has handed over, those whose snapshot is in the ring, and those
\* whose log is.
Begun == IF pending = NoTask THEN nextBatch ELSE nextBatch - 1
Copied == IF pc = "snapshot" THEN Begun - 1 ELSE Begun
Logged == IF pc \in {"snapshot", "batch"} THEN Begun - 1 ELSE Begun

\* What the variables may hold.
Types ==
    /\ nextBatch \in Nat /\ live \in States /\ buffer \in States
    /\ pc \in {"idle", "snapshot", "batch", "sync"}
    /\ versions \in Seq(States) /\ Len(versions) = nextBatch
    /\ effects \in Seq(Recorded) /\ Len(effects) = nextBatch
    /\ logs \in [Chunks -> LogRecords] /\ DOMAIN snap = Chunks

\* Each entry of the history is the effect of its batch on the state before.
History ==
    /\ live = Version(nextBatch - 1)
    /\ \A b \in 0..nextBatch - 1 :
          LET entry == effects[b + 1]
              effect == Effect(entry.before, entry.txs)
          IN  /\ entry.before = Version(b - 1) /\ versions[b + 1] = effect.state
              /\ entry.writes = effect.writes /\ entry.ranges = effect.ranges

\* The batch that main holds is the last of the history, and the worker's the last begun.
InHand ==
    /\ pending # NoTask =>
          nextBatch > 0 /\ pending = [batch |-> nextBatch - 1, txs |-> Passed(nextBatch - 1)]
    /\ pc # "idle" =>
          Begun > 0 /\ task = [batch |-> Begun - 1, txs |-> Passed(Begun - 1)]

\* Until the snapshot is taken, the buffer holds the chunk as it was after the batch.
BufferHolds ==
    pc = "snapshot" =>
        \A a \in AccountsOf(Slot(Begun - 1)) :
            buffer[a - Slot(Begun - 1) * ChunkSize] = Version(Begun - 1)[a]

\* The snapshot of batch b, and a slot of a new file.
SnapshotOf(b) == [batch |-> b, chunk |-> Slot(b),
                  data |-> [a \in AccountsOf(Slot(b)) |-> Version(b)[a]]]
NewSlot(k) == [batch |-> 0, chunk |-> 0, data |-> [a \in AccountsOf(k) |-> 0]]

\* The ring holds the snapshots of the last N batches.
SnapshotsHeld ==
    /\ \A b \in 0..Copied - 1 : Copied <= b + N => snap[Slot(b)] = SnapshotOf(b)
    /\ \A k \in Chunks : Copied <= k => snap[k] = NewSlot(k)

\* And the range sets of the last N batches, if they are batches of range sets.
LogsHeld ==
    \A b \in 0..Logged - 1 :
        Logged <= b + N /\ ~Transfers(effects[b + 1].txs) =>
            logs[Slot(b)].writes = <<>> /\ logs[Slot(b)].ranges = effects[b + 1].ranges

\* All of it.
HybridInv ==
    Types /\ History /\ InHand /\ BufferHolds /\ SnapshotsHeld /\ LogsHeld

-----------------------------------------------------------------------------
\* The properties from the invariant.

\* Every chunk is some places before any other one.
LEMMA SlotCover == \A c \in Nat, k \in Chunks : \E j \in 0..N - 1 : (Slot(c) - j + N) % N = k
<1>. TAKE c \in Nat, k \in Chunks
<1>1. N \in Nat /\ Slot(c) \in 0..N - 1 /\ k \in 0..N - 1 /\ k \in Nat /\ 0 \in 0..N - 1
  BY SlotIs, HybridAssumption DEF Chunks
<1>2. CASE k <= Slot(c)
  <2>1. Slot(c) - k \in 0..N - 1 /\ Slot(c) - (Slot(c) - k) + N = k - 0 + N
    BY <1>1, <1>2
  <2>2. (Slot(k) - 0 + N) % N = Slot(k - 0) /\ k - 0 = k /\ Slot(k) = k
    BY <1>1, SlotBack, SlotIs
  <2>. QED  BY <2>1, <2>2
<1>3. CASE Slot(c) < k
  <2>1. Slot(c) - k + N \in 0..N - 1 /\ Slot(c) - (Slot(c) - k + N) + N = k
    BY <1>1, <1>3
  <2>2. k % N = k
    BY <1>1
  <2>. QED  BY <2>1, <2>2
<1>. QED  BY <1>1, <1>2, <1>3

\* Of the numbers before a given one, a slot below it has one among the last N.
LEMMA SlotHeld ==
    \A n \in Nat, k \in Chunks : k < n => \E b \in 0..n - 1 : n <= b + N /\ Slot(b) = k
<1>. SUFFICES ASSUME NEW n \in Nat, NEW k \in Chunks, k < n
              PROVE  \E b \in 0..n - 1 : n <= b + N /\ Slot(b) = k
  OBVIOUS
<1>1. N \in Nat /\ k \in Nat /\ n - 1 \in Nat
  BY HybridAssumption DEF Chunks
<1>2. PICK j \in 0..N - 1 : (Slot(n - 1) - j + N) % N = k
  BY <1>1, SlotCover
<1>3. j <= n - 1
  <2>. SUFFICES ASSUME n - 1 < j PROVE FALSE
    BY <1>1
  <2>1. k = (n - 1) - j + N
    BY <1>1, <1>2, SlotBack
  <2>. QED  BY <1>1, <2>1
<1>4. Slot((n - 1) - j) = k
  BY <1>1, <1>2, <1>3, SlotBack
<1>5. (n - 1) - j \in 0..n - 1 /\ n <= (n - 1) - j + N
  BY <1>1, <1>3
<1>. QED  BY <1>4, <1>5

\* The counters are numbers.
LEMMA Counters ==
    ASSUME Types, InHand
    PROVE  /\ nextBatch \in Nat /\ Begun \in Nat /\ Begun <= nextBatch
           /\ Copied \in Nat /\ Copied <= Begun /\ Logged \in Nat /\ Logged <= Copied
  BY DEF Types, InHand, Begun, Copied, Logged, NoTask

\* A snapshot in the ring is the version of its batch.
LEMMA HeldAreVersions == HybridInv => SnapshotsAreVersions
<1>. SUFFICES ASSUME HybridInv, NEW k \in Chunks, snap[k].chunk = k, versions # <<>>,
                     k # 0 \/ snap[k].data[0] # 0, NEW a \in AccountsOf(k)
              PROVE  snap[k].data[a] = versions[snap[k].batch + 1][a]
  BY DEF SnapshotsAreVersions
<1>1. Copied \in Nat
  BY Counters DEF HybridInv
<1>2. CASE k < Copied
  <2>1. PICK b \in 0..Copied - 1 : Copied <= b + N /\ Slot(b) = k
    BY <1>1, <1>2, SlotHeld
  <2>2. snap[k] = SnapshotOf(b) /\ b # -1
    BY <1>1, <2>1 DEF HybridInv, SnapshotsHeld
  <2>. QED  BY <2>1, <2>2 DEF SnapshotOf, Version
<1>3. CASE Copied <= k
  <2>1. snap[k] = NewSlot(k)
    BY <1>3 DEF HybridInv, SnapshotsHeld
  <2>2. k = 0 /\ 0 \in AccountsOf(0)
    <3>1. 0 * ChunkSize = 0 /\ (0 + 1) * ChunkSize = ChunkSize /\ ChunkSize \in Nat \ {0}
      BY HybridAssumption
    <3>. QED  BY <2>1, <3>1 DEF NewSlot, AccountsOf
  <2>. QED  BY <2>1, <2>2 DEF NewSlot
<1>. QED  BY <1>1, <1>2, <1>3, HybridAssumption DEF Chunks

\* The entries of the history reproduce their batches.
LEMMA HistoryReplays == HybridInv => EffectReproducesBatch
<1>. SUFFICES ASSUME HybridInv, NEW b \in DOMAIN effects, ~TransferAfterRange(effects[b].txs)
              PROVE  ReplayLog(effects[b].before, effects[b]) = versions[b]
  BY DEF EffectReproducesBatch
<1>1. b - 1 \in 0..nextBatch - 1 /\ (b - 1) + 1 = b /\ effects[b] \in Recorded
  BY DEF HybridInv, Types
<1>2. PICK entry : entry = effects[b]
  OBVIOUS
<1>3. LET effect == Effect(entry.before, entry.txs)
      IN  /\ versions[b] = effect.state
          /\ entry.writes = effect.writes /\ entry.ranges = effect.ranges
  BY <1>1, <1>2 DEF HybridInv, History
<1>4. entry.before \in States /\ entry.txs \in Seq(Transactions)
  BY <1>1, <1>2 DEF Recorded
<1>5. PICK s, txs : s = entry.before /\ txs = entry.txs
  OBVIOUS
<1>6. LET effect == Effect(s, txs)
      IN  Redone(s, effect.writes, effect.ranges) = effect.state
  BY <1>2, <1>4, <1>5, EffectReplays
<1>7. ReplayLog(s, entry) = Redone(s, entry.writes, entry.ranges)
  BY DEF ReplayLog, Redone
<1>. QED  BY <1>2, <1>3, <1>5, <1>6, <1>7

-----------------------------------------------------------------------------
\* The invariant holds.

\* A batch's effect is typed.
LEMMA EffectType ==
    ASSUME NEW s \in States, NEW txs \in Seq(Transactions)
    PROVE  /\ Effect(s, txs) \in Built /\ Effect(s, txs).state \in States
           /\ Effect(s, txs).writes \in Seq(Accounts \X Int)
           /\ Effect(s, txs).ranges \in Seq(Transactions)
           /\ Effect(s, txs).txs \in Seq(Transactions) /\ Len(Effect(s, txs).txs) = Len(txs)
<1>1. Len(txs) \in 0..Len(txs)
  OBVIOUS
<1>2. Effect(s, txs) \in Built /\ Len(Effect(s, txs).txs) = Len(txs)
  BY <1>1, EffectsTypes DEF Effect
<1>. QED  BY <1>2 DEF Built

\* All accounts at one balance is a state.
LEMMA StateTypes == Zeros \in States /\ \A g \in Int : [i \in Accounts |-> g] \in States
  BY DEF Zeros, States

\* Nothing has been begun, and the ring is that of a new file.
LEMMA InitInv == Init => HybridInv
<1>. SUFFICES ASSUME Init PROVE HybridInv
  OBVIOUS
<1>1. Types
  <2>1. buffer \in States
    <3>1. PICK g \in {0, 5} : buffer = [i \in Accounts |-> g]
      BY DEF Init
    <3>. QED  BY <3>1 DEF States
  <2>2. EmptyLog \in LogRecords
    BY DEF EmptyLog, LogRecords
  <2>3. <<>> \in Seq(States) /\ <<>> \in Seq(Recorded) /\ Len(<<>>) = 0
    OBVIOUS
  <2>. QED  BY <2>1, <2>2, <2>3, StateTypes DEF Init, Types, Zeros
<1>2. Begun = 0 /\ Copied = 0 /\ Logged = 0 /\ nextBatch = 0 /\ pc = "idle"
  BY DEF Init, Begun, Copied, Logged
<1>3. History
  BY <1>2 DEF Init, History, Version, Zeros
<1>4. InHand /\ BufferHolds
  BY <1>2 DEF Init, InHand, BufferHolds
<1>5. SnapshotsHeld
  BY <1>2 DEF Init, SnapshotsHeld, NewSlot
<1>6. LogsHeld
  BY <1>2 DEF LogsHeld
<1>. QED  BY <1>1, <1>3, <1>4, <1>5, <1>6 DEF HybridInv

\* A new version leaves the earlier ones alone.
LEMMA ApplyBatchKeeps == HybridInv /\ ApplyBatch => HybridInv'
<1>. SUFFICES ASSUME HybridInv, ApplyBatch PROVE HybridInv'
  OBVIOUS
<1>1. PICK txs \in Batches :
         LET effect == Effect(live, txs)
         IN  /\ live' = effect.state
             /\ pending' = [batch |-> nextBatch, txs |-> effect.txs]
             /\ versions' = Append(versions, effect.state)
             /\ effects' = Append(effects,
                   [before |-> live, txs |-> txs,
                    writes |-> effect.writes, ranges |-> effect.ranges])
  BY DEF ApplyBatch
<1>2. /\ pending = NoTask /\ nextBatch' = nextBatch + 1
      /\ task' = task /\ buffer' = buffer /\ pc' = pc /\ snap' = snap /\ logs' = logs
  BY DEF ApplyBatch, logVars
<1>3. /\ nextBatch \in Nat /\ live \in States /\ versions \in Seq(States)
      /\ Len(versions) = nextBatch /\ effects \in Seq(Recorded) /\ Len(effects) = nextBatch
  BY DEF HybridInv, Types
<1>4. txs \in Seq(Transactions)
  BY <1>1, HybridAssumption
<1>5. PICK s, effect, entry :
         /\ s = live /\ effect = Effect(s, txs)
         /\ entry = [before |-> s, txs |-> txs, writes |-> effect.writes,
                     ranges |-> effect.ranges]
  OBVIOUS
<1>6. /\ s \in States /\ effect.state \in States /\ effect.writes \in Seq(Accounts \X Int)
      /\ effect.ranges \in Seq(Transactions)
  BY <1>3, <1>4, <1>5, EffectType
<1>7. /\ live' = effect.state /\ pending' = [batch |-> nextBatch, txs |-> effect.txs]
      /\ versions' = Append(versions, effect.state) /\ effects' = Append(effects, entry)
  BY <1>1, <1>5
<1>8. entry \in Recorded
  BY <1>4, <1>5, <1>6 DEF Recorded
<1>9. /\ versions' \in Seq(States) /\ Len(versions') = nextBatch + 1
      /\ \A i \in 1..nextBatch : versions'[i] = versions[i]
      /\ versions'[nextBatch + 1] = effect.state
  BY <1>3, <1>6, <1>7
<1>10. /\ effects' \in Seq(Recorded) /\ Len(effects') = nextBatch + 1
       /\ \A i \in 1..nextBatch : effects'[i] = effects[i]
       /\ effects'[nextBatch + 1] = entry
  BY <1>3, <1>7, <1>8
<1>11. PICK n, begun, copied, logged :
          n = nextBatch /\ begun = Begun /\ copied = Copied /\ logged = Logged
  OBVIOUS
<1>12. /\ n \in Nat /\ begun = n
       /\ copied \in Int /\ copied <= n /\ logged \in Int /\ logged <= n
       /\ nextBatch' = n + 1 /\ Begun' = begun /\ Copied' = copied /\ Logged' = logged
  <2>1. pending' # NoTask
    BY <1>3, <1>7 DEF NoTask
  <2>2. Begun' = nextBatch /\ Begun = nextBatch
    BY <1>2, <1>3, <2>1 DEF Begun
  <2>. QED  BY <1>2, <1>3, <1>11, <2>2 DEF Copied, Logged
<1>13. Types'
  BY <1>2, <1>3, <1>6, <1>7, <1>9, <1>10 DEF HybridInv, Types
<1>14. /\ \A b \in -1..n - 1 : Version(b)' = Version(b)
       /\ \A b \in 0..n - 1 : Passed(b)' = Passed(b) /\ effects'[b + 1] = effects[b + 1]
  <2>1. \A b \in 0..n - 1 : b + 1 \in 1..nextBatch
    BY <1>3, <1>11
  <2>2. \A b \in 0..n - 1 :
           effects'[b + 1] = effects[b + 1] /\ versions'[b + 1] = versions[b + 1]
    BY <1>9, <1>10, <2>1
  <2>3. \A b \in 0..n - 1 : Passed(b)' = Passed(b)
    BY <2>2 DEF Passed
  <2>4. ASSUME NEW b \in -1..n - 1 PROVE Version(b)' = Version(b)
    <3>1. b = -1 \/ b \in 0..n - 1
      BY <1>12
    <3>. QED  BY <2>2, <3>1 DEF Version
  <2>. QED  BY <2>2, <2>3, <2>4
<1>15. History'
  <2>1. live' = Version(n)'
    BY <1>3, <1>7, <1>9, <1>11 DEF Version
  <2>2. ASSUME NEW b \in 0..n
        PROVE  LET e == effects'[b + 1]
                   built == Effect(e.before, e.txs)
               IN  /\ e.before = Version(b - 1)' /\ versions'[b + 1] = built.state
                   /\ e.writes = built.writes /\ e.ranges = built.ranges
    <3>1. CASE b = n
      <4>1. entry.before = Version(n - 1)
        BY <1>5, <1>11 DEF HybridInv, History
      <4>2. Version(b - 1)' = Version(n - 1)
        BY <1>12, <1>14, <3>1
      <4>. QED  BY <1>5, <1>9, <1>10, <1>11, <3>1, <4>1, <4>2
    <3>2. CASE b \in 0..n - 1
      <4>1. Version(b - 1)' = Version(b - 1)
        BY <1>12, <1>14, <3>2
      <4>2. effects'[b + 1] = effects[b + 1] /\ versions'[b + 1] = versions[b + 1]
        <5>1. b + 1 \in 1..n
          BY <1>12, <3>2
        <5>. QED  BY <1>9, <1>10, <1>11, <5>1
      <4>. QED  BY <1>11, <3>2, <4>1, <4>2 DEF HybridInv, History
    <3>. QED  BY <1>12, <3>1, <3>2
  <2>3. (n + 1) - 1 = n
    BY <1>12
  <2>. QED  BY <1>12, <2>1, <2>2, <2>3 DEF History
<1>16. InHand'
  <2>1. pending' = [batch |-> n, txs |-> Passed(n)'] /\ n + 1 > 0 /\ (n + 1) - 1 = n
    BY <1>5, <1>7, <1>10, <1>11, <1>12 DEF Passed
  <2>2. pc # "idle" => begun > 0 /\ task = [batch |-> begun - 1, txs |-> Passed(begun - 1)]
    BY <1>11 DEF HybridInv, InHand
  <2>3. begun > 0 => Passed(begun - 1)' = Passed(begun - 1)
    BY <1>12, <1>14
  <2>. QED  BY <1>2, <1>12, <2>1, <2>2, <2>3 DEF InHand
<1>17. BufferHolds'
  <2>1. pc = "snapshot" => \A a \in AccountsOf(Slot(begun - 1)) :
            buffer[a - Slot(begun - 1) * ChunkSize] = Version(begun - 1)[a]
    BY <1>11 DEF HybridInv, BufferHolds
  <2>2. Version(begun - 1)' = Version(begun - 1)
    BY <1>12, <1>14
  <2>. QED  BY <1>2, <1>12, <2>1, <2>2 DEF BufferHolds
<1>18. SnapshotsHeld'
  <2>1. ASSUME NEW b \in 0..copied - 1 PROVE SnapshotOf(b)' = SnapshotOf(b)
    <3>1. Version(b)' = Version(b)
      BY <1>12, <1>14
    <3>. QED  BY <3>1 DEF SnapshotOf
  <2>2. /\ \A b \in 0..copied - 1 : copied <= b + N => snap[Slot(b)] = SnapshotOf(b)
        /\ \A k \in Chunks : copied <= k => snap[k] = NewSlot(k)
    BY <1>11 DEF HybridInv, SnapshotsHeld
  <2>. QED  BY <1>2, <1>12, <2>1, <2>2 DEF SnapshotsHeld, NewSlot
<1>19. LogsHeld'
  <2>1. \A b \in 0..logged - 1 :
            logged <= b + N /\ ~Transfers(effects[b + 1].txs) =>
                logs[Slot(b)].writes = <<>> /\ logs[Slot(b)].ranges = effects[b + 1].ranges
    BY <1>11 DEF HybridInv, LogsHeld
  <2>2. \A b \in 0..logged - 1 : effects'[b + 1] = effects[b + 1]
    <3>1. \A b \in 0..logged - 1 : b \in 0..n - 1
      BY <1>12
    <3>. QED  BY <1>14, <3>1
  <2>. QED  BY <1>2, <1>12, <2>1, <2>2 DEF LogsHeld
<1>. QED  BY <1>13, <1>15, <1>16, <1>17, <1>18, <1>19 DEF HybridInv

\* The history does not change, and with it the versions.
LEMMA SameHistory ==
    ASSUME versions' = versions, effects' = effects
    PROVE  /\ \A b : Version(b)' = Version(b) /\ Passed(b)' = Passed(b)
           /\ \A b : SnapshotOf(b)' = SnapshotOf(b)
  BY DEF Version, Passed, SnapshotOf

\* The buffer gets the chunk of the last version.
LEMMA DispatchKeeps == HybridInv /\ Dispatch => HybridInv'
<1>. SUFFICES ASSUME HybridInv, Dispatch PROVE HybridInv'
  OBVIOUS
<1>1. /\ pending # NoTask /\ pc = "idle" /\ task' = pending /\ pending' = NoTask
      /\ pc' = "snapshot" /\ live' = live /\ nextBatch' = nextBatch
      /\ snap' = snap /\ logs' = logs /\ versions' = versions /\ effects' = effects
  BY DEF Dispatch, logVars
<1>2. /\ nextBatch > 0 /\ nextBatch \in Nat
      /\ pending = [batch |-> nextBatch - 1, txs |-> Passed(nextBatch - 1)]
  BY <1>1 DEF HybridInv, InHand, Types
<1>3. PICK k \in Chunks : k = Slot(nextBatch - 1)
  BY <1>2, SlotIs
<1>4. /\ buffer' = [i \in Accounts |-> IF i < ChunkSize THEN live[k * ChunkSize + i]
                                                        ELSE buffer[i]]
      /\ live \in States /\ buffer \in States
  BY <1>2, <1>3 DEF Dispatch, HybridInv, Types
<1>5. Begun = nextBatch - 1 /\ Copied = Begun /\ Logged = Begun
      /\ Begun' = nextBatch /\ Copied' = Copied /\ Logged' = Logged
  BY <1>1, <1>2 DEF Begun, Copied, Logged
<1>6. \A i \in Accounts : i < ChunkSize => k * ChunkSize + i \in Accounts
  <2>1. PICK low : low = k * ChunkSize
    OBVIOUS
  <2>2. ASSUME NEW i \in Accounts, i < ChunkSize PROVE low + i \in AccountsOf(k)
    <3>1. /\ (k + 1) * ChunkSize = low + ChunkSize /\ low \in Nat
          /\ ChunkSize \in Nat /\ i \in Nat
      BY <2>1, HybridAssumption DEF Chunks, Accounts
    <3>2. PICK high : high = (k + 1) * ChunkSize
      OBVIOUS
    <3>3. low + i \in low..high - 1
      BY <2>2, <3>1, <3>2
    <3>. QED  BY <2>1, <3>2, <3>3 DEF AccountsOf
  <2>. QED  BY <2>1, <2>2, ChunkAccounts
<1>7. buffer' \in States
  BY <1>4, <1>6 DEF States
<1>8. Types'
  BY <1>1, <1>7 DEF HybridInv, Types
<1>9. History'
  BY <1>1, SameHistory DEF HybridInv, History
<1>10. InHand'
  BY <1>1, <1>2, <1>5, SameHistory DEF InHand
<1>11. BufferHolds'
  <2>1. live = Version(nextBatch - 1)
    BY DEF HybridInv, History
  <2>2. ASSUME NEW a \in AccountsOf(k)
        PROVE  buffer'[a - k * ChunkSize] = Version(nextBatch - 1)[a]
    <3>1. PICK i : i = a - k * ChunkSize
      OBVIOUS
    <3>2. i \in Accounts /\ i < ChunkSize /\ k * ChunkSize + i = a
      BY <3>1, ChunkAccounts
    <3>. QED  BY <1>4, <2>1, <3>1, <3>2
  <2>3. PICK n : n = nextBatch
    OBVIOUS
  <2>4. Version(n - 1)' = Version(n - 1)
    BY <1>1 DEF Version
  <2>5. Begun' = n /\ k = Slot(n - 1)
    BY <1>3, <1>5, <2>3
  <2>. QED  BY <2>2, <2>3, <2>4, <2>5 DEF BufferHolds
<1>12. SnapshotsHeld'
  BY <1>1, <1>5, SameHistory DEF HybridInv, SnapshotsHeld, NewSlot
<1>13. LogsHeld'
  BY <1>1, <1>5 DEF HybridInv, LogsHeld
<1>. QED  BY <1>8, <1>9, <1>10, <1>11, <1>12, <1>13 DEF HybridInv

\* The snapshot in the ring is of the batch in hand; no other slot changes.
LEMMA CopySnapshotKeeps == HybridInv /\ CopySnapshot => HybridInv'
<1>. SUFFICES ASSUME HybridInv, CopySnapshot PROVE HybridInv'
  OBVIOUS
<1>1. /\ pc = "snapshot" /\ pc' = "batch" /\ live' = live /\ nextBatch' = nextBatch
      /\ pending' = pending /\ task' = task /\ buffer' = buffer /\ logs' = logs
      /\ versions' = versions /\ effects' = effects
  BY DEF CopySnapshot
<1>2. Begun \in Nat /\ Copied \in Nat /\ task.batch = Begun - 1 /\ Begun = Copied + 1
      /\ Begun' = Begun /\ Copied' = Copied + 1 /\ Logged' = Logged
  <2>1. Begun \in Nat /\ Copied \in Nat
    BY Counters DEF HybridInv
  <2>2. Begun' = Begun
    BY <1>1 DEF Begun
  <2>3. task.batch = Begun - 1
    BY <1>1 DEF HybridInv, InHand
  <2>. QED  BY <1>1, <2>1, <2>2, <2>3 DEF Copied, Logged
<1>3. PICK k \in Chunks : k = Slot(Copied)
  BY <1>2, SlotIs
<1>4. snap' = [snap EXCEPT ![k] = [batch |-> Copied, chunk |-> k,
                                    data |-> BufferAsChunk(k, buffer)]]
  BY <1>2, <1>3 DEF CopySnapshot
<1>5. BufferAsChunk(k, buffer) = [a \in AccountsOf(k) |-> Version(Copied)[a]]
  <2>1. \A a \in AccountsOf(k) : buffer[a - k * ChunkSize] = Version(Copied)[a]
    BY <1>1, <1>2, <1>3 DEF HybridInv, BufferHolds
  <2>. QED  BY <2>1 DEF BufferAsChunk
<1>6. DOMAIN snap = Chunks
  BY DEF HybridInv, Types
<1>7. Types'
  BY <1>1, <1>4, <1>6 DEF HybridInv, Types
<1>8. History' /\ InHand' /\ BufferHolds' /\ LogsHeld'
  BY <1>1, <1>2, SameHistory DEF HybridInv, History, InHand, BufferHolds, LogsHeld
<1>9. SnapshotsHeld'
  <2>1. ASSUME NEW b \in 0..Copied' - 1, Copied' <= b + N PROVE snap'[Slot(b)] = SnapshotOf(b)'
    <3>1. CASE b = Copied
      BY <1>3, <1>4, <1>5, <1>6, <3>1, SameHistory, <1>1 DEF SnapshotOf
    <3>2. CASE b < Copied
      <4>1. b \in Nat /\ b \in 0..Copied - 1 /\ Copied <= b + N /\ Copied < b + N
        BY <1>2, <2>1, <3>2, HybridAssumption
      <4>2. Slot(b) # k
        BY <1>2, <1>3, <3>2, <4>1, SlotsApart
      <4>. QED  BY <1>1, <1>4, <4>1, <4>2, SameHistory DEF HybridInv, SnapshotsHeld
    <3>. QED  BY <1>2, <3>1, <3>2
  <2>2. ASSUME NEW j \in Chunks, Copied' <= j PROVE snap'[j] = NewSlot(j)
    <3>1. j \in Nat /\ j < N /\ Copied < j
      BY <1>2, <2>2, HybridAssumption DEF Chunks
    <3>2. k = Copied
      BY <1>2, <1>3, <3>1, SlotIs, HybridAssumption
    <3>. QED  BY <1>2, <1>4, <3>1, <3>2 DEF HybridInv, SnapshotsHeld
  <2>. QED  BY <2>1, <2>2 DEF SnapshotsHeld, NewSlot
<1>. QED  BY <1>7, <1>8, <1>9 DEF HybridInv

\* Nothing but the disk, the task and the phase changes: a sync when the worker is done,
\* a kill, a recovery.
LEMMA OthersKeep == HybridInv /\ (Sync \/ Kill \/ Recover \/ UNCHANGED vars) => HybridInv'
<1>. SUFFICES ASSUME HybridInv, Sync \/ Kill \/ Recover \/ UNCHANGED vars PROVE HybridInv'
  OBVIOUS
<1>1. /\ live' = live /\ nextBatch' = nextBatch /\ pending' = pending /\ buffer' = buffer
      /\ snap' = snap /\ logs' = logs /\ versions' = versions /\ effects' = effects
      /\ \/ pc' = pc /\ task' = task
         \/ pc = "sync" /\ pc' = "idle"
  BY DEF Sync, Kill, Recover, vars, logVars, recoveryVars
<1>2. Begun' = Begun /\ Copied' = Copied /\ Logged' = Logged
  BY <1>1 DEF Begun, Copied, Logged
<1>3. Types'
  BY <1>1 DEF HybridInv, Types
<1>4. History'
  BY <1>1, SameHistory DEF HybridInv, History
<1>5. InHand' /\ BufferHolds'
  BY <1>1, <1>2, SameHistory DEF HybridInv, InHand, BufferHolds
<1>6. SnapshotsHeld'
  BY <1>1, <1>2, SameHistory DEF HybridInv, SnapshotsHeld, NewSlot
<1>7. LogsHeld'
  BY <1>1, <1>2 DEF HybridInv, LogsHeld
<1>. QED  BY <1>3, <1>4, <1>5, <1>6, <1>7 DEF HybridInv

-----------------------------------------------------------------------------
\* Batches of range sets.

\* The loop over a batch without transfers adds nothing to the write set, and passes on
\* what the log depends on: which transactions are range sets, and those as they are.
PassedOn(txs, i, built) ==
    /\ built.writes = <<>> /\ Len(built.txs) = i
    /\ \A k \in 1..i : /\ built.txs[k].func = txs[k].func
                       /\ txs[k].func = "range" => built.txs[k] = txs[k]

\* It holds from the first transaction to the last.
LEMMA NoTransfers ==
    ASSUME NEW s \in States, NEW txs \in Seq(Transactions), ~Transfers(txs)
    PROVE  PassedOn(txs, Len(txs), Effect(s, txs))
<1>. DEFINE e == Effects(s, txs)
            H == {i \in 0..Len(txs) : PassedOn(txs, i, e[i])}
<1>1. /\ Len(txs) \in Nat
      /\ e[0] = [state |-> s, writes |-> <<>>, ranges |-> <<>>, txs |-> <<>>]
      /\ \A i \in 1..Len(txs) : e[i] = ApplyTx(e[i - 1], txs[i])
      /\ \A i \in 0..Len(txs) : e[i] \in Built
  BY EffectsAre, EffectsTypes
<1>. HIDE DEF e
<1>2. 0 \in H
  BY <1>1 DEF PassedOn
<1>3. ASSUME NEW i \in 0..Len(txs) - 1, i \in H PROVE i + 1 \in H
  <2>1. PICK acc, tx, new : acc = e[i] /\ tx = txs[i + 1] /\ new = e[i + 1]
    OBVIOUS
  <2>2. i + 1 \in 1..Len(txs) /\ i + 1 \in 0..Len(txs) /\ (i + 1) - 1 = i /\ i \in 0..Len(txs)
    BY <1>1
  <2>3. /\ acc \in Built /\ tx \in Transactions /\ new = ApplyTx(acc, tx)
        /\ PassedOn(txs, i, acc) /\ tx.func # "transfer"
    <3>1. e[i + 1] = ApplyTx(e[(i + 1) - 1], txs[i + 1])
      BY <1>1, <2>2
    <3>2. i + 1 \in DOMAIN txs
      BY <2>2
    <3>. QED  BY <1>1, <1>3, <2>1, <2>2, <3>1, <3>2 DEF Transfers
  <2>4. /\ Grows(acc, new) /\ new.writes = acc.writes
        /\ new.txs[Len(acc.txs) + 1].func = tx.func
        /\ tx.func = "range" => new.txs[Len(acc.txs) + 1] = tx
    BY <2>3, OneTransaction DEF Moves, Sets, Clears
  <2>5. Len(acc.txs) = i /\ Len(new.txs) = i + 1 /\ new.writes = <<>>
    BY <2>3, <2>4 DEF PassedOn, Grows
  <2>6. ASSUME NEW k \in 1..i + 1
        PROVE  /\ new.txs[k].func = txs[k].func
               /\ txs[k].func = "range" => new.txs[k] = txs[k]
    <3>1. CASE k = i + 1
      BY <2>1, <2>4, <2>5, <3>1
    <3>2. CASE k \in 1..i
      BY <2>3, <2>4, <2>5, <3>2 DEF PassedOn, Grows
    <3>. QED  BY <2>2, <3>1, <3>2
  <2>7. PassedOn(txs, i + 1, new)
    BY <2>5, <2>6 DEF PassedOn
  <2>. QED  BY <2>1, <2>2, <2>7
<1>4. Len(txs) \in H
  <2>. HIDE DEF H
  <2>1. \A i \in 0..Len(txs) : i \in H
    BY <1>1, <1>2, <1>3, UpTo
  <2>. QED  BY <1>1, <2>1
<1>. QED  BY <1>4 DEF e, Effect

\* Two batches with the same range sets at the same places, and no transfers.
SameSets(txs, others) ==
    /\ Len(others) = Len(txs) /\ ~Transfers(txs) /\ ~Transfers(others)
    /\ \A k \in 1..Len(txs) : /\ others[k].func = txs[k].func
                              /\ txs[k].func = "range" => others[k] = txs[k]

\* Whatever states they are applied to, they leave the same range sets.
LEMMA SameRanges ==
    ASSUME NEW s \in States, NEW t \in States, NEW txs \in Seq(Transactions),
           NEW others \in Seq(Transactions), SameSets(txs, others)
    PROVE  Effect(t, others).ranges = Effect(s, txs).ranges
<1>. DEFINE e == Effects(s, txs)  f == Effects(t, others)
            H == {i \in 0..Len(txs) : f[i].ranges = e[i].ranges}
<1>1. /\ Len(txs) \in Nat
      /\ e[0] = [state |-> s, writes |-> <<>>, ranges |-> <<>>, txs |-> <<>>]
      /\ \A i \in 1..Len(txs) : e[i] = ApplyTx(e[i - 1], txs[i])
      /\ \A i \in 0..Len(txs) : e[i] \in Built
  BY EffectsAre, EffectsTypes
<1>2. /\ Len(others) = Len(txs)
      /\ f[0] = [state |-> t, writes |-> <<>>, ranges |-> <<>>, txs |-> <<>>]
      /\ \A i \in 1..Len(txs) : f[i] = ApplyTx(f[i - 1], others[i])
      /\ \A i \in 0..Len(txs) : f[i] \in Built
  <2>1. Len(others) = Len(txs) /\ Len(others) \in Nat
    BY <1>1 DEF SameSets
  <2>. QED  BY <2>1, EffectsAre, EffectsTypes
<1>. HIDE DEF e, f
<1>3. 0 \in H
  BY <1>1, <1>2
<1>4. ASSUME NEW i \in 0..Len(txs) - 1, i \in H PROVE i + 1 \in H
  <2>1. PICK acc, tx, other, also :
           acc = e[i] /\ tx = txs[i + 1] /\ other = others[i + 1] /\ also = f[i]
    OBVIOUS
  <2>2. i + 1 \in 1..Len(txs) /\ i + 1 \in 0..Len(txs) /\ (i + 1) - 1 = i /\ i \in 0..Len(txs)
    BY <1>1
  <2>3. /\ acc \in Built /\ also \in Built /\ tx \in Transactions /\ other \in Transactions
        /\ e[i + 1] = ApplyTx(acc, tx) /\ f[i + 1] = ApplyTx(also, other)
        /\ also.ranges = acc.ranges
    <3>1. e[i + 1] = ApplyTx(e[(i + 1) - 1], txs[i + 1])
      BY <1>1, <2>2
    <3>2. f[i + 1] = ApplyTx(f[(i + 1) - 1], others[i + 1])
      BY <1>2, <2>2
    <3>3. i + 1 \in 1..Len(others)
      BY <1>2, <2>2
    <3>. QED  BY <1>1, <1>2, <1>4, <2>1, <2>2, <3>1, <3>2, <3>3
  <2>4. /\ tx.func # "transfer" /\ other.func = tx.func
        /\ tx.func = "range" => other = tx
    <3>1. i + 1 \in DOMAIN txs
      BY <2>2
    <3>. QED  BY <2>1, <2>2, <3>1 DEF SameSets, Transfers
  <2>5. \A from \in Built, step \in Transactions :
           step.func # "transfer" =>
               \/ step.func = "range" /\ ApplyTx(from, step).ranges = Append(from.ranges, step)
               \/ step.func # "range" /\ ApplyTx(from, step).ranges = from.ranges
    BY OneTransaction DEF Moves, Sets, Clears
  <2>6. /\ tx.func = "range" => /\ ApplyTx(acc, tx).ranges = Append(acc.ranges, tx)
                                /\ ApplyTx(also, other).ranges = Append(also.ranges, tx)
        /\ tx.func # "range" => /\ ApplyTx(acc, tx).ranges = acc.ranges
                                /\ ApplyTx(also, other).ranges = also.ranges
    BY <2>3, <2>4, <2>5
  <2>7. f[i + 1].ranges = e[i + 1].ranges
    BY <2>3, <2>6
  <2>. QED  BY <2>2, <2>7
<1>5. Len(txs) \in H
  <2>. HIDE DEF H
  <2>1. \A i \in 0..Len(txs) : i \in H
    BY <1>1, <1>3, <1>4, UpTo
  <2>. QED  BY <1>1, <2>1
<1>. QED  BY <1>2, <1>5 DEF e, f, Effect

\* The batch that the worker applies to its buffer leaves the range sets that main has
\* recorded, if it has no transfers.
LEMMA CopyBatchKeeps == HybridInv /\ CopyBatch => HybridInv'
<1>. SUFFICES ASSUME HybridInv, CopyBatch PROVE HybridInv'
  OBVIOUS
<1>1. /\ pc = "batch" /\ pc' = "sync" /\ live' = live /\ nextBatch' = nextBatch
      /\ pending' = pending /\ task' = task /\ snap' = snap
      /\ versions' = versions /\ effects' = effects
  BY DEF CopyBatch
<1>2. PICK b : b = Begun - 1
  OBVIOUS
<1>3. /\ b \in Nat /\ b + 1 = Begun /\ Begun <= nextBatch
      /\ task = [batch |-> b, txs |-> Passed(b)]
      /\ Begun' = Begun /\ Copied' = Copied /\ Logged = b /\ Logged' = b + 1
  <2>1. Begun \in Nat /\ Begun <= nextBatch
    BY Counters DEF HybridInv
  <2>2. Begun > 0 /\ task = [batch |-> b, txs |-> Passed(b)]
    BY <1>1, <1>2 DEF HybridInv, InHand
  <2>3. Begun' = Begun
    BY <1>1 DEF Begun
  <2>. QED  BY <1>1, <1>2, <2>1, <2>2, <2>3 DEF Copied, Logged
<1>4. PICK entry : entry = effects[b + 1]
  OBVIOUS
<1>5. /\ entry \in Recorded /\ entry.before \in States /\ entry.txs \in Seq(Transactions)
      /\ entry.ranges = Effect(entry.before, entry.txs).ranges
  <2>1. b \in 0..nextBatch - 1 /\ b + 1 \in 1..nextBatch
    BY <1>3 DEF HybridInv, Types
  <2>2. entry \in Recorded
    BY <1>4, <2>1 DEF HybridInv, Types
  <2>3. entry.ranges = Effect(entry.before, entry.txs).ranges
    BY <1>4, <2>1 DEF HybridInv, History
  <2>. QED  BY <2>2, <2>3 DEF Recorded
<1>6. PICK s, txs, passed, t :
         s = entry.before /\ txs = entry.txs /\ passed = Passed(b) /\ t = buffer
  OBVIOUS
<1>7. /\ s \in States /\ t \in States /\ txs \in Seq(Transactions)
      /\ passed = Effect(s, txs).txs /\ task.txs = passed
  BY <1>3, <1>4, <1>5, <1>6 DEF HybridInv, Types, Passed
<1>8. passed \in Seq(Transactions) /\ Len(passed) = Len(txs)
  BY <1>7, EffectType
<1>9. PICK effect : effect = Effect(t, passed)
  OBVIOUS
<1>10. /\ effect.state \in States /\ effect.writes \in Seq(Accounts \X Int)
       /\ effect.ranges \in Seq(Transactions)
  BY <1>7, <1>8, <1>9, EffectType
<1>11. PICK k \in Chunks : k = Slot(b)
  BY <1>3, SlotIs
<1>12. PICK record : record = [batch |-> b, writes |-> effect.writes, ranges |-> effect.ranges]
  OBVIOUS
<1>13. /\ buffer' = effect.state /\ logs' = [logs EXCEPT ![k] = record]
       /\ record \in LogRecords /\ logs \in [Chunks -> LogRecords]
  BY <1>3, <1>6, <1>7, <1>9, <1>10, <1>11, <1>12 DEF CopyBatch, LogRecords, HybridInv, Types
<1>14. ~Transfers(txs) => effect.writes = <<>> /\ effect.ranges = entry.ranges
  <2>. SUFFICES ASSUME ~Transfers(txs)
                PROVE  effect.writes = <<>> /\ effect.ranges = entry.ranges
    OBVIOUS
  <2>1. PassedOn(txs, Len(txs), Effect(s, txs))
    BY <1>7, NoTransfers
  <2>2. \A i \in 1..Len(txs) : /\ passed[i].func = txs[i].func
                               /\ txs[i].func = "range" => passed[i] = txs[i]
    BY <1>7, <2>1 DEF PassedOn
  <2>3. ~Transfers(passed)
    <3>1. \A i \in DOMAIN passed : i \in DOMAIN txs /\ i \in 1..Len(txs)
      BY <1>7, <1>8
    <3>. QED  BY <2>2, <3>1 DEF Transfers
  <2>4. SameSets(txs, passed)
    BY <1>8, <2>2, <2>3 DEF SameSets
  <2>5. Effect(t, passed).ranges = Effect(s, txs).ranges
    BY <1>7, <1>8, <2>4, SameRanges
  <2>6. PassedOn(passed, Len(passed), Effect(t, passed))
    BY <1>7, <1>8, <2>3, NoTransfers
  <2>. QED  BY <1>5, <1>6, <1>9, <2>5, <2>6 DEF PassedOn
<1>15. Types'
  BY <1>1, <1>10, <1>13 DEF HybridInv, Types
<1>16. History' /\ SnapshotsHeld'
  BY <1>1, <1>3, SameHistory DEF HybridInv, History, SnapshotsHeld, NewSlot
<1>17. InHand' /\ BufferHolds'
  BY <1>1, <1>3, SameHistory DEF HybridInv, InHand, BufferHolds
<1>18. LogsHeld'
  <2>1. ASSUME NEW c \in 0..b, b + 1 <= c + N, ~Transfers(effects[c + 1].txs)
        PROVE  logs'[Slot(c)].writes = <<>> /\ logs'[Slot(c)].ranges = effects[c + 1].ranges
    <3>1. CASE c = b
      <4>1. logs'[k] = record
        BY <1>13
      <4>. QED  BY <1>4, <1>6, <1>11, <1>12, <1>14, <2>1, <3>1, <4>1
    <3>2. CASE c < b
      <4>1. c \in Nat /\ c \in 0..Logged - 1 /\ Logged <= c + N /\ b < c + N
        BY <1>3, <2>1, <3>2, HybridAssumption
      <4>2. Slot(c) # k /\ Slot(c) \in Chunks
        BY <1>3, <1>11, <3>2, <4>1, SlotsApart, SlotIs
      <4>3. logs'[Slot(c)] = logs[Slot(c)]
        BY <1>13, <4>2
      <4>. QED  BY <2>1, <4>1, <4>3 DEF HybridInv, LogsHeld
    <3>. QED  BY <1>3, <3>1, <3>2
  <2>2. (b + 1) - 1 = b
    BY <1>3
  <2>. QED  BY <1>1, <1>3, <2>1, <2>2 DEF LogsHeld
<1>. QED  BY <1>15, <1>16, <1>17, <1>18 DEF HybridInv

\* The invariant is inductive.
LEMMA HybridInductive == HybridInv /\ [Next]_vars => HybridInv'
  BY ApplyBatchKeeps, DispatchKeeps, CopySnapshotKeeps, CopyBatchKeeps, OthersKeep DEF Next

-----------------------------------------------------------------------------
\* Recovery from range sets.

\* A log without balances, and whether one of its range sets has the account.
RangeBatch(log) == log.writes = <<>> /\ log.ranges \in Seq(Transactions)
HasAccount(a, log) == \E i \in 1..Len(log.ranges) : a \in Span(log.ranges[i])

\* A log of batches low to high has the account.
HasIn(a, low, high) == \E b \in low..high : HasAccount(a, logs[Slot(b)])

\* What is left of two states at an account: the same value if has, else their own.
Either(has, a, s, t, x, y) == IF has THEN x[a] = y[a] ELSE x[a] = s[a] /\ y[a] = t[a]

\* The replay of one batch of range sets, from two states.
LEMMA ReplayOne ==
    ASSUME NEW s \in States, NEW t \in States, NEW log, RangeBatch(log)
    PROVE  /\ ReplayLog(s, log) \in States
           /\ \A a \in Accounts :
                 Either(HasAccount(a, log), a, s, t, ReplayLog(s, log), ReplayLog(t, log))
<1>. DEFINE rs == log.ranges
<1>1. rs \in Seq(Transactions) /\ log.writes = <<>> /\ Len(<<>>) = 0 /\ Len(rs) \in Nat
  BY DEF RangeBatch
<1>2. StoreWrites(s, <<>>)[0] = s /\ StoreWrites(t, <<>>)[0] = t
  <2>1. Len(<<>>) \in Nat
    BY <1>1
  <2>. QED  BY <2>1, StoreWritesAre
<1>3. /\ ReplayLog(s, log) = ReplayRanges(s, rs)[Len(rs)]
      /\ ReplayLog(t, log) = ReplayRanges(t, rs)[Len(rs)]
  BY <1>1, <1>2 DEF ReplayLog
<1>. HIDE DEF rs
<1>4. ReplayRanges(s, rs)[Len(rs)] \in States
  <2>1. Len(rs) \in 0..Len(rs) /\ Len(rs) <= Len(rs)
    BY <1>1
  <2>2. \A st \in States : ReplayRanges(st, rs)[Len(rs)] \in States
    BY <1>1, <2>1, RangesBegin
  <2>. QED  BY <2>2
<1>5. ASSUME NEW a \in Accounts
      PROVE  Either(HasAccount(a, log), a, s, t, ReplayLog(s, log), ReplayLog(t, log))
  <2>1. \/ /\ \E i \in 1..Len(rs) : a \in Span(rs[i])
           /\ ReplayRanges(s, rs)[Len(rs)][a] = ReplayRanges(t, rs)[Len(rs)][a]
        \/ /\ \A i \in 1..Len(rs) : a \notin Span(rs[i])
           /\ ReplayRanges(s, rs)[Len(rs)][a] = s[a]
           /\ ReplayRanges(t, rs)[Len(rs)][a] = t[a]
    BY <1>1, RangesAt
  <2>. QED  BY <1>3, <2>1 DEF Either, HasAccount, rs
<1>. QED  BY <1>3, <1>4, <1>5

\* The loop over some batches of range sets, at one account.
LEMMA ReplaySome ==
    ASSUME NEW s \in States, NEW t \in States, NEW first \in Nat, NEW count \in Nat,
           \A b \in first..first + count - 1 : RangeBatch(logs[Slot(b)]), NEW a \in Accounts
    PROVE  LET x == ReplayFrom(s, first, count)[count]
               y == ReplayFrom(t, first, count)[count]
           IN  x \in States /\ Either(HasIn(a, first, first + count - 1), a, s, t, x, y)
<1>. DEFINE e == ReplayFrom(s, first, count)  f == ReplayFrom(t, first, count)
            H == {i \in 0..count : /\ e[i] \in States /\ f[i] \in States
                                   /\ Either(HasIn(a, first, first + i - 1), a,
                                             s, t, e[i], f[i])}
<1>1. e[0] = s /\ \A i \in 1..count : e[i] = ReplayLog(e[i - 1], logs[Slot(first + i - 1)])
  BY ReplayFromIs
<1>2. f[0] = t /\ \A i \in 1..count : f[i] = ReplayLog(f[i - 1], logs[Slot(first + i - 1)])
  BY ReplayFromIs
<1>. HIDE DEF e, f
<1>3. 0 \in H
  <2>1. ~HasIn(a, first, first + 0 - 1)
    BY DEF HasIn
  <2>. QED  BY <1>1, <1>2, <2>1 DEF Either
<1>4. ASSUME NEW i \in 0..count - 1, i \in H PROVE i + 1 \in H
  <2>1. PICK log, v, w : log = logs[Slot(first + i)] /\ v = e[i] /\ w = f[i]
    OBVIOUS
  <2>2. /\ i + 1 \in 1..count /\ (i + 1) - 1 = i /\ first + (i + 1) - 1 = first + i
        /\ first + i \in first..first + count - 1
    OBVIOUS
  <2>3. e[i + 1] = ReplayLog(v, log) /\ f[i + 1] = ReplayLog(w, log)
    BY <1>1, <1>2, <2>1, <2>2
  <2>4. v \in States /\ w \in States /\ RangeBatch(log)
        /\ Either(HasIn(a, first, first + i - 1), a, s, t, v, w)
    BY <1>4, <2>1, <2>2
  <2>5. /\ ReplayLog(v, log) \in States /\ ReplayLog(w, log) \in States
        /\ Either(HasAccount(a, log), a, v, w, ReplayLog(v, log), ReplayLog(w, log))
    BY <2>4, ReplayOne
  <2>6. HasIn(a, first, first + i) <=> HasIn(a, first, first + i - 1) \/ HasAccount(a, log)
    <3>1. \A b \in first..first + i : b \in first..first + i - 1 \/ b = first + i
      OBVIOUS
    <3>2. \A b \in first..first + i - 1 : b \in first..first + i
      OBVIOUS
    <3>3. first + i \in first..first + i
      OBVIOUS
    <3>. QED  BY <2>1, <3>1, <3>2, <3>3 DEF HasIn
  <2>7. Either(HasIn(a, first, first + i), a, s, t, ReplayLog(v, log), ReplayLog(w, log))
    BY <2>4, <2>5, <2>6 DEF Either
  <2>. QED  BY <2>2, <2>3, <2>5, <2>7
<1>5. count \in H
  <2>. HIDE DEF H
  <2>1. \A i \in 0..count : i \in H
    BY <1>3, <1>4, UpTo
  <2>. QED  BY <2>1
<1>. QED  BY <1>5 DEF e, f

\* There have been range sets only, and the worker is between batches or before the copy of
\* one.
RangesOnly == Whole /\ \A b \in DOMAIN effects : ~Transfers(effects[b].txs)

\* The logs of the last N batches then take one version to the next.
LEMMA LogReplays ==
    ASSUME HybridInv, RangesOnly, NEW b \in 0..Logged - 1, Logged <= b + N
    PROVE  /\ RangeBatch(logs[Slot(b)])
           /\ ReplayLog(Version(b - 1), logs[Slot(b)]) = Version(b)
<1>1. /\ b \in Nat /\ b \in 0..nextBatch - 1 /\ b + 1 \in DOMAIN effects /\ b # -1
      /\ nextBatch \in Nat
  BY Counters DEF HybridInv, Types
<1>2. PICK entry, log : entry = effects[b + 1] /\ log = logs[Slot(b)]
  OBVIOUS
<1>3. /\ entry \in Recorded /\ entry.before \in States /\ entry.txs \in Seq(Transactions)
      /\ entry.ranges \in Seq(Transactions) /\ ~Transfers(entry.txs)
  <2>1. entry \in Recorded /\ ~Transfers(entry.txs)
    BY <1>1, <1>2 DEF HybridInv, Types, RangesOnly
  <2>. QED  BY <2>1 DEF Recorded
<1>4. log.writes = <<>> /\ log.ranges = entry.ranges
  BY <1>2, <1>3 DEF HybridInv, LogsHeld
<1>5. entry.writes = <<>>
  <2>1. entry.writes = Effect(entry.before, entry.txs).writes
    BY <1>1, <1>2 DEF HybridInv, History
  <2>2. PICK s, txs : s = entry.before /\ txs = entry.txs
    OBVIOUS
  <2>3. PassedOn(txs, Len(txs), Effect(s, txs))
    BY <1>3, <2>2, NoTransfers
  <2>. QED  BY <2>1, <2>2, <2>3 DEF PassedOn
<1>6. ReplayLog(entry.before, entry) = versions[b + 1]
  <2>1. ~TransferAfterRange(entry.txs)
    BY <1>3 DEF TransferAfterRange, Transfers
  <2>. QED  BY <1>1, <1>2, <2>1, HistoryReplays DEF EffectReproducesBatch
<1>7. entry.before = Version(b - 1) /\ Version(b) = versions[b + 1]
  BY <1>1, <1>2 DEF HybridInv, History, Version
<1>8. ReplayLog(entry.before, log) = ReplayLog(entry.before, entry)
  BY <1>4, <1>5 DEF ReplayLog
<1>. QED  BY <1>2, <1>3, <1>4, <1>6, <1>7, <1>8 DEF RangeBatch

\* Every version is a state.
LEMMA VersionTypes ==
    HybridInv => \A b \in -1..nextBatch - 1 : Version(b) \in States
  BY StateTypes DEF HybridInv, Types, Version

\* So the versions are what the loop over the batches leaves.
LEMMA VersionsReplay ==
    ASSUME HybridInv, RangesOnly, NEW first \in Nat, NEW count \in Nat,
           first + count <= Logged, Logged <= first + N
    PROVE  ReplayFrom(Version(first - 1), first, count)[count] = Version(first + count - 1)
<1>. DEFINE e == ReplayFrom(Version(first - 1), first, count)
            H == {i \in 0..count : e[i] = Version(first + i - 1)}
<1>1. /\ e[0] = Version(first - 1)
      /\ \A i \in 1..count : e[i] = ReplayLog(e[i - 1], logs[Slot(first + i - 1)])
  BY ReplayFromIs
<1>2. Logged \in Nat /\ N \in Nat
  BY Counters, HybridAssumption DEF HybridInv
<1>. HIDE DEF e
<1>3. 0 \in H
  <2>1. first + 0 - 1 = first - 1
    OBVIOUS
  <2>. QED  BY <1>1, <2>1
<1>4. ASSUME NEW i \in 0..count - 1, i \in H PROVE i + 1 \in H
  <2>1. PICK b : b = first + i
    OBVIOUS
  <2>2. /\ b \in 0..Logged - 1 /\ Logged <= b + N /\ i + 1 \in 1..count /\ (i + 1) - 1 = i
        /\ first + (i + 1) - 1 = b /\ first + i - 1 = b - 1
    BY <1>2, <2>1
  <2>3. ReplayLog(Version(b - 1), logs[Slot(b)]) = Version(b)
    BY <2>2, LogReplays
  <2>4. e[i + 1] = ReplayLog(e[i], logs[Slot(b)])
    BY <1>1, <2>2
  <2>. QED  BY <1>4, <2>2, <2>3, <2>4
<1>5. count \in H
  <2>. HIDE DEF H
  <2>1. \A i \in 0..count : i \in H
    BY <1>3, <1>4, UpTo
  <2>. QED  BY <2>1
<1>. QED  BY <1>5 DEF e

\* The batch in the chunk j places before that of batch c, or none.
Back(c, j) == IF j <= c THEN c - j ELSE -1

\* What recovery finds in the ring, if a snapshot is there: the chunk of the last one is
\* the latest, and those before it are the batches before in turn.
LEMMA RingRead ==
    ASSUME HybridInv, NEW c \in Nat, c + 1 = Copied
    PROVE  /\ LatestChunk = Slot(c) /\ ChunkBatch(LatestChunk) = c
           /\ \A j \in 0..N - 1 :
                 /\ ChunkBefore(j) \in Chunks /\ ChunkBatch(ChunkBefore(j)) = Back(c, j)
                 /\ Back(c, j) >= 0 => snap[ChunkBefore(j)] = SnapshotOf(Back(c, j))
<1>1. N \in Nat /\ N > 0
  BY HybridAssumption
<1>2. \A b \in 0..c : c + 1 <= b + N =>
         /\ snap[Slot(b)] = SnapshotOf(b) /\ Slot(b) \in ValidChunks /\ ChunkBatch(Slot(b)) = b
  <2>. SUFFICES ASSUME NEW b \in 0..c, c + 1 <= b + N
                PROVE  /\ snap[Slot(b)] = SnapshotOf(b) /\ Slot(b) \in ValidChunks
                       /\ ChunkBatch(Slot(b)) = b
    OBVIOUS
  <2>1. b \in 0..Copied - 1 /\ Copied <= b + N /\ Slot(b) \in Chunks
    BY SlotIs
  <2>2. snap[Slot(b)] = SnapshotOf(b)
    BY <2>1 DEF HybridInv, SnapshotsHeld
  <2>. QED  BY <2>1, <2>2 DEF SnapshotOf, ValidChunks, ChunkBatch
<1>3. \A k \in Chunks : c + 1 <= k => k \notin ValidChunks /\ ChunkBatch(k) = -1
  <2>. SUFFICES ASSUME NEW k \in Chunks, c + 1 <= k PROVE k \notin ValidChunks
    BY DEF ChunkBatch
  <2>1. snap[k] = NewSlot(k) /\ k # 0
    BY <1>1 DEF HybridInv, SnapshotsHeld, Chunks
  <2>. QED  BY <2>1 DEF NewSlot, ValidChunks
<1>4. \A k \in ValidChunks : \E b \in 0..c : c + 1 <= b + N /\ Slot(b) = k /\ snap[k].batch = b
  <2>. SUFFICES ASSUME NEW k \in ValidChunks
                PROVE  \E b \in 0..c : c + 1 <= b + N /\ Slot(b) = k /\ snap[k].batch = b
    OBVIOUS
  <2>1. k \in Chunks /\ k < c + 1
    BY <1>1, <1>3 DEF ValidChunks, Chunks
  <2>2. PICK b \in 0..(c + 1) - 1 : c + 1 <= b + N /\ Slot(b) = k
    BY <2>1, SlotHeld
  <2>3. b \in 0..c /\ snap[k] = SnapshotOf(b)
    BY <1>2, <2>2
  <2>. QED  BY <2>2, <2>3 DEF SnapshotOf
<1>5. c \in 0..c /\ c + 1 <= c + N
  BY <1>1
<1>6. Slot(c) \in ValidChunks /\ snap[Slot(c)].batch = c /\ ChunkBatch(Slot(c)) = c
  <2>1. snap[Slot(c)] = SnapshotOf(c) /\ Slot(c) \in ValidChunks /\ ChunkBatch(Slot(c)) = c
    BY <1>2, <1>5
  <2>. QED  BY <2>1 DEF SnapshotOf
<1>. DEFINE Latest(k) == \A j \in ValidChunks : \/ snap[j].batch < snap[k].batch
                                                \/ snap[j].batch = snap[k].batch /\ k <= j
<1>7. Latest(Slot(c))
  <2>. SUFFICES ASSUME NEW j \in ValidChunks
                PROVE  \/ snap[j].batch < snap[Slot(c)].batch
                       \/ snap[j].batch = snap[Slot(c)].batch /\ Slot(c) <= j
    OBVIOUS
  <2>1. PICK b \in 0..c : Slot(b) = j /\ snap[j].batch = b
    BY <1>4
  <2>2. Slot(c) \in Int
    BY SlotIs
  <2>. QED  BY <1>6, <2>1, <2>2
<1>8. \A k \in ValidChunks : Latest(k) => k = Slot(c)
  <2>. SUFFICES ASSUME NEW k \in ValidChunks, Latest(k) PROVE k = Slot(c)
    OBVIOUS
  <2>1. PICK b \in 0..c : Slot(b) = k /\ snap[k].batch = b
    BY <1>4
  <2>2. b = c
    BY <1>6, <2>1
  <2>. QED  BY <2>1, <2>2
<1>9. LatestChunk = Slot(c)
  <2>1. LatestChunk = CHOOSE k \in ValidChunks : Latest(k)
    BY DEF LatestChunk
  <2>. HIDE DEF Latest
  <2>. QED  BY <1>6, <1>7, <1>8, <2>1
<1>10. ASSUME NEW j \in 0..N - 1
       PROVE  /\ ChunkBefore(j) \in Chunks /\ ChunkBatch(ChunkBefore(j)) = Back(c, j)
              /\ Back(c, j) >= 0 => snap[ChunkBefore(j)] = SnapshotOf(Back(c, j))
  <2>1. ChunkBefore(j) = (Slot(c) - j + N) % N
    BY <1>9 DEF ChunkBefore
  <2>2. CASE j <= c
    <3>1. ChunkBefore(j) = Slot(c - j) /\ c - j \in 0..c /\ c + 1 <= (c - j) + N
          /\ Back(c, j) = c - j
      BY <1>1, <2>1, <2>2, SlotBack DEF Back
    <3>. QED  BY <1>2, <3>1 DEF ValidChunks
  <2>3. CASE c < j
    <3>1. ChunkBefore(j) = c - j + N /\ c - j + N \in Chunks /\ c + 1 <= c - j + N
          /\ Back(c, j) = -1
      BY <1>1, <2>1, <2>3, SlotBack DEF Back, Chunks
    <3>. QED  BY <1>3, <3>1
  <2>. QED  BY <1>1, <2>2, <2>3
<1>. QED  BY <1>6, <1>9, <1>10

\* The account is in the chunk some places before, and is loaded with the value after its
\* batch.
LEMMA LoadedAt ==
    ASSUME HybridInv, NEW c \in Nat, c + 1 = Copied, NEW a \in Accounts
    PROVE  \E j \in 0..N - 1 : Loaded[a] = Version(Back(c, j))[a]
<1>1. PICK k \in Chunks : k = a \div ChunkSize /\ a \in AccountsOf(k)
  BY ChunkOf
<1>2. LatestChunk = Slot(c)
  BY RingRead
<1>3. PICK j \in 0..N - 1 : ChunkBefore(j) = k
  <2>1. \A i \in 0..N - 1 : ChunkBefore(i) = (Slot(c) - i + N) % N
    BY <1>2 DEF ChunkBefore
  <2>. QED  BY <2>1, SlotCover
<1>4. /\ ChunkBatch(k) = Back(c, j)
      /\ Back(c, j) >= 0 => snap[k] = SnapshotOf(Back(c, j))
  BY <1>3, RingRead
<1>5. Loaded[a] = IF k \in ValidChunks THEN snap[k].data[a] ELSE 0
  BY <1>1 DEF Loaded
<1>6. CASE k \in ValidChunks /\ j <= c
  <2>1. Back(c, j) = c - j /\ c - j >= 0
    BY <1>6 DEF Back
  <2>2. snap[k].data = [x \in AccountsOf(k) |-> Version(Back(c, j))[x]]
    <3>1. snap[k] = SnapshotOf(Back(c, j)) /\ snap[k].chunk = k
      BY <1>4, <1>6, <2>1 DEF ValidChunks
    <3>. QED  BY <3>1 DEF SnapshotOf
  <2>. QED  BY <1>1, <1>5, <1>6, <2>2
<1>7. CASE k \notin ValidChunks
  <2>1. Back(c, j) = -1
    BY <1>4, <1>7 DEF ChunkBatch
  <2>2. Version(-1)[a] = 0
    BY DEF Version, Zeros
  <2>. QED  BY <1>5, <1>7, <2>1, <2>2
<1>8. ASSUME k \in ValidChunks, c < j PROVE FALSE
  <2>1. Back(c, j) = -1 /\ ChunkBefore(j) = c - j + N /\ c + 1 <= k
    <3>1. ChunkBefore(j) = (Slot(c) - j + N) % N
      BY <1>2 DEF ChunkBefore
    <3>2. N \in Nat
      BY HybridAssumption
    <3>. QED  BY <1>3, <1>8, <3>1, <3>2, SlotBack DEF Back
  <2>2. snap[k] = NewSlot(k)
    BY <2>1 DEF HybridInv, SnapshotsHeld
  <2>3. k = 0
    BY <1>8, <2>2 DEF ValidChunks, NewSlot
  <2>. QED  BY <2>1, <2>3
<1>. QED  BY <1>6, <1>7, <1>8

\* Recovery leaves the state after the last batch.  The last pass, over the longest stretch
\* of batches, settles every account that one of them sets; the others have the same
\* value in all versions since, and no pass changes it.
LEMMA RangesRecovered ==
    ASSUME HybridInv, RangesOnly, NEW c \in Nat, c + 1 = Copied
    PROVE  ReplayChunks(Loaded)[N - 1] = Version(c)
<1>. DEFINE g == ReplayChunks(Loaded)  old == Back(c, N - 1)
<1>1. N \in Nat /\ N > 0 /\ N - 1 \in Nat /\ N - 1 \in 0..N - 1
  BY HybridAssumption
<1>2. Logged = c + 1 /\ nextBatch \in Nat /\ c + 1 <= nextBatch
  <2>1. Logged = Copied
    BY DEF RangesOnly, Whole, Logged, Copied
  <2>. QED  BY <2>1, Counters DEF HybridInv
<1>3. \A b \in -1..c : Version(b) \in States
  BY <1>2, VersionTypes
<1>4. ASSUME NEW j \in 0..N - 1
      PROVE  /\ Back(c, j) \in -1..c /\ old <= Back(c, j) /\ Back(c, j) + 1 \in Nat
             /\ c - Back(c, j) \in Nat /\ c + 1 <= (Back(c, j) + 1) + N
             /\ (Back(c, j) + 1) + (c - Back(c, j)) = c + 1
  BY <1>1 DEF Back
<1>. HIDE DEF old
<1>5. \A j \in 0..N - 1 : \A b \in Back(c, j) + 1..c : RangeBatch(logs[Slot(b)])
  <2>. SUFFICES ASSUME NEW j \in 0..N - 1, NEW b \in Back(c, j) + 1..c
                PROVE  RangeBatch(logs[Slot(b)])
    OBVIOUS
  <2>1. b \in 0..Logged - 1 /\ Logged <= b + N
    BY <1>1, <1>2, <1>4
  <2>. QED  BY <2>1, LogReplays
<1>6. ASSUME NEW j \in 0..N - 1, NEW s \in States, NEW t \in States, NEW a \in Accounts
      PROVE  LET first == Back(c, j) + 1
                 count == c - Back(c, j)
                 x == ReplayFrom(s, first, count)[count]
                 y == ReplayFrom(t, first, count)[count]
             IN  x \in States /\ Either(HasIn(a, first, c), a, s, t, x, y)
  <2>1. PICK first, count : first = Back(c, j) + 1 /\ count = c - Back(c, j)
    OBVIOUS
  <2>2. first \in Nat /\ count \in Nat /\ first + count - 1 = c
    BY <1>4, <2>1
  <2>3. \A b \in first..first + count - 1 : RangeBatch(logs[Slot(b)])
    BY <1>5, <2>1, <2>2
  <2>. QED  BY <2>1, <2>2, <2>3, ReplaySome
<1>7. ASSUME NEW j \in 0..N - 1
      PROVE  LET count == c - Back(c, j)
             IN  ReplayFrom(Version(Back(c, j)), Back(c, j) + 1, count)[count] = Version(c)
  <2>1. PICK first, count : first = Back(c, j) + 1 /\ count = c - Back(c, j)
    OBVIOUS
  <2>2. /\ first \in Nat /\ count \in Nat /\ first + count - 1 = c /\ first - 1 = Back(c, j)
        /\ first + count <= Logged /\ Logged <= first + N
    BY <1>2, <1>4, <2>1
  <2>. QED  BY <2>1, <2>2, VersionsReplay
<1>8. ASSUME NEW j \in 0..N - 1, NEW s
      PROVE  LET count == c - Back(c, j)
             IN  ReplayBatches(s, ChunkBefore(j)) = ReplayFrom(s, Back(c, j) + 1, count)[count]
  <2>1. ChunkBatch(ChunkBefore(j)) = Back(c, j) /\ Behind(ChunkBefore(j)) = c - Back(c, j)
    BY RingRead DEF Behind
  <2>. QED  BY <2>1 DEF ReplayBatches
<1>9. Loaded \in States
  <2>1. \A a \in Accounts : Loaded[a] \in Int
    <3>. SUFFICES ASSUME NEW a \in Accounts PROVE Loaded[a] \in Int
      OBVIOUS
    <3>1. PICK j \in 0..N - 1 : Loaded[a] = Version(Back(c, j))[a]
      BY LoadedAt
    <3>. QED  BY <1>3, <1>4, <3>1 DEF States
  <2>. QED  BY <2>1 DEF Loaded, States
<1>10. g[0] = Loaded /\ \A j \in 1..N - 1 : g[j] = ReplayBatches(g[j - 1], ChunkBefore(j))
  BY ReplayChunksIs
<1>. HIDE DEF g
<1>11. ASSUME NEW j \in 0..(N - 1) - 1, g[j] \in States
       PROVE  /\ g[j + 1] \in States
              /\ \A t \in States, a \in Accounts :
                    LET first == Back(c, j + 1) + 1
                        count == c - Back(c, j + 1)
                    IN  Either(HasIn(a, first, c), a, g[j], t, g[j + 1],
                               ReplayFrom(t, first, count)[count])
  <2>1. j + 1 \in 1..N - 1 /\ j + 1 \in 0..N - 1 /\ (j + 1) - 1 = j
    BY <1>1
  <2>2. PICK s, i : s = g[j] /\ i = j + 1
    OBVIOUS
  <2>3. PICK first, count : first = Back(c, i) + 1 /\ count = c - Back(c, i)
    OBVIOUS
  <2>4. g[j + 1] = ReplayFrom(s, first, count)[count]
    BY <1>8, <1>10, <2>1, <2>2, <2>3
  <2>5. \A t \in States, a \in Accounts :
           /\ ReplayFrom(s, first, count)[count] \in States
           /\ Either(HasIn(a, first, c), a, s, t, ReplayFrom(s, first, count)[count],
                     ReplayFrom(t, first, count)[count])
    BY <1>6, <1>11, <2>1, <2>2, <2>3
  <2>6. 0 \in Accounts
    <3>1. N * ChunkSize \in Nat \ {0}
      BY HybridAssumption
    <3>. QED  BY <3>1 DEF Accounts
  <2>7. g[j + 1] \in States
    BY <2>4, <2>5, <2>6, StateTypes
  <2>. QED  BY <2>2, <2>3, <2>4, <2>5, <2>7
<1>12. \A j \in 0..N - 1 : g[j] \in States
  <2>. DEFINE H == {j \in 0..N - 1 : g[j] \in States}
  <2>1. 0 \in H
    BY <1>1, <1>9, <1>10
  <2>2. \A j \in 0..(N - 1) - 1 : j \in H => j + 1 \in H
    BY <1>1, <1>11
  <2>. HIDE DEF H
  <2>3. \A j \in 0..N - 1 : j \in H
    BY <1>1, <2>1, <2>2, UpTo
  <2>. QED  BY <2>3 DEF H
<1>13. ASSUME NEW a \in Accounts PROVE g[N - 1][a] = Version(c)[a]
  <2>1. CASE HasIn(a, old + 1, c)
    <3>1. N - 1 > 0
      <4>. SUFFICES ASSUME N - 1 = 0 PROVE FALSE
        BY <1>1
      <4>1. old = c
        BY DEF old, Back
      <4>. QED  BY <2>1, <4>1 DEF HasIn
    <3>2. PICK j : j = N - 1 - 1
      OBVIOUS
    <3>3. j \in 0..(N - 1) - 1 /\ j + 1 = N - 1 /\ j \in 0..N - 1
      BY <1>1, <3>1, <3>2
    <3>4. PICK first, count : first = old + 1 /\ count = c - old
      OBVIOUS
    <3>5. old \in -1..c /\ Back(c, j + 1) = old
      <4>1. Back(c, N - 1) = old
        BY DEF old
      <4>. QED  BY <1>1, <1>4, <3>3, <4>1
    <3>6. Version(old) \in States /\ g[j] \in States
      BY <1>3, <1>12, <3>3, <3>5
    <3>7. Either(HasIn(a, first, c), a, g[j], Version(old), g[j + 1],
                 ReplayFrom(Version(old), first, count)[count])
      BY <1>11, <3>3, <3>4, <3>5, <3>6
    <3>8. ReplayFrom(Version(old), first, count)[count] = Version(c)
      BY <1>1, <1>7, <3>4, <3>5, <3>3
    <3>. QED  BY <2>1, <3>3, <3>4, <3>7, <3>8 DEF Either
  <2>2. CASE ~HasIn(a, old + 1, c)
    <3>1. \A j \in 0..N - 1 : ~HasIn(a, Back(c, j) + 1, c)
      <4>. SUFFICES ASSUME NEW j \in 0..N - 1, HasIn(a, Back(c, j) + 1, c) PROVE FALSE
        OBVIOUS
      <4>1. PICK b \in Back(c, j) + 1..c : HasAccount(a, logs[Slot(b)])
        BY DEF HasIn
      <4>2. b \in old + 1..c
        <5>1. old \in -1..c
          BY <1>1, <1>4 DEF old
        <5>. QED  BY <1>4, <5>1
      <4>. QED  BY <2>2, <4>1, <4>2 DEF HasIn
    <3>2. PICK j \in 0..N - 1 : Loaded[a] = Version(Back(c, j))[a]
      BY LoadedAt
    <3>3. Version(c)[a] = Version(Back(c, j))[a]
      <4>1. PICK s, first, count :
               s = Version(Back(c, j)) /\ first = Back(c, j) + 1 /\ count = c - Back(c, j)
        OBVIOUS
      <4>2. s \in States
        BY <1>3, <1>4, <4>1
      <4>3. Either(HasIn(a, first, c), a, s, s, ReplayFrom(s, first, count)[count],
                   ReplayFrom(s, first, count)[count])
        BY <1>6, <4>1, <4>2
      <4>4. ReplayFrom(s, first, count)[count] = Version(c)
        BY <1>7, <4>1
      <4>. QED  BY <3>1, <4>1, <4>3, <4>4 DEF Either
    <3>. DEFINE H == {i \in 0..N - 1 : g[i][a] = Loaded[a]}
    <3>4. 0 \in H
      BY <1>1, <1>10
    <3>5. ASSUME NEW i \in 0..(N - 1) - 1, i \in H PROVE i + 1 \in H
      <4>1. i + 1 \in 0..N - 1 /\ i \in 0..N - 1 /\ g[i] \in States
        BY <1>1, <1>12
      <4>2. PICK first, count : first = Back(c, i + 1) + 1 /\ count = c - Back(c, i + 1)
        OBVIOUS
      <4>3. Either(HasIn(a, first, c), a, g[i], Loaded, g[i + 1],
                   ReplayFrom(Loaded, first, count)[count])
        BY <1>9, <1>11, <4>1, <4>2
      <4>4. ~HasIn(a, first, c)
        BY <3>1, <4>1, <4>2
      <4>. QED  BY <3>5, <4>1, <4>3, <4>4 DEF Either
    <3>6. N - 1 \in H
      <4>. HIDE DEF H
      <4>1. \A i \in 0..N - 1 : i \in H
        BY <1>1, <3>4, <3>5, UpTo
      <4>. QED  BY <1>1, <4>1
    <3>. QED  BY <3>2, <3>3, <3>6
  <2>. QED  BY <2>1, <2>2
<1>14. g[N - 1] \in States /\ Version(c) \in States
  BY <1>1, <1>3, <1>12
<1>. QED  BY <1>13, <1>14 DEF States, g

-----------------------------------------------------------------------------
\* The theorems.

\* The property of the recovered state with the invariant is inductive.
LEMMA RecoverKeeps == HybridInv /\ Recover => RangeSetsRecovered'
<1>. SUFFICES ASSUME HybridInv, Recover, Whole',
                     (snap[Slot(last)].data # [i \in AccountsOf(Slot(last)) |-> 0])',
                     (~\E b \in DOMAIN effects : Transfers(effects[b].txs))'
              PROVE  state' = (versions[last + 1])'
  BY DEF RangeSetsRecovered
<1>1. /\ state' = ReplayChunks(Loaded)[N-1] /\ last' = ChunkBatch(LatestChunk)
      /\ ValidChunks # {} /\ pc' = pc /\ snap' = snap
      /\ effects' = effects /\ versions' = versions
  BY DEF Recover, logVars
<1>2. RangesOnly
  BY <1>1 DEF RangesOnly, Whole
<1>3. Copied \in Nat
  BY Counters DEF HybridInv
<1>4. Copied # 0
  <2>. SUFFICES ASSUME Copied = 0 PROVE FALSE
    OBVIOUS
  <2>1. \A k \in Chunks : snap[k] = NewSlot(k) /\ k \in Nat
    BY HybridAssumption DEF HybridInv, SnapshotsHeld, Chunks
  <2>2. ValidChunks = {0} /\ snap[0] = NewSlot(0)
    <3>1. \A k \in ValidChunks : k \in Chunks /\ snap[k].chunk = k
      BY DEF ValidChunks
    <3>2. ASSUME NEW k \in ValidChunks PROVE k = 0 /\ snap[k] = NewSlot(0)
      <4>1. snap[k] = NewSlot(k) /\ snap[k].chunk = k
        BY <2>1, <3>1
      <4>2. k = 0
        BY <4>1 DEF NewSlot
      <4>. QED  BY <4>1, <4>2
    <3>3. PICK k \in ValidChunks : TRUE
      BY <1>1
    <3>4. k = 0 /\ snap[0] = NewSlot(0)
      BY <3>2, <3>3
    <3>. QED  BY <3>2, <3>3, <3>4
  <2>3. LatestChunk = 0
    BY <2>2 DEF LatestChunk
  <2>4. last' = 0
    BY <1>1, <2>2, <2>3 DEF ChunkBatch, NewSlot
  <2>5. Slot(0) = 0
    BY SlotIs, HybridAssumption
  <2>6. snap[Slot(last')].data = [i \in AccountsOf(Slot(last')) |-> 0]
    BY <2>2, <2>4, <2>5 DEF NewSlot
  <2>. QED  BY <1>1, <2>6
<1>5. PICK c \in Nat : c + 1 = Copied
  <2>1. Copied - 1 \in Nat /\ (Copied - 1) + 1 = Copied
    BY <1>3, <1>4
  <2>. QED  BY <2>1
<1>6. last' = c /\ state' = Version(c)
  BY <1>1, <1>2, <1>5, RangesRecovered, RingRead
<1>. QED  BY <1>1, <1>6 DEF Version

\* Apart from that step, what the property speaks of changes only while the process runs,
\* and then there is nothing recovered.
LEMMA OthersKeepRecovered ==
    (ApplyBatch \/ Dispatch \/ CopySnapshot \/ CopyBatch \/ Sync \/ Kill \/ UNCHANGED vars)
        /\ RangeSetsRecovered => RangeSetsRecovered'
<1>1. Kill => phase' # "recovered"
  BY DEF Kill
<1>2. ApplyBatch \/ Dispatch \/ CopySnapshot \/ CopyBatch \/ Sync => phase' # "recovered"
  BY DEF ApplyBatch, Dispatch, CopySnapshot, CopyBatch, Sync, recoveryVars
<1>3. UNCHANGED vars /\ RangeSetsRecovered => RangeSetsRecovered'
  BY DEF vars, logVars, recoveryVars, RangeSetsRecovered, Whole
<1>. QED  BY <1>1, <1>2, <1>3 DEF RangeSetsRecovered

\* The invariant holds in every state.
THEOREM HybridInvariant == Spec => []HybridInv
  BY InitInv, HybridInductive, PTL DEF Spec

\* A snapshot in the log is the chunk after exactly the batch whose number it carries.
THEOREM SnapshotsHoldVersions == Spec => []SnapshotsAreVersions
  BY HybridInvariant, HeldAreVersions, PTL

\* What main records of a batch, the write set and the range sets, reproduces it when no
\* transfer touches an account that a range set of the batch has written before.
THEOREM EffectsReproduce == Spec => []EffectReproducesBatch
  BY HybridInvariant, HistoryReplays, PTL

\* Killed before or after both copies of a batch, a run of range sets alone is recovered to
\* the state after the last batch.
THEOREM RangeSetsAreRecovered == Spec => []RangeSetsRecovered
<1>1. Init => RangeSetsRecovered
  BY DEF Init, RangeSetsRecovered
<1>2. HybridInv /\ RangeSetsRecovered /\ [Next]_vars => RangeSetsRecovered'
  BY RecoverKeeps, OthersKeepRecovered DEF Next
<1>. QED  BY <1>1, <1>2, HybridInvariant, PTL DEF Spec

-----------------------------------------------------------------------------
\* A chunk replayed by itself (TransferSemantics).

\* The sizes of that program.
LEMMA TransferSizes ==
    /\ AccountCount \in Nat /\ Unpadded \in Nat /\ Unpadded <= AccountCount
    /\ PerChunk \in Nat \ {0} /\ MaxId \in Nat /\ Half \in Nat \ {0}
  BY TransferConstants DEF Tx!SizeAssumption

\* The cast of an amount gives a balance, and leaves small amounts as they are.
LEMMA SignedAmount ==
    ASSUME NEW tx \in Tx!Transactions
    PROVE  /\ Tx!Signed(tx) \in -Half..Half - 1
           /\ tx.data \in Nat /\ tx.arg \in Nat
           /\ tx.func \in {"transfer", "range", "other"}
<1>1. tx.amount \in 0..2 * Half - 1 /\ Half \in Nat \ {0}
  BY TransferSizes DEF Tx!Transactions
<1>. QED  BY <1>1, TransferSizes DEF Tx!Signed, Tx!Transactions

\* Every outcome of a transaction is a state.
LEMMA ApplyType ==
    ASSUME NEW tx \in Tx!Transactions, NEW s \in Tx!States, NEW t \in Tx!ApplyResults(tx, s)
    PROVE  t \in Tx!States
<1>1. Tx!Signed(tx) \in Int /\ tx.data \in Nat /\ tx.arg \in Nat
  BY SignedAmount, TransferSizes
<1>2. CASE Tx!Accepts(tx, s) /\ tx.func = "transfer"
  BY <1>1, <1>2 DEF Tx!ApplyResults, Tx!TransferResults, Tx!Debit, Tx!Credit, Tx!States
<1>3. CASE Tx!Accepts(tx, s) /\ tx.func = "range"
  BY <1>1, <1>3 DEF Tx!ApplyResults, Tx!States
<1>4. CASE ~Tx!Accepts(tx, s)
  BY <1>4 DEF Tx!ApplyResults
<1>5. Tx!Accepts(tx, s) => tx.func \in {"transfer", "range"}
  BY DEF Tx!Accepts
<1>. QED  BY <1>2, <1>3, <1>4, <1>5

\* Replaying the logged form of a transaction on chunk k of an array that agrees
\* with the state on k gives what applying the transaction gives there, and
\* leaves all other accounts alone; a transfer to oneself is excepted.
THEOREM ReplayFollowsApply ==
    ASSUME NEW tx \in Tx!Transactions, NEW s \in Tx!States, NEW r \in Tx!States, NEW k,
           \A i \in Tx!Accounts : Tx!ChunkOf(i) = k => r[i] = s[i],
           NEW t \in Tx!ApplyResults(tx, s),
           ~(Tx!Accepts(tx, s) /\ tx.func = "transfer" /\ tx.data = tx.arg)
    PROVE  /\ Tx!ReplayOn(k, Tx!Logged(tx, s), r) \in Tx!States
           /\ \A i \in Tx!Accounts :
                 Tx!ReplayOn(k, Tx!Logged(tx, s), r)[i] =
                     IF Tx!ChunkOf(i) = k THEN t[i] ELSE r[i]
<1>1. Tx!Signed(tx) \in Int /\ tx.data \in Nat /\ tx.arg \in Nat
  BY SignedAmount, TransferSizes
<1>2. tx.func \in {"transfer", "range", "other"}
  BY DEF Tx!Transactions
<1>3. CASE Tx!Accepts(tx, s) /\ tx.func = "transfer"
  <2>1. tx.data \in Tx!Accounts /\ tx.arg \in Tx!Accounts /\ tx.data # tx.arg
    BY <1>1, <1>3, TransferSizes DEF Tx!Accepts, Tx!Accounts
  <2>2. t = Tx!Credit(Tx!Debit(s, tx.data, Tx!Signed(tx)), tx.arg,
                     Tx!Signed(tx))
    BY <1>3, <2>1 DEF Tx!ApplyResults, Tx!TransferResults
  <2>3. \A i \in Tx!Accounts :
           t[i] = IF i = tx.arg THEN s[i] + Tx!Signed(tx)
                  ELSE IF i = tx.data THEN s[i] - Tx!Signed(tx) ELSE s[i]
    BY <1>1, <2>1, <2>2 DEF Tx!Credit, Tx!Debit, Tx!States
  <2>4. Tx!Logged(tx, s) = tx
    BY <1>3 DEF Tx!Logged
  <2>5. tx.data < AccountCount
    BY <1>1, <2>1, TransferSizes DEF Tx!Accounts
  <2>. QED
    BY <1>1, <1>3, <2>1, <2>3, <2>4, <2>5 DEF Tx!ReplayOn, Tx!States
<1>4. CASE Tx!Accepts(tx, s) /\ tx.func = "range"
  <2>1. Tx!Logged(tx, s) = tx
    BY <1>4 DEF Tx!Logged
  <2>2. t = [i \in Tx!Accounts |-> IF Tx!InRange(tx, i) THEN Tx!Signed(tx) ELSE s[i]]
    BY <1>4 DEF Tx!ApplyResults
  <2>. QED
    BY <1>1, <1>4, <2>1, <2>2 DEF Tx!ReplayOn, Tx!States
<1>5. CASE ~Tx!Accepts(tx, s)
  <2>. DEFINE l == Tx!Logged(tx, s)
  <2>1. /\ Tx!Signed(l) = 0 /\ l.func = tx.func
        /\ l.data = tx.data /\ l.arg = tx.arg
    BY <1>5, TransferSizes DEF Tx!Logged, Tx!Transactions, Tx!Signed
  <2>2. t = s
    BY <1>5 DEF Tx!ApplyResults
  <2>3. \A i \in Tx!Accounts : tx.func = "range" => ~Tx!InRange(l, i)
    BY <1>1, <1>5, <2>1, TransferSizes DEF Tx!Accepts, Tx!InRange, Tx!Accounts
  <2>. HIDE DEF l
  <2>4. Tx!ReplayOn(k, l, r) = [i \in Tx!Accounts |-> r[i]]
    BY <1>1, <2>1, <2>3 DEF Tx!ReplayOn, Tx!States
  <2>. QED  BY <2>2, <2>4 DEF Tx!States, l
<1>. QED  BY <1>2, <1>3, <1>4, <1>5 DEF Tx!Accepts

\* Both arrays keep their shape.
THEOREM ArraysKeepShape == Tx!Spec => []Tx!TransferTypeOK
<1>1. Tx!Init => Tx!TransferTypeOK
  <2>. SUFFICES ASSUME Tx!Init PROVE Tx!TransferTypeOK  OBVIOUS
  <2>1. array \in Tx!States
    BY TransferSizes DEF Tx!Init, Tx!States
  <2>2. replica \in Tx!States
    BY <2>1 DEF Tx!Init, Tx!States
  <2>. QED  BY <2>1, <2>2 DEF Tx!Init, Tx!TransferTypeOK
<1>2. Tx!TransferTypeOK /\ [Tx!Next]_(Tx!vars) => Tx!TransferTypeOK'
  <2>. SUFFICES ASSUME Tx!TransferTypeOK, [Tx!Next]_(Tx!vars) PROVE Tx!TransferTypeOK'
    OBVIOUS
  <2>1. ASSUME NEW tx \in Tx!Transactions, Tx!Step(tx) PROVE Tx!TransferTypeOK'
    <3>1. array' \in Tx!States
      BY <2>1, ApplyType DEF Tx!Step, Tx!TransferTypeOK
    <3>2. Tx!Signed(Tx!Logged(tx, array)) \in Int
      <4>1. Tx!Logged(tx, array) \in Tx!Transactions
        BY <2>1, TransferSizes DEF Tx!Logged, Tx!Transactions
      <4>. QED  BY <4>1, SignedAmount, TransferSizes
    <3>3. replica' \in Tx!States
      BY <2>1, <3>2 DEF Tx!Step, Tx!ReplayOn, Tx!TransferTypeOK, Tx!States
    <3>4. aliased' \in BOOLEAN
      BY <2>1 DEF Tx!Step, Tx!TransferTypeOK
    <3>. QED  BY <2>1, <3>1, <3>3, <3>4 DEF Tx!Step, Tx!TransferTypeOK
  <2>2. CASE UNCHANGED Tx!vars
    BY <2>2 DEF Tx!vars, Tx!TransferTypeOK
  <2>. QED  BY <2>1, <2>2 DEF Tx!Next
<1>. QED  BY <1>1, <1>2, PTL DEF Tx!Spec

\* A chunk replayed by itself follows the state, whatever the other chunks hold.
THEOREM ChunkReplay == Tx!Spec => [](ChunkTracksState /\ Tx!OtherChunksUntouched)
<1>. DEFINE Inv == Tx!ChunkTracksState /\ Tx!OtherChunksUntouched
<1>1. Tx!Init => Inv
  BY DEF Tx!Init, Tx!ChunkTracksState, Tx!OtherChunksUntouched
<1>2. Tx!TransferTypeOK /\ Inv /\ [Tx!Next]_(Tx!vars) => Inv'
  <2>. SUFFICES ASSUME Tx!TransferTypeOK, Inv, [Tx!Next]_(Tx!vars) PROVE Inv'
    OBVIOUS
  <2>1. ASSUME NEW tx \in Tx!Transactions, Tx!Step(tx) PROVE Inv'
    <3>1. chunk' = chunk /\ ~aliased
      BY <2>1 DEF Tx!Step
    <3>2. \A i \in Tx!Accounts : Tx!ChunkOf(i) # chunk => replica'[i] = replica[i]
      BY <2>1 DEF Tx!Step, Tx!ReplayOn, Tx!TransferTypeOK, Tx!States
    <3>3. ASSUME ~aliased', NEW i \in Tx!Accounts, Tx!ChunkOf(i) = chunk
          PROVE  replica'[i] = array'[i]
      <4>1. ~(Tx!Accepts(tx, array) /\ tx.func = "transfer" /\ tx.data = tx.arg)
        BY <2>1, <3>3 DEF Tx!Step
      <4>2. \A j \in Tx!Accounts : Tx!ChunkOf(j) = chunk => replica[j] = array[j]
        BY <3>1 DEF Tx!ChunkTracksState
      <4>3. /\ array \in Tx!States /\ replica \in Tx!States
            /\ array' \in Tx!ApplyResults(tx, array)
        BY <2>1 DEF Tx!TransferTypeOK, Tx!Step
      <4>4. \A j \in Tx!Accounts :
               Tx!ReplayOn(chunk, Tx!Logged(tx, array), replica)[j] =
                   IF Tx!ChunkOf(j) = chunk THEN array'[j] ELSE replica[j]
        BY <4>1, <4>2, <4>3, ReplayFollowsApply
      <4>. QED  BY <2>1, <3>3, <4>4 DEF Tx!Step
    <3>. QED
      BY <3>1, <3>2, <3>3 DEF Tx!ChunkTracksState, Tx!OtherChunksUntouched
  <2>2. CASE UNCHANGED Tx!vars
    BY <2>2 DEF Tx!vars, Tx!ChunkTracksState, Tx!OtherChunksUntouched
  <2>. QED  BY <2>1, <2>2 DEF Tx!Next
<1>3. Inv => ChunkTracksState /\ Tx!OtherChunksUntouched
  BY DEF ChunkTracksState
<1>. QED  BY <1>1, <1>2, <1>3, ArraysKeepShape, PTL DEF Tx!Spec

\* No accepted transaction takes a balance below zero, as long as no amount has been cast
\* to a negative number, and none reaches the padding.
THEOREM BalancesSound == Tx!Spec => [](NoOverdraft /\ Tx!PaddingStaysZero)
<1>. DEFINE Inv == Tx!NoOverdraft /\ Tx!PaddingStaysZero
<1>1. Tx!Init => Inv
  BY TransferSizes DEF Tx!Init, Tx!NoOverdraft, Tx!PaddingStaysZero
<1>2. Tx!TransferTypeOK /\ Inv /\ [Tx!Next]_(Tx!vars) => Inv'
  <2>. SUFFICES ASSUME Tx!TransferTypeOK, Inv, [Tx!Next]_(Tx!vars) PROVE Inv'
    OBVIOUS
  <2>1. ASSUME NEW tx \in Tx!Transactions, Tx!Step(tx) PROVE Inv'
    <3>1. /\ Tx!Signed(tx) \in Int /\ tx.data \in Nat /\ tx.arg \in Nat
          /\ tx.func \in {"transfer", "range", "other"}
      BY SignedAmount, TransferSizes
    <3>2. /\ array \in Tx!States /\ array' \in Tx!ApplyResults(tx, array) /\ ~aliased
          /\ ~negative' => ~negative
          /\ Tx!Accepts(tx, array) /\ ~negative' => Tx!Signed(tx) >= 0
      <4>1. negative' = (negative \/ (Tx!Accepts(tx, array) /\ Tx!Signed(tx) < 0))
        BY <2>1 DEF Tx!Step
      <4>2. ~negative' => ~negative /\ ~(Tx!Accepts(tx, array) /\ Tx!Signed(tx) < 0)
        BY <4>1, Zenon
      <4>. QED  BY <2>1, <3>1, <4>2 DEF Tx!TransferTypeOK, Tx!Step
    <3>3. CASE Tx!Accepts(tx, array) /\ tx.func = "transfer"
      <4>1. /\ array' \in Tx!TransferResults(tx, array)
            /\ tx.data < Unpadded /\ tx.arg < Unpadded
            /\ array[tx.data] >= Tx!Signed(tx)
        BY <3>2, <3>3 DEF Tx!ApplyResults, Tx!Accepts
      <4>2. tx.data \in Tx!Accounts /\ tx.arg \in Tx!Accounts
        BY <3>1, <4>1, TransferSizes DEF Tx!Accounts
      <4>3. Tx!PaddingStaysZero'
        BY <3>1, <3>2, <4>1, <4>2, TransferSizes
        DEF Tx!TransferResults, Tx!Debit, Tx!Credit, Tx!States, Tx!PaddingStaysZero, Tx!Accounts
      <4>4. CASE tx.data = tx.arg
        BY <2>1, <3>3, <4>3, <4>4 DEF Tx!Step, Tx!NoOverdraft
      <4>5. CASE tx.data # tx.arg
        <5>1. array' = Tx!Credit(Tx!Debit(array, tx.data, Tx!Signed(tx)), tx.arg,
                                 Tx!Signed(tx))
          BY <4>1, <4>5 DEF Tx!TransferResults
        <5>2. \A i \in Tx!Accounts : array[i] >= 0 /\ ~negative' => array'[i] >= 0
          BY <3>1, <3>2, <3>3, <4>1, <4>2, <4>5, <5>1 DEF Tx!Credit, Tx!Debit, Tx!States
        <5>. QED  BY <3>2, <4>3, <5>2 DEF Tx!NoOverdraft
      <4>. QED  BY <4>4, <4>5
    <3>4. CASE Tx!Accepts(tx, array) /\ tx.func = "range"
      <4>1. array' = [i \in Tx!Accounts |->
                        IF Tx!InRange(tx, i) THEN Tx!Signed(tx) ELSE array[i]]
        BY <3>2, <3>4 DEF Tx!ApplyResults
      <4>2. \A i \in Tx!Accounts : i >= Unpadded => ~Tx!InRange(tx, i)
        BY TransferSizes DEF Tx!InRange, Tx!Accounts
      <4>. QED
        BY <3>1, <3>2, <3>4, <4>1, <4>2 DEF Tx!NoOverdraft, Tx!PaddingStaysZero
    <3>5. CASE ~Tx!Accepts(tx, array)
      <4>1. array' = array
        BY <3>2, <3>5 DEF Tx!ApplyResults
      <4>. QED  BY <3>2, <4>1 DEF Tx!NoOverdraft, Tx!PaddingStaysZero
    <3>. QED  BY <3>3, <3>4, <3>5 DEF Tx!Accepts
  <2>2. CASE UNCHANGED Tx!vars
    BY <2>2 DEF Tx!vars, Tx!NoOverdraft, Tx!PaddingStaysZero
  <2>. QED  BY <2>1, <2>2 DEF Tx!Next
<1>3. Inv => NoOverdraft /\ Tx!PaddingStaysZero
  BY DEF NoOverdraft
<1>. QED  BY <1>1, <1>2, <1>3, ArraysKeepShape, PTL DEF Tx!Spec

-----------------------------------------------------------------------------
\* The parameterized program (ParamGlaze): its inductive invariant.

ParamStates(z) == [Param!AllAccounts(z) -> Int]
ParamBatches == [1..BatchSize -> Param!Transactions]
AllZero(z) == [a \in Param!AllAccounts(z) |-> 0]

\* The log has the header of these sizes and is long enough for them.
Fits(f, z) ==
    f.header = Param!HeaderOf(z) /\ f.cells \in Seq(Int) /\ Param!LogCells(z) <= Len(f.cells)

\* What the files, and the counters of all runs, may hold.
ParamTypes ==
    /\ size \in Sizes /\ total \in 0..MaxTotal
    /\ logFile \in [header : {<<>>} \union {Param!HeaderOf(z) : z \in Sizes}, cells : Seq(Int)]
    /\ main \in {"down", "loop", "saved", "unsaved"}
    /\ worker \in {"idle", "snapshot", "batch"}
    /\ main = "down" => worker = "idle" /\ applied = Param!NoBatch

\* The history of a run, and where main and the worker are in it.
ParamHistory ==
    /\ Fits(logFile, size)
    /\ states \in Seq(ParamStates(size)) /\ batches \in Seq(ParamBatches)
    /\ Len(states) = Len(batches) + 1 /\ Len(batches) <= total
    /\ balances = states[Len(states)]
    /\ done \in Nat /\ next = (IF worker = "idle" THEN done ELSE done + 1)
    /\ Len(batches) = (IF applied = Param!NoBatch THEN next ELSE next + 1)
    /\ applied # Param!NoBatch => applied = batches[next + 1]
    /\ worker # "idle" => args = [batch |-> done, txs |-> batches[done + 1]]

\* Each batch of the history is as main has executed it, and passed it on.
AsExecuted(i, txs) ==
    /\ states[i + 1] = Param!ExecutedEach(size, states[i], txs)[Len(txs)]
    /\ batches[i] = Param!ToLog(size, states[i], txs)

ParamExecuted == \A i \in 1..Len(batches) : \E txs \in Inputs : AsExecuted(i, txs)

\* The account at a place of the chunk that batch b saves.
AccountAt(z, b, i) == (b % Param!ChunkCount(z)) * z.perChunk + i

\* Until the snapshot is taken, the buffer holds the chunk as it was after the batch.
ParamBuffer ==
    worker = "snapshot" =>
        \A i \in 0..size.perChunk - 1 :
            chunkData[i] = states[done + 2][AccountAt(size, done, i)]

\* The snapshot of batch b is in its slot; slot k has never been written.
SnapshotCell(f, z, k, i) == Param!Cell(f, Param!SnapshotAt(z, k) + i)

HoldsSnapshot(b) ==
    LET k == b % Param!ChunkCount(size)
    IN  /\ SnapshotCell(logFile, size, k, 0) = b + Word * k
        /\ \A i \in 0..size.perChunk - 1 :
              SnapshotCell(logFile, size, k, i + 1) = states[b + 2][AccountAt(size, b, i)]

NeverWritten(k) == \A i \in 0..size.perChunk : SnapshotCell(logFile, size, k, i) = 0

SnapshotsTaken == IF worker = "batch" THEN done + 1 ELSE done

\* The log holds the snapshots and the batches of the last round, and a new one nothing else.
ParamRing ==
    /\ \A b \in 0..SnapshotsTaken - 1 :
          SnapshotsTaken <= b + Param!ChunkCount(size) => HoldsSnapshot(b)
    /\ \A b \in 0..done - 1 :
          done <= b + Param!ChunkCount(size) =>
              Param!LoggedIn(logFile, size, b) = batches[b + 1]
    /\ fresh =>
          /\ states[1] = AllZero(size)
          /\ \A k \in Param!ChunkIds(size) : SnapshotsTaken <= k => NeverWritten(k)
          /\ done = 0 => Param!LoggedIn(logFile, size, 0) = <<>>

\* What is saved at the end of the input.
ParamSaved ==
    /\ main \in {"saved", "unsaved"} => applied = Param!NoBatch
    /\ main = "saved" /\ next > 0 =>
              /\ hashFile = [label |-> next - 1, hash |-> Param!HashOf(size, balances)]
              /\ isReference => reference = balances

\* All of it.
ParamInv ==
    /\ ParamTypes
    /\ main # "down" =>
          ParamHistory /\ ParamExecuted /\ ParamBuffer /\ ParamRing /\ ParamSaved

-----------------------------------------------------------------------------
\* Sizes and places.

\* Two numbers less than n apart whose difference is a multiple of n are the same.
LEMMA NearMultiple ==
    ASSUME NEW n \in Nat \ {0}, NEW x \in Int, NEW y \in Int, NEW q \in Int,
           x - y = n * q, -n < x - y, x - y < n
    PROVE  x = y /\ q = 0
<1>1. ASSUME q > 0 PROVE FALSE
  <2>1. PICK d \in Nat : q = 1 + d
    <3>1. q - 1 \in Nat /\ q = 1 + (q - 1)
      BY <1>1
    <3>. QED  BY <3>1
  <2>2. n * q = n + n * d /\ n * d \in Nat
    BY <2>1
  <2>. QED  BY <2>2
<1>2. ASSUME q < 0 PROVE FALSE
  <2>1. PICK d \in Nat : q = -1 - d
    <3>1. -1 - q \in Nat /\ q = -1 - (-1 - q)
      BY <1>2
    <3>. QED  BY <3>1
  <2>2. n * q = -n - n * d /\ n * d \in Nat
    BY <2>1
  <2>. QED  BY <2>2
<1>3. q = 0
  BY <1>1, <1>2
<1>4. n * 0 = 0
  OBVIOUS
<1>. QED  BY <1>3, <1>4

\* What is left of a number, and of those up to n before and after it.
LEMMA AroundRing ==
    ASSUME NEW n \in Nat \ {0}, NEW x \in Int, NEW i \in 0..n - 1
    PROVE  /\ (x - i) % n = IF i <= x % n THEN (x % n) - i ELSE (x % n) - i + n
           /\ i > 0 => (x - i) % n # x % n
<1>1. PICK q \in Int, r \in 0..n - 1 : x % n = r /\ x = n * q + r
  <2>1. x = n * (x \div n) + (x % n) /\ x \div n \in Int /\ x % n \in 0..n - 1
    OBVIOUS
  <2>. QED  BY <2>1
<1>2. PICK y : y = x - i
  OBVIOUS
<1>3. y \in Int
  BY <1>2
<1>4. PICK p \in Int, s \in 0..n - 1 : y % n = s /\ y = n * p + s
  <2>1. y = n * (y \div n) + (y % n) /\ y \div n \in Int /\ y % n \in 0..n - 1
    BY <1>3
  <2>. QED  BY <2>1
<1>5. CASE i <= r
  <2>1. (r - i) - s = n * (p - q)
    BY <1>1, <1>2, <1>4
  <2>2. r - i = s
    BY <1>5, <2>1, NearMultiple
  <2>. QED  BY <1>1, <1>2, <1>4, <1>5, <2>2
<1>6. CASE r < i
  <2>1. (r - i + n) - s = n * (p - q + 1)
    BY <1>1, <1>2, <1>4
  <2>2. r - i + n = s
    BY <1>6, <2>1, NearMultiple
  <2>. QED  BY <1>1, <1>2, <1>4, <1>6, <2>2
<1>. QED  BY <1>5, <1>6

\* Numbers less than n apart share no slot.
LEMMA ApartInRing ==
    ASSUME NEW n \in Nat \ {0}, NEW b \in Int, NEW c \in Int, b < c, c < b + n
    PROVE  b % n # c % n
<1>1. PICK i : i = c - b
  OBVIOUS
<1>2. i \in 0..n - 1 /\ i > 0 /\ c - i = b
  BY <1>1
<1>. QED  BY <1>2, AroundRing

\* A command line gives some chunks of some accounts, enough for all of them.
LEMMA SizesAre ==
    ASSUME NEW z \in Sizes
    PROVE  /\ z.accounts \in Nat \ {0} /\ z.perChunk \in Nat \ {0}
           /\ Param!ChunkCount(z) \in Nat \ {0}
           /\ Param!Padded(z) = Param!ChunkCount(z) * z.perChunk
           /\ Param!Padded(z) \in Nat /\ z.accounts <= Param!Padded(z)
           /\ Param!AllAccounts(z) = 0..Param!Padded(z) - 1
<1>1. z.accounts \in Nat \ {0} /\ z.perChunk \in Nat \ {0}
  BY ParamConstants DEF Param!ParamAssumption
<1>2. PICK accounts, p, c :
         accounts = z.accounts /\ p = z.perChunk /\ c = Param!ChunkCount(z)
  OBVIOUS
<1>. accounts \in Nat \ {0} /\ p \in Nat \ {0}
  BY <1>1, <1>2
<1>3. PICK x : x = accounts + p - 1
  OBVIOUS
<1>4. x \in Nat /\ c = x \div p
  BY <1>2, <1>3 DEF Param!ChunkCount
<1>5. PICK r \in 0..p - 1 : x = p * c + r /\ c \in Nat
  <2>1. x = p * (x \div p) + (x % p) /\ x \div p \in Nat /\ x % p \in 0..p - 1
    BY <1>4
  <2>. QED  BY <1>4, <2>1
<1>6. c # 0
  <2>. SUFFICES ASSUME c = 0 PROVE FALSE
    OBVIOUS
  <2>1. p * c = 0
    BY <1>5
  <2>. QED  BY <1>3, <1>5, <2>1
<1>7. c * p = p * c /\ p * c \in Nat
  BY <1>5
<1>8. accounts <= c * p
  <2>1. PICK m \in Nat : m = p * c
    BY <1>7
  <2>. QED  BY <1>3, <1>5, <1>7, <2>1
<1>. QED  BY <1>1, <1>2, <1>5, <1>6, <1>7, <1>8 DEF Param!Padded, Param!AllAccounts

\* The accounts are the places of the chunks.
LEMMA PlacesAre ==
    ASSUME NEW z \in Sizes
    PROVE  /\ \A a \in Param!AllAccounts(z) :
                 /\ a \in Nat /\ a \div z.perChunk \in 0..Param!ChunkCount(z) - 1
                 /\ a % z.perChunk \in 0..z.perChunk - 1
                 /\ a = (a \div z.perChunk) * z.perChunk + (a % z.perChunk)
           /\ \A k \in 0..Param!ChunkCount(z) - 1, i \in 0..z.perChunk - 1 :
                 k * z.perChunk + i \in Param!AllAccounts(z)
<1>1. PICK p, c, m : p = z.perChunk /\ c = Param!ChunkCount(z) /\ m = c * p
  OBVIOUS
<1>. p \in Nat \ {0} /\ c \in Nat \ {0}
  BY <1>1, SizesAre
<1>2. m \in Nat /\ Param!AllAccounts(z) = 0..m - 1
  BY <1>1, SizesAre
<1>3. ASSUME NEW a \in 0..m - 1
      PROVE  /\ a \in Nat /\ a \div p \in 0..c - 1 /\ a % p \in 0..p - 1
             /\ a = (a \div p) * p + (a % p)
  <2>1. PICK h \in Nat, r \in 0..p - 1 : h = a \div p /\ r = a % p /\ a = p * h + r
    <3>1. a = p * (a \div p) + (a % p) /\ a \div p \in Nat /\ a % p \in 0..p - 1
      BY <1>2
    <3>. QED  BY <3>1
  <2>2. h < c
    <3>. SUFFICES ASSUME h >= c PROVE FALSE
      BY <1>1
    <3>1. PICK d \in Nat : h = c + d
      <4>1. h - c \in Nat /\ h = c + (h - c)
        OBVIOUS
      <4>. QED  BY <4>1
    <3>2. p * h = c * p + p * d /\ p * d \in Nat
      BY <3>1
    <3>3. PICK t \in Nat : t = p * d
      BY <3>2
    <3>4. PICK u : u = p * h
      OBVIOUS
    <3>5. u = m + t /\ a = u + r
      BY <1>1, <2>1, <3>2, <3>3, <3>4
    <3>. QED  BY <1>2, <3>5
  <2>3. h * p = p * h
    OBVIOUS
  <2>. QED  BY <1>2, <2>1, <2>2, <2>3
<1>4. ASSUME NEW k \in 0..c - 1, NEW i \in 0..p - 1 PROVE k * p + i \in 0..m - 1
  <2>1. PICK d \in Nat : c = k + 1 + d
    <3>1. c - (k + 1) \in Nat /\ c = k + 1 + (c - (k + 1))
      OBVIOUS
    <3>. QED  BY <3>1
  <2>2. (k + 1 + d) * p = k * p + p + d * p /\ k * p \in Nat /\ d * p \in Nat
    <3>1. k \in Nat
      OBVIOUS
    <3>. QED  BY <3>1
  <2>3. m = k * p + p + d * p
    BY <1>1, <2>1, <2>2
  <2>. QED  BY <2>2, <2>3
<1>. QED  BY <1>1, <1>2, <1>3, <1>4

\* Of slots of m cells each, two share no cell, and those below n end before n slots do.
LEMMA SlotsDisjoint ==
    ASSUME NEW m \in Nat, NEW n \in Nat, NEW j \in 0..n - 1, NEW i \in 0..m - 1
    PROVE  /\ j * m \in Nat /\ j * m + i < n * m /\ n * m \in Nat
           /\ \A k \in Nat : k # j => j * m + i < k * m \/ k * m + m <= j * m + i
<1>1. ASSUME NEW x \in Nat, NEW y \in Nat, x < y
      PROVE  x * m + m <= y * m /\ x * m \in Nat /\ y * m \in Nat
  <2>1. PICK d \in Nat : y = x + 1 + d
    <3>1. y - (x + 1) \in Nat /\ y = x + 1 + (y - (x + 1))
      BY <1>1
    <3>. QED  BY <3>1
  <2>2. y * m = x * m + m + d * m /\ x * m \in Nat /\ d * m \in Nat
    BY <2>1
  <2>. QED  BY <2>2
<1>2. j * m + m <= n * m /\ j * m \in Nat /\ n * m \in Nat
  BY <1>1
<1>3. ASSUME NEW k \in Nat, k # j PROVE j * m + i < k * m \/ k * m + m <= j * m + i
  <2>1. CASE j < k
    <3>1. j * m + m <= k * m /\ k * m \in Nat
      BY <1>1, <2>1
    <3>. QED  BY <1>2, <3>1
  <2>2. CASE k < j
    <3>1. k * m + m <= j * m /\ k * m \in Nat
      BY <1>1, <2>2
    <3>. QED  BY <1>2, <3>1
  <2>. QED  BY <1>3, <2>1, <2>2
<1>. QED  BY <1>2, <1>3

-----------------------------------------------------------------------------
\* The loops of the parameterized program.

\* The loop over a batch that main executes.
LEMMA ExecutedEachIs ==
    ASSUME NEW z, NEW s, NEW txs, Len(txs) \in Nat
    PROVE  LET e == Param!ExecutedEach(z, s, txs)
           IN  /\ e[0] = s
               /\ \A i \in 1..Len(txs) :
                     e[i] = Param!Executed(z, e[i - 1], txs[i])
<1>. DEFINE start == s
            Step(t, j) == Param!Executed(z, t, txs[j])
            Is(g, n) == g = [i \in 0..n |-> IF i = 0 THEN start ELSE Step(g[i - 1], i)]
            H == {n \in 0..Len(txs) : \E g : Is(g, n)}
<1>. HIDE DEF start, Step, Is
<1>1. 0 \in H
  <2>1. Is([i \in 0..0 |-> start], 0)
    BY DEF Is
  <2>. QED  BY <2>1
<1>2. ASSUME NEW n \in 0..Len(txs) - 1, n \in H PROVE n + 1 \in H
  <2>1. PICK g : Is(g, n)
    BY <1>2
  <2>. DEFINE h == [i \in 0..n + 1 |-> IF i <= n THEN g[i] ELSE Step(g[n], n + 1)]
  <2>2. ASSUME NEW i \in 0..n + 1
        PROVE  h[i] = IF i = 0 THEN start ELSE Step(h[i - 1], i)
    <3>1. CASE i = 0
      BY <2>1, <3>1 DEF Is
    <3>2. CASE i \in 1..n
      BY <2>1, <3>2 DEF Is
    <3>3. CASE i = n + 1
      BY <3>3
    <3>. QED  BY <3>1, <3>2, <3>3
  <2>3. Is(h, n + 1)
    BY <2>2 DEF Is
  <2>. HIDE DEF h
  <2>. QED  BY <2>3
<1>3. Len(txs) \in H
  <2>. HIDE DEF H
  <2>1. \A i \in 0..Len(txs) : i \in H
    BY <1>1, <1>2, UpTo
  <2>. QED  BY <2>1
<1>4. Is(Param!ExecutedEach(z, s, txs), Len(txs))
  BY <1>3 DEF Is, start, Step, Param!ExecutedEach
<1>5. PICK e : e = Param!ExecutedEach(z, s, txs)
  OBVIOUS
<1>6. e[0] = start /\ \A i \in 1..Len(txs) : e[i] = Step(e[i - 1], i)
  <2>1. e = [i \in 0..Len(txs) |-> IF i = 0 THEN start ELSE Step(e[i - 1], i)]
    BY <1>4, <1>5 DEF Is
  <2>2. 0 \in 0..Len(txs) /\ \A i \in 1..Len(txs) : i \in 0..Len(txs) /\ i # 0
    OBVIOUS
  <2>3. e[0] = start
    BY <2>1, <2>2
  <2>4. ASSUME NEW i \in 1..Len(txs) PROVE e[i] = Step(e[i - 1], i)
    BY <2>1, <2>2
  <2>. QED  BY <2>3, <2>4
<1>. QED  BY <1>5, <1>6, Zenon DEF start, Step

\* The loop over a batch in recovery.
LEMMA ReplayTxsIs ==
    ASSUME NEW z, NEW k, NEW s, NEW txs, Len(txs) \in Nat
    PROVE  LET e == Param!ReplayTxs(z, k, s, txs)
           IN  /\ e[0] = s
               /\ \A i \in 1..Len(txs) :
                     e[i] = Param!ReplayOne(z, k, e[i - 1], txs[i])
<1>. DEFINE start == s
            Step(t, j) == Param!ReplayOne(z, k, t, txs[j])
            Is(g, n) == g = [i \in 0..n |-> IF i = 0 THEN start ELSE Step(g[i - 1], i)]
            H == {n \in 0..Len(txs) : \E g : Is(g, n)}
<1>. HIDE DEF start, Step, Is
<1>1. 0 \in H
  <2>1. Is([i \in 0..0 |-> start], 0)
    BY DEF Is
  <2>. QED  BY <2>1
<1>2. ASSUME NEW n \in 0..Len(txs) - 1, n \in H PROVE n + 1 \in H
  <2>1. PICK g : Is(g, n)
    BY <1>2
  <2>. DEFINE h == [i \in 0..n + 1 |-> IF i <= n THEN g[i] ELSE Step(g[n], n + 1)]
  <2>2. ASSUME NEW i \in 0..n + 1
        PROVE  h[i] = IF i = 0 THEN start ELSE Step(h[i - 1], i)
    <3>1. CASE i = 0
      BY <2>1, <3>1 DEF Is
    <3>2. CASE i \in 1..n
      BY <2>1, <3>2 DEF Is
    <3>3. CASE i = n + 1
      BY <3>3
    <3>. QED  BY <3>1, <3>2, <3>3
  <2>3. Is(h, n + 1)
    BY <2>2 DEF Is
  <2>. HIDE DEF h
  <2>. QED  BY <2>3
<1>3. Len(txs) \in H
  <2>. HIDE DEF H
  <2>1. \A i \in 0..Len(txs) : i \in H
    BY <1>1, <1>2, UpTo
  <2>. QED  BY <2>1
<1>4. Is(Param!ReplayTxs(z, k, s, txs), Len(txs))
  BY <1>3 DEF Is, start, Step, Param!ReplayTxs
<1>5. PICK e : e = Param!ReplayTxs(z, k, s, txs)
  OBVIOUS
<1>6. e[0] = start /\ \A i \in 1..Len(txs) : e[i] = Step(e[i - 1], i)
  <2>1. e = [i \in 0..Len(txs) |-> IF i = 0 THEN start ELSE Step(e[i - 1], i)]
    BY <1>4, <1>5 DEF Is
  <2>2. 0 \in 0..Len(txs) /\ \A i \in 1..Len(txs) : i \in 0..Len(txs) /\ i # 0
    OBVIOUS
  <2>3. e[0] = start
    BY <2>1, <2>2
  <2>4. ASSUME NEW i \in 1..Len(txs) PROVE e[i] = Step(e[i - 1], i)
    BY <2>1, <2>2
  <2>. QED  BY <2>3, <2>4
<1>. QED  BY <1>5, <1>6, Zenon DEF start, Step

\* The balances before and after each batch that is replayed.
BatchByBatch(e, log, z, k, s, first, count) ==
    /\ e[0] = s
    /\ \A i \in 1..count :
          e[i] = Param!ReplayBatch(z, k, e[i - 1], Param!LoggedIn(log, z, first + i - 1))

\* The loop over the batches.
LEMMA ReplayBatchesIs ==
    ASSUME NEW log, NEW z, NEW k, NEW s, NEW first \in Nat, NEW count, count \in Nat
    PROVE  BatchByBatch(Param!ReplayBatches(log, z, k, s, first, count),
                        log, z, k, s, first, count)
<1>. DEFINE start == s
            Step(t, j) == Param!ReplayBatch(z, k, t, Param!LoggedIn(log, z, first + j - 1))
            Is(g, n) == g = [i \in 0..n |-> IF i = 0 THEN start ELSE Step(g[i - 1], i)]
            H == {n \in 0..count : \E g : Is(g, n)}
<1>. HIDE DEF start, Step, Is
<1>1. 0 \in H
  <2>1. Is([i \in 0..0 |-> start], 0)
    BY DEF Is
  <2>. QED  BY <2>1
<1>2. ASSUME NEW n \in 0..count - 1, n \in H PROVE n + 1 \in H
  <2>1. PICK g : Is(g, n)
    BY <1>2
  <2>. DEFINE h == [i \in 0..n + 1 |-> IF i <= n THEN g[i] ELSE Step(g[n], n + 1)]
  <2>2. ASSUME NEW i \in 0..n + 1
        PROVE  h[i] = IF i = 0 THEN start ELSE Step(h[i - 1], i)
    <3>1. CASE i = 0
      BY <2>1, <3>1 DEF Is
    <3>2. CASE i \in 1..n
      BY <2>1, <3>2 DEF Is
    <3>3. CASE i = n + 1
      BY <3>3
    <3>. QED  BY <3>1, <3>2, <3>3
  <2>3. Is(h, n + 1)
    BY <2>2 DEF Is
  <2>. HIDE DEF h
  <2>. QED  BY <2>3
<1>3. count \in H
  <2>. HIDE DEF H
  <2>1. \A i \in 0..count : i \in H
    BY <1>1, <1>2, UpTo
  <2>. QED  BY <2>1
<1>4. Is(Param!ReplayBatches(log, z, k, s, first, count), count)
  BY <1>3 DEF Is, start, Step, Param!ReplayBatches
<1>5. PICK e : e = Param!ReplayBatches(log, z, k, s, first, count)
  OBVIOUS
<1>6. e[0] = start /\ \A i \in 1..count : e[i] = Step(e[i - 1], i)
  <2>1. e = [i \in 0..count |-> IF i = 0 THEN start ELSE Step(e[i - 1], i)]
    BY <1>4, <1>5 DEF Is
  <2>2. 0 \in 0..count /\ \A i \in 1..count : i \in 0..count /\ i # 0
    OBVIOUS
  <2>3. e[0] = start
    BY <2>1, <2>2
  <2>4. ASSUME NEW i \in 1..count PROVE e[i] = Step(e[i - 1], i)
    BY <2>1, <2>2
  <2>. QED  BY <2>3, <2>4
<1>. QED  BY <1>5, <1>6, Zenon DEF start, Step, BatchByBatch

\* The loop over the chunks.
LEMMA ChunksAre ==
    ASSUME NEW log, NEW z, Param!ChunkCount(z) - 1 \in Nat
    PROVE  LET e == Param!ReplayChunks(log, z)
           IN  /\ e[0] = Param!LoadedFrom(log, z)
               /\ \A i \in 1..Param!ChunkCount(z) - 1 :
                     e[i] = Param!ReplayFor(log, z, Param!ChunkBefore(log, z, i), e[i - 1])
<1>. DEFINE start == Param!LoadedFrom(log, z)
            Step(t, j) == Param!ReplayFor(log, z, Param!ChunkBefore(log, z, j), t)
            Is(g, n) == g = [i \in 0..n |-> IF i = 0 THEN start ELSE Step(g[i - 1], i)]
            H == {n \in 0..Param!ChunkCount(z) - 1 : \E g : Is(g, n)}
<1>. HIDE DEF start, Step, Is
<1>1. 0 \in H
  <2>1. Is([i \in 0..0 |-> start], 0)
    BY DEF Is
  <2>. QED  BY <2>1
<1>2. ASSUME NEW n \in 0..Param!ChunkCount(z) - 1 - 1, n \in H PROVE n + 1 \in H
  <2>1. PICK g : Is(g, n)
    BY <1>2
  <2>. DEFINE h == [i \in 0..n + 1 |-> IF i <= n THEN g[i] ELSE Step(g[n], n + 1)]
  <2>2. ASSUME NEW i \in 0..n + 1
        PROVE  h[i] = IF i = 0 THEN start ELSE Step(h[i - 1], i)
    <3>1. CASE i = 0
      BY <2>1, <3>1 DEF Is
    <3>2. CASE i \in 1..n
      BY <2>1, <3>2 DEF Is
    <3>3. CASE i = n + 1
      BY <3>3
    <3>. QED  BY <3>1, <3>2, <3>3
  <2>3. Is(h, n + 1)
    BY <2>2 DEF Is
  <2>. HIDE DEF h
  <2>. QED  BY <2>3
<1>3. Param!ChunkCount(z) - 1 \in H
  <2>. HIDE DEF H
  <2>1. \A i \in 0..Param!ChunkCount(z) - 1 : i \in H
    BY <1>1, <1>2, UpTo
  <2>. QED  BY <2>1
<1>4. Is(Param!ReplayChunks(log, z), Param!ChunkCount(z) - 1)
  BY <1>3 DEF Is, start, Step, Param!ReplayChunks
<1>5. PICK e : e = Param!ReplayChunks(log, z)
  OBVIOUS
<1>6. e[0] = start /\ \A i \in 1..Param!ChunkCount(z) - 1 : e[i] = Step(e[i - 1], i)
  <2>1. e = [i \in 0..Param!ChunkCount(z) - 1 |-> IF i = 0 THEN start ELSE Step(e[i - 1], i)]
    BY <1>4, <1>5 DEF Is
  <2>2. /\ 0 \in 0..Param!ChunkCount(z) - 1
        /\ \A i \in 1..Param!ChunkCount(z) - 1 : i \in 0..Param!ChunkCount(z) - 1 /\ i # 0
    OBVIOUS
  <2>3. e[0] = start
    BY <2>1, <2>2
  <2>4. ASSUME NEW i \in 1..Param!ChunkCount(z) - 1 PROVE e[i] = Step(e[i - 1], i)
    BY <2>1, <2>2
  <2>. QED  BY <2>3, <2>4
<1>. QED  BY <1>5, <1>6, Zenon DEF start, Step

-----------------------------------------------------------------------------
\* One transaction, executed and replayed.

\* The transaction sets account a.
PutsTo(tx, a) == Param!IsRangeSet(tx) /\ Param!InRange(tx, a)

\* As main passes it on when it has met it in state s.
PassedTo(z, s, tx) == IF Param!Takes(z, s, tx) THEN tx ELSE [tx EXCEPT !.amount = 0]

LEMMA DataIsNat == \A x \in Int : Param!GetData(x) \in Nat
<1>1. PICK w : w = Word * Word
  OBVIOUS
<1>2. w \in Nat \ {0}
  <2>1. Word \in Nat /\ Word > 0
    BY ParamConstants DEF Param!ParamAssumption
  <2>2. PICK v \in Nat : Word = v + 1
    <3>1. Word - 1 \in Nat /\ Word = (Word - 1) + 1
      BY <2>1
    <3>. QED  BY <3>1
  <2>3. (v + 1) * (v + 1) = v * v + v + v + 1 /\ v * v \in Nat
    OBVIOUS
  <2>. QED  BY <1>1, <2>2, <2>3
<1>3. \A x \in Int : x % w \in Nat
  BY <1>2
<1>. QED  BY <1>1, <1>3 DEF Param!GetData

\* Execution keeps the balances integers.
LEMMA ExecutedType ==
    ASSUME NEW z \in Sizes, NEW s \in ParamStates(z), NEW tx \in Param!Transactions
    PROVE  Param!Executed(z, s, tx) \in ParamStates(z)
<1>1. PICK from, to : from = Param!GetData(tx.sender) /\ to = Param!GetData(tx.receiver)
  OBVIOUS
<1>2. tx.amount \in Int /\ from \in Nat /\ to \in Nat
  BY <1>1, DataIsNat DEF Param!Transactions
<1>3. CASE Param!Takes(z, s, tx) /\ Param!IsTransfer(tx)
  <2>1. from < z.accounts /\ to < z.accounts
    BY <1>1, <1>3 DEF Param!Takes, Param!IsTransfer, Param!IsRangeSet
  <2>2. from \in Param!AllAccounts(z) /\ to \in Param!AllAccounts(z)
    BY <1>2, <2>1, SizesAre
  <2>3. Param!Executed(z, s, tx) = Param!Moved(s, tx)
    BY <1>3 DEF Param!Executed, Param!IsTransfer, Param!IsRangeSet
  <2>4. PICK paid, gain : /\ paid = [s EXCEPT ![from] = s[from] - tx.amount]
                          /\ gain = SelfGain * tx.amount
    OBVIOUS
  <2>5. paid \in ParamStates(z) /\ gain \in Int
    <3>1. SelfGain \in Int
      BY ParamConstants DEF Param!ParamAssumption
    <3>. QED  BY <1>2, <2>2, <2>4, <3>1 DEF ParamStates
  <2>6. Param!Moved(s, tx) = IF from = to THEN [s EXCEPT ![from] = s[from] + gain]
                                          ELSE [paid EXCEPT ![to] = paid[to] + tx.amount]
    BY <1>1, <2>4 DEF Param!Moved
  <2>. QED  BY <1>2, <2>2, <2>3, <2>5, <2>6 DEF ParamStates
<1>4. CASE Param!Takes(z, s, tx) /\ Param!IsRangeSet(tx)
  <2>1. Param!Executed(z, s, tx) = Param!SetRange(z, s, tx)
    BY <1>4 DEF Param!Executed, Param!IsTransfer, Param!IsRangeSet
  <2>. QED  BY <1>2, <2>1 DEF Param!SetRange, ParamStates
<1>5. CASE ~Param!Takes(z, s, tx) \/ (~Param!IsTransfer(tx) /\ ~Param!IsRangeSet(tx))
  <2>1. Param!Executed(z, s, tx) = s
    BY <1>5 DEF Param!Executed
  <2>. QED  BY <2>1
<1>. QED  BY <1>3, <1>4, <1>5

\* What replaying any transaction for chunk k does to an account.
LEMMA ReplayedOne ==
    ASSUME NEW z \in Sizes, NEW k, NEW t \in ParamStates(z), NEW tx \in Param!Transactions
    PROVE  LET r == Param!ReplayOne(z, k, t, tx)
               from == Param!GetData(tx.sender)
               to == Param!GetData(tx.receiver)
           IN  /\ r \in ParamStates(z)
               /\ \A a \in Param!AllAccounts(z) :
                     /\ PutsTo(tx, a) => r[a] = tx.amount
                     /\ ~PutsTo(tx, a) /\ (a \div z.perChunk # k \/ ~Param!IsTransfer(tx)) =>
                           r[a] = t[a]
                     /\ a \div z.perChunk = k /\ Param!IsTransfer(tx) =>
                           r[a] = t[a] + (IF a = to /\ from < Param!Padded(z)
                                            THEN tx.amount ELSE 0)
                                       - (IF a = from THEN tx.amount ELSE 0)
<1>1. PICK from, to, r : /\ from = Param!GetData(tx.sender) /\ to = Param!GetData(tx.receiver)
                         /\ r = Param!ReplayOne(z, k, t, tx)
  OBVIOUS
<1>2. tx.amount \in Int /\ \A a \in Param!AllAccounts(z) : t[a] \in Int
  BY DEF Param!Transactions, ParamStates
<1>3. CASE Param!IsTransfer(tx)
  <2>1. r = [a \in Param!AllAccounts(z) |->
               IF a \div z.perChunk = k
                 THEN t[a] + ((IF a = to /\ from < Param!Padded(z) THEN tx.amount ELSE 0)
                                - (IF a = from THEN tx.amount ELSE 0))
                 ELSE t[a]]
    BY <1>1, <1>3 DEF Param!ReplayOne, Param!IsTransfer, Param!IsRangeSet
  <2>2. r \in ParamStates(z)
    BY <1>2, <2>1 DEF ParamStates
  <2>3. \A a \in Param!AllAccounts(z) : ~PutsTo(tx, a)
    BY <1>3 DEF PutsTo, Param!IsTransfer, Param!IsRangeSet
  <2>4. ASSUME NEW a \in Param!AllAccounts(z)
        PROVE  /\ a \div z.perChunk # k => r[a] = t[a]
               /\ a \div z.perChunk = k =>
                     r[a] = t[a] + (IF a = to /\ from < Param!Padded(z) THEN tx.amount ELSE 0)
                                 - (IF a = from THEN tx.amount ELSE 0)
    BY <1>2, <2>1
  <2>. QED  BY <1>1, <1>3, <2>2, <2>3, <2>4
<1>4. CASE Param!IsRangeSet(tx)
  <2>1. r = Param!SetRange(z, t, tx) /\ ~Param!IsTransfer(tx)
    BY <1>1, <1>4 DEF Param!ReplayOne, Param!IsTransfer, Param!IsRangeSet
  <2>2. r \in ParamStates(z)
    BY <1>2, <2>1 DEF ParamStates, Param!SetRange
  <2>3. \A a \in Param!AllAccounts(z) :
           r[a] = IF Param!InRange(tx, a) THEN tx.amount ELSE t[a]
    BY <2>1 DEF Param!SetRange
  <2>. QED  BY <1>1, <1>4, <2>1, <2>2, <2>3 DEF PutsTo
<1>5. CASE ~Param!IsTransfer(tx) /\ ~Param!IsRangeSet(tx)
  <2>1. r = t /\ \A a : ~PutsTo(tx, a)
    BY <1>1, <1>5 DEF Param!ReplayOne, PutsTo
  <2>. QED  BY <1>1, <1>5, <2>1
<1>. QED  BY <1>3, <1>4, <1>5

\* A transaction as it is passed on, replayed for chunk k: an account that it sets gets
\* the amount, as when it was executed; apart from that another chunk is left alone, and
\* an account of the chunk that had the balance it has been executed with follows, unless
\* it pays itself.
LEMMA RedoneOne ==
    ASSUME NEW z \in Sizes, NEW k, NEW s \in ParamStates(z), NEW t \in ParamStates(z),
           NEW tx \in Param!Transactions, NEW a \in Param!AllAccounts(z)
    PROVE  LET new == PassedTo(z, s, tx)
               r == Param!ReplayOne(z, k, t, new)
               e == Param!Executed(z, s, tx)
           IN  /\ new \in Param!Transactions /\ r \in ParamStates(z)
               /\ PutsTo(new, a) => r[a] = new.amount /\ e[a] = new.amount
               /\ ~PutsTo(new, a) /\ a \div z.perChunk # k => r[a] = t[a]
               /\ a \div z.perChunk = k /\ t[a] = s[a] /\ ~Param!PaysItself(new) =>
                     r[a] = e[a]
<1>1. PICK new, r, e : /\ new = PassedTo(z, s, tx) /\ r = Param!ReplayOne(z, k, t, new)
                       /\ e = Param!Executed(z, s, tx)
  OBVIOUS
<1>2. PICK from, to : from = Param!GetData(tx.sender) /\ to = Param!GetData(tx.receiver)
  OBVIOUS
<1>3. /\ from \in Nat /\ to \in Nat /\ tx.amount \in Int /\ new \in Param!Transactions
      /\ new.sender = tx.sender /\ new.receiver = tx.receiver
      /\ new.amount = IF Param!Takes(z, s, tx) THEN tx.amount ELSE 0
  BY <1>1, <1>2, DataIsNat DEF Param!Transactions, PassedTo
<1>4. /\ Param!IsTransfer(new) <=> Param!IsTransfer(tx)
      /\ Param!IsRangeSet(new) <=> Param!IsRangeSet(tx)
      /\ Param!InRange(new, a) <=> Param!InRange(tx, a)
      /\ Param!InRange(tx, a) <=> a >= from /\ a < from + to
  BY <1>2, <1>3 DEF Param!IsTransfer, Param!IsRangeSet, Param!InRange
<1>5. /\ r \in ParamStates(z)
      /\ PutsTo(new, a) => r[a] = new.amount
      /\ ~PutsTo(new, a) /\ (a \div z.perChunk # k \/ ~Param!IsTransfer(tx)) => r[a] = t[a]
      /\ a \div z.perChunk = k /\ Param!IsTransfer(tx) =>
            r[a] = t[a] + (IF a = to /\ from < Param!Padded(z) THEN new.amount ELSE 0)
                        - (IF a = from THEN new.amount ELSE 0)
  BY <1>1, <1>2, <1>3, <1>4, ReplayedOne
<1>6. /\ a \in Nat /\ a < Param!Padded(z) /\ s[a] \in Int /\ Param!Padded(z) \in Nat
      /\ z.accounts <= Param!Padded(z) /\ z.accounts \in Nat
  BY SizesAre DEF ParamStates
<1>7. ASSUME PutsTo(new, a) PROVE e[a] = new.amount
  <2>1. Param!IsRangeSet(tx) /\ ~Param!IsTransfer(tx) /\ Param!InRange(tx, a)
    BY <1>4, <1>7 DEF PutsTo, Param!IsTransfer, Param!IsRangeSet
  <2>2. from < Param!Padded(z)
    BY <1>3, <1>4, <1>6, <2>1
  <2>3. Param!Takes(z, s, tx)
    BY <1>2, <2>1, <2>2 DEF Param!Takes
  <2>4. e = Param!SetRange(z, s, tx)
    BY <1>1, <2>1, <2>3 DEF Param!Executed
  <2>. QED  BY <1>3, <2>1, <2>3, <2>4 DEF Param!SetRange
<1>8. ASSUME a \div z.perChunk = k, t[a] = s[a], Param!IsTransfer(tx),
             ~Param!PaysItself(new)
      PROVE  r[a] = e[a]
  <2>1. ~Param!IsRangeSet(tx)
    BY <1>8 DEF Param!IsTransfer, Param!IsRangeSet
  <2>2. CASE Param!Takes(z, s, tx)
    <3>1. from < z.accounts /\ to < z.accounts
      BY <1>2, <2>1, <2>2 DEF Param!Takes
    <3>2. from \in Param!AllAccounts(z) /\ to \in Param!AllAccounts(z)
      BY <1>3, <3>1, SizesAre
    <3>3. PICK paid : paid = [s EXCEPT ![from] = s[from] - tx.amount]
      OBVIOUS
    <3>0. from = to => tx.amount = 0
      BY <1>2, <1>3, <1>4, <1>8, <2>2 DEF Param!PaysItself
    <3>4. e = [paid EXCEPT ![to] = paid[to] + tx.amount]
      <4>1. e = Param!Moved(s, tx)
        BY <1>1, <1>8, <2>1, <2>2 DEF Param!Executed
      <4>2. CASE from # to
        BY <1>2, <3>3, <4>1, <4>2 DEF Param!Moved
      <4>3. CASE from = to
        <5>1. SelfGain * tx.amount = 0
          <6>1. SelfGain \in Int /\ tx.amount = 0
            BY <3>0, <4>3, ParamConstants DEF Param!ParamAssumption
          <6>. QED  BY <6>1
        <5>2. e = [s EXCEPT ![from] = s[from] + 0]
          BY <1>2, <4>1, <4>3, <5>1 DEF Param!Moved
        <5>3. s[from] \in Int /\ s[from] + 0 = s[from] /\ s[from] - 0 = s[from]
          BY <3>2 DEF ParamStates
        <5>4. e = s /\ paid = s
          BY <3>0, <3>2, <3>3, <4>3, <5>2, <5>3 DEF ParamStates
        <5>. QED  BY <3>0, <3>2, <4>3, <5>3, <5>4 DEF ParamStates
      <4>. QED  BY <4>2, <4>3
    <3>5. /\ paid \in ParamStates(z)
          /\ paid[a] = s[a] - (IF a = from THEN tx.amount ELSE 0)
      BY <1>3, <1>6, <3>2, <3>3 DEF ParamStates
    <3>6. e[a] = paid[a] + (IF a = to THEN tx.amount ELSE 0)
      BY <1>3, <3>2, <3>4, <3>5 DEF ParamStates
    <3>. QED  BY <1>3, <1>5, <1>6, <1>8, <2>2, <3>1, <3>5, <3>6
  <2>3. CASE ~Param!Takes(z, s, tx)
    <3>1. e = s
      BY <1>1, <2>3 DEF Param!Executed
    <3>. QED  BY <1>3, <1>5, <1>6, <1>8, <2>3, <3>1
  <2>. QED  BY <2>2, <2>3
<1>9. ASSUME t[a] = s[a], ~Param!IsTransfer(tx), ~PutsTo(new, a) PROVE r[a] = e[a]
  <2>1. CASE Param!Takes(z, s, tx) /\ Param!IsRangeSet(tx)
    <3>1. e = Param!SetRange(z, s, tx) /\ ~Param!InRange(tx, a)
      BY <1>1, <1>4, <1>9, <2>1 DEF Param!Executed, PutsTo
    <3>. QED  BY <1>5, <1>9, <3>1 DEF Param!SetRange
  <2>2. CASE ~(Param!Takes(z, s, tx) /\ Param!IsRangeSet(tx))
    <3>1. e = s
      BY <1>1, <1>9, <2>2 DEF Param!Executed
    <3>. QED  BY <1>5, <1>9, <3>1
  <2>. QED  BY <2>1, <2>2
<1>10. ASSUME a \div z.perChunk = k, t[a] = s[a], ~Param!PaysItself(new)
       PROVE  r[a] = e[a]
  <2>1. CASE Param!IsTransfer(tx)
    BY <1>8, <1>10, <2>1
  <2>2. CASE PutsTo(new, a)
    BY <1>5, <1>7, <2>2
  <2>3. CASE ~Param!IsTransfer(tx) /\ ~PutsTo(new, a)
    BY <1>9, <1>10, <2>3
  <2>. QED  BY <2>1, <2>2, <2>3
<1>11. ASSUME ~PutsTo(new, a), a \div z.perChunk # k PROVE r[a] = t[a]
  BY <1>5, <1>11
<1>12. /\ new \in Param!Transactions /\ r \in ParamStates(z)
       /\ PutsTo(new, a) => r[a] = new.amount /\ e[a] = new.amount
  BY <1>3, <1>5, <1>7
<1>. QED  BY <1>1, <1>10, <1>11, <1>12, Zenon

-----------------------------------------------------------------------------
\* A batch, executed and replayed.

\* A batch as a sequence.
LEMMA BatchIsSeq ==
    ASSUME NEW txs \in ParamBatches
    PROVE  /\ txs \in Seq(Param!Transactions) /\ Len(txs) = BatchSize
           /\ BatchSize \in Nat \ {0} /\ \A i \in 1..BatchSize : txs[i] \in Param!Transactions
<1>1. BatchSize \in Nat \ {0} /\ DOMAIN txs = 1..BatchSize
  BY ParamConstants DEF Param!ParamAssumption, ParamBatches
<1>2. txs \in Seq(Param!Transactions)
  BY <1>1, SeqDef DEF ParamBatches
<1>3. Len(txs) \in Nat /\ DOMAIN txs = 1..Len(txs)
  BY <1>2
<1>4. Len(txs) = BatchSize
  BY <1>1, <1>3
<1>. QED  BY <1>1, <1>2, <1>4 DEF ParamBatches

\* Of the first n transactions the last one that sets account a takes it from x to y; if
\* none of them does, it stays at x.
LastPuts(txs, n, a, x, y) ==
    \/ y = x /\ \A i \in 1..n : ~PutsTo(txs[i], a)
    \/ \E i \in 1..n : /\ PutsTo(txs[i], a) /\ y = txs[i].amount
                       /\ \A j \in 1..n : j > i => ~PutsTo(txs[j], a)

LEMMA LastPutsNext ==
    ASSUME NEW txs, NEW n \in Nat, NEW a, NEW x, NEW y, NEW v, LastPuts(txs, n, a, x, y),
           v = IF PutsTo(txs[n + 1], a) THEN txs[n + 1].amount ELSE y
    PROVE  LastPuts(txs, n + 1, a, x, v)
<1>0. \A i : i \in 1..n + 1 <=> i \in 1..n \/ i = n + 1
  OBVIOUS
<1>1. CASE PutsTo(txs[n + 1], a)
  <2>1. n + 1 \in 1..n + 1 /\ \A j \in 1..n + 1 : ~(j > n + 1)
    OBVIOUS
  <2>. QED  BY <1>1, <2>1 DEF LastPuts
<1>2. CASE ~PutsTo(txs[n + 1], a) /\ y = x /\ \A i \in 1..n : ~PutsTo(txs[i], a)
  BY <1>0, <1>2 DEF LastPuts
<1>3. CASE /\ ~PutsTo(txs[n + 1], a)
           /\ \E i \in 1..n : /\ PutsTo(txs[i], a) /\ y = txs[i].amount
                              /\ \A j \in 1..n : j > i => ~PutsTo(txs[j], a)
  <2>1. PICK i \in 1..n : /\ PutsTo(txs[i], a) /\ y = txs[i].amount
                          /\ \A j \in 1..n : j > i => ~PutsTo(txs[j], a)
    BY <1>3
  <2>2. i \in 1..n + 1 /\ \A j \in 1..n + 1 : j > i => ~PutsTo(txs[j], a)
    BY <1>0, <1>3, <2>1
  <2>. QED  BY <1>3, <2>1, <2>2 DEF LastPuts
<1>. QED  BY <1>1, <1>2, <1>3 DEF LastPuts

\* Replaying any transactions keeps the balances integers.
LEMMA ReplayType ==
    ASSUME NEW z \in Sizes, NEW k, NEW t \in ParamStates(z), NEW txs,
           txs \in Seq(Param!Transactions)
    PROVE  Param!ReplayBatch(z, k, t, txs) \in ParamStates(z)
<1>. DEFINE r == Param!ReplayTxs(z, k, t, txs)
            H == {i \in 0..Len(txs) : r[i] \in ParamStates(z)}
<1>1. Len(txs) \in Nat /\ \A i \in 1..Len(txs) : txs[i] \in Param!Transactions
  OBVIOUS
<1>2. r[0] = t /\ \A i \in 1..Len(txs) : r[i] = Param!ReplayOne(z, k, r[i - 1], txs[i])
  BY <1>1, ReplayTxsIs
<1>. HIDE DEF r
<1>3. 0 \in H
  BY <1>1, <1>2
<1>4. ASSUME NEW i \in 0..Len(txs) - 1, i \in H PROVE i + 1 \in H
  <2>1. i + 1 \in 1..Len(txs) /\ (i + 1) - 1 = i /\ i + 1 \in 0..Len(txs)
    BY <1>1
  <2>2. PICK s, tx : s = r[i] /\ tx = txs[i + 1]
    OBVIOUS
  <2>3. s \in ParamStates(z) /\ tx \in Param!Transactions
    BY <1>1, <1>4, <2>1, <2>2
  <2>4. r[i + 1] = Param!ReplayOne(z, k, s, tx)
    BY <1>2, <2>1, <2>2
  <2>5. Param!ReplayOne(z, k, s, tx) \in ParamStates(z)
    BY <2>3, ReplayedOne
  <2>. QED  BY <2>1, <2>4, <2>5
<1>5. Len(txs) \in H
  <2>. HIDE DEF H
  <2>1. \A i \in 0..Len(txs) : i \in H
    BY <1>1, <1>3, <1>4, UpTo
  <2>. QED  BY <1>1, <2>1
<1>. QED  BY <1>5 DEF r, Param!ReplayBatch

\* A batch that was executed from s to e, replayed for chunk k from t to r: an account of
\* another chunk is only set, and one of the chunk ends with the balance after the batch
\* when it has begun with the one before it, or is set.
RedoneAs(z, k, new, s, e, t, r, a) ==
    /\ a \div z.perChunk # k => LastPuts(new, BatchSize, a, t[a], r[a])
    /\ a \div z.perChunk = k /\ (t[a] = s[a] \/ \E i \in 1..BatchSize : PutsTo(new[i], a)) =>
          r[a] = e[a]

LEMMA RedoneBatch ==
    ASSUME NEW z \in Sizes, NEW k, NEW s \in ParamStates(z), NEW t \in ParamStates(z),
           NEW txs \in ParamBatches, NEW a \in Param!AllAccounts(z)
    PROVE  LET new == Param!ToLog(z, s, txs)
               r == Param!ReplayBatch(z, k, t, new)
               e == Param!ExecutedEach(z, s, txs)[BatchSize]
           IN  /\ new \in ParamBatches /\ r \in ParamStates(z) /\ e \in ParamStates(z)
               /\ (\A i \in 1..BatchSize : ~Param!PaysItself(new[i])) =>
                     RedoneAs(z, k, new, s, e, t, r, a)
<1>. DEFINE e == Param!ExecutedEach(z, s, txs)
            new == Param!ToLog(z, s, txs)
            r == Param!ReplayTxs(z, k, t, new)
<1>1. /\ Len(txs) = BatchSize /\ BatchSize \in Nat \ {0}
      /\ \A i \in 1..BatchSize : txs[i] \in Param!Transactions
      /\ DOMAIN txs = 1..BatchSize
  BY BatchIsSeq DEF ParamBatches
<1>2. e[0] = s /\ \A i \in 1..BatchSize : e[i] = Param!Executed(z, e[i - 1], txs[i])
  BY <1>1, ExecutedEachIs
<1>3. new = [i \in 1..BatchSize |-> PassedTo(z, e[i - 1], txs[i])]
  BY <1>1 DEF Param!ToLog, PassedTo
<1>4. e[BatchSize] = Param!ExecutedEach(z, s, txs)[BatchSize]
  OBVIOUS
<1>. HIDE DEF e
<1>5. \A i \in 1..BatchSize :
         new[i] \in Param!Transactions /\ new[i] = PassedTo(z, e[i - 1], txs[i])
  <2>. SUFFICES ASSUME NEW i \in 1..BatchSize
                PROVE  /\ new[i] \in Param!Transactions
                       /\ new[i] = PassedTo(z, e[i - 1], txs[i])
    OBVIOUS
  <2>1. new[i] = PassedTo(z, e[i - 1], txs[i])
    BY <1>3
  <2>2. \A st, tx : tx \in Param!Transactions => PassedTo(z, st, tx) \in Param!Transactions
    BY DEF PassedTo, Param!Transactions
  <2>. QED  BY <1>1, <2>1, <2>2
<1>6. new \in ParamBatches /\ Len(new) = BatchSize
  <2>1. new \in ParamBatches
    BY <1>3, <1>5 DEF ParamBatches
  <2>. QED  BY <2>1, BatchIsSeq
<1>7. r[0] = t /\ \A i \in 1..BatchSize : r[i] = Param!ReplayOne(z, k, r[i - 1], new[i])
  BY <1>1, <1>6, ReplayTxsIs
<1>8. Param!ReplayBatch(z, k, t, new) = r[BatchSize]
  BY <1>6 DEF Param!ReplayBatch
<1>. HIDE DEF r, new
<1>. DEFINE H == {n \in 0..BatchSize :
                    /\ e[n] \in ParamStates(z) /\ r[n] \in ParamStates(z)
                    /\ a \div z.perChunk # k => LastPuts(new, n, a, t[a], r[n][a])
                    /\ /\ a \div z.perChunk = k
                       /\ t[a] = s[a] \/ \E i \in 1..n : PutsTo(new[i], a)
                       /\ \A i \in 1..BatchSize : ~Param!PaysItself(new[i])
                       => r[n][a] = e[n][a]}
<1>9. 0 \in H
  <2>1. LastPuts(new, 0, a, t[a], t[a])
    BY DEF LastPuts
  <2>2. ~\E i \in 1..0 : PutsTo(new[i], a)
    OBVIOUS
  <2>. QED  BY <1>1, <1>2, <1>7, <2>1, <2>2
<1>10. ASSUME NEW n \in 0..BatchSize - 1, n \in H PROVE n + 1 \in H
  <2>1. n + 1 \in 1..BatchSize /\ (n + 1) - 1 = n /\ n + 1 \in 0..BatchSize /\ n \in Nat
    BY <1>1
  <2>2. PICK x, u, tx, l : x = e[n] /\ u = r[n] /\ tx = txs[n + 1] /\ l = new[n + 1]
    OBVIOUS
  <2>3. /\ x \in ParamStates(z) /\ u \in ParamStates(z) /\ tx \in Param!Transactions
        /\ l = PassedTo(z, x, tx)
    BY <1>1, <1>5, <1>10, <2>1, <2>2
  <2>4. PICK y, v : y = Param!Executed(z, x, tx) /\ v = Param!ReplayOne(z, k, u, l)
    OBVIOUS
  <2>5. e[n + 1] = y /\ r[n + 1] = v
    BY <1>2, <1>7, <2>1, <2>2, <2>4
  <2>6. y \in ParamStates(z)
    BY <2>3, <2>4, ExecutedType
  <2>7. /\ v \in ParamStates(z)
        /\ PutsTo(l, a) => v[a] = l.amount /\ y[a] = l.amount
        /\ ~PutsTo(l, a) /\ a \div z.perChunk # k => v[a] = u[a]
        /\ a \div z.perChunk = k /\ u[a] = x[a] /\ ~Param!PaysItself(l) => v[a] = y[a]
    BY <2>3, <2>4, RedoneOne
  <2>8. ASSUME a \div z.perChunk # k PROVE LastPuts(new, n + 1, a, t[a], v[a])
    <3>1. LastPuts(new, n, a, t[a], u[a])
      BY <1>10, <2>2, <2>8
    <3>2. v[a] = IF PutsTo(new[n + 1], a) THEN new[n + 1].amount ELSE u[a]
      BY <2>2, <2>7, <2>8
    <3>. QED  BY <2>1, <3>1, <3>2, LastPutsNext
  <2>9. ASSUME a \div z.perChunk = k,
               t[a] = s[a] \/ \E i \in 1..n + 1 : PutsTo(new[i], a),
               \A i \in 1..BatchSize : ~Param!PaysItself(new[i])
        PROVE  v[a] = y[a]
    <3>1. CASE PutsTo(l, a)
      BY <2>7, <3>1
    <3>2. CASE ~PutsTo(l, a)
      <4>1. t[a] = s[a] \/ \E i \in 1..n : PutsTo(new[i], a)
        <5>1. \A i \in 1..n + 1 : i \in 1..n \/ i = n + 1
          BY <2>1
        <5>. QED  BY <2>2, <2>9, <3>2, <5>1
      <4>2. u[a] = x[a]
        BY <1>10, <2>2, <2>9, <4>1
      <4>3. ~Param!PaysItself(l)
        BY <2>1, <2>2, <2>9
      <4>. QED  BY <2>7, <2>9, <4>2, <4>3
    <3>. QED  BY <3>1, <3>2
  <2>. QED  BY <2>1, <2>5, <2>6, <2>7, <2>8, <2>9
<1>11. BatchSize \in H
  <2>. HIDE DEF H
  <2>1. \A n \in 0..BatchSize : n \in H
    BY <1>1, <1>9, <1>10, UpTo
  <2>. QED  BY <1>1, <2>1
<1>. QED  BY <1>6, <1>8, <1>11 DEF e, new, RedoneAs

-----------------------------------------------------------------------------
\* Some batches of the run, replayed.

\* Of batches low + 1 to high of the run one sets account a.
SetWithin(a, low, high) ==
    \E b \in low + 1..high, i \in 1..BatchSize : PutsTo(batches[b][i], a)

\* The last transaction of them that sets it takes it from x to y.
LastSet(a, low, high, x, y) ==
    \/ y = x /\ ~SetWithin(a, low, high)
    \/ \E b \in low + 1..high, i \in 1..BatchSize :
          /\ PutsTo(batches[b][i], a) /\ y = batches[b][i].amount
          /\ \A c \in low + 1..high, j \in 1..BatchSize :
                c > b \/ (c = b /\ j > i) => ~PutsTo(batches[c][j], a)

LEMMA LastSetNext ==
    ASSUME NEW a, NEW low \in Nat, NEW high \in Nat, low <= high, NEW x, NEW y, NEW v,
           LastSet(a, low, high, x, y), LastPuts(batches[high + 1], BatchSize, a, y, v)
    PROVE  LastSet(a, low, high + 1, x, v)
<1>0. /\ high + 1 \in low + 1..high + 1
      /\ \A b : b \in low + 1..high + 1 <=> b \in low + 1..high \/ b = high + 1
      /\ \A b \in low + 1..high : b # high + 1 /\ high + 1 > b /\ ~(b > high + 1)
  OBVIOUS
<1>1. ASSUME NEW i \in 1..BatchSize, PutsTo(batches[high + 1][i], a),
             v = batches[high + 1][i].amount,
             \A j \in 1..BatchSize : j > i => ~PutsTo(batches[high + 1][j], a)
      PROVE  LastSet(a, low, high + 1, x, v)
  <2>1. ASSUME NEW c \in low + 1..high + 1, NEW j \in 1..BatchSize,
               c > high + 1 \/ (c = high + 1 /\ j > i)
        PROVE  ~PutsTo(batches[c][j], a)
    <3>1. c = high + 1 /\ j > i
      BY <2>1
    <3>. QED  BY <1>1, <3>1
  <2>. QED  BY <1>0, <1>1, <2>1 DEF LastSet
<1>2. ASSUME v = y, \A i \in 1..BatchSize : ~PutsTo(batches[high + 1][i], a)
      PROVE  LastSet(a, low, high + 1, x, v)
  <2>1. CASE y = x /\ ~SetWithin(a, low, high)
    <3>1. ~SetWithin(a, low, high + 1)
      BY <1>0, <1>2, <2>1 DEF SetWithin
    <3>. QED  BY <1>2, <2>1, <3>1 DEF LastSet
  <2>2. ASSUME NEW b \in low + 1..high, NEW i \in 1..BatchSize, PutsTo(batches[b][i], a),
               y = batches[b][i].amount,
               \A c \in low + 1..high, j \in 1..BatchSize :
                   c > b \/ (c = b /\ j > i) => ~PutsTo(batches[c][j], a)
        PROVE  LastSet(a, low, high + 1, x, v)
    <3>1. ASSUME NEW c \in low + 1..high + 1, NEW j \in 1..BatchSize,
                 c > b \/ (c = b /\ j > i)
          PROVE  ~PutsTo(batches[c][j], a)
      BY <1>0, <1>2, <2>2, <3>1
    <3>. QED  BY <1>0, <1>2, <2>2, <3>1 DEF LastSet
  <2>. QED  BY <2>1, <2>2 DEF LastSet
<1>. QED  BY <1>1, <1>2 DEF LastPuts

\* The run so far is sound, and its sizes are those of a command line.
RunSoFar == size \in Sizes /\ ParamHistory /\ ParamExecuted

\* What one batch of it does, executed and replayed.
LEMMA BatchOfRun ==
    ASSUME RunSoFar, NEW b \in 1..Len(batches), NEW k, NEW t \in ParamStates(size),
           NEW a \in Param!AllAccounts(size)
    PROVE  LET r == Param!ReplayBatch(size, k, t, batches[b])
           IN  /\ r \in ParamStates(size) /\ states[b] \in ParamStates(size)
               /\ (\A i \in 1..BatchSize : ~Param!PaysItself(batches[b][i])) =>
                     RedoneAs(size, k, batches[b], states[b], states[b + 1], t, r, a)
<1>1. PICK txs \in Inputs : AsExecuted(b, txs)
  BY DEF RunSoFar, ParamExecuted
<1>2. txs \in ParamBatches
  BY ParamConstants DEF Param!ParamAssumption, ParamBatches
<1>3. Len(txs) = BatchSize
  BY <1>2, BatchIsSeq
<1>4. b \in 1..Len(states) /\ states \in Seq(ParamStates(size))
  <2>1. batches \in Seq(ParamBatches) /\ Len(states) = Len(batches) + 1
        /\ states \in Seq(ParamStates(size))
    BY DEF RunSoFar, ParamHistory
  <2>2. Len(batches) \in Nat
    BY <2>1
  <2>. QED  BY <2>1, <2>2
<1>5. states[b] \in ParamStates(size)
  BY <1>4
<1>6. PICK z, s, new, e : /\ z = size /\ s = states[b] /\ new = batches[b] /\ e = states[b + 1]
  OBVIOUS
<1>7. z \in Sizes /\ s \in ParamStates(z) /\ t \in ParamStates(z) /\ a \in Param!AllAccounts(z)
      /\ new = Param!ToLog(z, s, txs) /\ e = Param!ExecutedEach(z, s, txs)[BatchSize]
  BY <1>1, <1>3, <1>5, <1>6 DEF AsExecuted, RunSoFar
<1>8. LET r == Param!ReplayBatch(z, k, t, new)
      IN  /\ r \in ParamStates(z)
          /\ (\A i \in 1..BatchSize : ~Param!PaysItself(new[i])) =>
                RedoneAs(z, k, new, s, e, t, r, a)
  BY <1>2, <1>7, RedoneBatch
<1>. QED  BY <1>5, <1>6, <1>8

\* In none of batches low + 1 to high of the run does an account pay itself.
NonePaysItself(low, high) ==
    \A b \in low + 1..high, i \in 1..BatchSize : ~Param!PaysItself(batches[b][i])

\* So many batches of the run, after the first ones, are in the log.
LoggedAre(log, first, count) ==
    \A b \in first..first + count - 1 : Param!LoggedIn(log, size, b) = batches[b + 1]

\* Count batches after the first ones of the run, found in the log, replayed for chunk k.
LEMMA StretchReplayed ==
    ASSUME RunSoFar, NEW log, NEW k, NEW first \in Nat, NEW count \in Nat,
           first + count <= Len(batches), LoggedAre(log, first, count),
           NonePaysItself(first, first + count),
           NEW t \in ParamStates(size), NEW a \in Param!AllAccounts(size)
    PROVE  LET r == Param!ReplayBatches(log, size, k, t, first, count)[count]
               high == first + count
           IN  /\ r \in ParamStates(size)
               /\ a \div size.perChunk # k => LastSet(a, first, high, t[a], r[a])
               /\ a \div size.perChunk = k
                     /\ (t[a] = states[first + 1][a] \/ SetWithin(a, first, high)) =>
                     r[a] = states[high + 1][a]
<1>. DEFINE r == Param!ReplayBatches(log, size, k, t, first, count)
            H == {n \in 0..count :
                    /\ r[n] \in ParamStates(size)
                    /\ a \div size.perChunk # k =>
                          LastSet(a, first, first + n, t[a], r[n][a])
                    /\ a \div size.perChunk = k
                          /\ (t[a] = states[first + 1][a] \/ SetWithin(a, first, first + n)) =>
                          r[n][a] = states[first + n + 1][a]}
<1>1. /\ r[0] = t
      /\ \A i \in 1..count :
            r[i] =
              Param!ReplayBatch(size, k, r[i - 1], Param!LoggedIn(log, size, first + i - 1))
  <2>1. BatchByBatch(r, log, size, k, t, first, count)
    BY ReplayBatchesIs
  <2>. HIDE DEF r
  <2>. QED  BY <2>1 DEF BatchByBatch
<1>. HIDE DEF r
<1>2. 0 \in H
  <2>1. first + 0 = first /\ \A b : b \notin first + 1..first
    OBVIOUS
  <2>2. ~SetWithin(a, first, first)
    BY <2>1 DEF SetWithin
  <2>3. LastSet(a, first, first, t[a], t[a])
    BY <2>2 DEF LastSet
  <2>. QED  BY <1>1, <2>1, <2>2, <2>3
<1>3. ASSUME NEW n \in 0..count - 1, n \in H PROVE n + 1 \in H
  <2>1. PICK b, u, v : b = first + n + 1 /\ u = r[n] /\ v = r[n + 1]
    OBVIOUS
  <2>2. /\ n + 1 \in 1..count /\ (n + 1) - 1 = n /\ first + (n + 1) - 1 = first + n
        /\ first + n \in first..first + count - 1 /\ n + 1 \in 0..count
        /\ first + (n + 1) = b /\ (first + n) + 1 = b /\ first + n \in Nat /\ first <= first + n
    BY <2>1
  <2>3. b \in 1..Len(batches)
    <3>1. Len(batches) \in Nat
      BY DEF RunSoFar, ParamHistory
    <3>. QED  BY <2>1, <3>1
  <2>4. v = Param!ReplayBatch(size, k, u, batches[b])
    <3>1. Param!LoggedIn(log, size, first + n) = batches[b]
      BY <2>2 DEF LoggedAre
    <3>. QED  BY <1>1, <2>1, <2>2, <3>1
  <2>5. /\ u \in ParamStates(size)
        /\ a \div size.perChunk # k => LastSet(a, first, first + n, t[a], u[a])
        /\ a \div size.perChunk = k
              /\ (t[a] = states[first + 1][a] \/ SetWithin(a, first, first + n)) =>
              u[a] = states[b][a]
    BY <1>3, <2>1
  <2>6. /\ v \in ParamStates(size)
        /\ a \div size.perChunk # k => LastPuts(batches[b], BatchSize, a, u[a], v[a])
        /\ a \div size.perChunk = k
              /\ (u[a] = states[b][a] \/ \E i \in 1..BatchSize : PutsTo(batches[b][i], a)) =>
              v[a] = states[b + 1][a]
    <3>1. b \in first + 1..first + count
      BY <2>2
    <3>2. \A i \in 1..BatchSize : ~Param!PaysItself(batches[b][i])
      BY <3>1 DEF NonePaysItself
    <3>. QED  BY <2>3, <2>4, <2>5, <3>2, BatchOfRun DEF RedoneAs
  <2>7. ASSUME a \div size.perChunk # k PROVE LastSet(a, first, b, t[a], v[a])
    <3>1. LastSet(a, first, first + n, t[a], u[a])
      BY <2>5, <2>7
    <3>2. LastPuts(batches[(first + n) + 1], BatchSize, a, u[a], v[a])
      BY <2>2, <2>6, <2>7
    <3>3. LastSet(a, first, (first + n) + 1, t[a], v[a])
      BY <2>2, <3>1, <3>2, LastSetNext
    <3>. QED  BY <2>2, <3>3
  <2>8. ASSUME a \div size.perChunk = k,
               t[a] = states[first + 1][a] \/ SetWithin(a, first, b)
        PROVE  v[a] = states[b + 1][a]
    <3>1. SetWithin(a, first, b) =>
             SetWithin(a, first, first + n) \/ \E i \in 1..BatchSize : PutsTo(batches[b][i], a)
      <4>1. \A c \in first + 1..b : c \in first + 1..first + n \/ c = b
        BY <2>2
      <4>. QED  BY <4>1 DEF SetWithin
    <3>. QED  BY <2>5, <2>6, <2>8, <3>1
  <2>. QED  BY <2>1, <2>2, <2>6, <2>7, <2>8
<1>4. count \in H
  <2>. HIDE DEF H
  <2>1. \A n \in 0..count : n \in H
    BY <1>2, <1>3, UpTo
  <2>. QED  BY <2>1
<1>. QED  BY <1>4 DEF r

-----------------------------------------------------------------------------
\* What a restart finds in the ring.

\* The header of a slot, taken apart.
LEMMA HeaderParts ==
    ASSUME NEW b \in Nat, b < Word, NEW k \in Nat
    PROVE  Param!Low(b + Word * k) = b /\ Param!High(b + Word * k) = k
<1>1. Word \in Nat \ {0}
  BY ParamConstants DEF Param!ParamAssumption
<1>2. PICK w : w = Word
  OBVIOUS
<1>3. w \in Nat \ {0} /\ b < w
  BY <1>1, <1>2
<1>4. PICK x : x = b + w * k
  OBVIOUS
<1>5. x \in Nat
  <2>1. w * k \in Nat
    BY <1>3
  <2>. QED  BY <1>4, <2>1
<1>6. PICK q \in Int, r \in 0..w - 1 : x % w = r /\ x \div w = q /\ x = w * q + r
  <2>1. x = w * (x \div w) + (x % w) /\ x \div w \in Int /\ x % w \in 0..w - 1
    BY <1>3, <1>5
  <2>. QED  BY <2>1
<1>7. b - r = w * (q - k)
  BY <1>3, <1>4, <1>6
<1>8. b = r /\ q - k = 0
  BY <1>3, <1>6, <1>7, NearMultiple
<1>. QED  BY <1>2, <1>4, <1>6, <1>8 DEF Param!Low, Param!High

\* How far a run has come.
LEMMA RunCounts ==
    ASSUME ParamTypes, ParamHistory
    PROVE  /\ Len(batches) \in Nat /\ done \in Nat /\ done <= Len(batches)
           /\ Len(states) = Len(batches) + 1
           /\ total \in Nat /\ Len(batches) <= total /\ total < Word /\ total <= MaxTotal
           /\ worker # "idle" => done + 1 <= Len(batches)
           /\ \A b \in 1..Len(batches) : batches[b] \in ParamBatches
           /\ \A b \in 1..Len(batches) + 1 : states[b] \in ParamStates(size)
<1>1. /\ batches \in Seq(ParamBatches) /\ states \in Seq(ParamStates(size))
      /\ Len(states) = Len(batches) + 1 /\ Len(batches) <= total
  BY DEF ParamHistory
<1>2. /\ Len(batches) \in Nat /\ \A b \in 1..Len(batches) : batches[b] \in ParamBatches
      /\ \A b \in 1..Len(states) : states[b] \in ParamStates(size)
  BY <1>1
<1>3. total \in 0..MaxTotal /\ MaxTotal \in Nat /\ MaxTotal < Word /\ Word \in Nat
  BY ParamConstants DEF ParamTypes, Param!ParamAssumption
<1>4. done \in Nat /\ done <= Len(batches) /\ (worker # "idle" => done + 1 <= Len(batches))
  <2>1. PICK n : n = Len(batches)
    OBVIOUS
  <2>2. done \in Nat /\ next = (IF worker = "idle" THEN done ELSE done + 1)
        /\ n = (IF applied = Param!NoBatch THEN next ELSE next + 1)
    BY <2>1 DEF ParamHistory
  <2>. QED  BY <1>2, <2>1, <2>2
<1>. QED  BY <1>1, <1>2, <1>3, <1>4

\* The log is between two commits and holds this run only, of which some are there; in the
\* batches that will be replayed no account pays itself.
Ready ==
    /\ ParamInv /\ main # "down" /\ worker \in {"idle", "snapshot"}
    /\ fresh \/ done >= Param!ChunkCount(size)
    /\ Param!NoSelfPayment

\* The chunk j places before the latest one, and the batch its snapshot has.
BackChunk(j) ==
    (((done - 1) % Param!ChunkCount(size)) - j) % Param!ChunkCount(size)
BackBatch(j) == IF j < done THEN (done - 1) - j ELSE -1

\* These are all chunks, each once.
LEMMA BackChunks ==
    ASSUME size \in Sizes, NEW j \in 0..Param!ChunkCount(size) - 1, done \in Nat \ {0}
    PROVE  /\ BackChunk(j) \in 0..Param!ChunkCount(size) - 1
           /\ j < done => BackChunk(j) = ((done - 1) - j) % Param!ChunkCount(size)
           /\ done <= j => BackChunk(j) = (done - 1) - j + Param!ChunkCount(size)
           /\ \A i \in 0..Param!ChunkCount(size) - 1 : BackChunk(i) = BackChunk(j) => i = j
<1>1. PICK n, x : n = Param!ChunkCount(size) /\ x = done - 1
  OBVIOUS
<1>2. n \in Nat \ {0} /\ x \in Nat /\ j \in 0..n - 1
  BY <1>1, SizesAre
<1>3. PICK r : r = x % n
  OBVIOUS
<1>4. r \in 0..n - 1 /\ r \in Int /\ x \in Int /\ (x < n => r = x) /\ r % n = r
  BY <1>2, <1>3
<1>5. ASSUME NEW i \in 0..n - 1
      PROVE  /\ BackChunk(i) = IF i <= r THEN r - i ELSE r - i + n
             /\ (x - i) % n = IF i <= r THEN r - i ELSE r - i + n
  <2>1. BackChunk(i) = (r - i) % n
    BY <1>1, <1>3 DEF BackChunk
  <2>2. (r - i) % n = IF i <= r % n THEN (r % n) - i ELSE (r % n) - i + n
    BY <1>2, <1>4, AroundRing
  <2>3. (x - i) % n = IF i <= x % n THEN (x % n) - i ELSE (x % n) - i + n
    BY <1>2, <1>4, AroundRing
  <2>. QED  BY <1>3, <1>4, <2>1, <2>2, <2>3
<1>6. BackChunk(j) \in 0..n - 1 /\ BackChunk(j) = (x - j) % n
  BY <1>2, <1>4, <1>5
<1>7. done <= j => BackChunk(j) = x - j + n
  BY <1>1, <1>2, <1>4, <1>5
<1>8. \A i \in 0..n - 1 : BackChunk(i) = BackChunk(j) => i = j
  BY <1>2, <1>4, <1>5
<1>. QED  BY <1>1, <1>6, <1>7, <1>8

\* Every chunk is among them; the last of them is the oldest.
LEMMA BackCover ==
    ASSUME size \in Sizes, done \in Nat \ {0}
    PROVE  /\ \A k \in 0..Param!ChunkCount(size) - 1 :
                 \E j \in 0..Param!ChunkCount(size) - 1 : BackChunk(j) = k
           /\ BackChunk(Param!ChunkCount(size) - 1) = Param!OldestChunk
<1>1. PICK n, x : n = Param!ChunkCount(size) /\ x = done - 1
  OBVIOUS
<1>2. n \in Nat \ {0} /\ x \in Nat /\ done \in Int /\ n - 1 \in 0..n - 1
  BY <1>1, SizesAre
<1>3. PICK r : r = x % n
  OBVIOUS
<1>4. r \in 0..n - 1 /\ r \in Int /\ r % n = r
  BY <1>2, <1>3
<1>5. ASSUME NEW i \in 0..n - 1
      PROVE  BackChunk(i) = IF i <= r THEN r - i ELSE r - i + n
  <2>1. BackChunk(i) = (r - i) % n
    BY <1>1, <1>3 DEF BackChunk
  <2>2. (r - i) % n = IF i <= r % n THEN (r % n) - i ELSE (r % n) - i + n
    BY <1>2, <1>4, AroundRing
  <2>. QED  BY <1>4, <2>1, <2>2
<1>6. ASSUME NEW k \in 0..n - 1 PROVE \E j \in 0..n - 1 : BackChunk(j) = k
  <2>1. PICK j : j = IF k <= r THEN r - k ELSE r - k + n
    OBVIOUS
  <2>2. j \in 0..n - 1 /\ (IF j <= r THEN r - j ELSE r - j + n) = k
    BY <1>2, <1>4, <2>1
  <2>. QED  BY <1>5, <2>2
<1>7. BackChunk(n - 1) = done % n
  <2>1. PICK d : d = done % n
    OBVIOUS
  <2>2. d \in 0..n - 1
    BY <1>2, <2>1
  <2>3. CASE n = 1
    BY <1>2, <1>4, <1>5, <2>1, <2>2, <2>3
  <2>4. CASE n # 1
    <3>1. 1 \in 0..n - 1 /\ x = done - 1
      BY <1>1, <1>2, <2>4
    <3>2. r = IF 1 <= d THEN d - 1 ELSE d - 1 + n
      BY <1>2, <1>3, <2>1, <3>1, AroundRing
    <3>3. BackChunk(n - 1) = IF n - 1 <= r THEN r - (n - 1) ELSE r - (n - 1) + n
      BY <1>2, <1>5
    <3>. QED  BY <1>2, <1>4, <2>1, <2>2, <3>2, <3>3
  <2>. QED  BY <2>3, <2>4
<1>. QED  BY <1>1, <1>6, <1>7 DEF Param!OldestChunk

\* What a snapshot in the ring is read as.
LEMMA ReadSlot ==
    ASSUME NEW log, NEW z \in Sizes, NEW k \in 0..Param!ChunkCount(z) - 1, NEW b \in Nat,
           b < Word, SnapshotCell(log, z, k, 0) = b + Word * k
    PROVE  Param!LabelOf(log, z, k) = b
<1>1. Param!Low(b + Word * k) = b /\ Param!High(b + Word * k) = k
  BY SizesAre, HeaderParts
<1>2. Param!Cell(log, Param!SnapshotAt(z, k)) = b + Word * k
  <2>1. k * Param!SlotCells(z) \in Int
    BY SizesAre DEF Param!SlotCells
  <2>2. Param!SnapshotAt(z, k) + 0 = Param!SnapshotAt(z, k)
    BY <2>1 DEF Param!SnapshotAt
  <2>. QED  BY <2>2 DEF SnapshotCell
<1>. QED  BY <1>1, <1>2 DEF Param!LabelOf

\* A slot that has never been written has no label, but for the first, which has 0.
LEMMA ReadZero ==
    ASSUME NEW log, NEW z \in Sizes, NEW k \in 0..Param!ChunkCount(z) - 1,
           SnapshotCell(log, z, k, 0) = 0
    PROVE  Param!LabelOf(log, z, k) = IF k = 0 THEN 0 ELSE -1
<1>1. Word \in Nat /\ 0 < Word
  BY ParamConstants DEF Param!ParamAssumption
<1>2. Word * 0 = 0 /\ 0 + Word * 0 = 0 /\ 0 \in Nat
  BY <1>1
<1>3. Param!Low(0 + Word * 0) = 0 /\ Param!High(0 + Word * 0) = 0
  BY <1>1, <1>2, HeaderParts
<1>4. Param!Cell(log, Param!SnapshotAt(z, k)) = 0
  <2>1. k * Param!SlotCells(z) \in Int
    BY SizesAre DEF Param!SlotCells
  <2>2. Param!SnapshotAt(z, k) + 0 = Param!SnapshotAt(z, k)
    BY <2>1 DEF Param!SnapshotAt
  <2>. QED  BY <2>2 DEF SnapshotCell
<1>5. Param!Low(0) = 0 /\ Param!High(0) = 0
  BY <1>2, <1>3
<1>. QED  BY <1>4, <1>5 DEF Param!LabelOf

\* The snapshots of a ring that is ready: the label of each chunk, and what it is loaded
\* with.
LEMMA LabelsAre ==
    ASSUME Ready, done > 0, NEW j \in 0..Param!ChunkCount(size) - 1
    PROVE  /\ Param!LabelOf(logFile, size, BackChunk(j)) = BackBatch(j)
           /\ \A a \in Param!AllAccounts(size) : a \div size.perChunk = BackChunk(j) =>
                 Param!LoadedFrom(logFile, size)[a] = states[BackBatch(j) + 2][a]
<1>1. /\ size \in Sizes /\ ParamTypes /\ ParamHistory /\ ParamRing /\ SnapshotsTaken = done
      /\ fresh \/ done >= Param!ChunkCount(size)
  BY DEF Ready, ParamInv, ParamTypes, SnapshotsTaken
<1>2. PICK n, k : n = Param!ChunkCount(size) /\ k = BackChunk(j)
  OBVIOUS
<1>3. n \in Nat \ {0} /\ j \in 0..n - 1 /\ done \in Nat \ {0} /\ done < Word
  <2>1. Word \in Nat
    BY ParamConstants DEF Param!ParamAssumption
  <2>2. done \in Nat /\ done < Word
    BY <1>1, <2>1, RunCounts
  <2>. QED  BY <1>1, <1>2, <2>2, SizesAre
<1>4. /\ k \in 0..n - 1 /\ k \in Int /\ (j < done => k = ((done - 1) - j) % n)
      /\ (done <= j => k = (done - 1) - j + n)
  BY <1>1, <1>2, <1>3, BackChunks
<1>5. \A a \in Param!AllAccounts(size) : a \div size.perChunk = k =>
         /\ a % size.perChunk \in 0..size.perChunk - 1
         /\ a = k * size.perChunk + (a % size.perChunk)
         /\ Param!LoadedFrom(logFile, size)[a] =
               IF Param!LabelOf(logFile, size, k) # -1
                 THEN Param!Cell(logFile,
                                 Param!SnapshotAt(size, k) + 1 + (a % size.perChunk))
                 ELSE 0
  BY <1>1, PlacesAre DEF Param!LoadedFrom
<1>6. CASE j < done
  <2>1. PICK b : b = (done - 1) - j
    OBVIOUS
  <2>2. /\ b \in 0..done - 1 /\ done <= b + n /\ b % n = k /\ b \in Nat /\ b < Word /\ b # -1
        /\ BackBatch(j) = b
    <3>1. Word \in Nat
      BY ParamConstants DEF Param!ParamAssumption
    <3>. QED  BY <1>3, <1>4, <1>6, <2>1, <3>1 DEF BackBatch
  <2>3. HoldsSnapshot(b)
    BY <1>1, <1>2, <2>2 DEF ParamRing
  <2>4. /\ SnapshotCell(logFile, size, k, 0) = b + Word * k
        /\ \A i \in 0..size.perChunk - 1 :
              SnapshotCell(logFile, size, k, i + 1) = states[b + 2][k * size.perChunk + i]
    BY <1>2, <2>2, <2>3 DEF HoldsSnapshot, AccountAt
  <2>5. Param!LabelOf(logFile, size, k) = b
    BY <1>1, <1>2, <1>4, <2>2, <2>4, ReadSlot
  <2>6. ASSUME NEW a \in Param!AllAccounts(size), a \div size.perChunk = k
        PROVE  Param!LoadedFrom(logFile, size)[a] = states[b + 2][a]
    <3>1. PICK i : i = a % size.perChunk
      OBVIOUS
    <3>2. i \in 0..size.perChunk - 1 /\ a = k * size.perChunk + i /\ i \in Int
      BY <1>1, <1>5, <2>6, <3>1, SizesAre
    <3>3. Param!LoadedFrom(logFile, size)[a] =
             Param!Cell(logFile, Param!SnapshotAt(size, k) + 1 + i)
      BY <1>5, <2>2, <2>5, <2>6, <3>1
    <3>4. Param!SnapshotAt(size, k) + 1 + i = Param!SnapshotAt(size, k) + (i + 1)
      <4>1. Param!SnapshotAt(size, k) \in Int
        BY <1>1, <1>4, SizesAre DEF Param!SnapshotAt, Param!SlotCells
      <4>. QED  BY <3>2, <4>1
    <3>. QED  BY <2>4, <3>2, <3>3, <3>4 DEF SnapshotCell
  <2>. QED  BY <1>2, <2>2, <2>5, <2>6
<1>7. CASE done <= j
  <2>1. fresh /\ k >= done /\ k # 0 /\ k \in Param!ChunkIds(size) /\ BackBatch(j) = -1
    BY <1>1, <1>2, <1>3, <1>4, <1>7 DEF BackBatch, Param!ChunkIds
  <2>2. NeverWritten(k) /\ states[1] = AllZero(size)
    BY <1>1, <2>1 DEF ParamRing
  <2>3. SnapshotCell(logFile, size, k, 0) = 0
    BY <1>1, <2>2, SizesAre DEF NeverWritten
  <2>4. Param!LabelOf(logFile, size, k) = -1
    BY <1>1, <1>2, <1>4, <2>1, <2>3, ReadZero
  <2>5. \A a \in Param!AllAccounts(size) : states[1][a] = 0
    BY <2>2 DEF AllZero
  <2>. QED  BY <1>2, <1>5, <2>1, <2>4, <2>5
<1>. QED  BY <1>3, <1>6, <1>7

\* Recovery takes the batch before the next one for the latest, and then goes back.
LEMMA LatestIs ==
    ASSUME Ready, done > 0
    PROVE  /\ Param!LatestIn(logFile, size) = BackChunk(0)
           /\ Param!LabelOf(logFile, size, Param!LatestIn(logFile, size)) = done - 1
           /\ \A j \in 0..Param!ChunkCount(size) - 1 :
                 /\ Param!ChunkBefore(logFile, size, j) = BackChunk(j)
                 /\ Param!Behind(logFile, size, BackChunk(j)) = (done - 1) - BackBatch(j)
<1>1. size \in Sizes /\ done \in Nat \ {0} /\ done \in Int
  BY RunCounts DEF Ready, ParamInv, ParamTypes
<1>2. PICK n : n = Param!ChunkCount(size)
  OBVIOUS
<1>3. n \in Nat \ {0} /\ 0 \in 0..n - 1
  BY <1>1, <1>2, SizesAre
<1>4. \A j \in 0..n - 1 : /\ Param!LabelOf(logFile, size, BackChunk(j)) = BackBatch(j)
                          /\ BackChunk(j) \in 0..n - 1
                          /\ BackBatch(j) \in Int
                          /\ j # 0 => BackBatch(j) < done - 1
  BY <1>1, <1>2, LabelsAre, BackChunks DEF BackBatch
<1>5. BackBatch(0) = done - 1
  BY <1>1 DEF BackBatch
<1>6. \A k \in 0..n - 1 : \E j \in 0..n - 1 : BackChunk(j) = k
  BY <1>1, <1>2, BackCover
<1>7. ASSUME NEW k \in 0..n - 1, k # BackChunk(0)
      PROVE  /\ Param!LabelOf(logFile, size, k) \in Int
             /\ Param!LabelOf(logFile, size, k) < done - 1
  <2>1. PICK j \in 0..n - 1 : BackChunk(j) = k
    BY <1>6
  <2>. QED  BY <1>4, <1>7, <2>1
<1>. DEFINE Latest(k) ==
        \A i \in 0..n - 1 :
           \/ Param!LabelOf(logFile, size, i) < Param!LabelOf(logFile, size, k)
           \/ Param!LabelOf(logFile, size, i) = Param!LabelOf(logFile, size, k) /\ k <= i
<1>8. PICK l : l = BackChunk(0)
  OBVIOUS
<1>9. l \in 0..n - 1 /\ l \in Int /\ Param!LabelOf(logFile, size, l) = done - 1
  BY <1>3, <1>4, <1>5, <1>8
<1>10. Latest(l)
  BY <1>1, <1>7, <1>8, <1>9
<1>11. ASSUME NEW k \in 0..n - 1, Latest(k) PROVE k = l
  <2>1. \/ Param!LabelOf(logFile, size, l) < Param!LabelOf(logFile, size, k)
        \/ Param!LabelOf(logFile, size, l) = Param!LabelOf(logFile, size, k)
    BY <1>9, <1>11
  <2>. QED  BY <1>1, <1>7, <1>8, <1>9, <2>1
<1>12. Param!LatestIn(logFile, size) = l
  <2>1. Param!LatestIn(logFile, size) = CHOOSE k \in 0..n - 1 : Latest(k)
    BY <1>2 DEF Param!LatestIn, Param!ChunkIds
  <2>. HIDE DEF Latest
  <2>. QED  BY <1>9, <1>10, <1>11, <2>1
<1>13. \A j \in 0..n - 1 : Param!ChunkBefore(logFile, size, j) = BackChunk(j)
  <2>1. l = (done - 1) % n
    BY <1>1, <1>2, <1>3, <1>8, BackChunks
  <2>. QED  BY <1>2, <1>12, <2>1 DEF Param!ChunkBefore, BackChunk
<1>. QED  BY <1>2, <1>4, <1>8, <1>9, <1>12, <1>13 DEF Param!Behind

\* The first batch that is replayed for the chunk j places back; the further back, the more.
Replayed(j) == BackBatch(j) + 1

LEMMA ReplayedIs ==
    ASSUME Ready, done > 0, NEW j \in 0..Param!ChunkCount(size) - 1
    PROVE  /\ Replayed(j) \in Nat /\ Replayed(j) <= done
           /\ done <= Replayed(j) + Param!ChunkCount(size)
           /\ Replayed(j) + ((done - 1) - BackBatch(j)) = done
           /\ (done - 1) - BackBatch(j) \in Nat
           /\ \A i \in 0..j : Replayed(j) <= Replayed(i) /\ Replayed(i) \in Nat
           /\ \A b \in 1..done : b > done - j <=> b \in Replayed(j) + 1..done
<1>1. /\ size \in Sizes
      /\ fresh \/ done >= Param!ChunkCount(size)
      /\ done \in Nat \ {0} /\ done \in Int
  BY RunCounts DEF Ready, ParamInv, ParamTypes
<1>2. PICK n : n = Param!ChunkCount(size)
  OBVIOUS
<1>3. n \in Nat \ {0} /\ j \in 0..n - 1
  BY <1>1, <1>2, SizesAre
<1>4. \A i \in 0..j : BackBatch(i) = IF i < done THEN (done - 1) - i ELSE -1
  BY DEF BackBatch
<1>. QED  BY <1>1, <1>2, <1>3, <1>4 DEF Replayed

\* The pass for that chunk.
LEMMA PassIs ==
    ASSUME Ready, done > 0, NEW j \in 0..Param!ChunkCount(size) - 1,
           NEW t \in ParamStates(size), NEW a \in Param!AllAccounts(size)
    PROVE  LET low == Replayed(j)
               r == Param!ReplayFor(logFile, size, Param!ChunkBefore(logFile, size, j), t)
           IN  /\ r \in ParamStates(size)
               /\ a \div size.perChunk # BackChunk(j) => LastSet(a, low, done, t[a], r[a])
               /\ a \div size.perChunk = BackChunk(j)
                     /\ (t[a] = states[low + 1][a] \/ SetWithin(a, low, done)) =>
                     r[a] = states[done + 1][a]
<1>1. RunSoFar /\ ParamRing /\ ParamTypes /\ ParamHistory /\ size \in Sizes
  BY DEF Ready, ParamInv, ParamTypes, RunSoFar
<1>2. PICK low, count, k : /\ low = Replayed(j) /\ count = (done - 1) - BackBatch(j)
                           /\ k = BackChunk(j)
  OBVIOUS
<1>3. /\ low \in Nat /\ count \in Nat /\ low + count = done
      /\ done <= low + Param!ChunkCount(size) /\ done \in Nat /\ done <= Len(batches)
  BY <1>1, <1>2, ReplayedIs, RunCounts
<1>4. LoggedAre(logFile, low, count)
  <2>. SUFFICES ASSUME NEW b \in low..low + count - 1
                PROVE  Param!LoggedIn(logFile, size, b) = batches[b + 1]
    BY DEF LoggedAre
  <2>1. b \in 0..done - 1 /\ done <= b + Param!ChunkCount(size)
    BY <1>1, <1>3, SizesAre
  <2>. QED  BY <1>1, <2>1 DEF ParamRing
<1>5. /\ Param!ChunkBefore(logFile, size, j) = k
      /\ Param!LabelOf(logFile, size, k) = BackBatch(j)
      /\ Param!Behind(logFile, size, k) = count
  BY <1>2, LatestIs, LabelsAre
<1>6. Param!ReplayFor(logFile, size, Param!ChunkBefore(logFile, size, j), t) =
         Param!ReplayBatches(logFile, size, k, t, low, count)[count]
  BY <1>2, <1>5 DEF Param!ReplayFor, Replayed
<1>7. LET r == Param!ReplayBatches(logFile, size, k, t, low, count)[count]
      IN  /\ r \in ParamStates(size)
          /\ a \div size.perChunk # k => LastSet(a, low, low + count, t[a], r[a])
          /\ a \div size.perChunk = k
                /\ (t[a] = states[low + 1][a] \/ SetWithin(a, low, low + count)) =>
                r[a] = states[(low + count) + 1][a]
  <2>1. NonePaysItself(low, low + count)
    <3>. SUFFICES ASSUME NEW b \in low + 1..done, NEW i \in 1..BatchSize
                  PROVE  ~Param!PaysItself(batches[b][i])
      BY <1>3 DEF NonePaysItself
    <3>1. b \in 1..done /\ b > done - j
      BY <1>2, <1>3, ReplayedIs
    <3>2. Param!ChunkCount(size) \in Nat
      BY <1>1, SizesAre
    <3>3. b > done - Param!ChunkCount(size) + 1
      BY <1>3, <3>1, <3>2
    <3>4. b \in 1..Len(batches)
      BY <1>3, <3>1, RunCounts
    <3>5. DOMAIN batches[b] = 1..BatchSize
      BY <1>1, <3>4 DEF ParamHistory, ParamBatches
    <3>. QED  BY <3>1, <3>3, <3>5 DEF Ready, Param!NoSelfPayment
  <2>. QED  BY <1>1, <1>3, <1>4, <2>1, StretchReplayed
<1>. QED  BY <1>2, <1>3, <1>6, <1>7

\* An account of the chunk m places back, before and after its pass: after it, later
\* passes set it again, to what the last range set among their batches gave it.
LEMMA AccountReplayed ==
    ASSUME Ready, done > 0, NEW a \in Param!AllAccounts(size),
           NEW m \in 0..Param!ChunkCount(size) - 1, a \div size.perChunk = BackChunk(m)
    PROVE  LET n == Param!ChunkCount(size) - 1
               end == Param!ReplayChunks(logFile, size)[n]
           IN  /\ end \in ParamStates(size)
               /\ m = n => end[a] = states[done + 1][a]
               /\ m # n => LastSet(a, Replayed(n), done, states[done + 1][a], end[a])
<1>1. size \in Sizes /\ ParamTypes /\ ParamHistory /\ done \in Int
  BY RunCounts DEF Ready, ParamInv, ParamTypes
<1>2. PICK n, now, from : /\ n = Param!ChunkCount(size) - 1 /\ now = states[done + 1][a]
                          /\ from = Param!LoadedFrom(logFile, size)[a]
  OBVIOUS
<1>3. n \in Nat /\ m \in 0..n /\ 0 \in 0..n
  BY <1>1, <1>2, SizesAre
<1>4. from = states[Replayed(m) + 1][a]
  <2>1. Param!LoadedFrom(logFile, size)[a] = states[BackBatch(m) + 2][a]
    BY LabelsAre
  <2>2. BackBatch(m) + 2 = Replayed(m) + 1
    BY <1>1 DEF BackBatch, Replayed
  <2>. QED  BY <1>2, <2>1, <2>2
<1>5. m = 0 => from = now
  <2>1. ASSUME m = 0 PROVE Replayed(m) = done
    BY <1>1, <2>1 DEF BackBatch, Replayed
  <2>. QED  BY <1>2, <1>4, <2>1
<1>6. Param!LoadedFrom(logFile, size) \in ParamStates(size)
  <2>. SUFFICES ASSUME NEW c \in Param!AllAccounts(size)
                PROVE  Param!LoadedFrom(logFile, size)[c] \in Int
    BY DEF Param!LoadedFrom, ParamStates
  <2>1. PICK j \in 0..Param!ChunkCount(size) - 1 : BackChunk(j) = c \div size.perChunk
    BY <1>1, PlacesAre, BackCover, RunCounts
  <2>2. Param!LoadedFrom(logFile, size)[c] = states[BackBatch(j) + 2][c]
    BY <2>1, LabelsAre
  <2>3. BackBatch(j) + 2 \in 1..Len(batches) + 1
    BY <1>1, RunCounts DEF BackBatch
  <2>4. states[BackBatch(j) + 2] \in ParamStates(size)
    BY <1>1, <2>3, RunCounts
  <2>. QED  BY <2>2, <2>4 DEF ParamStates
<1>. DEFINE g == Param!ReplayChunks(logFile, size)
<1>7. /\ g[0] = Param!LoadedFrom(logFile, size)
      /\ \A i \in 1..n :
            g[i] = Param!ReplayFor(logFile, size, Param!ChunkBefore(logFile, size, i), g[i - 1])
  BY <1>2, <1>3, ChunksAre
<1>8. g[n] = Param!ReplayChunks(logFile, size)[Param!ChunkCount(size) - 1]
  BY <1>2
<1>. HIDE DEF g
<1>. DEFINE H == {j \in 0..n :
                    /\ g[j] \in ParamStates(size)
                    /\ j < m => g[j][a] = from \/ SetWithin(a, Replayed(m), done)
                    /\ j = m => g[j][a] = now
                    /\ j > m => LastSet(a, Replayed(j), done, now, g[j][a])}
<1>9. 0 \in H
  BY <1>2, <1>3, <1>5, <1>6, <1>7
<1>10. ASSUME NEW j \in 0..n - 1, j \in H PROVE j + 1 \in H
  <2>1. PICK i, low, t, r : i = j + 1 /\ low = Replayed(j + 1) /\ t = g[j] /\ r = g[j + 1]
    OBVIOUS
  <2>2. /\ i \in 1..n /\ i - 1 = j /\ i \in 0..n /\ i \in 0..Param!ChunkCount(size) - 1
        /\ t \in ParamStates(size) /\ j \in 0..i
    BY <1>2, <1>3, <1>10, <2>1
  <2>3. /\ r \in ParamStates(size)
        /\ a \div size.perChunk # BackChunk(i) => LastSet(a, low, done, t[a], r[a])
        /\ a \div size.perChunk = BackChunk(i)
              /\ (t[a] = states[low + 1][a] \/ SetWithin(a, low, done)) =>
              r[a] = states[done + 1][a]
    <3>1. r = Param!ReplayFor(logFile, size, Param!ChunkBefore(logFile, size, i), t)
      BY <1>7, <2>1, <2>2
    <3>. QED  BY <2>1, <2>2, <3>1, PassIs
  <2>4. i # m => BackChunk(i) # a \div size.perChunk
    BY <1>1, <2>2, BackChunks, RunCounts
  <2>5. /\ low \in Nat /\ low <= Replayed(j) /\ Replayed(j) \in Nat
        /\ i <= m => Replayed(m) <= low /\ Replayed(m) \in Nat
    <3>1. i <= m => i \in 0..m
      BY <1>3, <2>2
    <3>. QED  BY <2>1, <2>2, <3>1, ReplayedIs
  <2>6. CASE i < m
    <3>1. j < m /\ j # m /\ i # m /\ ~(i > m)
      BY <1>3, <2>2, <2>6
    <3>2. t[a] = from \/ SetWithin(a, Replayed(m), done)
      BY <1>10, <2>1, <3>1
    <3>3. LastSet(a, low, done, t[a], r[a])
      BY <2>3, <2>4, <3>1
    <3>4. r[a] = t[a] \/ SetWithin(a, low, done)
      BY <3>3 DEF LastSet, SetWithin
    <3>5. SetWithin(a, low, done) => SetWithin(a, Replayed(m), done)
      <4>1. \A b \in low + 1..done : b \in Replayed(m) + 1..done
        BY <1>1, <1>3, <2>2, <2>5, <2>6
      <4>. QED  BY <4>1 DEF SetWithin
    <3>. QED  BY <2>1, <2>2, <2>3, <3>1, <3>2, <3>4, <3>5
  <2>7. CASE i = m
    <3>1. j < m /\ ~(i < m) /\ ~(i > m)
      BY <1>3, <2>2, <2>7
    <3>2. t[a] = states[low + 1][a] \/ SetWithin(a, low, done)
      BY <1>4, <1>10, <2>1, <2>7, <3>1
    <3>. QED  BY <1>2, <2>1, <2>2, <2>3, <2>7, <3>1, <3>2
  <2>8. CASE i > m
    <3>1. i # m /\ ~(i < m) /\ (j = m \/ j > m)
      BY <1>3, <2>2, <2>8
    <3>2. LastSet(a, low, done, t[a], r[a])
      BY <2>3, <2>4, <3>1
    <3>3. ~SetWithin(a, low, done) => t[a] = now
      <4>1. SetWithin(a, Replayed(j), done) => SetWithin(a, low, done)
        <5>1. \A b \in Replayed(j) + 1..done : b \in low + 1..done
          BY <1>1, <2>5
        <5>. QED  BY <5>1 DEF SetWithin
      <4>2. j > m /\ ~SetWithin(a, low, done) => t[a] = now
        <5>1. j > m => LastSet(a, Replayed(j), done, now, t[a])
          BY <1>10, <2>1
        <5>. QED  BY <4>1, <5>1 DEF LastSet, SetWithin
      <4>. QED  BY <1>10, <2>1, <3>1, <4>2
    <3>4. LastSet(a, low, done, now, r[a])
      BY <3>2, <3>3 DEF LastSet
    <3>. QED  BY <2>1, <2>2, <2>3, <3>1, <3>4
  <2>. QED  BY <1>3, <2>2, <2>6, <2>7, <2>8
<1>11. n \in H
  <2>. HIDE DEF H
  <2>1. \A j \in 0..n : j \in H
    BY <1>3, <1>9, <1>10, UpTo
  <2>. QED  BY <1>3, <2>1
<1>12. m # n => n > m
  BY <1>3
<1>. QED  BY <1>2, <1>8, <1>11, <1>12

\* The range sets that reach an account are those of the batches of the last pass.
LEMMA ReachingIs ==
    ASSUME Ready, done > 0, NEW a
    PROVE  Param!Reaching(a) =
              {p \in (1..done) \X (1..BatchSize) :
                  /\ p[1] \in Replayed(Param!ChunkCount(size) - 1) + 1..done
                  /\ PutsTo(batches[p[1]][p[2]], a)}
<1>1. size \in Sizes /\ ParamTypes /\ ParamHistory /\ done \in Int
  BY RunCounts DEF Ready, ParamInv, ParamTypes
<1>2. PICK n, low : n = Param!ChunkCount(size) /\ low = Replayed(n - 1)
  OBVIOUS
<1>3. /\ n \in Nat \ {0} /\ n - 1 \in 0..n - 1
      /\ \A b \in 1..done : b > done - (n - 1) <=> b \in low + 1..done
  <2>1. n \in Nat \ {0} /\ n - 1 \in 0..n - 1
    BY <1>1, <1>2, SizesAre
  <2>. QED  BY <1>2, <2>1, ReplayedIs
<1>4. ASSUME NEW b \in 1..done
      PROVE  DOMAIN batches[b] = 1..BatchSize /\ (b > done - n + 1 <=> b \in low + 1..done)
  <2>1. b \in 1..Len(batches)
    BY <1>1, RunCounts
  <2>2. batches[b] \in ParamBatches
    BY <1>1, <2>1, RunCounts
  <2>3. done - n + 1 = done - (n - 1)
    BY <1>1, <1>3
  <2>. QED  BY <1>3, <2>2, <2>3 DEF ParamBatches
<1>5. Param!Reaching(a) =
         {p \in (1..done) \X (1..BatchSize) :
             /\ p[1] > done - n + 1 /\ p[2] \in DOMAIN batches[p[1]]
             /\ PutsTo(batches[p[1]][p[2]], a)}
  BY <1>2 DEF Param!Reaching, PutsTo
<1>6. ASSUME NEW p \in (1..done) \X (1..BatchSize)
      PROVE  (p[1] > done - n + 1 /\ p[2] \in DOMAIN batches[p[1]])
                 <=> p[1] \in low + 1..done
  <2>1. p[1] \in 1..done /\ p[2] \in 1..BatchSize
    OBVIOUS
  <2>. QED  BY <1>4, <2>1
<1>. QED  BY <1>2, <1>5, <1>6

\* What the last of them that sets it leaves is what it is set back to.
LEMMA SetBackIs ==
    ASSUME Ready, done > 0, NEW a, NEW x, NEW y,
           LastSet(a, Replayed(Param!ChunkCount(size) - 1), done, x, y)
    PROVE  y = IF Param!Reaching(a) # {}
                 THEN batches[Param!LastReaching(a)[1]][Param!LastReaching(a)[2]].amount
                 ELSE x
<1>1. done \in Int /\ BatchSize \in Nat /\ size \in Sizes
  BY RunCounts, ParamConstants DEF Ready, ParamInv, ParamTypes, Param!ParamAssumption
<1>2. PICK low : low = Replayed(Param!ChunkCount(size) - 1)
  OBVIOUS
<1>3. low \in Nat
  BY <1>1, <1>2, SizesAre, ReplayedIs
<1>4. PICK reach : reach = Param!Reaching(a)
  OBVIOUS
<1>5. reach = {p \in (1..done) \X (1..BatchSize) :
              p[1] \in low + 1..done /\ PutsTo(batches[p[1]][p[2]], a)}
  BY <1>2, <1>4, ReachingIs
<1>6. reach # {} <=> SetWithin(a, low, done)
  <2>1. ASSUME NEW p \in reach PROVE SetWithin(a, low, done)
    <3>1. p[1] \in low + 1..done /\ p[2] \in 1..BatchSize /\ PutsTo(batches[p[1]][p[2]], a)
      BY <1>5
    <3>. QED  BY <3>1 DEF SetWithin
  <2>2. ASSUME SetWithin(a, low, done) PROVE reach # {}
    <3>1. PICK b \in low + 1..done, i \in 1..BatchSize : PutsTo(batches[b][i], a)
      BY <2>2 DEF SetWithin
    <3>2. b \in 1..done
      BY <1>1, <1>3
    <3>3. <<b, i>> \in reach
      BY <1>5, <3>1, <3>2
    <3>. QED  BY <3>3
  <2>. QED  BY <2>1, <2>2
<1>7. ASSUME reach # {}
      PROVE  y = batches[Param!LastReaching(a)[1]][Param!LastReaching(a)[2]].amount
  <2>1. PICK b \in low + 1..done, i \in 1..BatchSize :
           /\ PutsTo(batches[b][i], a) /\ y = batches[b][i].amount
           /\ \A c \in low + 1..done, j \in 1..BatchSize :
                 c > b \/ (c = b /\ j > i) => ~PutsTo(batches[c][j], a)
    BY <1>2, <1>6, <1>7 DEF LastSet
  <2>. DEFINE Last(p) == \A q \in reach : q[1] < p[1] \/ (q[1] = p[1] /\ q[2] <= p[2])
  <2>2. b \in 1..done /\ b \in Int /\ i \in Int
    BY <1>1, <1>3
  <2>3. <<b, i>> \in reach
    BY <1>5, <2>1, <2>2
  <2>4. \A q \in reach : q[1] \in Int /\ q[2] \in Int /\ q = <<q[1], q[2]>>
    BY <1>1, <1>5
  <2>5. ASSUME NEW q \in reach PROVE q[1] < b \/ (q[1] = b /\ q[2] <= i)
    <3>1. q[1] \in low + 1..done /\ q[2] \in 1..BatchSize /\ PutsTo(batches[q[1]][q[2]], a)
      BY <1>5
    <3>2. ~(q[1] > b \/ (q[1] = b /\ q[2] > i))
      BY <2>1, <3>1
    <3>. QED  BY <2>2, <2>4, <3>2
  <2>6. Last(<<b, i>>)
    BY <2>5
  <2>7. ASSUME NEW p \in reach, Last(p) PROVE p = <<b, i>>
    <3>1. b < p[1] \/ (b = p[1] /\ i <= p[2])
      BY <2>3, <2>7
    <3>2. p[1] = b /\ p[2] = i
      BY <2>2, <2>4, <2>5, <3>1
    <3>. QED  BY <2>4, <3>2
  <2>8. Param!LastReaching(a) = <<b, i>>
    <3>1. Param!LastReaching(a) = CHOOSE p \in reach : Last(p)
      BY <1>4 DEF Param!LastReaching
    <3>. HIDE DEF Last
    <3>. QED  BY <2>3, <2>6, <2>7, <3>1
  <2>. QED  BY <2>1, <2>8
<1>8. ~SetWithin(a, low, done) => y = x
  BY <1>2 DEF LastSet, SetWithin
<1>. QED  BY <1>4, <1>6, <1>7, <1>8

\* There is an account.
LEMMA FirstAccount == \A z \in Sizes : 0 \in Param!AllAccounts(z)
<1>1. \A z \in Sizes : /\ Param!Padded(z) \in Nat /\ z.accounts <= Param!Padded(z)
                         /\ z.accounts \in Nat \ {0}
  BY SizesAre
<1>. QED  BY <1>1 DEF Param!AllAccounts

\* A restart with some batches in the ring.
LEMMA RunRecovered ==
    ASSUME Ready, done > 0
    PROVE  /\ Param!Restart.batch = done - 1
           /\ Param!Restart.balances = [a \in Param!AllAccounts(size) |-> Param!SetBack(a)]
<1>1. /\ size \in Sizes /\ logFile.header = Param!HeaderOf(size)
      /\ done \in Nat \ {0} /\ done - 1 # -1
  BY RunCounts DEF Ready, ParamInv, ParamTypes, ParamHistory, Fits
<1>2. PICK n, r : n = Param!ChunkCount(size) - 1 /\ r = Param!ReplayChunks(logFile, size)[n]
  OBVIOUS
<1>3. n \in Nat /\ n \in 0..n
  BY <1>1, <1>2, SizesAre
<1>4. Param!Restart.batch = done - 1 /\ Param!Restart.balances = r
  <2>1. Param!LabelOf(logFile, size, Param!LatestIn(logFile, size)) = done - 1
    BY LatestIs
  <2>. QED  BY <1>1, <1>2, <2>1 DEF Param!Restart, Param!Recovery
<1>5. ASSUME NEW a \in Param!AllAccounts(size)
      PROVE  r \in ParamStates(size) /\ r[a] = Param!SetBack(a)
  <2>1. PICK m \in 0..n : BackChunk(m) = a \div size.perChunk
    BY <1>1, <1>2, PlacesAre, BackCover
  <2>2. /\ r \in ParamStates(size)
        /\ m = n => r[a] = states[done + 1][a]
    BY <1>2, <2>1, AccountReplayed
  <2>3. m # n => LastSet(a, Replayed(n), done, states[done + 1][a], r[a])
    BY <1>2, <2>1, AccountReplayed
  <2>4. m # n <=> a \div size.perChunk # Param!OldestChunk
    <3>1. BackChunk(n) = Param!OldestChunk
      BY <1>1, <1>2, BackCover
    <3>2. BackChunk(m) = BackChunk(n) => m = n
      BY <1>1, <1>2, <1>3, BackChunks
    <3>. QED  BY <2>1, <3>1, <3>2
  <2>5. CASE m = n
    BY <2>2, <2>4, <2>5 DEF Param!SetBack
  <2>6. CASE m # n
    <3>1. r[a] = IF Param!Reaching(a) # {}
                   THEN batches[Param!LastReaching(a)[1]][Param!LastReaching(a)[2]].amount
                   ELSE states[done + 1][a]
      BY <1>2, <2>3, <2>6, SetBackIs
    <3>. QED  BY <2>2, <2>4, <2>6, <3>1 DEF Param!SetBack
  <2>. QED  BY <2>2, <2>5, <2>6
<1>6. r \in ParamStates(size)
  <2>1. 0 \in Param!AllAccounts(size)
    BY <1>1, FirstAccount
  <2>. QED  BY <1>5, <2>1
<1>7. r = [a \in Param!AllAccounts(size) |-> r[a]]
  BY <1>6 DEF ParamStates
<1>. QED  BY <1>4, <1>5, <1>7

\* A new log, whose slots are all zero, is recovered as nothing.
LEMMA NewLogRecovered ==
    ASSUME NEW log, NEW z \in Sizes, Param!LoggedIn(log, z, 0) = <<>>,
           \A k \in Param!ChunkIds(z), i \in 0..z.perChunk : SnapshotCell(log, z, k, i) = 0
    PROVE  Param!Recovery(log, z).balances = AllZero(z)
<1>1. PICK n : n = Param!ChunkCount(z) - 1
  OBVIOUS
<1>2. /\ n \in Nat /\ Param!ChunkCount(z) = n + 1 /\ z.perChunk \in Nat \ {0}
      /\ Param!ChunkIds(z) = 0..n /\ 0 \in 0..n
  BY <1>1, SizesAre DEF Param!ChunkIds
<1>3. ASSUME NEW k \in 0..n PROVE Param!LabelOf(log, z, k) = IF k = 0 THEN 0 ELSE -1
  <2>1. SnapshotCell(log, z, k, 0) = 0
    BY <1>2
  <2>. QED  BY <1>1, <2>1, ReadZero
<1>4. Param!LatestIn(log, z) = 0
  <2>. DEFINE Latest(k) ==
         \A i \in 0..n : \/ Param!LabelOf(log, z, i) < Param!LabelOf(log, z, k)
                         \/ Param!LabelOf(log, z, i) = Param!LabelOf(log, z, k) /\ k <= i
  <2>1. Latest(0)
    BY <1>2, <1>3
  <2>2. ASSUME NEW k \in 0..n, Latest(k) PROVE k = 0
    <3>1. \/ Param!LabelOf(log, z, 0) < Param!LabelOf(log, z, k)
          \/ Param!LabelOf(log, z, 0) = Param!LabelOf(log, z, k)
      BY <1>2, <2>2
    <3>. QED  BY <1>2, <1>3, <3>1
  <2>3. Param!LatestIn(log, z) = CHOOSE k \in 0..n : Latest(k)
    BY <1>2 DEF Param!LatestIn
  <2>. HIDE DEF Latest
  <2>. QED  BY <1>2, <2>1, <2>2, <2>3
<1>5. Param!LoadedFrom(log, z) = AllZero(z)
  <2>. SUFFICES ASSUME NEW a \in Param!AllAccounts(z)
                PROVE  Param!LoadedFrom(log, z)[a] = 0
    BY DEF Param!LoadedFrom, AllZero
  <2>1. PICK k, i : k = a \div z.perChunk /\ i = a % z.perChunk
    OBVIOUS
  <2>2. k \in 0..n /\ i \in 0..z.perChunk - 1
    BY <1>2, <2>1, PlacesAre
  <2>3. /\ Param!LabelOf(log, z, k) = -1 => Param!LoadedFrom(log, z)[a] = 0
        /\ Param!LabelOf(log, z, k) # -1 =>
              Param!LoadedFrom(log, z)[a] = Param!Cell(log, Param!SnapshotAt(z, k) + 1 + i)
    BY <2>1 DEF Param!LoadedFrom
  <2>4. SnapshotCell(log, z, k, i + 1) = 0 /\ i \in Int
    <3>1. i + 1 \in 0..z.perChunk /\ i \in Int /\ k \in Param!ChunkIds(z)
      BY <1>2, <2>2
    <3>. QED  BY <3>1
  <2>5. Param!SnapshotAt(z, k) + 1 + i = Param!SnapshotAt(z, k) + (i + 1)
    <3>1. Param!SnapshotAt(z, k) \in Int
      BY <1>2, <2>2 DEF Param!SnapshotAt, Param!SlotCells
    <3>. QED  BY <2>4, <3>1
  <2>. QED  BY <2>3, <2>4, <2>5 DEF SnapshotCell
<1>6. ASSUME NEW i \in 1..n, NEW s
      PROVE  Param!ReplayFor(log, z, Param!ChunkBefore(log, z, i), s) = s
  <2>1. PICK k : k = Param!ChunkBefore(log, z, i)
    OBVIOUS
  <2>2. k \in 0..n /\ k # 0
    <3>1. PICK m : m = n + 1
      OBVIOUS
    <3>2. k = (0 - i) % m /\ m \in Nat \ {0} /\ i \in 0..m - 1 /\ i > 0 /\ 0 % m = 0
      BY <1>2, <1>4, <2>1, <3>1 DEF Param!ChunkBefore
    <3>3. k # 0
      BY <3>2, AroundRing
    <3>4. k \in 0..m - 1
      BY <3>2
    <3>. QED  BY <1>2, <3>1, <3>3, <3>4
  <2>3. Param!LabelOf(log, z, k) = -1 /\ Param!Behind(log, z, k) = 1
    BY <1>2, <1>3, <1>4, <2>2 DEF Param!Behind
  <2>4. BatchByBatch(Param!ReplayBatches(log, z, k, s, 0, 1), log, z, k, s, 0, 1)
    BY ReplayBatchesIs
  <2>5. Param!ReplayBatches(log, z, k, s, 0, 1)[1] = Param!ReplayBatch(z, k, s, <<>>)
    BY <2>4 DEF BatchByBatch
  <2>6. Param!ReplayBatch(z, k, s, <<>>) = s
    BY ReplayTxsIs DEF Param!ReplayBatch
  <2>7. Param!LabelOf(log, z, k) + 1 = 0
    BY <2>3
  <2>. QED  BY <2>1, <2>3, <2>5, <2>6, <2>7 DEF Param!ReplayFor
<1>. DEFINE g == Param!ReplayChunks(log, z)
<1>7. /\ g[0] = Param!LoadedFrom(log, z)
      /\ \A i \in 1..n :
            g[i] = Param!ReplayFor(log, z, Param!ChunkBefore(log, z, i), g[i - 1])
  BY <1>1, <1>2, ChunksAre
<1>8. g[n] = Param!ReplayChunks(log, z)[Param!ChunkCount(z) - 1]
  BY <1>1
<1>. HIDE DEF g
<1>. DEFINE H == {j \in 0..n : g[j] = AllZero(z)}
<1>9. 0 \in H
  BY <1>2, <1>5, <1>7
<1>10. ASSUME NEW j \in 0..n - 1, j \in H PROVE j + 1 \in H
  <2>1. j + 1 \in 1..n /\ (j + 1) - 1 = j /\ j + 1 \in 0..n
    BY <1>2
  <2>2. g[j + 1] = Param!ReplayFor(log, z, Param!ChunkBefore(log, z, j + 1), g[j])
    BY <1>7, <2>1
  <2>. QED  BY <1>6, <1>10, <2>1, <2>2
<1>11. n \in H
  <2>. HIDE DEF H
  <2>1. \A j \in 0..n : j \in H
    BY <1>2, <1>9, <1>10, UpTo
  <2>. QED  BY <1>2, <2>1
<1>. QED  BY <1>8, <1>11 DEF Param!Recovery, AllZero

\* So is the log of a run that has finished no commit.
LEMMA NothingRecovered ==
    ASSUME Ready, done = 0
    PROVE  Param!Restart.balances = [a \in Param!AllAccounts(size) |-> Param!SetBack(a)]
<1>1. size \in Sizes /\ ParamRing /\ SnapshotsTaken = 0 /\ fresh
  BY SizesAre DEF Ready, ParamInv, ParamTypes, SnapshotsTaken
<1>2. /\ states[1] = AllZero(size) /\ Param!LoggedIn(logFile, size, 0) = <<>>
      /\ \A k \in Param!ChunkIds(size) : NeverWritten(k)
  BY <1>1, SizesAre DEF ParamRing, Param!ChunkIds
<1>3. \A k \in Param!ChunkIds(size), i \in 0..size.perChunk :
         SnapshotCell(logFile, size, k, i) = 0
  BY <1>2 DEF NeverWritten
<1>4. Param!Restart.balances = AllZero(size)
  BY <1>1, <1>2, <1>3, NewLogRecovered DEF Param!Restart
<1>5. ASSUME NEW a \in Param!AllAccounts(size) PROVE Param!SetBack(a) = 0
  <2>1. Param!Reaching(a) = {}
    BY DEF Param!Reaching
  <2>. QED  BY <1>2, <2>1 DEF Param!SetBack, AllZero
<1>. QED  BY <1>4, <1>5 DEF AllZero

\* Both together: what the invariant says of recovery.
LEMMA RecoversWhenReady == ParamInv => Param!RecoversUpToRangeSets
<1>. SUFFICES ASSUME ParamInv, Param!OwnLog, Param!NoSelfPayment
              PROVE  /\ done > 0 => Param!Restart.batch = done - 1
                     /\ Param!Restart.balances =
                           [a \in Param!AllAccounts(size) |-> Param!SetBack(a)]
  BY DEF Param!RecoversUpToRangeSets
<1>1. Ready
  BY DEF Param!OwnLog, Ready
<1>2. done \in Nat
  BY <1>1 DEF Ready, ParamInv, ParamHistory
<1>3. CASE done > 0
  BY <1>1, <1>3, RunRecovered
<1>4. CASE done = 0
  BY <1>1, <1>4, NothingRecovered
<1>. QED  BY <1>2, <1>3, <1>4

\* After an orderly end the hash is found right, and the saved state is the recovered one.
LEMMA OrderlyEndIsRight == ParamInv => Param!OrderlyEndVerified
<1>. SUFFICES ASSUME ParamInv, main = "saved", worker = "idle", next > 0, Param!OwnLog,
                     Param!NoSelfPayment,
                     \A a \in Param!AllAccounts(size) : Param!SetBack(a) = balances[a]
              PROVE  /\ Param!Verdict(hashFile, size, Param!Restart) = "verified"
                     /\ isReference => reference = Param!Restart.balances
  BY DEF Param!OrderlyEndVerified
<1>1. /\ next = done /\ done > 0 /\ ParamTypes /\ ParamHistory
      /\ hashFile = [label |-> next - 1, hash |-> Param!HashOf(size, balances)]
      /\ isReference => reference = balances
  BY DEF ParamInv, ParamHistory, ParamSaved
<1>2. balances \in ParamStates(size)
  <2>1. Len(states) \in 1..Len(batches) + 1
    BY <1>1, RunCounts
  <2>. QED  BY <1>1, <2>1, RunCounts DEF ParamHistory
<1>3. Param!Restart.batch = done - 1
      /\ Param!Restart.balances = [a \in Param!AllAccounts(size) |-> Param!SetBack(a)]
  BY <1>1, RecoversWhenReady DEF Param!RecoversUpToRangeSets
<1>4. Param!Restart.balances = balances
  BY <1>2, <1>3 DEF ParamStates
<1>. QED  BY <1>1, <1>3, <1>4 DEF Param!Verdict

-----------------------------------------------------------------------------
\* What the worker writes into the log.

\* A cell of the transaction slot of chunk k.
BatchCell(f, z, k, i) == Param!Cell(f, Param!BatchAt(z, k) + i)

\* The slots are in the log, the snapshots before the batches, and apart.
LEMMA CellPlaces ==
    ASSUME NEW z \in Sizes, NEW k \in 0..Param!ChunkCount(z) - 1
    PROVE  LET snaps == Param!ChunkCount(z) * Param!SlotCells(z)
           IN  /\ Param!SnapshotAt(z, k) \in Nat /\ Param!BatchAt(z, k) \in Nat
               /\ snaps \in Nat /\ Param!LogCells(z) \in Nat
               /\ Param!SnapshotAt(z, k) + z.perChunk < snaps /\ snaps <= Param!BatchAt(z, k)
               /\ Param!BatchAt(z, k) + 3 * BatchSize < Param!LogCells(z)
               /\ \A j \in 0..Param!ChunkCount(z) - 1 : j # k =>
                     /\ \/ Param!SnapshotAt(z, j) + z.perChunk < Param!SnapshotAt(z, k)
                        \/ Param!SnapshotAt(z, k) + z.perChunk < Param!SnapshotAt(z, j)
                     /\ \/ Param!BatchAt(z, j) + 3 * BatchSize < Param!BatchAt(z, k)
                        \/ Param!BatchAt(z, k) + 3 * BatchSize < Param!BatchAt(z, j)
<1>1. PICK n, m, l : /\ n = Param!ChunkCount(z) /\ m = Param!SlotCells(z)
                     /\ l = Param!BatchCells
  OBVIOUS
<1>2. /\ n \in Nat \ {0} /\ m = 1 + z.perChunk /\ z.perChunk \in Nat /\ m \in Nat
      /\ l = 1 + 3 * BatchSize /\ BatchSize \in Nat /\ l \in Nat
      /\ m - 1 \in 0..m - 1 /\ l - 1 \in 0..l - 1
  BY <1>1, SizesAre, ParamConstants DEF Param!ParamAssumption, Param!SlotCells,
     Param!BatchCells
<1>3. ASSUME NEW j \in 0..n - 1, NEW w \in Nat, w # 0
      PROVE  /\ j * w \in Nat /\ n * w \in Nat /\ j * w + (w - 1) < n * w
             /\ \A i \in 0..n - 1 : i # j =>
                   j * w + (w - 1) < i * w \/ i * w + (w - 1) < j * w
  <2>1. /\ j * w \in Nat /\ n * w \in Nat /\ j * w + (w - 1) < n * w /\ j * w + 0 < n * w
        /\ \A i \in Nat : i # j =>
              j * w + (w - 1) < i * w \/ i * w + w <= j * w + (w - 1)
        /\ \A i \in Nat : i # j => j * w + 0 < i * w \/ i * w + w <= j * w + 0
    <3>1. w - 1 \in 0..w - 1 /\ 0 \in 0..w - 1 /\ n \in Nat
      BY <1>2, <1>3
    <3>. QED  BY <1>3, <3>1, SlotsDisjoint
  <2>2. \A i \in 0..n - 1 : i \in Nat /\ i * w \in Nat
    BY <1>2, <1>3
  <2>. QED  BY <1>2, <1>3, <2>1, <2>2
<1>4. \A j \in 0..n - 1 : Param!SnapshotAt(z, j) = j * m /\ Param!BatchAt(z, j) = n * m + j * l
  BY <1>1 DEF Param!SnapshotAt, Param!BatchAt
<1>5. Param!LogCells(z) = n * m + n * l
  BY <1>1, <1>2 DEF Param!LogCells
<1>6. k \in 0..n - 1 /\ m # 0 /\ l # 0
  BY <1>1, <1>2
<1>7. /\ k * m \in Nat /\ n * m \in Nat /\ k * m + (m - 1) < n * m
      /\ \A i \in 0..n - 1 : i * m \in Nat
      /\ \A i \in 0..n - 1 : i # k => k * m + (m - 1) < i * m \/ i * m + (m - 1) < k * m
  BY <1>2, <1>3, <1>6
<1>8. /\ k * l \in Nat /\ n * l \in Nat /\ k * l + (l - 1) < n * l
      /\ \A i \in 0..n - 1 : i * l \in Nat
      /\ \A i \in 0..n - 1 : i # k => k * l + (l - 1) < i * l \/ i * l + (l - 1) < k * l
  BY <1>2, <1>3, <1>6
<1>9. z.perChunk = m - 1 /\ 3 * BatchSize = l - 1 /\ m \in Int /\ l \in Int
  BY <1>2
<1>10. /\ n * m \in Nat /\ Param!LogCells(z) \in Nat
       /\ n * m = Param!ChunkCount(z) * Param!SlotCells(z)
  BY <1>1, <1>5, <1>7, <1>8
<1>11. /\ Param!SnapshotAt(z, k) \in Nat /\ Param!BatchAt(z, k) \in Nat
       /\ Param!SnapshotAt(z, k) + z.perChunk < n * m /\ n * m <= Param!BatchAt(z, k)
       /\ Param!BatchAt(z, k) + 3 * BatchSize < Param!LogCells(z)
  BY <1>4, <1>5, <1>6, <1>7, <1>8, <1>9
<1>12. ASSUME NEW j \in 0..n - 1, j # k
       PROVE  /\ \/ Param!SnapshotAt(z, j) + z.perChunk < Param!SnapshotAt(z, k)
                 \/ Param!SnapshotAt(z, k) + z.perChunk < Param!SnapshotAt(z, j)
              /\ \/ Param!BatchAt(z, j) + 3 * BatchSize < Param!BatchAt(z, k)
                 \/ Param!BatchAt(z, k) + 3 * BatchSize < Param!BatchAt(z, j)
  BY <1>4, <1>6, <1>7, <1>8, <1>9, <1>12
<1>. QED  BY <1>1, <1>10, <1>11, <1>12

\* A store changes the l cells from one on, and none of the other ones of m.
StoredIn(s, cells, at, new, m, l) ==
    /\ s \in Seq(Int) /\ Len(s) = m
    /\ \A p \in 0..m - 1 :
          /\ p < at \/ at + l <= p => s[p + 1] = cells[p + 1]
          /\ at <= p /\ p < at + l => s[p + 1] = new[(p - at) + 1]

LEMMA StoreIs ==
    ASSUME NEW cells \in Seq(Int), NEW at \in Nat, NEW new \in Seq(Int), NEW s, NEW m, NEW l,
           s = Param!Store(cells, at, new), m = Len(cells), l = Len(new), at + l <= m
    PROVE  StoredIn(s, cells, at, new, m, l)
<1>1. /\ m \in Nat /\ l \in Nat /\ DOMAIN cells = 1..m /\ DOMAIN new = 1..l
      /\ \A i \in 1..m : cells[i] \in Int
      /\ \A i \in 1..l : new[i] \in Int
  OBVIOUS
<1>2. s = [i \in 1..m |-> IF i - at \in 1..l THEN new[i - at] ELSE cells[i]]
  BY <1>1 DEF Param!Store
<1>3. \A i \in 1..m : s[i] \in Int
  BY <1>1, <1>2
<1>4. s \in [1..m -> Int] /\ s \in Seq(Int) /\ Len(s) = m
  <2>1. s \in [1..m -> Int]
    BY <1>2, <1>3
  <2>2. s \in Seq(Int)
    BY <1>1, <2>1, SeqDef
  <2>3. DOMAIN s = 1..m /\ DOMAIN s = 1..Len(s) /\ Len(s) \in Nat
    BY <2>1, <2>2
  <2>. QED  BY <1>1, <2>1, <2>2, <2>3
<1>5. ASSUME NEW p \in 0..m - 1
      PROVE  /\ p < at \/ at + l <= p => s[p + 1] = cells[p + 1]
             /\ at <= p /\ p < at + l => s[p + 1] = new[(p - at) + 1]
  <2>1. p + 1 \in 1..m /\ (p + 1) - at = (p - at) + 1
    BY <1>1
  <2>2. s[p + 1] = IF (p + 1) - at \in 1..l THEN new[(p + 1) - at] ELSE cells[p + 1]
    BY <1>2, <2>1
  <2>. QED  BY <1>1, <2>1, <2>2
<1>. QED  BY <1>4, <1>5 DEF StoredIn

\* The cells of a log of these sizes.
LEMMA CellsAre ==
    ASSUME NEW z \in Sizes, NEW f, Fits(f, z), NEW k \in 0..Param!ChunkCount(z) - 1
    PROVE  /\ \A i \in 0..z.perChunk : SnapshotCell(f, z, k, i) \in Int
           /\ \A i \in 0..3 * BatchSize : BatchCell(f, z, k, i) \in Int
<1>1. PICK n, m, l : /\ n = Param!SnapshotAt(z, k) /\ m = Param!BatchAt(z, k)
                     /\ l = Len(f.cells)
  OBVIOUS
<1>2. /\ n \in Nat /\ m \in Nat /\ l \in Nat /\ n + z.perChunk < l /\ m + 3 * BatchSize < l
      /\ z.perChunk \in Nat /\ BatchSize \in Nat
      /\ \A i \in 1..l : f.cells[i] \in Int
  <2>1. l \in Nat /\ Param!LogCells(z) <= l /\ \A i \in 1..l : f.cells[i] \in Int
    BY <1>1 DEF Fits
  <2>2. z.perChunk \in Nat /\ BatchSize \in Nat
    BY SizesAre, ParamConstants DEF Param!ParamAssumption
  <2>3. PICK x, y : x = Param!ChunkCount(z) * Param!SlotCells(z) /\ y = Param!LogCells(z)
    OBVIOUS
  <2>4. /\ n \in Nat /\ m \in Nat /\ x \in Nat /\ y \in Nat
        /\ n + z.perChunk < x /\ x <= m /\ m + 3 * BatchSize < y
    BY <1>1, <2>3, CellPlaces
  <2>. QED  BY <2>1, <2>2, <2>3, <2>4
<1>3. \A i \in 0..z.perChunk : (n + i) + 1 \in 1..l
  BY <1>2
<1>4. \A i \in 0..3 * BatchSize : (m + i) + 1 \in 1..l
  BY <1>2
<1>. QED  BY <1>1, <1>2, <1>3, <1>4 DEF SnapshotCell, BatchCell, Param!Cell

\* A transaction slot as recovery reads it, cell by cell.
SlotCount(f, z, k) ==
    LET count == Param!High(BatchCell(f, z, k, 0))
    IN  IF count > BatchSize THEN BatchSize ELSE count

LEMMA LoggedIs ==
    ASSUME NEW z \in Sizes, NEW f, Fits(f, z), NEW b \in Nat
    PROVE  LET k == b % Param!ChunkCount(z)
           IN  /\ k \in 0..Param!ChunkCount(z) - 1
               /\ SlotCount(f, z, k) \in Int /\ SlotCount(f, z, k) <= BatchSize
               /\ Param!LoggedIn(f, z, b) =
                     [i \in 1..SlotCount(f, z, k) |->
                        [sender   |-> BatchCell(f, z, k, 3 * i - 2),
                         receiver |-> BatchCell(f, z, k, 3 * i - 1),
                         amount   |-> BatchCell(f, z, k, 3 * i)]]
<1>1. PICK n, k, at : /\ n = Param!ChunkCount(z) /\ k = b % Param!ChunkCount(z)
                      /\ at = Param!BatchAt(z, k)
  OBVIOUS
<1>2. k \in 0..n - 1
  <2>1. n \in Nat \ {0} /\ k = b % n
    BY <1>1, SizesAre
  <2>. QED  BY <2>1
<1>3. at \in Nat /\ Param!Cell(f, at) \in Int /\ BatchCell(f, z, k, 0) = Param!Cell(f, at)
  <2>1. at \in Nat
    BY <1>1, <1>2, CellPlaces
  <2>2. BatchSize \in Nat /\ 0 \in 0..3 * BatchSize
    BY ParamConstants DEF Param!ParamAssumption
  <2>3. BatchCell(f, z, k, 0) \in Int
    BY <1>1, <1>2, <2>2, CellsAre
  <2>4. at + 0 = at
    BY <2>1
  <2>. QED  BY <1>1, <2>1, <2>3, <2>4 DEF BatchCell
<1>4. PICK count : count = SlotCount(f, z, k)
  OBVIOUS
<1>5. /\ count \in Int /\ count <= BatchSize /\ BatchSize \in Nat
      /\ count = IF Param!High(Param!Cell(f, at)) > BatchSize
                   THEN BatchSize ELSE Param!High(Param!Cell(f, at))
  <2>1. BatchSize \in Nat /\ Word \in Nat /\ Word > 0
    BY ParamConstants DEF Param!ParamAssumption
  <2>2. Param!High(Param!Cell(f, at)) \in Int
    BY <1>3, <2>1 DEF Param!High
  <2>. QED  BY <1>3, <1>4, <2>1, <2>2 DEF SlotCount
<1>6. Param!LoggedIn(f, z, b) =
         [i \in 1..count |-> [sender   |-> Param!Cell(f, at + 3 * i - 2),
                              receiver |-> Param!Cell(f, at + 3 * i - 1),
                              amount   |-> Param!Cell(f, at + 3 * i)]]
  BY <1>1, <1>5 DEF Param!LoggedIn
<1>7. ASSUME NEW i \in 1..count
      PROVE  /\ Param!Cell(f, at + 3 * i - 2) = BatchCell(f, z, k, 3 * i - 2)
             /\ Param!Cell(f, at + 3 * i - 1) = BatchCell(f, z, k, 3 * i - 1)
             /\ Param!Cell(f, at + 3 * i) = BatchCell(f, z, k, 3 * i)
  <2>1. at + 3 * i - 2 = at + (3 * i - 2) /\ at + 3 * i - 1 = at + (3 * i - 1)
    BY <1>3
  <2>. QED  BY <1>1, <2>1 DEF BatchCell
<1>8. Param!LoggedIn(f, z, b) =
         [i \in 1..count |-> [sender   |-> BatchCell(f, z, k, 3 * i - 2),
                              receiver |-> BatchCell(f, z, k, 3 * i - 1),
                              amount   |-> BatchCell(f, z, k, 3 * i)]]
  BY <1>6, <1>7
<1>. QED  BY <1>1, <1>2, <1>4, <1>5, <1>8

\* The places of a slot that one transaction takes.
LEMMA ThreeCells ==
    ASSUME NEW i \in Nat \ {0}, i <= BatchSize
    PROVE  /\ 3 * i - 2 \in 0..3 * BatchSize /\ 3 * i - 1 \in 0..3 * BatchSize
           /\ 3 * i \in 0..3 * BatchSize
<1>1. BatchSize \in Nat
  BY ParamConstants DEF Param!ParamAssumption
<1>. QED  BY <1>1

\* It is always some transactions, and the same ones in the same cells.
LEMMA LoggedType ==
    ASSUME NEW z \in Sizes, NEW f, Fits(f, z), NEW b \in Nat
    PROVE  Param!LoggedIn(f, z, b) \in Seq(Param!Transactions)
<1>1. PICK k, count : k = b % Param!ChunkCount(z) /\ count = SlotCount(f, z, k)
  OBVIOUS
<1>2. /\ k \in 0..Param!ChunkCount(z) - 1 /\ count \in Int /\ count <= BatchSize
      /\ Param!LoggedIn(f, z, b) =
            [i \in 1..count |-> [sender   |-> BatchCell(f, z, k, 3 * i - 2),
                                 receiver |-> BatchCell(f, z, k, 3 * i - 1),
                                 amount   |-> BatchCell(f, z, k, 3 * i)]]
  BY <1>1, LoggedIs
<1>3. ASSUME NEW i \in 1..count
      PROVE  [sender   |-> BatchCell(f, z, k, 3 * i - 2),
              receiver |-> BatchCell(f, z, k, 3 * i - 1),
              amount   |-> BatchCell(f, z, k, 3 * i)] \in Param!Transactions
  <2>1. i \in Nat \ {0} /\ i <= BatchSize
    <3>1. BatchSize \in Nat
      BY ParamConstants DEF Param!ParamAssumption
    <3>. QED  BY <1>2, <3>1
  <2>2. \A c \in 0..3 * BatchSize : BatchCell(f, z, k, c) \in Int
    BY <1>2, CellsAre
  <2>. QED  BY <2>1, <2>2, ThreeCells DEF Param!Transactions
<1>4. PICK m \in Nat : 1..m = 1..count
  <2>1. CASE count \in Nat
    BY <2>1
  <2>2. CASE count \notin Nat
    <3>1. 1..0 = 1..count
      BY <1>2, <2>2
    <3>. QED  BY <3>1
  <2>. QED  BY <2>1, <2>2
<1>5. Param!LoggedIn(f, z, b) \in [1..m -> Param!Transactions]
  BY <1>2, <1>3, <1>4
<1>. QED  BY <1>5, SeqDef

LEMMA SameLogged ==
    ASSUME NEW z \in Sizes, NEW f, NEW g, Fits(f, z), Fits(g, z), NEW b \in Nat,
           \A i \in 0..3 * BatchSize : BatchCell(g, z, b % Param!ChunkCount(z), i)
                                         = BatchCell(f, z, b % Param!ChunkCount(z), i)
    PROVE  Param!LoggedIn(g, z, b) = Param!LoggedIn(f, z, b)
<1>1. PICK k, count : k = b % Param!ChunkCount(z) /\ count = SlotCount(f, z, k)
  OBVIOUS
<1>2. BatchSize \in Nat /\ 0 \in 0..3 * BatchSize
  BY ParamConstants DEF Param!ParamAssumption
<1>3. \A i \in 0..3 * BatchSize : BatchCell(g, z, k, i) = BatchCell(f, z, k, i)
  BY <1>1
<1>4. SlotCount(g, z, k) = count
  BY <1>1, <1>2, <1>3 DEF SlotCount
<1>5. /\ count \in Int /\ count <= BatchSize
      /\ Param!LoggedIn(f, z, b) =
            [i \in 1..count |-> [sender   |-> BatchCell(f, z, k, 3 * i - 2),
                                 receiver |-> BatchCell(f, z, k, 3 * i - 1),
                                 amount   |-> BatchCell(f, z, k, 3 * i)]]
  BY <1>1, LoggedIs
<1>6. Param!LoggedIn(g, z, b) =
            [i \in 1..count |-> [sender   |-> BatchCell(g, z, k, 3 * i - 2),
                                 receiver |-> BatchCell(g, z, k, 3 * i - 1),
                                 amount   |-> BatchCell(g, z, k, 3 * i)]]
  BY <1>1, <1>4, LoggedIs
<1>7. ASSUME NEW i \in 1..count
      PROVE  /\ BatchCell(g, z, k, 3 * i - 2) = BatchCell(f, z, k, 3 * i - 2)
             /\ BatchCell(g, z, k, 3 * i - 1) = BatchCell(f, z, k, 3 * i - 1)
             /\ BatchCell(g, z, k, 3 * i) = BatchCell(f, z, k, 3 * i)
  <2>1. i \in Nat \ {0} /\ i <= BatchSize
    BY <1>2, <1>5
  <2>. QED  BY <1>3, <2>1, ThreeCells
<1>. QED  BY <1>5, <1>6, <1>7

\* A snapshot slot is written.
LEMMA SnapshotStored ==
    ASSUME NEW z \in Sizes, NEW f, NEW g, Fits(f, z), NEW k \in 0..Param!ChunkCount(z) - 1,
           NEW new \in Seq(Int), Len(new) = Param!SlotCells(z), g.header = f.header,
           g.cells = Param!Store(f.cells, Param!SnapshotAt(z, k), new)
    PROVE  /\ Fits(g, z)
           /\ \A i \in 0..z.perChunk : SnapshotCell(g, z, k, i) = new[i + 1]
           /\ \A j \in 0..Param!ChunkCount(z) - 1, i \in 0..z.perChunk :
                 j # k => SnapshotCell(g, z, j, i) = SnapshotCell(f, z, j, i)
           /\ \A b \in Nat : Param!LoggedIn(g, z, b) = Param!LoggedIn(f, z, b)
<1>1. PICK at, l, m, w : /\ at = Param!SnapshotAt(z, k) /\ l = Len(f.cells) /\ m = Len(new)
                         /\ w = z.perChunk
  OBVIOUS
<1>2. w \in Nat /\ m = w + 1 /\ BatchSize \in Nat
  <2>1. w \in Nat /\ m = 1 + w
    BY <1>1, SizesAre DEF Param!SlotCells
  <2>. QED  BY <2>1, ParamConstants DEF Param!ParamAssumption
<1>3. /\ f.cells \in Seq(Int) /\ l \in Nat /\ Param!LogCells(z) <= l
      /\ f.header = Param!HeaderOf(z)
  BY <1>1 DEF Fits
<1>4. PICK x, y : x = Param!ChunkCount(z) * Param!SlotCells(z) /\ y = Param!LogCells(z)
  OBVIOUS
<1>5. at \in Nat /\ x \in Nat /\ y \in Nat /\ y <= l /\ at + w < x
  BY <1>1, <1>3, <1>4, CellPlaces
<1>6. ASSUME NEW j \in 0..Param!ChunkCount(z) - 1
      PROVE  /\ Param!SnapshotAt(z, j) \in Nat /\ Param!SnapshotAt(z, j) + w < x
             /\ Param!BatchAt(z, j) \in Nat /\ x <= Param!BatchAt(z, j)
             /\ Param!BatchAt(z, j) + 3 * BatchSize < y
             /\ j # k => Param!SnapshotAt(z, j) + w < at \/ at + w < Param!SnapshotAt(z, j)
  BY <1>1, <1>4, CellPlaces
<1>7. x < y /\ at + m <= l
  <2>1. PICK q : q = Param!BatchAt(z, k)
    OBVIOUS
  <2>2. q \in Nat /\ x <= q /\ q + 3 * BatchSize < y
    BY <1>6, <2>1
  <2>. QED  BY <1>2, <1>3, <1>5, <2>2
<1>8. /\ g.cells \in Seq(Int) /\ Len(g.cells) = l
      /\ \A p \in 0..l - 1 :
            /\ p < at \/ at + m <= p => g.cells[p + 1] = f.cells[p + 1]
            /\ at <= p /\ p < at + m => g.cells[p + 1] = new[(p - at) + 1]
  <2>1. StoredIn(g.cells, f.cells, at, new, l, m)
    BY <1>1, <1>3, <1>5, <1>7, StoreIs
  <2>. QED  BY <2>1 DEF StoredIn
<1>9. Fits(g, z)
  BY <1>1, <1>3, <1>8 DEF Fits
<1>10. ASSUME NEW i \in 0..w PROVE SnapshotCell(g, z, k, i) = new[i + 1]
  <2>1. PICK p : p = at + i
    OBVIOUS
  <2>2. p \in 0..l - 1 /\ at <= p /\ p < at + m /\ p - at = i
    BY <1>2, <1>3, <1>5, <1>7, <2>1
  <2>3. g.cells[p + 1] = new[i + 1]
    BY <1>8, <2>2
  <2>. QED  BY <1>1, <2>1, <2>3 DEF SnapshotCell, Param!Cell
<1>11. ASSUME NEW j \in 0..Param!ChunkCount(z) - 1, NEW i \in 0..w, j # k
       PROVE  SnapshotCell(g, z, j, i) = SnapshotCell(f, z, j, i)
  <2>1. PICK p, q : q = Param!SnapshotAt(z, j) /\ p = q + i
    OBVIOUS
  <2>2. q \in Nat /\ q + w < x /\ (q + w < at \/ at + w < q)
    BY <1>6, <1>11, <2>1
  <2>3. p \in 0..l - 1
    BY <1>2, <1>3, <1>5, <1>7, <2>1, <2>2
  <2>4. p < at \/ at + m <= p
    BY <1>2, <1>5, <2>1, <2>2
  <2>5. g.cells[p + 1] = f.cells[p + 1]
    BY <1>8, <2>3, <2>4
  <2>. QED  BY <2>1, <2>5 DEF SnapshotCell, Param!Cell
<1>12. ASSUME NEW j \in 0..Param!ChunkCount(z) - 1, NEW i \in 0..3 * BatchSize
       PROVE  BatchCell(g, z, j, i) = BatchCell(f, z, j, i)
  <2>1. PICK p, q : q = Param!BatchAt(z, j) /\ p = q + i
    OBVIOUS
  <2>2. q \in Nat /\ x <= q /\ q + 3 * BatchSize < y
    BY <1>6, <2>1
  <2>3. p \in 0..l - 1 /\ at + m <= p
    BY <1>2, <1>3, <1>5, <1>7, <2>1, <2>2
  <2>4. g.cells[p + 1] = f.cells[p + 1]
    BY <1>8, <2>3
  <2>. QED  BY <2>1, <2>4 DEF BatchCell, Param!Cell
<1>13. ASSUME NEW b \in Nat PROVE Param!LoggedIn(g, z, b) = Param!LoggedIn(f, z, b)
  <2>1. b % Param!ChunkCount(z) \in 0..Param!ChunkCount(z) - 1
    BY LoggedIs
  <2>. QED  BY <1>9, <1>12, <2>1, SameLogged
<1>. QED  BY <1>1, <1>9, <1>10, <1>11, <1>13

\* A transaction slot is written.
LEMMA BatchStored ==
    ASSUME NEW z \in Sizes, NEW f, NEW g, Fits(f, z), NEW k \in 0..Param!ChunkCount(z) - 1,
           NEW new \in Seq(Int), Len(new) = Param!BatchCells, g.header = f.header,
           g.cells = Param!Store(f.cells, Param!BatchAt(z, k), new)
    PROVE  /\ Fits(g, z)
           /\ \A i \in 0..3 * BatchSize : BatchCell(g, z, k, i) = new[i + 1]
           /\ \A j \in 0..Param!ChunkCount(z) - 1, i \in 0..z.perChunk :
                 SnapshotCell(g, z, j, i) = SnapshotCell(f, z, j, i)
           /\ \A b \in Nat : b % Param!ChunkCount(z) # k =>
                 Param!LoggedIn(g, z, b) = Param!LoggedIn(f, z, b)
<1>1. PICK at, l, m, w : /\ at = Param!BatchAt(z, k) /\ l = Len(f.cells) /\ m = Len(new)
                         /\ w = 3 * BatchSize
  OBVIOUS
<1>2. w \in Nat /\ m = w + 1 /\ z.perChunk \in Nat
  <2>1. BatchSize \in Nat /\ m = 1 + w
    BY <1>1, ParamConstants DEF Param!BatchCells, Param!ParamAssumption
  <2>. QED  BY <1>1, <2>1, SizesAre
<1>3. /\ f.cells \in Seq(Int) /\ l \in Nat /\ Param!LogCells(z) <= l
      /\ f.header = Param!HeaderOf(z)
  BY <1>1 DEF Fits
<1>4. PICK x, y : x = Param!ChunkCount(z) * Param!SlotCells(z) /\ y = Param!LogCells(z)
  OBVIOUS
<1>5. at \in Nat /\ x \in Nat /\ y \in Nat /\ y <= l /\ at + w < y /\ x <= at
  BY <1>1, <1>3, <1>4, CellPlaces
<1>6. ASSUME NEW j \in 0..Param!ChunkCount(z) - 1
      PROVE  /\ Param!SnapshotAt(z, j) \in Nat /\ Param!SnapshotAt(z, j) + z.perChunk < x
             /\ Param!BatchAt(z, j) \in Nat /\ Param!BatchAt(z, j) + w < y
             /\ j # k => Param!BatchAt(z, j) + w < at \/ at + w < Param!BatchAt(z, j)
  BY <1>1, <1>4, CellPlaces
<1>7. at + m <= l
  BY <1>2, <1>3, <1>5
<1>8. /\ g.cells \in Seq(Int) /\ Len(g.cells) = l
      /\ \A p \in 0..l - 1 :
            /\ p < at \/ at + m <= p => g.cells[p + 1] = f.cells[p + 1]
            /\ at <= p /\ p < at + m => g.cells[p + 1] = new[(p - at) + 1]
  <2>1. StoredIn(g.cells, f.cells, at, new, l, m)
    BY <1>1, <1>3, <1>5, <1>7, StoreIs
  <2>. QED  BY <2>1 DEF StoredIn
<1>9. Fits(g, z)
  BY <1>1, <1>3, <1>8 DEF Fits
<1>10. ASSUME NEW i \in 0..w PROVE BatchCell(g, z, k, i) = new[i + 1]
  <2>1. PICK p : p = at + i
    OBVIOUS
  <2>2. p \in 0..l - 1 /\ at <= p /\ p < at + m /\ p - at = i
    BY <1>2, <1>3, <1>5, <1>7, <2>1
  <2>3. g.cells[p + 1] = new[i + 1]
    BY <1>8, <2>2
  <2>. QED  BY <1>1, <2>1, <2>3 DEF BatchCell, Param!Cell
<1>11. ASSUME NEW j \in 0..Param!ChunkCount(z) - 1, NEW i \in 0..w, j # k
       PROVE  BatchCell(g, z, j, i) = BatchCell(f, z, j, i)
  <2>1. PICK p, q : q = Param!BatchAt(z, j) /\ p = q + i
    OBVIOUS
  <2>2. q \in Nat /\ q + w < y /\ (q + w < at \/ at + w < q)
    BY <1>6, <1>11, <2>1
  <2>3. p \in 0..l - 1
    BY <1>2, <1>3, <1>5, <2>1, <2>2
  <2>4. p < at \/ at + m <= p
    BY <1>2, <1>5, <2>1, <2>2
  <2>5. g.cells[p + 1] = f.cells[p + 1]
    BY <1>8, <2>3, <2>4
  <2>. QED  BY <2>1, <2>5 DEF BatchCell, Param!Cell
<1>12. ASSUME NEW j \in 0..Param!ChunkCount(z) - 1, NEW i \in 0..z.perChunk
       PROVE  SnapshotCell(g, z, j, i) = SnapshotCell(f, z, j, i)
  <2>1. PICK p, q : q = Param!SnapshotAt(z, j) /\ p = q + i
    OBVIOUS
  <2>2. q \in Nat /\ q + z.perChunk < x
    BY <1>6, <2>1
  <2>3. p \in 0..l - 1 /\ p < at
    BY <1>2, <1>3, <1>5, <2>1, <2>2
  <2>4. g.cells[p + 1] = f.cells[p + 1]
    BY <1>8, <2>3
  <2>. QED  BY <2>1, <2>4 DEF SnapshotCell, Param!Cell
<1>13. ASSUME NEW b \in Nat, b % Param!ChunkCount(z) # k
       PROVE  Param!LoggedIn(g, z, b) = Param!LoggedIn(f, z, b)
  <2>1. b % Param!ChunkCount(z) \in 0..Param!ChunkCount(z) - 1
    BY LoggedIs
  <2>2. \A i \in 0..3 * BatchSize : BatchCell(g, z, b % Param!ChunkCount(z), i)
                                      = BatchCell(f, z, b % Param!ChunkCount(z), i)
    BY <1>1, <1>11, <1>13, <2>1
  <2>. QED  BY <1>9, <2>2, SameLogged
<1>. QED  BY <1>1, <1>9, <1>10, <1>12, <1>13

\* A batch slot holds the batch, and recovery reads that back.
LEMMA BatchSlotIs ==
    ASSUME NEW b \in Nat, NEW txs \in ParamBatches
    PROVE  LET new == Param!BatchSlot(b, txs)
           IN  /\ new \in Seq(Int) /\ Len(new) = Param!BatchCells
               /\ new[1] = b + Word * BatchSize
               /\ \A i \in 1..BatchSize : /\ new[3 * i - 1] = txs[i].sender
                                          /\ new[3 * i] = txs[i].receiver
                                          /\ new[3 * i + 1] = txs[i].amount
<1>1. PICK new, m : new = Param!BatchSlot(b, txs) /\ m = 1 + 3 * BatchSize
  OBVIOUS
<1>2. /\ Len(txs) = BatchSize /\ BatchSize \in Nat \ {0} /\ m \in Nat
      /\ \A i \in 1..BatchSize : txs[i] \in Param!Transactions
  BY <1>1, BatchIsSeq
<1>3. new = [i \in 1..m |->
               CASE i = 1 -> b + Word * BatchSize
                 [] i # 1 /\ i % 3 = 2 -> txs[(i + 1) \div 3].sender
                 [] i # 1 /\ i % 3 = 0 -> txs[(i + 1) \div 3].receiver
                 [] i # 1 /\ i % 3 = 1 -> txs[(i + 1) \div 3].amount]
  BY <1>1, <1>2 DEF Param!BatchSlot
<1>4. /\ 1 \in 1..m /\ new[1] = b + Word * BatchSize /\ b + Word * BatchSize \in Int
  <2>1. Word \in Nat
    BY ParamConstants DEF Param!ParamAssumption
  <2>2. 1 \in 1..m
    BY <1>1, <1>2
  <2>3. Word * BatchSize \in Nat
    BY <1>2, <2>1
  <2>. QED  BY <1>3, <2>2, <2>3
<1>5. ASSUME NEW i \in 1..BatchSize
      PROVE  /\ new[3 * i - 1] = txs[i].sender /\ new[3 * i] = txs[i].receiver
             /\ new[3 * i + 1] = txs[i].amount
  <2>1. /\ 3 * i - 1 \in 1..m /\ 3 * i - 1 # 1 /\ (3 * i - 1) % 3 = 2
        /\ ((3 * i - 1) + 1) \div 3 = i
    BY <1>1, <1>2
  <2>2. /\ 3 * i \in 1..m /\ 3 * i # 1 /\ (3 * i) % 3 = 0 /\ (3 * i + 1) \div 3 = i
    BY <1>1, <1>2
  <2>3. /\ 3 * i + 1 \in 1..m /\ 3 * i + 1 # 1 /\ (3 * i + 1) % 3 = 1
        /\ ((3 * i + 1) + 1) \div 3 = i
    BY <1>1, <1>2
  <2>4. new[3 * i - 1] = txs[((3 * i - 1) + 1) \div 3].sender
    BY <1>3, <2>1
  <2>5. new[3 * i] = txs[(3 * i + 1) \div 3].receiver
    BY <1>3, <2>2
  <2>6. new[3 * i + 1] = txs[((3 * i + 1) + 1) \div 3].amount
    BY <1>3, <2>3
  <2>. QED  BY <2>1, <2>2, <2>3, <2>4, <2>5, <2>6
<1>6. ASSUME NEW j \in 1..m PROVE new[j] \in Int
  <2>1. CASE j = 1
    BY <1>4, <2>1
  <2>2. CASE j # 1
    <3>1. PICK i \in 1..BatchSize : j = 3 * i - 1 \/ j = 3 * i \/ j = 3 * i + 1
      <4>1. PICK i : i = (j + 1) \div 3
        OBVIOUS
      <4>2. i \in Int /\ 3 * i <= j + 1 /\ j + 1 < 3 * i + 3
        BY <4>1
      <4>3. i \in 1..BatchSize
        BY <1>1, <1>2, <2>2, <4>2
      <4>4. j = 3 * i - 1 \/ j = 3 * i \/ j = 3 * i + 1
        BY <4>2
      <4>. QED  BY <4>3, <4>4
    <3>2. txs[i].sender \in Int /\ txs[i].receiver \in Int /\ txs[i].amount \in Int
      BY <1>2 DEF Param!Transactions
    <3>. QED  BY <1>5, <3>1, <3>2
  <2>. QED  BY <2>1, <2>2
<1>7. new \in [1..m -> Int] /\ new \in Seq(Int) /\ Len(new) = m
  <2>1. new \in [1..m -> Int]
    BY <1>3, <1>6
  <2>2. new \in Seq(Int)
    BY <1>2, <2>1, SeqDef
  <2>3. DOMAIN new = 1..m /\ DOMAIN new = 1..Len(new) /\ Len(new) \in Nat
    BY <2>1, <2>2
  <2>. QED  BY <1>2, <2>1, <2>2, <2>3
<1>. QED  BY <1>1, <1>4, <1>5, <1>7 DEF Param!BatchCells

LEMMA BatchReadBack ==
    ASSUME NEW z \in Sizes, NEW f, Fits(f, z), NEW b \in Nat, b < Word,
           NEW txs \in ParamBatches,
           \A i \in 0..3 * BatchSize :
              BatchCell(f, z, b % Param!ChunkCount(z), i) = Param!BatchSlot(b, txs)[i + 1]
    PROVE  Param!LoggedIn(f, z, b) = txs
<1>1. PICK k : k = b % Param!ChunkCount(z)
  OBVIOUS
<1>2. BatchSize \in Nat \ {0} /\ 0 \in 0..3 * BatchSize
  BY ParamConstants DEF Param!ParamAssumption
<1>3. SlotCount(f, z, k) = BatchSize
  <2>1. BatchCell(f, z, k, 0) = b + Word * BatchSize
    BY <1>1, <1>2, BatchSlotIs
  <2>2. Param!High(b + Word * BatchSize) = BatchSize
    BY <1>2, HeaderParts
  <2>. QED  BY <1>2, <2>1, <2>2 DEF SlotCount
<1>4. Param!LoggedIn(f, z, b) =
         [i \in 1..BatchSize |-> [sender   |-> BatchCell(f, z, k, 3 * i - 2),
                                  receiver |-> BatchCell(f, z, k, 3 * i - 1),
                                  amount   |-> BatchCell(f, z, k, 3 * i)]]
  BY <1>1, <1>3, LoggedIs
<1>5. ASSUME NEW i \in 1..BatchSize
      PROVE  txs[i] = [sender   |-> BatchCell(f, z, k, 3 * i - 2),
                       receiver |-> BatchCell(f, z, k, 3 * i - 1),
                       amount   |-> BatchCell(f, z, k, 3 * i)]
  <2>1. /\ 3 * i - 2 \in 0..3 * BatchSize /\ 3 * i - 1 \in 0..3 * BatchSize
        /\ 3 * i \in 0..3 * BatchSize /\ (3 * i - 2) + 1 = 3 * i - 1
        /\ (3 * i - 1) + 1 = 3 * i
    BY <1>2
  <2>2. PICK new : new = Param!BatchSlot(b, txs)
    OBVIOUS
  <2>3. /\ new[3 * i - 1] = txs[i].sender /\ new[3 * i] = txs[i].receiver
        /\ new[3 * i + 1] = txs[i].amount
    BY <2>2, BatchSlotIs
  <2>4. /\ BatchCell(f, z, k, 3 * i - 2) = new[(3 * i - 2) + 1]
        /\ BatchCell(f, z, k, 3 * i - 1) = new[(3 * i - 1) + 1]
        /\ BatchCell(f, z, k, 3 * i) = new[3 * i + 1]
    BY <1>1, <2>1, <2>2
  <2>5. txs[i] \in [sender : Int, receiver : Int, amount : Int]
    BY DEF ParamBatches, Param!Transactions
  <2>. QED  BY <2>1, <2>3, <2>4, <2>5
<1>6. txs = [i \in 1..BatchSize |-> txs[i]]
  BY DEF ParamBatches
<1>. QED  BY <1>4, <1>5, <1>6

-----------------------------------------------------------------------------
\* What a start makes of any log.

\* The labels, and that one slot is the latest.
LEMMA LatestExists ==
    ASSUME NEW z \in Sizes, NEW f, Fits(f, z)
    PROVE  /\ Param!LatestIn(f, z) \in 0..Param!ChunkCount(z) - 1
           /\ \A k \in 0..Param!ChunkCount(z) - 1 :
                 /\ Param!LabelOf(f, z, k) \in Int /\ -1 <= Param!LabelOf(f, z, k)
                 /\ Param!LabelOf(f, z, k) <= Param!LabelOf(f, z, Param!LatestIn(f, z))
<1>1. PICK n : n = Param!ChunkCount(z) - 1
  OBVIOUS
<1>2. /\ n \in Nat /\ Param!ChunkIds(z) = 0..n /\ 0 \in 0..n /\ Word \in Nat /\ Word > 0
  BY <1>1, SizesAre, ParamConstants DEF Param!ChunkIds, Param!ParamAssumption
<1>3. ASSUME NEW k \in 0..n
      PROVE  Param!LabelOf(f, z, k) \in Int /\ -1 <= Param!LabelOf(f, z, k)
             /\ Param!LabelOf(f, z, k) < Word
  <2>1. SnapshotCell(f, z, k, 0) \in Int
    BY <1>1, CellsAre, SizesAre
  <2>2. PICK cell : cell = Param!Cell(f, Param!SnapshotAt(z, k))
    OBVIOUS
  <2>3. cell \in Int
    <3>1. Param!SnapshotAt(z, k) \in Nat
      BY <1>1, CellPlaces
    <3>2. Param!SnapshotAt(z, k) + 0 = Param!SnapshotAt(z, k)
      BY <3>1
    <3>. QED  BY <2>1, <2>2, <3>2 DEF SnapshotCell
  <2>4. Param!LabelOf(f, z, k) = IF Param!High(cell) = k THEN cell % Word ELSE -1
    BY <2>2 DEF Param!LabelOf, Param!Low
  <2>5. cell % Word \in 0..Word - 1
    BY <1>2, <2>3
  <2>. QED  BY <1>2, <2>4, <2>5
<1>. DEFINE distances == {(Word - 1) - Param!LabelOf(f, z, k) : k \in 0..n}
<1>4. PICK d \in distances : \A e \in distances : d <= e
  <2>1. distances \in SUBSET Nat
    BY <1>2, <1>3
  <2>2. distances # {}
    BY <1>2
  <2>. QED  BY <2>1, <2>2, LeastOf
<1>5. PICK h \in 0..n : d = (Word - 1) - Param!LabelOf(f, z, h)
  BY <1>4
<1>6. \A j \in 0..n : Param!LabelOf(f, z, j) <= Param!LabelOf(f, z, h)
  <2>. SUFFICES ASSUME NEW j \in 0..n
                PROVE  Param!LabelOf(f, z, j) <= Param!LabelOf(f, z, h)
    OBVIOUS
  <2>1. (Word - 1) - Param!LabelOf(f, z, h) <= (Word - 1) - Param!LabelOf(f, z, j)
    BY <1>4, <1>5
  <2>. QED  BY <1>2, <1>3, <2>1
<1>. DEFINE highest == {k \in 0..n : Param!LabelOf(f, z, k) = Param!LabelOf(f, z, h)}
<1>7. PICK l \in highest : \A k \in highest : l <= k
  <2>1. highest \in SUBSET Nat /\ highest # {}
    BY <1>2
  <2>. QED  BY <2>1, LeastOf
<1>. DEFINE Latest(k) ==
        \A j \in 0..n : \/ Param!LabelOf(f, z, j) < Param!LabelOf(f, z, k)
                        \/ Param!LabelOf(f, z, j) = Param!LabelOf(f, z, k) /\ k <= j
<1>8. l \in 0..n /\ Latest(l)
  <2>. SUFFICES ASSUME NEW j \in 0..n
                PROVE  \/ Param!LabelOf(f, z, j) < Param!LabelOf(f, z, l)
                       \/ Param!LabelOf(f, z, j) = Param!LabelOf(f, z, l) /\ l <= j
    BY <1>7
  <2>1. Param!LabelOf(f, z, l) = Param!LabelOf(f, z, h)
    BY <1>7
  <2>2. Param!LabelOf(f, z, j) = Param!LabelOf(f, z, h) => l <= j
    BY <1>7
  <2>. QED  BY <1>3, <1>5, <1>6, <2>1, <2>2
<1>9. Param!LatestIn(f, z) \in 0..n /\ Latest(Param!LatestIn(f, z))
  <2>1. Param!LatestIn(f, z) = CHOOSE k \in 0..n : Latest(k)
    BY <1>2 DEF Param!LatestIn
  <2>. HIDE DEF Latest
  <2>. QED  BY <1>8, <2>1
<1>10. PICK m : m = Param!LatestIn(f, z)
  OBVIOUS
<1>11. \A k \in 0..n : Param!LabelOf(f, z, k) <= Param!LabelOf(f, z, m)
  BY <1>3, <1>9, <1>10
<1>. QED  BY <1>1, <1>3, <1>9, <1>10, <1>11

\* The pass for a chunk keeps the balances integers, whatever the slots hold.
LEMMA PassType ==
    ASSUME NEW z \in Sizes, NEW f, Fits(f, z), NEW k \in 0..Param!ChunkCount(z) - 1,
           NEW s \in ParamStates(z)
    PROVE  Param!ReplayFor(f, z, k, s) \in ParamStates(z)
<1>1. PICK first, count : first = Param!LabelOf(f, z, k) + 1 /\ count = Param!Behind(f, z, k)
  OBVIOUS
<1>2. first \in Nat /\ count \in Nat
  <2>1. PICK x, y : /\ x = Param!LabelOf(f, z, k)
                    /\ y = Param!LabelOf(f, z, Param!LatestIn(f, z))
    OBVIOUS
  <2>2. x \in Int /\ -1 <= x /\ y \in Int /\ x <= y
    BY <2>1, LatestExists
  <2>. QED  BY <1>1, <2>1, <2>2 DEF Param!Behind
<1>. DEFINE r == Param!ReplayBatches(f, z, k, s, first, count)
            H == {n \in 0..count : r[n] \in ParamStates(z)}
<1>3. /\ r[0] = s
      /\ \A i \in 1..count :
            r[i] = Param!ReplayBatch(z, k, r[i - 1], Param!LoggedIn(f, z, first + i - 1))
  <2>1. BatchByBatch(r, f, z, k, s, first, count)
    BY <1>2, ReplayBatchesIs
  <2>. HIDE DEF r
  <2>. QED  BY <2>1 DEF BatchByBatch
<1>4. Param!ReplayFor(f, z, k, s) = r[count]
  BY <1>1 DEF Param!ReplayFor
<1>. HIDE DEF r
<1>5. 0 \in H
  BY <1>2, <1>3
<1>6. ASSUME NEW n \in 0..count - 1, n \in H PROVE n + 1 \in H
  <2>1. /\ n + 1 \in 1..count /\ (n + 1) - 1 = n /\ first + (n + 1) - 1 \in Nat
        /\ n + 1 \in 0..count
    BY <1>2
  <2>2. PICK u, txs : u = r[n] /\ txs = Param!LoggedIn(f, z, first + (n + 1) - 1)
    OBVIOUS
  <2>3. u \in ParamStates(z) /\ txs \in Seq(Param!Transactions)
    BY <1>6, <2>1, <2>2, LoggedType
  <2>4. r[n + 1] = Param!ReplayBatch(z, k, u, txs)
    BY <1>3, <2>1, <2>2
  <2>. QED  BY <2>1, <2>3, <2>4, ReplayType
<1>7. count \in H
  <2>. HIDE DEF H
  <2>1. \A n \in 0..count : n \in H
    BY <1>2, <1>5, <1>6, UpTo
  <2>. QED  BY <1>2, <2>1
<1>. QED  BY <1>4, <1>7

\* Whatever is in the log, recovery gives each account a balance.
LEMMA RecoveryType ==
    ASSUME NEW z \in Sizes, NEW f, Fits(f, z)
    PROVE  Param!Recovery(f, z).balances \in ParamStates(z)
<1>1. PICK n : n = Param!ChunkCount(z) - 1
  OBVIOUS
<1>2. n \in Nat /\ 0 \in 0..n /\ Param!ChunkCount(z) = n + 1 /\ z.perChunk \in Nat
  BY <1>1, SizesAre
<1>3. Param!LoadedFrom(f, z) \in ParamStates(z)
  <2>. SUFFICES ASSUME NEW a \in Param!AllAccounts(z)
                PROVE  Param!LoadedFrom(f, z)[a] \in Int
    BY DEF Param!LoadedFrom, ParamStates
  <2>1. PICK k, i : k = a \div z.perChunk /\ i = a % z.perChunk
    OBVIOUS
  <2>2. k \in 0..n /\ i \in 0..z.perChunk - 1 /\ i + 1 \in 0..z.perChunk /\ i \in Int
    <3>1. k \in 0..n /\ i \in 0..z.perChunk - 1
      BY <1>1, <2>1, PlacesAre
    <3>. QED  BY <1>2, <3>1
  <2>3. Param!LoadedFrom(f, z)[a] \in {Param!Cell(f, Param!SnapshotAt(z, k) + 1 + i), 0}
    BY <2>1 DEF Param!LoadedFrom
  <2>4. Param!SnapshotAt(z, k) + 1 + i = Param!SnapshotAt(z, k) + (i + 1)
    <3>1. Param!SnapshotAt(z, k) \in Nat
      BY <1>1, <2>2, CellPlaces
    <3>. QED  BY <2>2, <3>1
  <2>5. SnapshotCell(f, z, k, i + 1) \in Int
    BY <1>1, <2>2, CellsAre
  <2>. QED  BY <2>3, <2>4, <2>5 DEF SnapshotCell
<1>. DEFINE g == Param!ReplayChunks(f, z)
            H == {j \in 0..n : g[j] \in ParamStates(z)}
<1>4. /\ g[0] = Param!LoadedFrom(f, z)
      /\ \A i \in 1..n : g[i] = Param!ReplayFor(f, z, Param!ChunkBefore(f, z, i), g[i - 1])
  BY <1>1, <1>2, ChunksAre
<1>5. g[n] = Param!ReplayChunks(f, z)[Param!ChunkCount(z) - 1]
  BY <1>1
<1>. HIDE DEF g
<1>6. 0 \in H
  BY <1>2, <1>3, <1>4
<1>7. ASSUME NEW j \in 0..n - 1, j \in H PROVE j + 1 \in H
  <2>1. j + 1 \in 1..n /\ (j + 1) - 1 = j /\ j + 1 \in 0..n
    BY <1>2
  <2>2. PICK k : k = Param!ChunkBefore(f, z, j + 1)
    OBVIOUS
  <2>3. k \in 0..Param!ChunkCount(z) - 1
    <3>1. PICK m : m = Param!LatestIn(f, z)
      OBVIOUS
    <3>2. m \in 0..n /\ k = (m - (j + 1)) % (n + 1)
      BY <1>1, <1>2, <2>2, <3>1, LatestExists DEF Param!ChunkBefore
    <3>3. k \in 0..n
      BY <1>2, <2>1, <3>2
    <3>. QED  BY <1>1, <3>3
  <2>4. g[j + 1] = Param!ReplayFor(f, z, k, g[j])
    BY <1>4, <2>1, <2>2
  <2>. QED  BY <1>7, <2>1, <2>3, <2>4, PassType
<1>8. n \in H
  <2>. HIDE DEF H
  <2>1. \A j \in 0..n : j \in H
    BY <1>2, <1>6, <1>7, UpTo
  <2>. QED  BY <1>2, <2>1
<1>. QED  BY <1>5, <1>8 DEF Param!Recovery, ParamStates

\* The log as a start leaves it: what was there, and zeros up to the length it needs.
LEMMA PreallocatedIs ==
    ASSUME NEW z \in Sizes, NEW f, f.cells \in Seq(Int)
    PROVE  LET g == Param!Preallocated(f, z)
           IN  /\ Fits(g, z)
               /\ g \in [header : {Param!HeaderOf(y) : y \in Sizes}, cells : Seq(Int)]
               /\ f.cells = <<>> => \A i \in 1..Len(g.cells) : g.cells[i] = 0
<1>1. PICK c, n, l : c = f.cells /\ n = Param!LogCells(z) /\ l = Len(f.cells)
  OBVIOUS
<1>2. c \in Seq(Int) /\ l \in Nat /\ l = Len(c)
  BY <1>1
<1>3. n \in Nat
  <2>1. 0 \in 0..Param!ChunkCount(z) - 1
    BY SizesAre
  <2>. QED  BY <1>1, <2>1, CellPlaces
<1>4. PICK m \in Nat : 1..m = 1..n - l /\ n <= l + m
  <2>1. CASE l <= n
    <3>1. n - l \in Nat /\ n <= l + (n - l)
      BY <1>2, <1>3, <2>1
    <3>. QED  BY <3>1
  <2>2. CASE ~(l <= n)
    <3>1. 1..0 = 1..n - l /\ n <= l + 0
      BY <1>2, <1>3, <2>2
    <3>. QED  BY <3>1
  <2>. QED  BY <2>1, <2>2
<1>5. PICK zeros : zeros = [i \in 1..n - l |-> 0]
  OBVIOUS
<1>6. zeros \in Seq(Int) /\ Len(zeros) = m /\ \A i \in 1..m : zeros[i] = 0
  <2>1. zeros \in [1..m -> Int] /\ \A i \in 1..m : zeros[i] = 0
    <3>1. zeros = [i \in 1..m |-> 0]
      BY <1>4, <1>5, Zenon
    <3>. QED  BY <3>1
  <2>2. zeros \in Seq(Int)
    BY <2>1, SeqDef
  <2>3. DOMAIN zeros = 1..m /\ DOMAIN zeros = 1..Len(zeros) /\ Len(zeros) \in Nat
    BY <2>1, <2>2
  <2>. QED  BY <2>1, <2>2, <2>3
<1>7. PICK all : all = c \o zeros
  OBVIOUS
<1>8. all \in Seq(Int) /\ Len(all) = l + m
  BY <1>2, <1>6, <1>7, ConcatProperties
<1>9. c = <<>> => \A i \in 1..Len(all) : all[i] = 0
  <2>. SUFFICES ASSUME c = <<>>, NEW i \in 1..Len(all) PROVE all[i] = 0
    OBVIOUS
  <2>1. all = zeros
    BY <1>6, <1>7
  <2>. QED  BY <1>6, <2>1
<1>10. Param!Preallocated(f, z) = [header |-> Param!HeaderOf(z), cells |-> all]
  BY <1>1, <1>5, <1>7 DEF Param!Preallocated, Param!Extended
<1>11. n <= Len(all)
  BY <1>3, <1>4, <1>8, <1>2
<1>12. PICK g : g = Param!Preallocated(f, z)
  OBVIOUS
<1>13. g.header = Param!HeaderOf(z) /\ g.cells = all
       /\ g \in [header : {Param!HeaderOf(y) : y \in Sizes}, cells : Seq(Int)]
  BY <1>8, <1>10, <1>12
<1>14. Fits(g, z)
  BY <1>1, <1>8, <1>11, <1>13 DEF Fits
<1>. QED  BY <1>1, <1>9, <1>12, <1>13, <1>14

\* A log of zeros only is taken, for the zero balances.
LEMMA ZerosAreNew ==
    ASSUME NEW z \in Sizes, NEW f, Fits(f, z), \A i \in 1..Len(f.cells) : f.cells[i] = 0
    PROVE  /\ \A k \in Param!ChunkIds(z), i \in 0..z.perChunk : SnapshotCell(f, z, k, i) = 0
           /\ Param!LoggedIn(f, z, 0) = <<>>
           /\ Param!Recovery(f, z).taken /\ Param!Recovery(f, z).balances = AllZero(z)
<1>1. PICK n, m, l, w, x, y :
         /\ n = Param!ChunkCount(z) - 1 /\ m = 3 * BatchSize /\ l = Len(f.cells)
         /\ w = z.perChunk /\ x = Param!ChunkCount(z) * Param!SlotCells(z)
         /\ y = Param!LogCells(z)
  OBVIOUS
<1>2. /\ n \in Nat /\ 0 \in 0..n /\ Param!ChunkIds(z) = 0..n
      /\ w \in Nat /\ m \in Nat /\ 0 \in 0..m
  <2>1. BatchSize \in Nat
    BY ParamConstants DEF Param!ParamAssumption
  <2>. QED  BY <1>1, <2>1, SizesAre DEF Param!ChunkIds
<1>3. l \in Nat /\ y <= l /\ x \in Nat /\ y \in Nat
  BY <1>1, <1>2, CellPlaces DEF Fits
<1>4. ASSUME NEW p \in Nat, p < l PROVE Param!Cell(f, p) = 0
  <2>1. p + 1 \in 1..l
    BY <1>3, <1>4
  <2>. QED  BY <1>1, <2>1 DEF Param!Cell
<1>5. ASSUME NEW k \in 0..n
      PROVE  /\ \A i \in 0..w : SnapshotCell(f, z, k, i) = 0
             /\ BatchCell(f, z, k, 0) = 0
  <2>1. PICK s, b : s = Param!SnapshotAt(z, k) /\ b = Param!BatchAt(z, k)
    OBVIOUS
  <2>2. s \in Nat /\ b \in Nat /\ s + w < x /\ x <= b /\ b + m < y
    BY <1>1, <2>1, CellPlaces
  <2>3. \A i \in 0..w : s + i \in Nat /\ s + i < l
    BY <1>2, <1>3, <2>2
  <2>4. b + 0 \in Nat /\ b + 0 < l
    BY <1>2, <1>3, <2>2
  <2>. QED  BY <1>4, <2>1, <2>3, <2>4 DEF SnapshotCell, BatchCell
<1>6. Param!LoggedIn(f, z, 0) = <<>>
  <2>1. PICK k : k = 0 % Param!ChunkCount(z)
    OBVIOUS
  <2>2. k \in 0..n
    BY <1>1, <2>1, LoggedIs
  <2>3. BatchCell(f, z, k, 0) = 0
    BY <1>5, <2>2
  <2>4. SlotCount(f, z, k) = 0
    <3>1. Word \in Nat /\ Word > 0 /\ BatchSize \in Nat
      BY ParamConstants DEF Param!ParamAssumption
    <3>2. Param!High(0) = 0
      BY <3>1 DEF Param!High
    <3>. QED  BY <2>3, <3>1, <3>2 DEF SlotCount
  <2>5. Param!LoggedIn(f, z, 0) =
           [i \in 1..0 |-> [sender   |-> BatchCell(f, z, k, 3 * i - 2),
                            receiver |-> BatchCell(f, z, k, 3 * i - 1),
                            amount   |-> BatchCell(f, z, k, 3 * i)]]
    BY <2>1, <2>4, LoggedIs
  <2>. QED  BY <2>5
<1>7. \A k \in Param!ChunkIds(z), i \in 0..z.perChunk : SnapshotCell(f, z, k, i) = 0
  BY <1>1, <1>2, <1>5
<1>8. Param!Recovery(f, z).balances = AllZero(z)
  BY <1>6, <1>7, NewLogRecovered
<1>9. Param!Recovery(f, z).taken
  <2>1. SnapshotCell(f, z, 0, 0) = 0
    BY <1>2, <1>5
  <2>2. Param!LabelOf(f, z, 0) = 0
    BY <1>1, <1>2, <2>1, ReadZero
  <2>3. PICK v : v = Param!LabelOf(f, z, Param!LatestIn(f, z))
    OBVIOUS
  <2>4. 0 <= v /\ v \in Int
    BY <1>1, <1>2, <2>2, <2>3, LatestExists
  <2>5. v # -1 /\ f.header = Param!HeaderOf(z)
    BY <2>4 DEF Fits
  <2>. QED  BY <2>3, <2>5 DEF Param!Recovery
<1>. QED  BY <1>6, <1>7, <1>8, <1>9

-----------------------------------------------------------------------------
\* Every step of the parameterized program keeps the invariant.

LEMMA ParamInitInv == Param!ParamInit => ParamInv
<1>. SUFFICES ASSUME Param!ParamInit PROVE ParamInv
  OBVIOUS
<1>1. main = "down" /\ worker = "idle" /\ applied = Param!NoBatch /\ size \in Sizes
      /\ total = 0 /\ logFile = Param!NoLog
  BY DEF Param!ParamInit
<1>2. <<>> \in Seq(Int) /\ MaxTotal \in Nat
  BY ParamConstants DEF Param!ParamAssumption
<1>. QED  BY <1>1, <1>2 DEF ParamInv, ParamTypes, Param!NoLog

\* The process is gone, with all that is not in the files.
LEMMA GoneKeeps == ParamInv /\ Param!Gone => ParamInv'
<1>. SUFFICES ASSUME ParamInv, Param!Gone PROVE ParamInv'
  OBVIOUS
<1>1. /\ main' = "down" /\ worker' = "idle" /\ applied' = Param!NoBatch
      /\ UNCHANGED <<size, total, logFile>>
  BY DEF Param!Gone
<1>. QED  BY <1>1 DEF ParamInv, ParamTypes

LEMMA ParamStutter == ParamInv /\ UNCHANGED Param!paramVars => ParamInv'
<1>. SUFFICES ASSUME ParamInv, UNCHANGED Param!paramVars PROVE ParamInv'
  OBVIOUS
<1>1. UNCHANGED <<size, main, worker, balances, next, applied, args, chunkData, logFile,
                  hashFile, reference, isReference, outcome, starts, total, states, batches,
                  done, fresh>>
  BY DEF Param!paramVars
<1>. QED  BY <1>1 DEF ParamInv, ParamTypes, ParamHistory, ParamExecuted, AsExecuted,
          ParamBuffer, ParamRing, ParamSaved, SnapshotsTaken, HoldsSnapshot, AccountAt,
          NeverWritten

\* Without a write to the log, and with the same run behind it, the ring stays.
LEMMA SameRing ==
    ASSUME ParamRing, UNCHANGED <<size, logFile, done, fresh>>,
           SnapshotsTaken' = SnapshotsTaken, done \in Nat, SnapshotsTaken \in Nat,
           \A b \in 1..SnapshotsTaken + 1 : states'[b] = states[b],
           \A b \in 1..done : batches'[b] = batches[b]
    PROVE  ParamRing'
<1>1. ASSUME NEW b \in 0..SnapshotsTaken - 1, SnapshotsTaken <= b + Param!ChunkCount(size)
      PROVE  HoldsSnapshot(b)'
  <2>1. HoldsSnapshot(b)
    BY <1>1 DEF ParamRing
  <2>2. states'[b + 2] = states[b + 2]
    BY <1>1
  <2>. QED  BY <2>1, <2>2 DEF HoldsSnapshot, AccountAt
<1>2. ASSUME NEW b \in 0..done - 1, done <= b + Param!ChunkCount(size)
      PROVE  Param!LoggedIn(logFile, size, b) = batches'[b + 1]
  <2>1. batches'[b + 1] = batches[b + 1]
    BY <1>2
  <2>. QED  BY <1>2, <2>1 DEF ParamRing
<1>3. states'[1] = states[1]
  OBVIOUS
<1>4. \A k : NeverWritten(k)' <=> NeverWritten(k)
  BY DEF NeverWritten
<1>5. AllZero(size)' = AllZero(size)
  BY DEF AllZero
<1>. QED  BY <1>1, <1>2, <1>3, <1>4, <1>5 DEF ParamRing

LEMMA SaveHashKeeps == ParamInv /\ Param!SaveHash => ParamInv'
<1>. SUFFICES ASSUME ParamInv, Param!SaveHash PROVE ParamInv'
  OBVIOUS
<1>1. /\ main = "loop" /\ main' \in {"saved", "unsaved"} /\ applied = Param!NoBatch
      /\ main' = "saved" /\ next > 0 =>
            /\ hashFile' = [label |-> next - 1, hash |-> Param!HashOf(size, balances)]
            /\ isReference => reference' = balances
      /\ UNCHANGED <<size, worker, balances, next, applied, args, chunkData, logFile,
                     isReference, total, states, batches, done, fresh>>
  BY DEF Param!SaveHash, Param!WriteFiles
<1>2. ParamTypes /\ ParamHistory /\ ParamExecuted /\ ParamBuffer /\ ParamRing
  BY <1>1 DEF ParamInv
<1>3. ParamTypes'
  BY <1>1, <1>2 DEF ParamTypes
<1>4. ParamHistory' /\ ParamExecuted' /\ ParamBuffer'
  BY <1>1, <1>2 DEF ParamHistory, ParamExecuted, AsExecuted, ParamBuffer, AccountAt
<1>5. ParamRing'
  BY <1>1, <1>2 DEF ParamRing, SnapshotsTaken, HoldsSnapshot, AccountAt, NeverWritten
<1>6. ParamSaved'
  BY <1>1 DEF ParamSaved
<1>. QED  BY <1>3, <1>4, <1>5, <1>6 DEF ParamInv

\* Main hands a batch over, with the chunk as it is after it.
LEMMA HandOverKeeps == ParamInv /\ Param!HandOver => ParamInv'
<1>. SUFFICES ASSUME ParamInv, Param!HandOver PROVE ParamInv'
  OBVIOUS
<1>1. /\ main = "loop" /\ applied # Param!NoBatch /\ worker = "idle"
      /\ args' = [batch |-> next, txs |-> applied]
      /\ chunkData' = [i \in 0..size.perChunk - 1 |->
                         balances[(next % Param!ChunkCount(size)) * size.perChunk + i]]
      /\ worker' = "snapshot" /\ applied' = Param!NoBatch /\ next' = next + 1
      /\ UNCHANGED <<size, main, balances, logFile, hashFile, reference, isReference, total,
                     states, batches, done, fresh>>
  BY DEF Param!HandOver
<1>2. ParamTypes /\ ParamHistory /\ ParamExecuted /\ ParamBuffer /\ ParamRing
  BY <1>1 DEF ParamInv
<1>3. /\ done \in Nat /\ next = done /\ Len(batches) = done + 1 /\ Len(states) = done + 2
      /\ applied = batches[done + 1] /\ balances = states[done + 2]
  <2>1. /\ done \in Nat /\ next = (IF worker = "idle" THEN done ELSE done + 1)
        /\ Len(batches) = (IF applied = Param!NoBatch THEN next ELSE next + 1)
        /\ Len(states) = Len(batches) + 1 /\ balances = states[Len(states)]
        /\ applied # Param!NoBatch => applied = batches[next + 1]
    BY <1>2 DEF ParamHistory
  <2>2. next = done /\ Len(batches) = done + 1
    BY <1>1, <2>1
  <2>3. Len(states) = done + 2
    BY <2>1, <2>2
  <2>. QED  BY <1>1, <2>1, <2>2, <2>3
<1>4. ParamTypes'
  BY <1>1, <1>2 DEF ParamTypes
<1>5. ParamHistory'
  <2>1. /\ Fits(logFile, size)' /\ states' \in Seq(ParamStates(size)')
        /\ batches' \in Seq(ParamBatches) /\ Len(states') = Len(batches') + 1
        /\ Len(batches') <= total' /\ balances' = states'[Len(states')]
    BY <1>1, <1>2 DEF ParamHistory, ParamStates
  <2>2. /\ done' \in Nat /\ next' = done' + 1 /\ Len(batches') = next'
        /\ args' = [batch |-> done', txs |-> batches'[done' + 1]]
    BY <1>1, <1>3
  <2>. QED  BY <1>1, <2>1, <2>2 DEF ParamHistory
<1>6. ParamExecuted'
  BY <1>1, <1>2 DEF ParamExecuted, AsExecuted
<1>7. ParamBuffer'
  BY <1>1, <1>3 DEF ParamBuffer, AccountAt
<1>8. ParamRing'
  BY <1>1, <1>2 DEF ParamRing, SnapshotsTaken, HoldsSnapshot, AccountAt, NeverWritten
<1>9. ParamSaved'
  BY <1>1 DEF ParamSaved
<1>. QED  BY <1>4, <1>5, <1>6, <1>7, <1>8, <1>9 DEF ParamInv

\* Main reads a batch and executes it.
LEMMA ReadAndApplyKeeps == ParamInv /\ Param!ReadAndApply => ParamInv'
<1>. SUFFICES ASSUME ParamInv, Param!ReadAndApply PROVE ParamInv'
  OBVIOUS
<1>1. /\ main = "loop" /\ applied = Param!NoBatch /\ total < MaxTotal /\ total' = total + 1
      /\ states' = Append(states, balances') /\ batches' = Append(batches, applied')
      /\ UNCHANGED <<size, main, worker, next, args, chunkData, logFile, hashFile, reference,
                     isReference, done, fresh>>
  BY DEF Param!ReadAndApply
<1>2. PICK txs \in Inputs : /\ balances' = Param!ExecutedEach(size, balances, txs)[Len(txs)]
                            /\ applied' = Param!ToLog(size, balances, txs)
  BY DEF Param!ReadAndApply
<1>3. ParamTypes /\ ParamHistory /\ ParamExecuted /\ ParamBuffer /\ ParamRing
      /\ size \in Sizes
  BY <1>1 DEF ParamInv, ParamTypes
<1>4. PICK m : m = Len(batches)
  OBVIOUS
<1>5. /\ m \in Nat /\ m = next /\ done \in Nat
      /\ m = (IF worker = "idle" THEN done ELSE done + 1)
      /\ Len(states) = m + 1 /\ balances = states[m + 1] /\ m <= total
      /\ states \in Seq(ParamStates(size)) /\ batches \in Seq(ParamBatches)
      /\ balances \in ParamStates(size)
  <2>1. /\ batches \in Seq(ParamBatches) /\ states \in Seq(ParamStates(size))
        /\ Len(states) = m + 1 /\ m <= total /\ balances = states[Len(states)]
        /\ done \in Nat /\ next = (IF worker = "idle" THEN done ELSE done + 1)
        /\ m = next
    BY <1>1, <1>3, <1>4 DEF ParamHistory
  <2>2. m \in Nat
    BY <1>4, <2>1
  <2>3. m + 1 \in 1..m + 1
    BY <2>2
  <2>4. balances = states[m + 1]
    BY <2>1
  <2>5. states[m + 1] \in ParamStates(size)
    BY <2>1, <2>3
  <2>. QED  BY <2>1, <2>2, <2>4, <2>5
<1>6. balances' \in ParamStates(size) /\ applied' \in ParamBatches /\ applied' # Param!NoBatch
  <2>1. txs \in ParamBatches /\ 0 \in Param!AllAccounts(size)
    BY <1>3, ParamConstants, FirstAccount DEF Param!ParamAssumption, ParamBatches
  <2>2. Len(txs) = BatchSize /\ BatchSize \in Nat \ {0}
    BY <2>1, BatchIsSeq
  <2>3. PICK new, e : /\ new = Param!ToLog(size, balances, txs)
                      /\ e = Param!ExecutedEach(size, balances, txs)[BatchSize]
    OBVIOUS
  <2>4. new \in ParamBatches /\ e \in ParamStates(size)
    BY <1>3, <1>5, <2>1, <2>3, RedoneBatch
  <2>5. Len(new) = BatchSize /\ Len(<<>>) = 0
    BY <2>4, BatchIsSeq
  <2>. QED  BY <1>2, <2>2, <2>3, <2>4, <2>5 DEF Param!NoBatch
<1>7. /\ states' \in Seq(ParamStates(size)) /\ Len(states') = m + 2
      /\ \A b \in 1..m + 1 : states'[b] = states[b]
      /\ states'[m + 2] = balances'
  BY <1>1, <1>5, <1>6
<1>8. /\ batches' \in Seq(ParamBatches) /\ Len(batches') = m + 1
      /\ \A b \in 1..m : batches'[b] = batches[b]
      /\ batches'[m + 1] = applied'
  <2>1. PICK old, new : old = batches /\ new = applied'
    OBVIOUS
  <2>2. old \in Seq(ParamBatches) /\ new \in ParamBatches /\ Len(old) = m
    BY <1>4, <1>5, <1>6, <2>1
  <2>3. /\ Append(old, new) \in Seq(ParamBatches) /\ Len(Append(old, new)) = m + 1
        /\ \A b \in 1..m : Append(old, new)[b] = old[b]
        /\ Append(old, new)[m + 1] = new
    BY <2>2, AppendProperties
  <2>. QED  BY <1>1, <2>1, <2>3
<1>9. total \in 0..MaxTotal /\ MaxTotal \in Nat
  BY <1>3, ParamConstants DEF ParamTypes, Param!ParamAssumption
<1>10. ParamTypes'
  <2>1. total' \in 0..MaxTotal
    BY <1>1, <1>9
  <2>2. main' # "down" /\ UNCHANGED <<size, main, worker, logFile>>
    BY <1>1
  <2>. QED  BY <1>3, <2>1, <2>2 DEF ParamTypes
<1>11. ParamHistory'
  <2>1. Fits(logFile, size)' /\ ParamStates(size)' = ParamStates(size)
    BY <1>1, <1>3 DEF ParamHistory, ParamStates
  <2>2. /\ Len(states') = Len(batches') + 1 /\ Len(batches') <= total'
        /\ balances' = states'[Len(states')] /\ Len(batches') = next' + 1
        /\ applied' = batches'[next' + 1]
    BY <1>1, <1>5, <1>7, <1>8, <1>9
  <2>3. done' \in Nat /\ next' = (IF worker' = "idle" THEN done' ELSE done' + 1)
    BY <1>1, <1>5
  <2>4. worker' # "idle" => args' = [batch |-> done', txs |-> batches'[done' + 1]]
    <3>1. worker # "idle" => /\ args = [batch |-> done, txs |-> batches[done + 1]]
                             /\ done + 1 \in 1..m
      BY <1>3, <1>5 DEF ParamHistory
    <3>. QED  BY <1>1, <1>8, <3>1
  <2>. QED  BY <1>6, <1>7, <1>8, <2>1, <2>2, <2>3, <2>4 DEF ParamHistory
<1>12. ParamExecuted'
  <2>. SUFFICES ASSUME NEW i \in 1..Len(batches') PROVE \E t \in Inputs : AsExecuted(i, t)'
    BY DEF ParamExecuted
  <2>1. CASE i \in 1..m
    <3>1. PICK t \in Inputs : AsExecuted(i, t)
      BY <1>3, <1>4, <2>1 DEF ParamExecuted
    <3>2. /\ states'[i] = states[i] /\ states'[i + 1] = states[i + 1]
          /\ batches'[i] = batches[i]
      BY <1>5, <1>7, <1>8, <2>1
    <3>. QED  BY <1>1, <3>1, <3>2 DEF AsExecuted
  <2>2. CASE i = m + 1
    <3>1. states'[i] = balances /\ states'[i + 1] = balances' /\ batches'[i] = applied'
      BY <1>5, <1>7, <1>8, <2>2
    <3>. QED  BY <1>1, <1>2, <3>1 DEF AsExecuted
  <2>. QED  BY <1>5, <1>8, <2>1, <2>2
<1>13. ParamBuffer'
  <2>. SUFFICES ASSUME worker = "snapshot", NEW i \in 0..size.perChunk - 1
                PROVE  chunkData[i] = states'[done + 2][AccountAt(size, done, i)]
    BY <1>1 DEF ParamBuffer, AccountAt
  <2>1. chunkData[i] = states[done + 2][AccountAt(size, done, i)]
    BY <1>3 DEF ParamBuffer
  <2>2. states'[done + 2] = states[done + 2]
    BY <1>5, <1>7
  <2>. QED  BY <2>1, <2>2
<1>14. ParamRing'
  <2>1. SnapshotsTaken' = SnapshotsTaken /\ SnapshotsTaken \in Nat /\ SnapshotsTaken <= m
        /\ done <= m
    BY <1>1, <1>5 DEF SnapshotsTaken
  <2>2. /\ \A b \in 1..SnapshotsTaken + 1 : states'[b] = states[b]
        /\ \A b \in 1..done : batches'[b] = batches[b]
    BY <1>5, <1>7, <1>8, <2>1
  <2>. QED  BY <1>1, <1>3, <1>5, <2>1, <2>2, SameRing
<1>15. ParamSaved'
  BY <1>1 DEF ParamSaved
<1>. QED  BY <1>10, <1>11, <1>12, <1>13, <1>14, <1>15 DEF ParamInv

\* The worker copies the snapshot of the batch it has.
LEMMA CopySnapshotStep == ParamInv /\ Param!CopySnapshot => ParamInv'
<1>. SUFFICES ASSUME ParamInv, Param!CopySnapshot PROVE ParamInv'
  OBVIOUS
<1>1. /\ main # "down" /\ worker = "snapshot" /\ worker' = "batch"
      /\ UNCHANGED <<size, main, balances, next, applied, args, chunkData, hashFile, reference,
                     isReference, total, states, batches, done, fresh>>
  BY DEF Param!CopySnapshot
<1>2. ParamTypes /\ ParamHistory /\ ParamExecuted /\ ParamBuffer /\ ParamRing /\ ParamSaved
      /\ size \in Sizes
  BY <1>1 DEF ParamInv, ParamTypes
<1>3. done \in Nat /\ done + 1 <= Len(batches) /\ args.batch = done /\ done \in Int
  BY <1>1, <1>2, RunCounts DEF ParamHistory
<1>4. PICK n, k : n = Param!ChunkCount(size) /\ k = done % Param!ChunkCount(size)
  OBVIOUS
<1>5. n \in Nat \ {0} /\ k \in 0..n - 1 /\ k = done % n
  <2>1. n \in Nat \ {0} /\ k = done % n
    BY <1>2, <1>4, SizesAre
  <2>. QED  BY <1>3, <2>1
<1>6. PICK new : new = Param!SnapshotSlot(size, done, chunkData)
  OBVIOUS
<1>7. /\ new \in Seq(Int) /\ Len(new) = Param!SlotCells(size) /\ new[1] = done + Word * k
      /\ \A i \in 0..size.perChunk - 1 :
            new[i + 2] = states[done + 2][AccountAt(size, done, i)]
  <2>1. PICK m : m = 1 + size.perChunk
    OBVIOUS
  <2>2. m \in Nat /\ 1 \in 1..m /\ Param!SlotCells(size) = m /\ size.perChunk \in Nat
    BY <1>2, <2>1, SizesAre DEF Param!SlotCells
  <2>3. new = [i \in 1..m |-> IF i = 1 THEN done + Word * k ELSE chunkData[i - 2]]
    BY <1>4, <1>6, <2>2 DEF Param!SnapshotSlot
  <2>4. done + Word * k \in Int
    <3>1. Word \in Nat
      BY ParamConstants DEF Param!ParamAssumption
    <3>. QED  BY <1>3, <1>5, <3>1
  <2>5. ASSUME NEW i \in 0..size.perChunk - 1
        PROVE  /\ new[i + 2] = states[done + 2][AccountAt(size, done, i)]
               /\ new[i + 2] \in Int
    <3>1. i + 2 \in 1..m /\ i + 2 # 1 /\ (i + 2) - 2 = i
      BY <2>1, <2>2
    <3>2. new[i + 2] = chunkData[i]
      BY <2>3, <3>1
    <3>3. chunkData[i] = states[done + 2][AccountAt(size, done, i)]
      BY <1>1, <1>2 DEF ParamBuffer
    <3>4. states[done + 2] \in ParamStates(size)
      <4>1. done + 2 \in 1..Len(batches) + 1
        BY <1>2, <1>3, RunCounts
      <4>. QED  BY <1>2, <4>1, RunCounts
    <3>5. AccountAt(size, done, i) \in Param!AllAccounts(size)
      BY <1>2, <1>4, <1>5, PlacesAre DEF AccountAt
    <3>. QED  BY <3>2, <3>3, <3>4, <3>5 DEF ParamStates
  <2>6. \A j \in 1..m : new[j] \in Int
    <3>. SUFFICES ASSUME NEW j \in 1..m, j # 1 PROVE new[j] \in Int
      BY <2>2, <2>3, <2>4
    <3>1. j - 2 \in 0..size.perChunk - 1 /\ (j - 2) + 2 = j
      BY <2>1, <2>2
    <3>. QED  BY <2>5, <3>1
  <2>7. new \in [1..m -> Int]
    BY <2>3, <2>6
  <2>8. new \in Seq(Int)
    BY <2>2, <2>7, SeqDef
  <2>9. DOMAIN new = 1..m /\ DOMAIN new = 1..Len(new) /\ Len(new) \in Nat
    BY <2>7, <2>8
  <2>. QED  BY <2>2, <2>3, <2>5, <2>8, <2>9
<1>8. /\ logFile' \in
           [header : {<<>>} \union {Param!HeaderOf(z) : z \in Sizes}, cells : Seq(Int)]
      /\ Fits(logFile', size)
      /\ \A i \in 0..size.perChunk : SnapshotCell(logFile', size, k, i) = new[i + 1]
      /\ \A j \in 0..n - 1, i \in 0..size.perChunk :
            j # k => SnapshotCell(logFile', size, j, i) = SnapshotCell(logFile, size, j, i)
      /\ \A b \in Nat : Param!LoggedIn(logFile', size, b) = Param!LoggedIn(logFile, size, b)
  <2>1. logFile \in [header : {<<>>} \union {Param!HeaderOf(z) : z \in Sizes}, cells : Seq(Int)]
        /\ Fits(logFile, size)
    BY <1>2 DEF ParamTypes, ParamHistory
  <2>2. logFile' = [logFile EXCEPT
            !.cells = Param!Store(logFile.cells, Param!SnapshotAt(size, k), new)]
    BY <1>3, <1>4, <1>6 DEF Param!CopySnapshot
  <2>3. /\ logFile'.header = logFile.header
        /\ logFile'.cells = Param!Store(logFile.cells, Param!SnapshotAt(size, k), new)
        /\ logFile' = [header |-> logFile'.header, cells |-> logFile'.cells]
    BY <2>1, <2>2
  <2>4. /\ Fits(logFile', size)
        /\ \A i \in 0..size.perChunk : SnapshotCell(logFile', size, k, i) = new[i + 1]
        /\ \A j \in 0..n - 1, i \in 0..size.perChunk :
              j # k => SnapshotCell(logFile', size, j, i) = SnapshotCell(logFile, size, j, i)
        /\ \A b \in Nat : Param!LoggedIn(logFile', size, b) = Param!LoggedIn(logFile, size, b)
    BY <1>2, <1>4, <1>5, <1>7, <2>1, <2>3, SnapshotStored
  <2>5. logFile'.cells \in Seq(Int)
    BY <2>4 DEF Fits
  <2>. QED  BY <2>1, <2>3, <2>4, <2>5
<1>9. ParamTypes'
  BY <1>1, <1>2, <1>8 DEF ParamTypes
<1>10. ParamHistory'
  BY <1>1, <1>2, <1>8 DEF ParamHistory, ParamStates
<1>11. ParamExecuted' /\ ParamBuffer' /\ ParamSaved'
  BY <1>1, <1>2 DEF ParamExecuted, AsExecuted, ParamBuffer, ParamSaved
<1>12. SnapshotsTaken = done /\ SnapshotsTaken' = done + 1
  BY <1>1 DEF SnapshotsTaken
<1>13. ASSUME NEW b \in 0..done, done + 1 <= b + n PROVE HoldsSnapshot(b)'
  <2>1. PICK j : j = b % n
    OBVIOUS
  <2>2. j \in 0..n - 1
    BY <1>3, <1>5, <2>1
  <2>3. CASE b = done
    <3>1. j = k
      BY <1>5, <2>1, <2>3
    <3>2. /\ SnapshotCell(logFile', size, k, 0) = new[1]
          /\ \A i \in 0..size.perChunk - 1 : SnapshotCell(logFile', size, k, i + 1) = new[i + 2]
      <4>1. size.perChunk \in Nat
        BY <1>2, SizesAre
      <4>2. 0 \in 0..size.perChunk /\ 0 + 1 = 1
        BY <4>1
      <4>3. \A i \in 0..size.perChunk - 1 : i + 1 \in 0..size.perChunk /\ (i + 1) + 1 = i + 2
        BY <4>1
      <4>. QED  BY <1>8, <4>2, <4>3
    <3>3. SnapshotCell(logFile', size, k, 0) = b + Word * k
      BY <1>7, <2>3, <3>2
    <3>. QED  BY <1>1, <1>4, <1>7, <2>1, <2>3, <3>1, <3>2, <3>3 DEF HoldsSnapshot, AccountAt
  <2>4. CASE b # done
    <3>1. b \in 0..done - 1 /\ done <= b + n /\ b \in Int /\ b < done /\ done < b + n
      BY <1>3, <1>5, <1>13, <2>4
    <3>2. j # k
      BY <1>3, <1>5, <2>1, <3>1, ApartInRing
    <3>3. HoldsSnapshot(b)
      BY <1>2, <1>4, <1>12, <3>1 DEF ParamRing
    <3>4. \A i \in 0..size.perChunk :
             SnapshotCell(logFile', size, j, i) = SnapshotCell(logFile, size, j, i)
      BY <1>8, <2>2, <3>2
    <3>5. /\ 0 \in 0..size.perChunk
          /\ \A i \in 0..size.perChunk - 1 : i + 1 \in 0..size.perChunk
      BY <1>2, SizesAre
    <3>. QED  BY <1>1, <1>4, <2>1, <3>3, <3>4, <3>5 DEF HoldsSnapshot, AccountAt
  <2>. QED  BY <2>3, <2>4
<1>14. ASSUME fresh, NEW j \in 0..n - 1, done + 1 <= j PROVE NeverWritten(j)'
  <2>1. k = done /\ j # k /\ done <= j
    BY <1>3, <1>5, <1>14
  <2>2. NeverWritten(j)
    BY <1>2, <1>4, <1>12, <1>14, <2>1 DEF ParamRing, Param!ChunkIds
  <2>. QED  BY <1>1, <1>8, <2>1, <2>2 DEF NeverWritten
<1>15. ParamRing'
  <2>1. /\ \A b \in 0..done - 1 :
             done <= b + n => Param!LoggedIn(logFile, size, b) = batches[b + 1]
        /\ fresh => states[1] = AllZero(size)
        /\ fresh /\ done = 0 => Param!LoggedIn(logFile, size, 0) = <<>>
    BY <1>2, <1>4 DEF ParamRing
  <2>2. \A b \in 0..done - 1 : b \in Nat
    BY <1>3
  <2>3. /\ \A b \in 0..done - 1 :
             done <= b + n => Param!LoggedIn(logFile', size, b) = batches[b + 1]
        /\ fresh /\ done = 0 => Param!LoggedIn(logFile', size, 0) = <<>>
    BY <1>8, <2>1, <2>2
  <2>4. \A b \in 0..SnapshotsTaken' - 1 : b \in 0..done
    BY <1>3, <1>12
  <2>5. Param!ChunkCount(size') = n /\ Param!ChunkIds(size') = 0..n - 1
    BY <1>1, <1>4 DEF Param!ChunkIds
  <2>. QED  BY <1>1, <1>12, <1>13, <1>14, <2>1, <2>3, <2>4, <2>5 DEF ParamRing, AllZero
<1>. QED  BY <1>9, <1>10, <1>11, <1>15 DEF ParamInv

\* It copies the batch and reports.
LEMMA CopyBatchStep == ParamInv /\ Param!CopyBatch => ParamInv'
<1>. SUFFICES ASSUME ParamInv, Param!CopyBatch PROVE ParamInv'
  OBVIOUS
<1>1. /\ main # "down" /\ worker = "batch" /\ worker' = "idle" /\ done' = done + 1
      /\ args' = Param!NoArgs
      /\ UNCHANGED <<size, main, balances, next, applied, chunkData, hashFile, reference,
                     isReference, total, states, batches, fresh>>
  BY DEF Param!CopyBatch
<1>2. ParamTypes /\ ParamHistory /\ ParamExecuted /\ ParamRing /\ ParamSaved /\ size \in Sizes
  BY <1>1 DEF ParamInv, ParamTypes
<1>3. /\ done \in Nat /\ done + 1 <= Len(batches) /\ Len(batches) \in Nat
      /\ args = [batch |-> done, txs |-> batches[done + 1]] /\ done \in Int
  BY <1>1, <1>2, RunCounts DEF ParamHistory
<1>4. PICK n, k : n = Param!ChunkCount(size) /\ k = done % Param!ChunkCount(size)
  OBVIOUS
<1>5. n \in Nat \ {0} /\ k \in 0..n - 1 /\ k = done % n
  <2>1. n \in Nat \ {0} /\ k = done % n
    BY <1>2, <1>4, SizesAre
  <2>. QED  BY <1>3, <2>1
<1>6. PICK txs, new : txs = batches[done + 1] /\ new = Param!BatchSlot(done, txs)
  OBVIOUS
<1>7. /\ txs \in ParamBatches /\ new \in Seq(Int) /\ Len(new) = Param!BatchCells
      /\ done < Word
  <2>1. done + 1 \in 1..Len(batches)
    BY <1>3
  <2>2. txs \in ParamBatches
    BY <1>2, <1>6, <2>1, RunCounts
  <2>3. Word \in Nat /\ total \in Nat /\ Len(batches) <= total /\ total < Word
    BY <1>2, RunCounts, ParamConstants DEF Param!ParamAssumption
  <2>. QED  BY <1>3, <1>6, <2>2, <2>3, BatchSlotIs
<1>8. /\ logFile' \in
           [header : {<<>>} \union {Param!HeaderOf(z) : z \in Sizes}, cells : Seq(Int)]
      /\ Fits(logFile', size)
      /\ \A j \in 0..n - 1, i \in 0..size.perChunk :
            SnapshotCell(logFile', size, j, i) = SnapshotCell(logFile, size, j, i)
      /\ \A b \in Nat :
            b % n # k => Param!LoggedIn(logFile', size, b) = Param!LoggedIn(logFile, size, b)
      /\ Param!LoggedIn(logFile', size, done) = txs
  <2>1. logFile \in [header : {<<>>} \union {Param!HeaderOf(z) : z \in Sizes}, cells : Seq(Int)]
        /\ Fits(logFile, size)
    BY <1>2 DEF ParamTypes, ParamHistory
  <2>2. logFile' = [logFile EXCEPT
            !.cells = Param!Store(logFile.cells, Param!BatchAt(size, k), new)]
    BY <1>3, <1>4, <1>6 DEF Param!CopyBatch
  <2>3. /\ logFile'.header = logFile.header
        /\ logFile'.cells = Param!Store(logFile.cells, Param!BatchAt(size, k), new)
        /\ logFile' = [header |-> logFile'.header, cells |-> logFile'.cells]
    BY <2>1, <2>2
  <2>4. /\ Fits(logFile', size)
        /\ \A i \in 0..3 * BatchSize : BatchCell(logFile', size, k, i) = new[i + 1]
        /\ \A j \in 0..n - 1, i \in 0..size.perChunk :
              SnapshotCell(logFile', size, j, i) = SnapshotCell(logFile, size, j, i)
        /\ \A b \in Nat :
              b % n # k => Param!LoggedIn(logFile', size, b) = Param!LoggedIn(logFile, size, b)
    BY <1>2, <1>4, <1>5, <1>7, <2>1, <2>3, BatchStored, SMTT(60)
  <2>5. logFile'.cells \in Seq(Int)
    BY <2>4 DEF Fits
  <2>6. Param!LoggedIn(logFile', size, done) = txs
    BY <1>2, <1>3, <1>4, <1>6, <1>7, <2>4, BatchReadBack
  <2>. QED  BY <2>1, <2>3, <2>4, <2>5, <2>6
<1>9. ParamTypes'
  <2>1. main' # "down"
    BY <1>1
  <2>. QED  BY <1>1, <1>2, <1>8, <2>1 DEF ParamTypes
<1>10. ParamHistory'
  <2>1. /\ states \in Seq(ParamStates(size)) /\ batches \in Seq(ParamBatches)
        /\ Len(states) = Len(batches) + 1 /\ Len(batches) <= total
        /\ balances = states[Len(states)] /\ next = done + 1
        /\ Len(batches) = (IF applied = Param!NoBatch THEN next ELSE next + 1)
        /\ applied # Param!NoBatch => applied = batches[next + 1]
    BY <1>1, <1>2 DEF ParamHistory
  <2>2. /\ done' \in Nat /\ next' = done' /\ ParamStates(size)' = ParamStates(size)
        /\ Fits(logFile, size)'
    BY <1>1, <1>3, <1>8, <2>1 DEF ParamStates
  <2>. QED  BY <1>1, <2>1, <2>2 DEF ParamHistory
<1>11. ParamExecuted' /\ ParamBuffer' /\ ParamSaved'
  BY <1>1, <1>2 DEF ParamExecuted, AsExecuted, ParamBuffer, ParamSaved
<1>12. SnapshotsTaken = done + 1 /\ SnapshotsTaken' = done + 1
  BY <1>1 DEF SnapshotsTaken
<1>13. ASSUME NEW b \in 0..done, done + 1 <= b + n PROVE HoldsSnapshot(b)'
  <2>1. b \in 0..SnapshotsTaken - 1 /\ SnapshotsTaken <= b + Param!ChunkCount(size)
    BY <1>3, <1>4, <1>12, <1>13
  <2>2. HoldsSnapshot(b)
    BY <1>2, <2>1 DEF ParamRing
  <2>3. b % n \in 0..n - 1
    BY <1>3, <1>5
  <2>4. /\ 0 \in 0..size.perChunk
        /\ \A i \in 0..size.perChunk - 1 : i + 1 \in 0..size.perChunk
    BY <1>2, SizesAre
  <2>. QED  BY <1>1, <1>4, <1>8, <2>2, <2>3, <2>4 DEF HoldsSnapshot, AccountAt
<1>14. ASSUME NEW b \in 0..done, done + 1 <= b + n
       PROVE  Param!LoggedIn(logFile', size, b) = batches[b + 1]
  <2>1. CASE b = done
    BY <1>6, <1>8, <2>1
  <2>2. CASE b # done
    <3>1. /\ b \in 0..done - 1 /\ done <= b + n
          /\ b \in Int /\ b \in Nat /\ b < done /\ done < b + n
      BY <1>3, <1>5, <1>14, <2>2
    <3>2. b % n # k
      BY <1>3, <1>5, <3>1, ApartInRing
    <3>3. Param!LoggedIn(logFile, size, b) = batches[b + 1]
      BY <1>2, <1>4, <3>1 DEF ParamRing
    <3>. QED  BY <1>8, <3>1, <3>2, <3>3
  <2>. QED  BY <2>1, <2>2
<1>15. ASSUME fresh, NEW j \in 0..n - 1, done + 1 <= j PROVE NeverWritten(j)'
  <2>1. NeverWritten(j)
    BY <1>2, <1>4, <1>12, <1>15 DEF ParamRing, Param!ChunkIds
  <2>. QED  BY <1>1, <1>8, <2>1 DEF NeverWritten
<1>16. ParamRing'
  <2>1. fresh => states[1] = AllZero(size)
    BY <1>2 DEF ParamRing
  <2>2. /\ \A b \in 0..SnapshotsTaken' - 1 : b \in 0..done
        /\ \A b \in 0..done' - 1 : b \in 0..done
        /\ done' # 0
    BY <1>1, <1>3, <1>12
  <2>3. Param!ChunkCount(size') = n /\ Param!ChunkIds(size') = 0..n - 1
    BY <1>1, <1>4 DEF Param!ChunkIds
  <2>. QED  BY <1>1, <1>12, <1>13, <1>14, <1>15, <2>1, <2>2, <2>3 DEF ParamRing, AllZero
<1>. QED  BY <1>9, <1>10, <1>11, <1>16 DEF ParamInv

\* A start, with any sizes, on what the earlier runs have left.
LEMMA StartKeeps == ParamInv /\ Param!Start => ParamInv'
<1>. SUFFICES ASSUME ParamInv, Param!Start PROVE ParamInv'
  OBVIOUS
<1>1. PICK z \in Sizes, saveref \in BOOLEAN : Param!StartWith(z, saveref)
  BY DEF Param!Start
<1>2. PICK old, from, r :
         /\ old = (IF saveref THEN Param!NoLog ELSE logFile)
         /\ r = Param!Recovery(Param!Preallocated(old, z), z)
         /\ from = IF r.taken THEN r.balances ELSE Param!DefaultBalances(z)
  OBVIOUS
<1>3. /\ main = "down" /\ size' = z /\ logFile' = Param!Preallocated(old, z)
      /\ balances' = from /\ states' = <<from>> /\ fresh' = (old = Param!NoLog)
      /\ main' = "loop" /\ next' = 0 /\ batches' = <<>> /\ done' = 0
      /\ UNCHANGED <<worker, applied, args, total>>
  BY <1>1, <1>2 DEF Param!StartWith
<1>4. worker = "idle" /\ applied = Param!NoBatch /\ total \in 0..MaxTotal /\ total \in Nat
      /\ logFile.cells \in Seq(Int)
  BY <1>3, ParamConstants DEF ParamInv, ParamTypes, Param!ParamAssumption
<1>5. old.cells \in Seq(Int) /\ (old = Param!NoLog => old.cells = <<>>)
  <2>1. Param!NoLog.cells = <<>> /\ <<>> \in Seq(Int)
    BY DEF Param!NoLog
  <2>. QED  BY <1>2, <1>4, <2>1
<1>6. /\ Fits(logFile', z)
      /\ logFile' \in [header : {Param!HeaderOf(y) : y \in Sizes}, cells : Seq(Int)]
      /\ fresh' => \A i \in 1..Len(logFile'.cells) : logFile'.cells[i] = 0
  BY <1>3, <1>5, PreallocatedIs
<1>7. r = Param!Recovery(logFile', z) /\ from \in ParamStates(z)
  <2>1. r.balances \in ParamStates(z)
    BY <1>2, <1>3, <1>6, RecoveryType
  <2>2. Param!DefaultBalances(z) \in ParamStates(z)
    BY DEF Param!DefaultBalances, ParamStates
  <2>. QED  BY <1>2, <1>3, <2>1, <2>2
<1>8. ParamTypes'
  <2>1. logFile' \in
          [header : {<<>>} \union {Param!HeaderOf(y) : y \in Sizes}, cells : Seq(Int)]
    BY <1>6
  <2>2. main' # "down"
    BY <1>3
  <2>. QED  BY <1>3, <1>4, <2>1, <2>2 DEF ParamTypes
<1>9. ParamHistory'
  <2>1. states' \in Seq(ParamStates(z)) /\ Len(states') = 1 /\ states'[1] = from
    BY <1>3, <1>7
  <2>2. batches' \in Seq(ParamBatches) /\ Len(batches') = 0
    BY <1>3
  <2>. QED  BY <1>3, <1>4, <1>6, <2>1, <2>2 DEF ParamHistory, ParamStates
<1>10. ParamExecuted' /\ ParamBuffer' /\ ParamSaved'
  BY <1>3, <1>4 DEF ParamExecuted, ParamBuffer, ParamSaved
<1>11. ParamRing'
  <2>1. SnapshotsTaken' = 0
    BY <1>3, <1>4 DEF SnapshotsTaken
  <2>2. ASSUME fresh'
        PROVE  /\ states'[1] = AllZero(z) /\ Param!LoggedIn(logFile', z, 0) = <<>>
               /\ \A k \in Param!ChunkIds(z), i \in 0..z.perChunk :
                     SnapshotCell(logFile', z, k, i) = 0
    <3>1. /\ r.taken /\ r.balances = AllZero(z) /\ Param!LoggedIn(logFile', z, 0) = <<>>
          /\ \A k \in Param!ChunkIds(z), i \in 0..z.perChunk :
                SnapshotCell(logFile', z, k, i) = 0
      BY <1>6, <1>7, <2>2, ZerosAreNew
    <3>. QED  BY <1>2, <1>3, <3>1
  <2>3. fresh' => \A k \in Param!ChunkIds(size') : NeverWritten(k)'
    BY <1>3, <2>2 DEF NeverWritten
  <2>4. fresh' => states'[1] = AllZero(size)' /\ Param!LoggedIn(logFile', size', 0) = <<>>
    BY <1>3, <2>2 DEF AllZero
  <2>5. 0..SnapshotsTaken' - 1 = {} /\ 0..done' - 1 = {}
    BY <1>3, <2>1
  <2>. QED  BY <2>3, <2>4, <2>5 DEF ParamRing
<1>. QED  BY <1>8, <1>9, <1>10, <1>11 DEF ParamInv

\* So every step does.
LEMMA ParamInductive == ParamInv /\ [Param!ParamNext]_(Param!paramVars) => ParamInv'
<1>1. ParamInv /\ (Param!Exit \/ Param!Kill) => ParamInv'
  BY GoneKeeps DEF Param!Exit, Param!Kill
<1>. QED  BY <1>1, StartKeeps, ReadAndApplyKeeps, HandOverKeeps, SaveHashKeeps,
          CopySnapshotStep, CopyBatchStep, ParamStutter DEF Param!ParamNext

\* The invariant of the parameterized program holds in every state.
THEOREM ParamInvariant == Param!ParamSpec => []ParamInv
  BY ParamInitInv, ParamInductive, PTL DEF Param!ParamSpec

\* Killed between two commits, on a log of its own, it is recovered to the state after the
\* last batch in the log, up to the accounts that a later pass sets back to the last range
\* set it has found for them, if no transfer to oneself is replayed.
THEOREM RecoveredUpToRangeSets == Param!ParamSpec => []RecoversUpToRangeSets
  BY ParamInvariant, RecoversWhenReady, PTL DEF RecoversUpToRangeSets

\* And an orderly end that could write its files is found verified then, in the state that
\* was saved.
THEOREM OrderlyEndIsVerified == Param!ParamSpec => []OrderlyEndVerified
  BY ParamInvariant, OrderlyEndIsRight, PTL DEF OrderlyEndVerified
=============================================================================
