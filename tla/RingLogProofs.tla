---------------------------- MODULE RingLogProofs ----------------------------
(***************************************************************************)
(* Proofs about the ring of slots and its recovery, for every number of    *)
(* chunks: what a run over a new log leaves in the slots, and that the     *)
(* replay round the ring takes every chunk to the same version.            *)
(***************************************************************************)
EXTENDS RingLog, FiniteSetTheorems, WellFoundedInduction, TLAPS

\* A run numbers its batches from 0; the ids of its batches follow on its base, the newest
\* id in the log when it began to write.

\* What the slots of batch b hold once it is committed.  What a run over an old log has
\* applied its first batch to is anybody's guess.
SnapshotOf(base, b) == [batch |-> b, chunk |-> Slot(b), ver |-> base + b + 1]
HasTransactions(base, b, t) ==
    /\ t.batch = b /\ t.tx.id = base + b + 1
    /\ b > 0 \/ base = 0 => t.tx.parent = base + b

\* What is in a slot that the run has not used: nothing, or what an older run has left; a
\* batch has the number of its slot at least, and less than its id.
LeftSnapshot(base, s, k) ==
    \/ s = ZeroSnapshot
    \/ s.chunk = k /\ s.batch \in k..base-1 /\ s.ver \in 1..base

LeftTransactions(base, t) ==
    \/ t = ZeroBatch
    \/ t.batch \in Nat /\ t.tx.id \in 1..base

\* Slot k after the first m batches of the run: the last of them that used it.
HoldsSnapshot(base, s, k, m) ==
    \/ m <= k /\ LeftSnapshot(base, s, k)
    \/ \E b \in 0..m-1 : m <= b + N /\ Slot(b) = k /\ s = SnapshotOf(base, b)

HoldsTransactions(base, t, k, m) ==
    \/ m <= k /\ LeftTransactions(base, t)
    \/ \E b \in 0..m-1 : m <= b + N /\ Slot(b) = k /\ HasTransactions(base, b, t)

\* The same when the last batch may have reached its slot or not.
NearlyHoldsSnapshot(base, s, k, m) ==
    \/ HoldsSnapshot(base, s, k, m)
    \/ m > 0 /\ k = Slot(m - 1) /\ HoldsSnapshot(base, s, k, m - 1)

NearlyHoldsTransactions(base, t, k, m) ==
    \/ HoldsTransactions(base, t, k, m)
    \/ m > 0 /\ k = Slot(m - 1) /\ HoldsTransactions(base, t, k, m - 1)

\* The number of the last of t batches; the zeros of a new log pass for a snapshot of
\* batch 0, chunk 0.
LastBatch(t) == IF t = 0 THEN 0 ELSE t - 1

\* The version of a chunk that is brought forward to before batch b.
VersionBefore(base, b, t) == IF t = 0 THEN 0 ELSE base + b

\* A log as recovery needs it to reach the state after t batches of a run: the latest chunk
\* has it, no chunk is further or older than the ring is long, and from each on the
\* transactions are there.
Recoverable(base, t) ==
    /\ LatestChunk \in Chunks /\ ChunkBatch(LatestChunk) = LastBatch(t)
    /\ \A k \in Chunks :
          /\ ChunkBatch(k) \in Int /\ ChunkBatch(k) <= LastBatch(t) /\ ChunkBatch(k) + N >= t
          /\ ChunkBatch(k) >= (IF base = 0 THEN -1 ELSE 0)
          /\ (IF k \in ValidChunks THEN snap[k].ver ELSE 0)
                = VersionBefore(base, ChunkBatch(k) + 1, t)
    /\ \A b \in 0..t-1 : t < b + N => HasTransactions(base, b, txs[Slot(b)])
    /\ t = 0 => txs[0].tx = NoTransactions

\* How many chunks before chunk k the replay has, coming from the latest one.
Behind(k) == IF k <= rec.latest THEN rec.latest - k ELSE rec.latest - k + N

\* The replay on its way to the state after t batches: the chunks it has done have it, the
\* one it is at has got to rec.b, and the others are as old as their slots.
Replaying(base, t) ==
    /\ rec \in [ver : [Chunks -> Int], label : [Chunks -> Int], latest : Chunks,
               cur : Chunks, left : 0..N-1, b : Int]
    /\ \A k \in Chunks : /\ (IF base = 0 THEN -1 ELSE 0) <= rec.label[k]
                         /\ rec.label[k] <= HighestBatch
    /\ HighestBatch = LastBatch(t)
    /\ \A k \in Chunks :
          /\ Behind(k) < N - rec.left => rec.ver[k] = VersionBefore(base, t, t)
          /\ Behind(k) > N - rec.left => rec.ver[k] = VersionBefore(base, rec.label[k] + 1, t)
    /\ \A k \in Chunks : rec.label[k] + N >= t
    /\ rec.left > 0 =>
          /\ Behind(rec.cur) = N - rec.left
          /\ rec.b \in rec.label[rec.cur] + 1 .. HighestBatch + 1
          /\ rec.ver[rec.cur] = VersionBefore(base, rec.b, t)

-----------------------------------------------------------------------------
\* A batch has a slot, and one number in every N shares it.

\* The slot is one of the ring.
LEMMA SlotInChunks == \A b \in Nat : Slot(b) \in Chunks
  BY NAssumption DEF Slot, Chunks

\* The first N batches go round the ring once.
LEMMA SlotSmall == \A b \in Nat : b < N => Slot(b) = b
  BY NAssumption DEF Slot

\* A multiple of N between -N and N is 0.
LEMMA SmallMultiple == \A q \in Int : -N < N * q /\ N * q < N => q = 0
<1>1. \A q \in Nat \ {0} : N * q >= N /\ N * (-q) <= -N
  BY NAssumption
<1>2. \A q \in Int : q < 0 => -q \in Nat \ {0} /\ q = -(-q)
  OBVIOUS
<1>. QED  BY <1>1, <1>2, NAssumption

\* The batch number is some rounds and the slot.
LEMMA SlotParts == \A b \in Nat : \E q \in Nat : b = N * q + Slot(b)
<1>. TAKE b \in Nat
<1>1. b = N * (b \div N) + (b % N) /\ (b \div N) \in Nat
  BY NAssumption
<1>. QED  BY <1>1 DEF Slot

\* Fewer than N batches apart, no two share a slot.
LEMMA SlotsApart == \A b, c \in Nat : b < c /\ c < b + N => Slot(b) # Slot(c)
<1>. SUFFICES ASSUME NEW b \in Nat, NEW c \in Nat, b < c, c < b + N, Slot(b) = Slot(c)
              PROVE  FALSE
  OBVIOUS
<1>1. PICK p \in Nat : b = N * p + Slot(b)
  BY SlotParts
<1>2. PICK q \in Nat : c = N * q + Slot(c)
  BY SlotParts
<1>3. c - b = N * (q - p)
  BY <1>1, <1>2, SlotInChunks, NAssumption DEF Chunks
<1>4. q - p = 0
  <2>1. -N < N * (q - p) /\ N * (q - p) < N
    BY <1>3, NAssumption
  <2>. QED  BY <2>1, SmallMultiple
<1>. QED  BY <1>3, <1>4, NAssumption

\* N batches apart they do.
LEMMA SlotTurn == \A b \in Nat : Slot(b + N) = Slot(b)
<1>. TAKE b \in Nat
<1>1. b + N \in Nat
  BY NAssumption
<1>2. PICK p \in Nat : b = N * p + Slot(b)
  BY SlotParts
<1>3. PICK q \in Nat : b + N = N * q + Slot(b + N)
  BY <1>1, SlotParts
<1>4. Slot(b) \in 0..N-1 /\ Slot(b + N) \in 0..N-1
  BY <1>1, SlotInChunks, NAssumption DEF Chunks
<1>5. Slot(b + N) - Slot(b) = N * (p + 1 - q)
  BY <1>2, <1>3, <1>4, NAssumption
<1>6. p + 1 - q = 0
  <2>1. -N < N * (p + 1 - q) /\ N * (p + 1 - q) < N
    BY <1>4, <1>5, NAssumption
  <2>. QED  BY <2>1, SmallMultiple
<1>. QED  BY <1>4, <1>5, <1>6, NAssumption

-----------------------------------------------------------------------------
\* How the slots change when the run goes on.

\* The next batch leaves the other slots alone, and they still hold what they should.
LEMMA HoldsLater ==
    ASSUME NEW base \in Nat, NEW m \in Nat, NEW k \in Chunks, k # Slot(m), NEW s
    PROVE  /\ HoldsSnapshot(base, s, k, m) => HoldsSnapshot(base, s, k, m + 1)
           /\ HoldsTransactions(base, s, k, m) => HoldsTransactions(base, s, k, m + 1)
<1>1. m <= k => m + 1 <= k
  BY SlotSmall, NAssumption DEF Chunks
<1>2. ASSUME NEW b \in 0..m-1, m <= b + N, Slot(b) = k
      PROVE  b \in 0..(m+1)-1 /\ m + 1 <= b + N
  BY <1>2, SlotTurn, NAssumption
<1>. QED  BY <1>1, <1>2 DEF HoldsSnapshot, HoldsTransactions

\* Going back by one batch changes what its slot should hold, and no other.
LEMMA HoldsBefore ==
    ASSUME NEW base \in Nat, NEW m \in Nat, m > 0, NEW k \in Chunks, k # Slot(m - 1), NEW s
    PROVE  /\ HoldsSnapshot(base, s, k, m) => HoldsSnapshot(base, s, k, m - 1)
           /\ HoldsTransactions(base, s, k, m) => HoldsTransactions(base, s, k, m - 1)
<1>1. m <= k => m - 1 <= k
  BY NAssumption DEF Chunks
<1>2. ASSUME NEW b \in 0..m-1, m <= b + N, Slot(b) = k
      PROVE  b \in 0..(m-1)-1 /\ m - 1 <= b + N
  BY <1>2, NAssumption
<1>. QED  BY <1>1, <1>2 DEF HoldsSnapshot, HoldsTransactions

\* The slot of the batch that was committed last.
LEMMA HoldsLast ==
    ASSUME NEW base \in Nat, NEW m \in Nat, NEW t
    PROVE  /\ HoldsSnapshot(base, SnapshotOf(base, m), Slot(m), m + 1)
           /\ HasTransactions(base, m, t) => HoldsTransactions(base, t, Slot(m), m + 1)
<1>1. m \in 0..(m+1)-1 /\ m + 1 <= m + N
  BY NAssumption
<1>. QED  BY <1>1 DEF HoldsSnapshot, HoldsTransactions

\* msync takes to the device the slot of the batch, and of the others what is in memory
\* or leaves what is there.
LEMMA SyncTakes ==
    ASSUME NEW b \in Nat, SyncSlots(b)
    PROVE  \A k \in Chunks :
             /\ diskSnap'[k] \in {snap[k], diskSnap[k]} /\ diskTxs'[k] \in {txs[k], diskTxs[k]}
             /\ k = Slot(b) => diskSnap'[k] = snap[k] /\ diskTxs'[k] = txs[k]
<1>1. PICK s \in Chunks : s = Slot(b)
  BY SlotInChunks
<1>2. s >= s
  BY NAssumption DEF Chunks
<1>3. \A k \in Chunks :
         /\ diskSnap'[k] = IF k >= s THEN snap[k] ELSE diskSnap[k]
         /\ diskTxs'[k] = IF k <= s THEN txs[k] ELSE diskTxs[k]
  BY <1>1 DEF SyncSlots
<1>. QED  BY <1>1, <1>2, <1>3

\* A batch that is among the last N of m has its slot.
LEMMA SlotIsTaken ==
    ASSUME NEW base \in Nat, NEW m \in Nat, NEW b \in 0..m-1, m <= b + N, NEW s
    PROVE  /\ HoldsSnapshot(base, s, Slot(b), m) => s = SnapshotOf(base, b)
           /\ HoldsTransactions(base, s, Slot(b), m) => HasTransactions(base, b, s)
<1>1. ~(m <= Slot(b))
  BY SlotInChunks, SlotSmall, NAssumption DEF Chunks
<1>2. ASSUME NEW c \in 0..m-1, m <= c + N, Slot(c) = Slot(b) PROVE c = b
  <2>1. ~(b < c) /\ ~(c < b)
    BY <1>2, SlotsApart, NAssumption
  <2>. QED  BY <2>1
<1>. QED  BY <1>1, <1>2 DEF HoldsSnapshot, HoldsTransactions

\* The fields of a slot, and the versions it can hold.
LEMMA SnapshotFields ==
    ASSUME NEW base \in Nat, NEW m \in Nat, NEW k \in Chunks, NEW s,
           HoldsSnapshot(base, s, k, m)
    PROVE  /\ s.ver \in 0..base+m /\ s.batch \in Nat
           /\ m = 0 => s.ver \in 0..base
<1>1. CASE LeftSnapshot(base, s, k)
  BY <1>1 DEF LeftSnapshot, ZeroSnapshot, Chunks
<1>2. ASSUME NEW b \in 0..m-1, s = SnapshotOf(base, b)
      PROVE  s.ver \in 0..base+m /\ s.batch \in Nat /\ m # 0
  BY <1>2 DEF SnapshotOf
<1>. QED  BY <1>1, <1>2 DEF HoldsSnapshot

\* The same for the transactions.
LEMMA TransactionsFields ==
    ASSUME NEW base \in Nat, NEW m \in Nat, NEW k \in Chunks, NEW t,
           HoldsTransactions(base, t, k, m)
    PROVE  t.tx.id \in 0..base+m /\ t.batch \in Nat
<1>1. CASE LeftTransactions(base, t)
  BY <1>1 DEF LeftTransactions, ZeroBatch, NoTransactions
<1>2. ASSUME NEW b \in 0..m-1, HasTransactions(base, b, t)
      PROVE  t.tx.id \in 0..base+m /\ t.batch \in Nat
  BY <1>2 DEF HasTransactions
<1>. QED  BY <1>1, <1>2 DEF HoldsTransactions

\* And when the last batch may be missing.
LEMMA NearlyFields ==
    ASSUME NEW base \in Nat, NEW m \in Nat, NEW k \in Chunks, NEW s
    PROVE  /\ NearlyHoldsSnapshot(base, s, k, m) => s.ver \in 0..base+m /\ s.batch \in Nat
           /\ NearlyHoldsTransactions(base, s, k, m) =>
                 s.tx.id \in 0..base+m /\ s.batch \in Nat
<1>1. m > 0 => m - 1 \in Nat
  OBVIOUS
<1>. QED
  BY <1>1, SnapshotFields, TransactionsFields
  DEF NearlyHoldsSnapshot, NearlyHoldsTransactions

-----------------------------------------------------------------------------
\* What recovery finds in such a log.

\* The greatest of a set of numbers is what WholeId takes.
LEMMA GreatestId ==
    ASSUME NEW S \in SUBSET Nat, NEW t \in Nat, t \in S \cup {0},
           \A other \in S : other <= t
    PROVE  (CHOOSE id \in S \cup {0} : \A other \in S : other <= id) = t
<1>. DEFINE Greatest(id) == id \in S \cup {0} /\ \A other \in S : other <= id
<1>1. \A id : Greatest(id) => id = t
  <2>. SUFFICES ASSUME NEW id, Greatest(id) PROVE id = t
    OBVIOUS
  <2>1. id \in Nat /\ id <= t
    OBVIOUS
  <2>2. t <= id
    <3>1. CASE t \in S
      BY <3>1
    <3>2. CASE t \notin S
      BY <2>1, <3>2
    <3>. QED  BY <3>1, <3>2
  <2>. QED  BY <2>1, <2>2
<1>2. Greatest(t)
  OBVIOUS
<1>. QED  BY <1>1, <1>2

\* If no chunk in the log is beyond t batches of the run, and no slot is torn, the last of
\* them is the newest batch that is whole.
LEMMA WholeIdIs ==
    ASSUME NEW base \in Nat, NEW t \in Nat, base > 0 => t > 0,
           \A k \in Chunks : HoldsSnapshot(base, snap[k], k, t),
           \A k \in Chunks : snap[k].ver <= txs[k].tx.id
    PROVE  WholeId = base + t
<1>. DEFINE whole == {snap[k].ver : k \in {j \in Chunks : snap[j].ver <= txs[j].tx.id}}
<1>1. whole \in SUBSET Nat /\ \A v \in whole : v <= base + t
  BY SnapshotFields
<1>2. base + t \in whole \cup {0}
  <2>1. CASE t = 0
    BY <2>1
  <2>2. CASE t > 0
    <3>1. t - 1 \in 0..t-1 /\ t <= (t - 1) + N /\ Slot(t - 1) \in Chunks
      BY <2>2, SlotInChunks, NAssumption
    <3>2. snap[Slot(t - 1)] = SnapshotOf(base, t - 1)
      BY <3>1, SlotIsTaken
    <3>3. snap[Slot(t - 1)].ver = base + t
      BY <3>1, <3>2 DEF SnapshotOf
    <3>. QED  BY <3>1, <3>3
  <2>. QED  BY <2>1, <2>2
<1>. HIDE DEF whole
<1>3. (CHOOSE id \in whole \cup {0} : \A other \in whole : other <= id) = base + t
  BY <1>1, <1>2, GreatestId
<1>. QED  BY <1>3 DEF WholeId, whole

\* Every chunk of a log that one run has begun, or gone round once, says which batch it has,
\* and is at most N batches old.
LEMMA ChunkLabels ==
    ASSUME NEW base \in Nat, NEW t \in Nat, base = 0 \/ N <= t,
           \A k \in Chunks : HoldsSnapshot(base, snap[k], k, t)
    PROVE  \A k \in Chunks :
             /\ ChunkBatch(k) \in Int /\ ChunkBatch(k) >= (IF base = 0 THEN -1 ELSE 0)
             /\ ChunkBatch(k) <= LastBatch(t)
             /\ ChunkBatch(k) + N >= t
             /\ (IF k \in ValidChunks THEN snap[k].ver ELSE 0)
                   = VersionBefore(base, ChunkBatch(k) + 1, t)
<1>. TAKE k \in Chunks
<1>1. CASE t <= k /\ LeftSnapshot(base, snap[k], k)
  <2>1. base = 0 /\ snap[k] = ZeroSnapshot
    BY <1>1, NAssumption DEF LeftSnapshot, Chunks
  <2>. QED
    BY <1>1, <2>1, NAssumption
    DEF ChunkBatch, ValidChunks, ZeroSnapshot, VersionBefore, LastBatch, Chunks
<1>2. ASSUME NEW b \in 0..t-1, t <= b + N, Slot(b) = k, snap[k] = SnapshotOf(base, b)
      PROVE  /\ ChunkBatch(k) \in Int /\ ChunkBatch(k) >= (IF base = 0 THEN -1 ELSE 0)
             /\ ChunkBatch(k) <= LastBatch(t)
             /\ ChunkBatch(k) + N >= t
             /\ (IF k \in ValidChunks THEN snap[k].ver ELSE 0)
                   = VersionBefore(base, ChunkBatch(k) + 1, t)
  <2>1. ChunkBatch(k) = b /\ k \in ValidChunks /\ snap[k].ver = base + b + 1 /\ t # 0
    BY <1>2 DEF ChunkBatch, ValidChunks, SnapshotOf
  <2>. QED  BY <1>2, <2>1, NAssumption DEF VersionBefore, LastBatch
<1>. QED  BY <1>1, <1>2 DEF HoldsSnapshot

\* The chunk recovery takes for the latest one is that of the last batch.
LEMMA LatestIs ==
    ASSUME NEW base \in Nat, NEW t \in Nat, base = 0 \/ N <= t,
           \A k \in Chunks : HoldsSnapshot(base, snap[k], k, t)
    PROVE  /\ LatestChunk \in Chunks /\ LatestChunk \in ValidChunks
           /\ ChunkBatch(LatestChunk) = LastBatch(t)
<1>. DEFINE last == LastBatch(t)
            best == IF t = 0 THEN 0 ELSE Slot(t - 1)
            Latest(k) == \A j \in ValidChunks : \/ snap[j].batch < snap[k].batch
                                                \/ snap[j].batch = snap[k].batch /\ k <= j
<1>1. best \in Chunks /\ best \in ValidChunks /\ snap[best].batch = last
  <2>1. CASE t = 0
    <3>1. 0 \in Chunks /\ base = 0
      BY <2>1, NAssumption DEF Chunks
    <3>2. snap[0] = ZeroSnapshot
      BY <2>1, <3>1 DEF HoldsSnapshot, LeftSnapshot
    <3>. QED  BY <2>1, <3>1, <3>2 DEF ValidChunks, ZeroSnapshot, LastBatch
  <2>2. CASE t # 0
    <3>1. t - 1 \in 0..t-1 /\ t <= (t - 1) + N /\ Slot(t - 1) \in Chunks
      BY <2>2, SlotInChunks, NAssumption
    <3>2. snap[Slot(t - 1)] = SnapshotOf(base, t - 1)
      BY <3>1, SlotIsTaken
    <3>. QED  BY <2>2, <3>1, <3>2 DEF ValidChunks, SnapshotOf, LastBatch
  <2>. QED  BY <2>1, <2>2
<1>2. \A j \in ValidChunks : /\ j \in Chunks /\ snap[j].batch \in Nat /\ snap[j].batch <= last
                             /\ (snap[j].batch = last => j = best)
  <2>. TAKE j \in ValidChunks
  <2>1. j \in Chunks /\ snap[j].chunk = j
    BY DEF ValidChunks
  <2>2. CASE t <= j /\ LeftSnapshot(base, snap[j], j)
    <3>1. base = 0 /\ snap[j] = ZeroSnapshot
      BY <2>1, <2>2, NAssumption DEF LeftSnapshot, Chunks
    <3>. QED  BY <2>1, <2>2, <3>1, NAssumption DEF ZeroSnapshot, LastBatch, Chunks
  <2>3. ASSUME NEW b \in 0..t-1, Slot(b) = j, snap[j] = SnapshotOf(base, b)
        PROVE  snap[j].batch \in Nat /\ snap[j].batch <= last
               /\ (snap[j].batch = last => j = best)
    BY <2>3 DEF SnapshotOf, LastBatch
  <2>. QED  BY <2>1, <2>2, <2>3 DEF HoldsSnapshot
<1>. HIDE DEF best
<1>3. Latest(best)
  BY <1>1, <1>2, NAssumption DEF Chunks, LastBatch
<1>4. \A k \in ValidChunks : Latest(k) => k = best
  BY <1>1, <1>2
<1>5. LatestChunk = best
  BY <1>1, <1>3, <1>4 DEF LatestChunk
<1>. QED  BY <1>1, <1>5 DEF ChunkBatch

\* A nonempty set of naturals has a least element: inclusion of finite sets is well founded,
\* so there is a smallest one among the intervals from 0 to its elements.
LEMMA LeastOf ==
    ASSUME NEW T \in SUBSET Nat, T # {}
    PROVE  \E n \in T : \A m \in T : n <= m
<1>. DEFINE ordering == StrictSubsetOrdering(Nat)
            intervals == {0..n : n \in T}
<1>1. IsWellFoundedOn(ordering, FiniteSubsetsOf(Nat))
  BY FS_StrictSubsetOrderingWellFounded
<1>2. intervals \subseteq FiniteSubsetsOf(Nat) /\ intervals # {}
  <2>1. \A n \in T : 0..n \in SUBSET Nat /\ IsFiniteSet(0..n)
    BY FS_Interval
  <2>. QED  BY <2>1 DEF FiniteSubsetsOf
<1>. HIDE DEF ordering
<1>3. PICK least \in intervals : \A i \in intervals : ~ (<<i, least>> \in ordering)
  BY <1>1, <1>2, WFMin
<1>4. PICK n \in T : least = 0..n
  BY <1>3
<1>5. \A m \in T : m < n => <<0..m, 0..n>> \in ordering
  <2>1. \A m \in T : m < n => 0..m \subseteq 0..n /\ n \notin 0..m /\ n \in 0..n
    OBVIOUS
  <2>2. \A m \in T : 0..m \in SUBSET Nat
    OBVIOUS
  <2>3. \A m \in T : m < n => 0..m # 0..n
    BY <2>1
  <2>. QED  BY <2>1, <2>2, <2>3 DEF ordering, StrictSubsetOrdering
<1>6. \A m \in T : 0..m \in intervals
  OBVIOUS
<1>. HIDE DEF intervals
<1>7. \A m \in T : ~ (m < n)
  BY <1>3, <1>4, <1>5, <1>6
<1>. QED  BY <1>7

\* Whatever the slots hold, the latest chunk is a valid one that no other is later than.
LEMMA LatestExists ==
    ASSUME NEW u \in Nat, ValidChunks # {}, \A k \in ValidChunks : snap[k].batch \in 0..u
    PROVE  /\ LatestChunk \in ValidChunks
           /\ \A j \in ValidChunks : snap[j].batch <= snap[LatestChunk].batch
<1>. DEFINE ages == {u - snap[k].batch : k \in ValidChunks}
            Latest(k) == \A j \in ValidChunks : \/ snap[j].batch < snap[k].batch
                                                \/ snap[j].batch = snap[k].batch /\ k <= j
<1>1. ages \in SUBSET Nat /\ ages # {}
  OBVIOUS
<1>2. PICK a \in ages : \A x \in ages : a <= x
  BY <1>1, LeastOf
<1>3. PICK m \in ValidChunks : a = u - snap[m].batch
  BY <1>2
<1>4. \A j \in ValidChunks : snap[j].batch <= snap[m].batch
  <2>1. \A j \in ValidChunks : u - snap[j].batch \in ages
    OBVIOUS
  <2>2. \A j \in ValidChunks : a <= u - snap[j].batch
    BY <1>2, <2>1
  <2>. HIDE DEF ages
  <2>. QED  BY <1>3, <2>2
<1>. DEFINE newest == {j \in ValidChunks : snap[j].batch = snap[m].batch}
<1>5. newest \in SUBSET Nat /\ newest # {}
  BY <1>3, NAssumption DEF ValidChunks, Chunks
<1>6. PICK l \in newest : \A j \in newest : l <= j
  BY <1>5, LeastOf
<1>7. l \in ValidChunks /\ Latest(l)
  BY <1>3, <1>4, <1>6
<1>8. LatestChunk \in ValidChunks /\ Latest(LatestChunk)
  BY <1>7 DEF LatestChunk
<1>. QED  BY <1>8

\* A run over an old log has gone round it once if the chunk with the highest number in it
\* is the one of its last batch: what older runs have left in the other slots carries
\* higher numbers.
LEMMA GoneRound ==
    ASSUME NEW base \in Nat, NEW t \in Nat, t > 0,
           \A k \in Chunks : HoldsSnapshot(base, snap[k], k, t),
           ValidChunks = Chunks, snap[LatestChunk].ver = base + t
    PROVE  N <= t
<1>. SUFFICES ASSUME t < N PROVE FALSE
  BY NAssumption
<1>1. t \in Chunks /\ 0 \in Chunks
  BY NAssumption DEF Chunks
<1>2. LeftSnapshot(base, snap[t], t)
  <2>1. \A b \in 0..t-1 : Slot(b) # t
    BY SlotSmall, NAssumption
  <2>. QED  BY <1>1, <2>1 DEF HoldsSnapshot
<1>3. snap[t].batch \in Nat /\ snap[t].batch >= t
  <2>1. snap[t].chunk = t
    BY <1>1 DEF ValidChunks
  <2>2. snap[t] # ZeroSnapshot
    BY <2>1 DEF ZeroSnapshot
  <2>. QED  BY <1>2, <2>2 DEF LeftSnapshot
<1>4. \A k \in ValidChunks : snap[k].batch \in 0..base+t
  <2>. TAKE k \in ValidChunks
  <2>1. CASE LeftSnapshot(base, snap[k], k)
    BY <2>1, NAssumption DEF LeftSnapshot, ZeroSnapshot, Chunks
  <2>2. ASSUME NEW b \in 0..t-1, snap[k] = SnapshotOf(base, b)
        PROVE  snap[k].batch \in 0..base+t
    BY <2>2 DEF SnapshotOf
  <2>. QED  BY <2>1, <2>2 DEF HoldsSnapshot
<1>5. LatestChunk \in Chunks /\ snap[LatestChunk].batch \in Nat
      /\ snap[LatestChunk].batch >= t
  <2>1. base + t \in Nat /\ ValidChunks # {}
    BY <1>1
  <2>2. LatestChunk \in ValidChunks /\ snap[t].batch <= snap[LatestChunk].batch
    BY <1>1, <1>4, <2>1, LatestExists
  <2>. QED  BY <1>3, <1>4, <2>2
<1>6. CASE LeftSnapshot(base, snap[LatestChunk], LatestChunk)
  BY <1>6 DEF LeftSnapshot, ZeroSnapshot
<1>7. ASSUME NEW b \in 0..t-1, snap[LatestChunk] = SnapshotOf(base, b) PROVE FALSE
  BY <1>5, <1>7 DEF SnapshotOf
<1>. QED  BY <1>5, <1>6, <1>7 DEF HoldsSnapshot

\* A log that one run has begun, or gone round once, in which no slot is torn, can be
\* brought to the last batch of that run if the transactions are there.
LEMMA HeldIsRecoverable ==
    ASSUME NEW base \in Nat, NEW t \in Nat, base = 0 \/ N <= t,
           \A k \in Chunks : HoldsSnapshot(base, snap[k], k, t),
           \A b \in 0..t-1 : t < b + N => HasTransactions(base, b, txs[Slot(b)]),
           t = 0 => txs[0].tx = NoTransactions
    PROVE  Recoverable(base, t)
  BY ChunkLabels, LatestIs DEF Recoverable

\* The log of one run, the last batch of which may have reached its slot or not: if no
\* slot is torn, recovery can reach the newest batch that is whole.
LEMMA OneRunRecoverable ==
    ASSUME NEW m \in Nat,
           \A k \in Chunks : NearlyHoldsSnapshot(0, snap[k], k, m),
           \A k \in Chunks : NearlyHoldsTransactions(0, txs[k], k, m),
           \A k \in Chunks : ~TornSlot(k)
    PROVE  /\ WholeId \in Nat /\ WholeId <= m /\ Recoverable(0, WholeId)
           /\ m <= WholeId + 1
<1>1. \A k \in Chunks : snap[k].ver \in Nat /\ txs[k].tx.id \in Nat
                        /\ snap[k].ver <= txs[k].tx.id
  <2>. TAKE k \in Chunks
  <2>1. snap[k].ver \in 0..0+m
    BY NearlyFields
  <2>2. txs[k].tx.id \in 0..0+m
    BY NearlyFields
  <2>. QED  BY <2>1, <2>2 DEF TornSlot
<1>2. CASE \A k \in Chunks : HoldsSnapshot(0, snap[k], k, m)
  <2>1. WholeId = m
    <3>1. WholeId = 0 + m
      BY <1>1, <1>2, WholeIdIs
    <3>. QED  BY <3>1
  <2>2. ASSUME NEW b \in 0..m-1, m < b + N
        PROVE  HasTransactions(0, b, txs[Slot(b)])
    <3>1. Slot(b) \in Chunks /\ NearlyHoldsTransactions(0, txs[Slot(b)], Slot(b), m)
      BY SlotInChunks
    <3>2. HoldsTransactions(0, txs[Slot(b)], Slot(b), m)
      <4>1. CASE Slot(b) # Slot(m - 1)
        BY <3>1, <4>1 DEF NearlyHoldsTransactions
      <4>2. CASE Slot(b) = Slot(m - 1)
        <5>1. m - 1 \in 0..m-1 /\ m <= (m - 1) + N
          BY NAssumption
        <5>2. snap[Slot(m - 1)] = SnapshotOf(0, m - 1)
          BY <1>2, <3>1, <4>2, <5>1, SlotIsTaken
        <5>3. snap[Slot(b)].ver = m
          BY <4>2, <5>2 DEF SnapshotOf
        <5>4. ~HoldsTransactions(0, txs[Slot(b)], Slot(b), m - 1)
          <6>1. txs[Slot(b)].tx.id >= m
            BY <1>1, <3>1, <5>3
          <6>2. m - 1 \in Nat
            BY <5>1
          <6>3. ASSUME HoldsTransactions(0, txs[Slot(b)], Slot(b), m - 1)
                PROVE  txs[Slot(b)].tx.id \in 0..0+(m - 1)
            BY <3>1, <6>2, <6>3, TransactionsFields
          <6>. QED  BY <6>1, <6>2, <6>3
        <5>. QED  BY <3>1, <5>4 DEF NearlyHoldsTransactions
      <4>. QED  BY <4>1, <4>2
    <3>3. 0 \in Nat /\ m <= b + N
      BY <2>2, NAssumption
    <3>. QED  BY <3>2, <3>3, SlotIsTaken
  <2>3. ASSUME m = 0 PROVE txs[0].tx = NoTransactions
    <3>1. 0 \in Chunks /\ NearlyHoldsTransactions(0, txs[0], 0, m)
      BY NAssumption DEF Chunks
    <3>. QED
      BY <2>3, <3>1
      DEF NearlyHoldsTransactions, HoldsTransactions, LeftTransactions, ZeroBatch
  <2>. QED  BY <1>2, <2>1, <2>2, <2>3, HeldIsRecoverable
<1>3. CASE \E k \in Chunks : ~HoldsSnapshot(0, snap[k], k, m)
  <2>1. m > 0 /\ m - 1 \in Nat /\ Slot(m - 1) \in Chunks
        /\ HoldsSnapshot(0, snap[Slot(m - 1)], Slot(m - 1), m - 1)
    BY <1>3, SlotInChunks DEF NearlyHoldsSnapshot
  <2>2. \A k \in Chunks : HoldsSnapshot(0, snap[k], k, m - 1)
    <3>. TAKE k \in Chunks
    <3>1. CASE k = Slot(m - 1)
      BY <2>1, <3>1
    <3>2. CASE k # Slot(m - 1)
      BY <2>1, <3>2, HoldsBefore DEF NearlyHoldsSnapshot
    <3>. QED  BY <3>1, <3>2
  <2>3. WholeId = m - 1
    <3>1. /\ m - 1 \in Nat /\ 0 \in Nat /\ ~(0 > 0)
          /\ \A k \in Chunks : snap[k].ver <= txs[k].tx.id
      BY <1>1, <2>1
    <3>2. WholeId = 0 + (m - 1)
      BY <2>2, <3>1, WholeIdIs
    <3>. QED  BY <2>1, <3>2
  <2>4. ASSUME NEW b \in 0..(m-1)-1, m - 1 < b + N
        PROVE  HasTransactions(0, b, txs[Slot(b)])
    <3>1. Slot(b) \in Chunks /\ NearlyHoldsTransactions(0, txs[Slot(b)], Slot(b), m)
      BY SlotInChunks
    <3>2. Slot(b) # Slot(m - 1)
      BY <2>1, <2>4, SlotsApart
    <3>3. b \in 0..m-1 /\ m <= b + N
      BY <2>4, NAssumption
    <3>. QED  BY <3>1, <3>2, <3>3, SlotIsTaken DEF NearlyHoldsTransactions
  <2>5. ASSUME m - 1 = 0 PROVE txs[0].tx = NoTransactions
    <3>1. 0 \in Chunks /\ NearlyHoldsTransactions(0, txs[0], 0, 1) /\ ~TornSlot(0)
      BY <2>5, NAssumption DEF Chunks
    <3>2. snap[0] = ZeroSnapshot
      BY <2>2, <2>5, <3>1 DEF HoldsSnapshot, LeftSnapshot
    <3>3. ~HasTransactions(0, 0, txs[0])
      BY <3>1, <3>2 DEF TornSlot, ZeroSnapshot, HasTransactions
    <3>4. txs[0] = ZeroBatch
      BY <3>1, <3>3 DEF NearlyHoldsTransactions, HoldsTransactions, LeftTransactions
    <3>. QED  BY <3>4 DEF ZeroBatch
  <2>. QED  BY <2>1, <2>2, <2>3, <2>4, <2>5, HeldIsRecoverable
<1>. QED  BY <1>2, <1>3

\* What recovery needs of the log stays as long as nothing is written.
LEMMA LogStays ==
    ASSUME UNCHANGED logVars
    PROVE  /\ WholeId' = WholeId /\ ValidChunks' = ValidChunks /\ LatestChunk' = LatestChunk
           /\ \A base, t : Recoverable(base, t) => Recoverable(base, t)'
<1>1. snap' = snap /\ txs' = txs
  BY DEF logVars
<1>2. WholeId' = WholeId
  BY <1>1 DEF WholeId
<1>3. ValidChunks' = ValidChunks
  BY <1>1 DEF ValidChunks
<1>4. LatestChunk' = LatestChunk
  BY <1>1, <1>3 DEF LatestChunk
<1>5. \A k : ChunkBatch(k)' = ChunkBatch(k)
  BY <1>1, <1>3 DEF ChunkBatch
<1>6. ASSUME NEW base, NEW t, Recoverable(base, t) PROVE Recoverable(base, t)'
  BY <1>1, <1>3, <1>4, <1>5, <1>6 DEF Recoverable
<1>. QED  BY <1>2, <1>3, <1>4, <1>6

\* The replay begins with the chunk before the latest one, which alone is done.
LEMMA ReplayBegins ==
    ASSUME NEW base \in Nat, NEW t \in Nat, Recoverable(base, t), LoadSnapshots
    PROVE  Replaying(base, t)'
<1>. DEFINE top == LastBatch(t)
            low == IF base = 0 THEN -1 ELSE 0
            final == VersionBefore(base, t, t)
<1>0. /\ top \in Nat /\ final = VersionBefore(base, top + 1, t)
      /\ top = IF t = 0 THEN 0 ELSE t - 1
  BY DEF VersionBefore, LastBatch
<1>1. PICK l \in Chunks : l = LatestChunk /\ ChunkBatch(l) = top
  BY DEF Recoverable
<1>2. PreviousChunk(l) \in Chunks
  BY <1>1, NAssumption DEF PreviousChunk, Chunks
<1>3. \A k \in Chunks :
         /\ ChunkBatch(k) \in Int /\ low <= ChunkBatch(k) /\ ChunkBatch(k) <= top
         /\ ChunkBatch(k) + N >= t
         /\ (IF k \in ValidChunks THEN snap[k].ver ELSE 0)
               = VersionBefore(base, ChunkBatch(k) + 1, t)
  BY DEF Recoverable
<1>4. \A k \in Chunks : VersionBefore(base, ChunkBatch(k) + 1, t) \in Int
  BY <1>3 DEF VersionBefore
<1>5. rec' = [ver    |-> [k \in Chunks |-> VersionBefore(base, ChunkBatch(k) + 1, t)],
              label  |-> [k \in Chunks |-> ChunkBatch(k)],
              latest |-> l, cur |-> PreviousChunk(l), left |-> N - 1,
              b      |-> ChunkBatch(PreviousChunk(l)) + 1]
  BY <1>1, <1>3 DEF LoadSnapshots
<1>6. /\ rec'.ver = [k \in Chunks |-> VersionBefore(base, ChunkBatch(k) + 1, t)]
      /\ rec'.label = [k \in Chunks |-> ChunkBatch(k)]
      /\ rec'.latest = l /\ rec'.cur = PreviousChunk(l) /\ rec'.left = N - 1
      /\ rec'.b = ChunkBatch(PreviousChunk(l)) + 1
  BY <1>5
<1>7. rec' \in [ver : [Chunks -> Int], label : [Chunks -> Int], latest : Chunks,
                cur : Chunks, left : 0..N-1, b : Int]
  BY <1>1, <1>2, <1>3, <1>4, <1>5, NAssumption
<1>8. HighestBatch' = top
  BY <1>1, <1>6 DEF HighestBatch
<1>9. \A k \in Chunks : /\ Behind(k)' = (IF k <= l THEN l - k ELSE l - k + N)
                         /\ rec'.label[k] = ChunkBatch(k)
                         /\ rec'.ver[k] = VersionBefore(base, ChunkBatch(k) + 1, t)
  BY <1>6 DEF Behind
<1>10. \A k \in Chunks : Behind(k)' < N - rec'.left => rec'.ver[k] = final
  <2>. SUFFICES ASSUME NEW k \in Chunks, Behind(k)' < N - rec'.left PROVE rec'.ver[k] = final
    OBVIOUS
  <2>1. k = l
    BY <1>1, <1>6, <1>9, NAssumption DEF Chunks
  <2>. QED  BY <1>0, <1>1, <1>9, <2>1
<1>11. rec'.left > 0 => Behind(PreviousChunk(l))' = 1
  BY <1>1, <1>2, <1>6, <1>9, NAssumption DEF Chunks, PreviousChunk
<1>. QED
  BY <1>0, <1>2, <1>3, <1>6, <1>7, <1>8, <1>9, <1>10, <1>11, NAssumption DEF Replaying

\* Each step of the replay brings it on, and never takes a chunk too far.
LEMMA ReplayGoesOn ==
    ASSUME NEW base \in Nat, NEW t \in Nat, Recoverable(base, t), Replaying(base, t),
           ReplayBatch \/ NextChunk
    PROVE  Replaying(base, t)'
<1>. DEFINE top == LastBatch(t)
            low == IF base = 0 THEN -1 ELSE 0
            final == VersionBefore(base, t, t)
<1>0. /\ top \in Nat /\ final = VersionBefore(base, top + 1, t)
      /\ top = IF t = 0 THEN 0 ELSE t - 1
  BY DEF VersionBefore, LastBatch
<1>. PICK c \in Chunks : c = rec.cur
  BY DEF Replaying
<1>. PICK h \in Chunks : h = rec.latest
  BY DEF Replaying
<1>1. /\ rec \in [ver : [Chunks -> Int], label : [Chunks -> Int], latest : Chunks,
                  cur : Chunks, left : 0..N-1, b : Int]
      /\ HighestBatch = top /\ rec.label[h] = top
      /\ \A k \in Chunks : /\ low <= rec.label[k] /\ rec.label[k] <= top
                           /\ rec.label[k] + N >= t
  BY DEF Replaying, HighestBatch
<1>2. \A k \in Chunks : Behind(k) = IF k <= h THEN h - k ELSE h - k + N
  BY DEF Behind
<1>3. \A k \in Chunks : Behind(k) \in 0..N-1
  BY <1>2, NAssumption DEF Chunks
<1>4. \A k \in Chunks :
         /\ Behind(k) < N - rec.left => rec.ver[k] = final
         /\ Behind(k) > N - rec.left => rec.ver[k] = VersionBefore(base, rec.label[k] + 1, t)
  BY DEF Replaying
<1>5. rec.left > 0 => /\ Behind(c) = N - rec.left
                      /\ rec.b \in rec.label[c] + 1 .. top + 1
                      /\ rec.ver[c] = VersionBefore(base, rec.b, t)
  BY <1>1 DEF Replaying
<1>6. CASE ReplayBatch
  <2>1. /\ rec.left > 0 /\ rec.b <= top /\ rec.b \in Nat
        /\ rec' = [rec EXCEPT !.ver[c] = Replay(txs[Slot(rec.b)].tx, @), !.b = @ + 1]
    BY <1>0, <1>1, <1>5, <1>6 DEF ReplayBatch
  <2>2. Replay(txs[Slot(rec.b)].tx, rec.ver[c]) = VersionBefore(base, rec.b + 1, t)
    <3>1. CASE t = 0
      <4>1. Slot(rec.b) = 0
        BY <1>0, <2>1, <3>1, SlotSmall, NAssumption
      <4>. QED  BY <1>5, <2>1, <3>1, <4>1 DEF Recoverable, Replay, VersionBefore
    <3>2. CASE t # 0
      <4>1. rec.b \in 0..t-1 /\ t < rec.b + N
        BY <1>0, <1>1, <1>5, <2>1, <3>2, NAssumption
      <4>2. /\ txs[Slot(rec.b)].tx.id = base + rec.b + 1
            /\ txs[Slot(rec.b)].tx.parent = base + rec.b
        <5>1. HasTransactions(base, rec.b, txs[Slot(rec.b)])
          BY <4>1 DEF Recoverable
        <5>2. rec.b > 0 \/ base = 0
          BY <1>1, <1>5, <2>1
        <5>. QED  BY <5>1, <5>2 DEF HasTransactions
      <4>3. rec.ver[c] = base + rec.b
        BY <1>5, <2>1, <3>2 DEF VersionBefore
      <4>4. txs[Slot(rec.b)].tx # NoTransactions /\ base + rec.b # Wrong
        BY <2>1, <4>2 DEF NoTransactions, Wrong
      <4>5. /\ base + rec.b + 1 = base + (rec.b + 1) /\ base + rec.b \in Nat
        BY <2>1
      <4>6. VersionBefore(base, rec.b + 1, t) = base + rec.b + 1
        BY <3>2, <4>5 DEF VersionBefore
      <4>7. Replay(txs[Slot(rec.b)].tx, rec.ver[c]) = txs[Slot(rec.b)].tx.id
        BY <4>2, <4>3, <4>4 DEF Replay
      <4>. QED  BY <4>2, <4>6, <4>7
    <3>. QED  BY <3>1, <3>2
  <2>3. VersionBefore(base, rec.b + 1, t) \in Int
    BY <2>1 DEF VersionBefore
  <2>4. rec' = [rec EXCEPT !.ver[c] = VersionBefore(base, rec.b + 1, t), !.b = rec.b + 1]
    BY <1>1, <2>1, <2>2
  <2>5. /\ rec'.ver = [rec.ver EXCEPT ![c] = VersionBefore(base, rec.b + 1, t)]
        /\ rec'.b = rec.b + 1 /\ rec'.label = rec.label /\ rec'.latest = rec.latest
        /\ rec'.cur = rec.cur /\ rec'.left = rec.left
    BY <1>1, <2>4
  <2>6. rec' \in [ver : [Chunks -> Int], label : [Chunks -> Int], latest : Chunks,
                  cur : Chunks, left : 0..N-1, b : Int]
    <3>1. rec' = [ver |-> rec'.ver, label |-> rec.label, latest |-> rec.latest,
                  cur |-> rec.cur, left |-> rec.left, b |-> rec.b + 1]
      BY <1>1, <2>4
    <3>2. rec'.ver \in [Chunks -> Int]
      BY <1>1, <2>3, <2>5
    <3>. QED  BY <1>1, <3>1, <3>2
  <2>7. HighestBatch' = top
    BY <1>1, <2>5 DEF HighestBatch
  <2>8. \A k \in Chunks : Behind(k)' = Behind(k)
    BY <2>5 DEF Behind
  <2>9. \A k \in Chunks \ {c} : rec'.ver[k] = rec.ver[k]
    BY <1>1, <2>5
  <2>10. rec'.ver[c] = VersionBefore(base, rec.b + 1, t)
    BY <1>1, <2>5
  <2>11. \A k \in Chunks :
           /\ Behind(k)' < N - rec'.left => rec'.ver[k] = final
           /\ Behind(k)' > N - rec'.left =>
                 rec'.ver[k] = VersionBefore(base, rec'.label[k] + 1, t)
    <3>1. N - rec'.left = N - rec.left /\ N - rec.left \in Int
      BY <1>1, <2>5, NAssumption
    <3>2. ~(Behind(c)' < N - rec'.left) /\ ~(Behind(c)' > N - rec'.left)
      BY <1>5, <2>1, <2>8, <3>1
    <3>. QED  BY <1>4, <2>5, <2>8, <2>9, <3>1, <3>2
  <2>12. /\ Behind(rec.cur)' = N - rec'.left
         /\ rec'.b \in rec'.label[c] + 1 .. top + 1
    <3>1. Behind(c)' = Behind(c) /\ rec'.cur = c
      BY <2>5, <2>8
    <3>2. Behind(rec.cur)' = Behind(c)'
      BY <3>1 DEF Behind
    <3>. QED  BY <1>1, <1>5, <2>1, <2>5, <3>1, <3>2
  <2>. QED
    BY <1>1, <2>1, <2>5, <2>6, <2>7, <2>10, <2>11, <2>12 DEF Replaying
<1>7. CASE NextChunk
  <2>1. PICK p \in Chunks : p = PreviousChunk(c)
    BY NAssumption DEF PreviousChunk, Chunks
  <2>2. /\ rec.left > 0 /\ rec.b > top
        /\ rec' = [rec EXCEPT !.cur = p, !.left = rec.left - 1, !.b = rec.label[p] + 1]
    BY <1>1, <1>7, <2>1 DEF NextChunk
  <2>3. /\ rec'.ver = rec.ver /\ rec'.label = rec.label /\ rec'.latest = rec.latest
        /\ rec'.cur = p /\ rec'.left = rec.left - 1 /\ rec'.b = rec.label[p] + 1
    BY <1>1, <2>2
  <2>4. rec' \in [ver : [Chunks -> Int], label : [Chunks -> Int], latest : Chunks,
                  cur : Chunks, left : 0..N-1, b : Int]
    <3>1. rec' = [ver |-> rec.ver, label |-> rec.label, latest |-> rec.latest,
                  cur |-> p, left |-> rec.left - 1, b |-> rec.label[p] + 1]
      BY <1>1, <2>2
    <3>2. rec.left - 1 \in 0..N-1 /\ rec.label[p] + 1 \in Int
      BY <1>1, <2>2, NAssumption
    <3>. QED  BY <1>1, <3>1, <3>2
  <2>5. HighestBatch' = top
    BY <1>1, <2>3 DEF HighestBatch
  <2>6. \A k \in Chunks : Behind(k)' = Behind(k)
    BY <2>3 DEF Behind
  <2>7. rec.b = top + 1 /\ rec.ver[c] = final
    <3>1. rec.b = top + 1
      BY <1>1, <1>5, <2>2
    <3>. QED  BY <1>0, <1>5, <2>2, <3>1
  <2>8. \A k \in Chunks : Behind(k) = Behind(c) => k = c
    BY <1>2, NAssumption DEF Chunks
  <2>9. rec'.left > 0 => Behind(p) = Behind(c) + 1
    <3>1. p = IF c = 0 THEN N - 1 ELSE c - 1
      BY <2>1 DEF PreviousChunk
    <3>2. rec'.left > 0 => Behind(c) < N - 1
      BY <1>1, <1>5, <2>2, <2>3, NAssumption
    <3>3. /\ Behind(c) = IF c <= h THEN h - c ELSE h - c + N
          /\ Behind(p) = IF p <= h THEN h - p ELSE h - p + N
      BY <1>2
    <3>. QED  BY <3>1, <3>2, <3>3, NAssumption DEF Chunks
  <2>10. \A k \in Chunks :
           /\ Behind(k)' < N - rec'.left => rec'.ver[k] = final
           /\ Behind(k)' > N - rec'.left =>
                 rec'.ver[k] = VersionBefore(base, rec'.label[k] + 1, t)
    <3>. TAKE k \in Chunks
    <3>1. Behind(k)' < N - rec'.left => rec'.ver[k] = final
      BY <1>1, <1>4, <1>5, <1>3, <2>2, <2>3, <2>6, <2>7, <2>8, NAssumption
    <3>2. Behind(k)' > N - rec'.left => rec'.ver[k] = VersionBefore(base, rec'.label[k] + 1, t)
      BY <1>1, <1>4, <1>3, <2>2, <2>3, <2>6, NAssumption
    <3>. QED  BY <3>1, <3>2
  <2>11. rec'.left > 0 =>
           /\ Behind(rec.cur)' = N - rec'.left
           /\ rec'.b \in rec'.label[p] + 1 .. top + 1
           /\ rec'.ver[p] = VersionBefore(base, rec'.b, t)
    <3>1. Behind(rec.cur)' = Behind(p)'
      BY <2>3 DEF Behind
    <3>2. rec'.left > 0 => Behind(p) = N - rec'.left
      BY <1>1, <1>5, <2>2, <2>3, <2>9, NAssumption
    <3>3. rec'.b \in rec'.label[p] + 1 .. top + 1
      BY <1>1, <2>3
    <3>4. rec'.left > 0 => rec'.ver[p] = VersionBefore(base, rec'.b, t)
      BY <1>1, <1>4, <2>2, <2>3, <3>2, NAssumption
    <3>. QED  BY <2>6, <3>1, <3>2, <3>3, <3>4
  <2>. QED
    BY <1>1, <2>3, <2>4, <2>5, <2>10, <2>11 DEF Replaying
<1>. QED  BY <1>6, <1>7

\* When it has come to its end, every chunk has the version.
LEMMA ReplayEnds ==
    ASSUME NEW base \in Nat, NEW t \in Nat, Replaying(base, t), Recovered
    PROVE  /\ \A k \in Chunks : rec.ver[k] = VersionBefore(base, t, t)
           /\ HighestBatch = LastBatch(t)
<1>1. \A k \in Chunks : Behind(k) < N - rec.left
  BY NAssumption DEF Replaying, Recovered, Behind, Chunks
<1>. QED  BY <1>1 DEF Replaying

\* However little of the last batch has reached the log, the one before is whole; with one
\* slot it is overwritten.
LEMMA NewestIsWhole ==
    ASSUME NEW m \in Nat, N > 1,
           \A k \in Chunks : NearlyHoldsSnapshot(0, snap[k], k, m),
           \A k \in Chunks : NearlyHoldsTransactions(0, txs[k], k, m)
    PROVE  WholeId \in Nat /\ WholeId + 1 >= m
<1>. DEFINE whole == {snap[k].ver : k \in {j \in Chunks : snap[j].ver <= txs[j].tx.id}}
            newest == IF m \in whole \/ m = 0 THEN m ELSE m - 1
<1>1. whole \in SUBSET Nat /\ \A v \in whole : v <= m
  <2>1. \A k \in Chunks : snap[k].ver \in 0..0+m
    BY NearlyFields
  <2>. QED  BY <2>1
<1>2. m > 1 => m - 1 \in whole
  <2>. SUFFICES ASSUME m > 1 PROVE m - 1 \in whole
    OBVIOUS
  <2>1. m - 2 \in 0..m-1 /\ m <= (m - 2) + N /\ Slot(m - 2) \in Chunks
    BY SlotInChunks, NAssumption
  <2>2. Slot(m - 2) # Slot(m - 1)
    BY SlotsApart, NAssumption
  <2>3. snap[Slot(m - 2)] = SnapshotOf(0, m - 2) /\ HasTransactions(0, m - 2, txs[Slot(m - 2)])
    BY <2>1, <2>2, SlotIsTaken DEF NearlyHoldsSnapshot, NearlyHoldsTransactions
  <2>4. snap[Slot(m - 2)].ver = m - 1 /\ txs[Slot(m - 2)].tx.id = m - 1
    BY <2>3 DEF SnapshotOf, HasTransactions
  <2>. QED  BY <2>1, <2>4
<1>. HIDE DEF whole
<1>3. newest \in Nat /\ newest \in whole \cup {0} /\ \A v \in whole : v <= newest
  BY <1>1, <1>2
<1>. HIDE DEF newest
<1>4. (CHOOSE id \in whole \cup {0} : \A other \in whole : other <= id) = newest
  BY <1>1, <1>3, GreatestId
<1>5. newest + 1 >= m
  BY DEF newest
<1>. QED  BY <1>3, <1>4, <1>5 DEF WholeId, whole

\* With the last batch in its slots as well, it is the newest one.
LEMMA LastIsWhole ==
    ASSUME NEW m \in Nat,
           \A k \in Chunks : HoldsSnapshot(0, snap[k], k, m),
           \A k \in Chunks : HoldsTransactions(0, txs[k], k, m)
    PROVE  WholeId = m
<1>1. ASSUME NEW k \in Chunks PROVE snap[k].ver <= txs[k].tx.id
  <2>1. ASSUME NEW b \in 0..m-1, m <= b + N, Slot(b) = k, snap[k] = SnapshotOf(0, b)
        PROVE  snap[k].ver <= txs[k].tx.id
    <3>1. HasTransactions(0, b, txs[k])
      BY <2>1, SlotIsTaken
    <3>. QED  BY <2>1, <3>1 DEF SnapshotOf, HasTransactions
  <2>2. CASE snap[k] = ZeroSnapshot /\ m <= k
    <3>1. txs[k].tx.id \in 0..0+m
      BY TransactionsFields
    <3>. QED  BY <2>2, <3>1 DEF ZeroSnapshot
  <2>. QED  BY <2>1, <2>2 DEF HoldsSnapshot, LeftSnapshot
<1>2. WholeId = 0 + m
  BY <1>1, WholeIdIs
<1>. QED  BY <1>2
=============================================================================
