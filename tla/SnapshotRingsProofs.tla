------------------------- MODULE SnapshotRingsProofs -------------------------
(***************************************************************************)
(* Proofs about the seven variants with a ring of snapshots and write      *)
(* sets, for every size of the ring and of the chunks and every number of  *)
(* batches, starts, kills and power losses.                                *)
(***************************************************************************)
EXTENDS SnapshotRings, FiniteSetTheorems, SequenceTheorems,
        WellFoundedInduction, TLAPS

-----------------------------------------------------------------------------
\* The inductive invariant: types and control.

Balances == [Accounts -> Nat]
Entered == Seq(Accounts \X Nat)
SlotRecords == [header : [batch : -1..total - 1, count : Nat],
                chunk : [FirstChunk -> Nat], writes : Entered]

TypeOK ==
    /\ program \in Programs /\ total \in Nat
    /\ file \in [Slots -> SlotRecords] /\ disk \in [Slots -> SlotRecords]
    /\ batch \in Nat /\ writes \in Nat /\ runs \in Nat /\ failedAt \in Nat \union {-1}
    /\ state \in Balances /\ passed \in Balances /\ after \in Seq(Balances)
    /\ accum \in WriteSets /\ job \in Jobs /\ box \in Jobs \union {Empty}
    /\ error \in BOOLEAN /\ terminate \in BOOLEAN /\ owed \in BOOLEAN
    /\ job.batch \in -1..total - 1 /\ batch <= total
    /\ box # Empty => box.batch \in 0..total - 1

PartNames == {"header", "chunk", "writes"}
PlanSteps == [slot : Int, part : PartNames \union {"sync"}]

\* The counted entries are there.
Counted(sets) == \A s \in Slots : sets[s].count <= Len(sets[s].entries)

SetsCounted == Counted(accum) /\ Counted(job.accum) /\ (box # Empty => Counted(box.accum))

Control ==
    /\ main = "down" => worker = "down" /\ todo = <<>> /\ box = Empty
    /\ Sequential =>
          /\ main \in {"down", "apply", "commit", "flush", "finish"}
          /\ worker \in {"down", "run"} /\ box = Empty
          /\ todo # <<>> <=> main \in {"commit", "flush"}
          /\ main = "flush" => program \in {"glaze", "memset"}
    /\ ~Sequential =>
          /\ main \in {"down", "top", "read", "submit", "drain", "finish"}
          /\ worker \in {"down", "run", "commit", "report"}
          /\ todo # <<>> <=> worker = "commit"
          /\ main = "read" => batch < total
          /\ main = "submit" => batch > 0
    /\ main # "down" => runs > 0 /\ cut = "clean"
    /\ batch = 0 => accum = NoWrites
    /\ main # "down" => Len(after) = batch + 1 /\ after[batch + 1] = state
    /\ Mapped => failedAt = -1

\* Before the first start.
Untouched ==
    runs = 0 => /\ file = [s \in Slots |-> EmptySlot] /\ disk = file
                /\ job.batch = -1 /\ failedAt = -1 /\ cut = "clean" /\ passed = ZeroState

\* The next step of the commit under way, counted from 1; the steps left are the end of
\* the plan.
NextStep == Len(Plan(job.batch)) - Len(todo) + 1

TodoFollows ==
    todo # <<>> =>
        /\ job.batch >= 0
        /\ \E k \in 1..Len(Plan(job.batch)) :
                todo = SubSeq(Plan(job.batch), k, Len(Plan(job.batch)))

-----------------------------------------------------------------------------
\* async: the batches on their way from main to the file.

\* How many batches main has put into the box, and how many the thread has taken.
Submitted == IF main = "submit" THEN batch - 1 ELSE batch
Taken == IF box = Empty THEN Submitted ELSE Submitted - 1

HandOver ==
    ~Sequential /\ main # "down" =>
       /\ terminate => main \in {"drain", "finish"}
       /\ main = "finish" => terminate
       /\ worker = "down" => terminate /\ box = Empty
       /\ box # Empty => Submitted > 0
       /\ failedAt = -1 =>
             /\ worker # "report" /\ (error => main \in {"drain", "finish"})
             /\ box # Empty => box.batch = Submitted - 1
             /\ Taken > 0 \/ runs = 1 => job.batch = Taken - 1
             /\ Taken > 0 /\ worker # "commit" => disk = file

\* Once a commit has failed main puts at most one batch more into the box.
FailureBounded ==
    ~Sequential /\ runs = 1 /\ failedAt # -1 =>
       /\ job.batch <= failedAt + 1
       /\ main # "down" =>
             /\ box # Empty => box.batch <= failedAt + 1
             /\ \/ error
                \/ worker = "report" /\ job.batch = failedAt /\ Taken = failedAt + 1

-----------------------------------------------------------------------------
\* What a slot gives for an account.

EntryOf(slot, i) == IF i <= Len(slot.writes) THEN slot.writes[i] ELSE <<0, 0>>
SlotHits(slot, a) == {i \in 1..slot.header.count : EntryOf(slot, i)[1] = a}
SlotLast(slot, a) == EntryOf(slot, Max(SlotHits(slot, a)))[2]

\* The same of a write set in memory.
SetHits(set, a) == {i \in 1..set.count : set.entries[i][1] = a}
SetLast(set, a) == set.entries[Max(SetHits(set, a))][2]

\* The slot of an account in the variants that log the whole state, and the balance that
\* it gives.
Home(a) == a \div PerChunk
Value(slot, a) ==
    CASE slot.header.batch = -1 -> 0
      [] slot.header.batch # -1 /\ Mapped /\ SlotHits(slot, a) # {} -> SlotLast(slot, a)
      [] OTHER -> slot.chunk[a % PerChunk]

Old(slot, s) == \A a \in Accounts : Home(a) = s => Value(slot, a) = passed[a]

\* A slot has a part of the commit under way.
HasPart(slot, s, part) ==
    CASE part = "header" -> slot.header = Content(s).header
      [] part = "chunk"  -> slot.chunk = Content(s).chunk
      [] part = "writes" -> /\ Len(slot.writes) >= Len(Content(s).writes)
                            /\ \A i \in 1..Len(Content(s).writes) :
                                  slot.writes[i] = Content(s).writes[i]

Part(j) ==
    (IF program \in {"opcode", "server", "breaking"} THEN <<"header", "chunk", "writes">>
                                                    ELSE <<"chunk", "writes", "header">>)[j]

\* A write set that, redone on any state between, gives a state.
SetGives(set, st, a) == SetHits(set, a) # {} => SetLast(set, a) = st[a]

-----------------------------------------------------------------------------
\* Variants that log the whole state.

JobFits ==
    Mapped /\ todo # <<>> => \A a \in Accounts : SetGives(job.accum[Home(a)], job.state, a)

FreshSets == Mapped => \A s \in Slots : accum[s].count = 0

PassFollows ==
    WholeState /\ failedAt = -1 /\ main # "down" =>
       /\ todo = <<>> => \A s \in Slots : Old(file[s], s)
       /\ todo # <<>> => \A s \in Slots :
             /\ NextStep <= 3 * s + 1 => Old(file[s], s)
             /\ \A j \in 1..3 : 3 * s + j < NextStep => HasPart(file[s], s, Part(j))
             /\ ~Mapped /\ NextStep <= 3 * s + 3 /\ file[s].header.batch = -1 =>
                   \A a \in Accounts : Home(a) = s => passed[a] = 0

DevicePass ==
    WholeState /\ ~Mapped /\ failedAt = -1 /\ main # "down" /\ ~owed =>
       /\ \A s \in Slots : /\ disk[s].header.batch = -1 => disk[s] = EmptySlot
                           /\ Old(disk[s], s)
       /\ todo = <<>> => disk = file
       /\ todo # <<>> => \A s \in Slots : \A j \in 1..3 :
             NextStep <= 3 * s + j => file[s][Part(j)] = disk[s][Part(j)]

StateFollows ==
    WholeState /\ failedAt = -1 =>
       /\ main \in {"commit", "flush"} => job.state = state
       /\ main = "commit" /\ ~Mapped => batch % Ring = 0
       /\ main = "apply" => IF Mapped \/ batch % Ring = 0 THEN state = passed ELSE TRUE
       /\ main = "finish" => IF Mapped \/ total % Ring # 0 \/ batch % Ring = 0
                               THEN state = passed ELSE TRUE

-----------------------------------------------------------------------------
\* Variants that log a slot for a batch.

EntryCount == Len(CHOOSE t \in Transfers : TRUE)

\* Redone on one state, a write set or the write set of a slot gives the next.
Redoes(set, old, new) ==
    \A a \in Accounts : IF SetHits(set, a) # {} THEN SetLast(set, a) = new[a]
                                                ELSE new[a] = old[a]
SlotRedoes(slot, old, new) ==
    \A a \in Accounts : IF SlotHits(slot, a) # {} THEN SlotLast(slot, a) = new[a]
                                                  ELSE new[a] = old[a]

\* A write set of batch b.
SetOf(b, set) ==
    (program = "server" => set.count = EntryCount) /\ Redoes(set, Version(b - 1), Version(b))

JobOf(b, j) ==
    /\ b \in 0..Len(after) - 2 /\ j.batch = b /\ j.state = Version(b)
    /\ SetOf(b, j.accum[b % Ring])

JobsFollow ==
    ~WholeState /\ runs = 1 =>
       /\ after[1] = ZeroState
       /\ job.batch # -1 => JobOf(job.batch, job)
       /\ box # Empty => JobOf(box.batch, box)
       /\ main = "submit" => SetOf(batch - 1, accum[(batch - 1) % Ring])
       /\ Sequential /\ main # "down" => job.batch = batch - 1

\* What the slot of batch b holds once it is committed.
HoldsBatch(slot, b) ==
    /\ slot.header.batch = b /\ slot.chunk = ChunkAt(Version(b), 0)
    /\ program = "server" => slot.header.count = EntryCount
    /\ SlotRedoes(slot, Version(b - 1), Version(b))

\* Slot s after the first m batches.
Holds(slot, s, m) ==
    \/ m <= s /\ slot = EmptySlot
    \/ \E b \in 0..m - 1 : m <= b + Ring /\ b % Ring = s /\ HoldsBatch(slot, b)

BatchFollows ==
    ~WholeState /\ runs = 1 /\ failedAt = -1 /\ main # "down" =>
       /\ \A s \in Slots :
             Holds(disk[s], s, IF todo = <<>> THEN job.batch + 1 ELSE job.batch)
       /\ todo = <<>> => file = disk
       /\ todo # <<>> =>
             LET t == job.batch % Ring
             IN  /\ \A s \in Slots \ {t} : file[s] = disk[s]
                 /\ \A j \in 1..3 : IF NextStep <= j THEN file[t][Part(j)] = disk[t][Part(j)]
                                                     ELSE HasPart(file[t], t, Part(j))

\* The slots, said of the file alone.  Inside a commit each part of the slot of the batch
\* is the old one or the new one; async writes the header last.
Mixture(slot, old, t) ==
    /\ \A p \in PartNames : slot[p] = old[p] \/ HasPart(slot, t, p)
    /\ program = "async" => slot.header = old.header \/ \A p \in PartNames : HasPart(slot, t, p)

SlotsLeft ==
    IF Committing
      THEN /\ job.batch >= 0
           /\ \A s \in Slots \ {job.batch % Ring} : Holds(file[s], s, job.batch)
           /\ \E old \in SlotRecords :
                 /\ Holds(old, job.batch % Ring, job.batch)
                 /\ Mixture(file[job.batch % Ring], old, job.batch % Ring)
      ELSE \A s \in Slots : Holds(file[s], s, job.batch + 1)

BatchLeft ==
    ~WholeState /\ runs = 1 /\ failedAt = -1 /\ main = "down"
        /\ ~(program = "async" /\ cut = "power") => SlotsLeft

-----------------------------------------------------------------------------
\* Numbers: batches and slots, accounts and chunks, greatest and least elements.

\* A batch has a slot of the ring, and the first of them go round it once.
LEMMA TurnOf == \A b \in Nat : b % Ring \in Slots /\ (b < Ring => b % Ring = b)
  BY SlotAssumption DEF Slots

\* A multiple of the size of the ring between its negation and it is 0.
LEMMA SmallMultiple == \A q \in Int : -Ring < Ring * q /\ Ring * q < Ring => q = 0
<1>1. \A q \in Nat \ {0} : Ring * q >= Ring /\ Ring * (-q) <= -Ring
  BY SlotAssumption
<1>2. \A q \in Int : q < 0 => -q \in Nat \ {0} /\ q = -(-q)
  OBVIOUS
<1>. QED  BY <1>1, <1>2, SlotAssumption

\* The batch number is some rounds and the slot.
LEMMA TurnParts ==
    \A b \in Nat : \E q \in Nat, r \in Slots : b % Ring = r /\ b = Ring * q + r
<1>. TAKE b \in Nat
<1>1. b = Ring * (b \div Ring) + (b % Ring) /\ (b \div Ring) \in Nat
  BY SlotAssumption
<1>. QED  BY <1>1, TurnOf

\* Two of as many consecutive batches as there are slots never share one.
LEMMA TurnsApart == \A b, c \in Nat : b < c /\ c < b + Ring => b % Ring # c % Ring
<1>. SUFFICES ASSUME NEW b \in Nat, NEW c \in Nat, b < c, c < b + Ring, b % Ring = c % Ring
              PROVE  FALSE
  OBVIOUS
<1>1. PICK p \in Nat, r \in Slots : b % Ring = r /\ b = Ring * p + r
  BY TurnParts
<1>2. PICK q \in Nat, s \in Slots : c % Ring = s /\ c = Ring * q + s
  BY TurnParts
<1>3. r = s /\ r \in Nat
  BY <1>1, <1>2, SlotAssumption DEF Slots
<1>4. b = Ring * p + r /\ c = Ring * q + r
  BY <1>1, <1>2, <1>3
<1>5. c - b = Ring * (q - p)
  BY <1>3, <1>4, SlotAssumption
<1>6. q - p = 0
  <2>1. -Ring < Ring * (q - p) /\ Ring * (q - p) < Ring
    BY <1>5, SlotAssumption
  <2>. QED  BY <2>1, SmallMultiple
<1>. QED  BY <1>5, <1>6, SlotAssumption

\* The next of them does.
LEMMA TurnAgain == \A b \in Nat : (b + Ring) % Ring = b % Ring
<1>. TAKE b \in Nat
<1>1. b + Ring \in Nat
  BY SlotAssumption
<1>2. PICK p \in Nat, r \in Slots : b % Ring = r /\ b = Ring * p + r
  BY TurnParts
<1>3. PICK q \in Nat, s \in Slots : (b + Ring) % Ring = s /\ b + Ring = Ring * q + s
  BY <1>1, TurnParts
<1>4. r \in 0..Ring-1 /\ s \in 0..Ring-1 /\ b = Ring * p + r /\ b + Ring = Ring * q + s
  BY <1>2, <1>3 DEF Slots
<1>5. s - r = Ring * (p + 1 - q)
  BY <1>4, SlotAssumption
<1>6. p + 1 - q = 0
  <2>1. -Ring < Ring * (p + 1 - q) /\ Ring * (p + 1 - q) < Ring
    BY <1>4, <1>5, SlotAssumption
  <2>. QED  BY <2>1, SmallMultiple
<1>7. r = s
  BY <1>4, <1>5, <1>6, SlotAssumption
<1>. QED  BY <1>2, <1>3, <1>7

\* An account is in one chunk, at one place.
LEMMA HomeIs == \A a \in Accounts : /\ Home(a) \in Slots /\ a % PerChunk \in FirstChunk
                                    /\ Home(a) * PerChunk + (a % PerChunk) = a
<1>. TAKE a \in Accounts
<1>1. a \in Nat /\ a < Ring * PerChunk
  BY SlotAssumption DEF Accounts
<1>2. /\ a = PerChunk * (a \div PerChunk) + (a % PerChunk) /\ (a \div PerChunk) \in Nat
      /\ a % PerChunk \in 0..PerChunk-1
  BY <1>1, SlotAssumption
<1>. DEFINE h == a \div PerChunk  r == a % PerChunk
<1>3. h \in Nat /\ r \in 0..PerChunk-1 /\ a = PerChunk * h + r
  BY <1>2
<1>. HIDE DEF h, r
<1>4. h < Ring
  <2>. SUFFICES ASSUME h >= Ring PROVE FALSE
    BY <1>3, SlotAssumption
  <2>1. PICK d \in Nat : h = Ring + d
    BY <1>3, SlotAssumption
  <2>2. PerChunk * h = PerChunk * Ring + PerChunk * d /\ PerChunk * d \in Nat
    BY <2>1, SlotAssumption
  <2>. QED  BY <1>1, <1>3, <2>2, SlotAssumption
<1>5. h * PerChunk = PerChunk * h
  BY <1>3, SlotAssumption
<1>6. h * PerChunk + r = a
  BY <1>3, <1>5, SlotAssumption
<1>. QED  BY <1>3, <1>4, <1>6, SlotAssumption DEF Home, Slots, FirstChunk, h, r

\* The accounts of the first chunk are those whose slot is the first.
LEMMA FirstAccounts == \A a \in FirstChunk : a \in Accounts /\ 0 + a = a
<1>1. Ring * PerChunk >= PerChunk /\ Ring * PerChunk \in Nat
  BY SlotAssumption
<1>. QED  BY <1>1, SlotAssumption DEF FirstChunk, Accounts

\* A nonempty set of naturals has a least element.
LEMMA LeastOf ==
    ASSUME NEW T \in SUBSET Nat, T # {}
    PROVE  \E n \in T : \A m \in T : n <= m
<1>. DEFINE ordering == StrictSubsetOrdering(Nat)
            intervals == {0..n : n \in T}
<1>1. IsWellFoundedOn(ordering, FiniteSubsetsOf(Nat))
  BY FS_StrictSubsetOrderingWellFounded
<1>2. intervals \subseteq FiniteSubsetsOf(Nat) /\ intervals # {}
  <2>1. \A n \in T : 0..n \in SUBSET Nat /\ IsFiniteSet(0..n)
    BY FS_Interval
  <2>. QED  BY <2>1 DEF FiniteSubsetsOf
<1>. HIDE DEF ordering
<1>3. PICK least \in intervals : \A i \in intervals : ~ (<<i, least>> \in ordering)
  BY <1>1, <1>2, WFMin
<1>4. PICK n \in T : least = 0..n
  BY <1>3
<1>5. \A m \in T : m < n => <<0..m, 0..n>> \in ordering
  <2>1. \A m \in T : m < n => 0..m \subseteq 0..n /\ n \notin 0..m /\ n \in 0..n
    OBVIOUS
  <2>2. \A m \in T : 0..m \in SUBSET Nat
    OBVIOUS
  <2>3. \A m \in T : m < n => 0..m # 0..n
    BY <2>1
  <2>. QED  BY <2>1, <2>2, <2>3 DEF ordering, StrictSubsetOrdering
<1>6. \A m \in T : 0..m \in intervals
  OBVIOUS
<1>. HIDE DEF intervals
<1>7. \A m \in T : ~ (m < n)
  BY <1>3, <1>4, <1>5, <1>6
<1>. QED  BY <1>7

\* A nonempty set of numbers up to n has a greatest one.
LEMMA MaxIs ==
    ASSUME NEW n \in Nat, NEW S \in SUBSET (0..n), S # {}
    PROVE  Max(S) \in S /\ \A x \in S : x <= Max(S)
<1>. DEFINE T == {n - x : x \in S}
<1>1. T \in SUBSET Nat /\ T # {}
  OBVIOUS
<1>2. PICK t \in T : \A u \in T : t <= u
  BY <1>1, LeastOf
<1>3. PICK m \in S : t = n - m
  BY <1>2
<1>4. \A x \in S : n - m <= n - x
  BY <1>2, <1>3
<1>5. \E x \in S : \A y \in S : x >= y
  BY <1>3, <1>4
<1>. HIDE DEF T
<1>6. Max(S) \in S /\ \A y \in S : Max(S) >= y
  BY <1>5 DEF Max
<1>. QED  BY <1>6

\* Of some slots with a number, one has the highest and one has the lowest.
LEMMA NewestIs ==
    ASSUME NEW u \in Nat, NEW S, S # {}, \A s \in S : file[s].header.batch \in 0..u
    PROVE  /\ Newest(S) \in S
           /\ \A s \in S : file[s].header.batch <= file[Newest(S)].header.batch
           /\ Oldest(S) \in S
           /\ \A s \in S : file[Oldest(S)].header.batch <= file[s].header.batch
<1>. DEFINE T == {u - file[s].header.batch : s \in S}
            B == {file[s].header.batch : s \in S}
<1>1. T \in SUBSET Nat /\ T # {} /\ B \in SUBSET Nat /\ B # {}
  OBVIOUS
<1>2. PICK t \in T : \A x \in T : t <= x
  BY <1>1, LeastOf
<1>3. PICK b \in B : \A x \in B : b <= x
  BY <1>1, LeastOf
<1>4. PICK m \in S : t = u - file[m].header.batch
  BY <1>2
<1>5. PICK o \in S : b = file[o].header.batch
  BY <1>3
<1>6. \A s \in S : u - file[m].header.batch <= u - file[s].header.batch
  BY <1>2, <1>4
<1>7. \A s \in S : file[s].header.batch <= file[m].header.batch
  BY <1>6, <1>4
<1>8. \A s \in S : file[o].header.batch <= file[s].header.batch
  BY <1>3, <1>5
<1>. QED  BY <1>4, <1>5, <1>7, <1>8 DEF Newest, Oldest

-----------------------------------------------------------------------------
\* Picking the entries at some places out of a sequence.

\* The place of each rank is one of the places.
LEMMA NthIs ==
    ASSUME NEW n \in Nat, NEW I, \A k \in I : k \in 1..n, NEW j \in 1..Cardinality(I)
    PROVE  Nth(I, j) \in I /\ Cardinality({k \in I : k <= Nth(I, j)}) = j
<1>. DEFINE Upto(m) == {k \in I : k <= m}
            B == {m \in 0..n : Cardinality(Upto(m)) >= j}
<1>1. IsFiniteSet(I) /\ Cardinality(I) \in Nat
  <2>1. IsFiniteSet(1..n)
    BY FS_Interval
  <2>2. I \in SUBSET (1..n)
    OBVIOUS
  <2>. QED  BY <2>1, <2>2, FS_Subset, FS_CardinalityType
<1>2. \A m \in 0..n : IsFiniteSet(Upto(m)) /\ Cardinality(Upto(m)) \in Nat
  BY <1>1, FS_Subset, FS_CardinalityType
<1>3. Upto(0) = {} /\ Upto(n) = I
  OBVIOUS
<1>4. ASSUME NEW m \in 1..n
      PROVE  /\ m \notin I => Upto(m) = Upto(m - 1)
             /\ m \in I => Upto(m) = Upto(m - 1) \union {m} /\ m \notin Upto(m - 1)
  <2>1. \A k \in I : k <= m <=> k <= m - 1 \/ k = m
    OBVIOUS
  <2>2. m \notin Upto(m - 1)
    OBVIOUS
  <2>. QED  BY <2>1, <2>2
<1>. HIDE DEF Upto
<1>5. n \in B /\ B \in SUBSET Nat
  BY <1>1, <1>3
<1>6. PICK m \in B : \A x \in B : m <= x
  BY <1>5, LeastOf
<1>7. m \in 0..n /\ Cardinality(Upto(m)) >= j
  BY <1>6
<1>8. m \in 1..n /\ m - 1 \in 0..n
  BY <1>3, <1>7, FS_EmptySet
<1>9. Cardinality(Upto(m - 1)) < j
  <2>1. m - 1 \notin B
    BY <1>6, <1>8
  <2>2. Cardinality(Upto(m - 1)) \in Nat
    BY <1>2, <1>8
  <2>. QED  BY <2>1, <2>2, <1>1, <1>8
<1>. HIDE DEF B
<1>10. m \in I
  BY <1>2, <1>4, <1>7, <1>8, <1>9, <1>1
<1>11. Cardinality(Upto(m)) = Cardinality(Upto(m - 1)) + 1
  BY <1>2, <1>4, <1>8, <1>10, FS_AddElement
<1>12. Cardinality(Upto(m)) = j
  <2>1. Cardinality(Upto(m - 1)) \in Nat /\ j \in Nat
    BY <1>1, <1>2, <1>8
  <2>. QED  BY <2>1, <1>7, <1>9, <1>11
<1>. QED  BY <1>10, <1>12 DEF Nth, Upto

\* A later place has a higher rank.
LEMMA RankOrder ==
    ASSUME NEW n \in Nat, NEW I, \A k \in I : k \in 1..n, NEW i \in I, NEW k \in I, i < k
    PROVE  Cardinality({x \in I : x <= i}) < Cardinality({x \in I : x <= k})
<1>. DEFINE S == {x \in I : x <= i}  T == {x \in I : x <= k}
<1>1. S \subseteq T /\ k \in T /\ k \notin S /\ S # T
  OBVIOUS
<1>2. IsFiniteSet(T)
  <2>1. IsFiniteSet(1..n) /\ T \in SUBSET (1..n)
    BY FS_Interval
  <2>. QED  BY <2>1, FS_Subset
<1>. HIDE DEF S, T
<1>3. Cardinality(S) \in Nat /\ Cardinality(T) \in Nat /\ Cardinality(S) <= Cardinality(T)
  BY <1>1, <1>2, FS_Subset, FS_CardinalityType
<1>4. Cardinality(S) # Cardinality(T)
  BY <1>1, <1>2, FS_Subset
<1>5. Cardinality(S) < Cardinality(T)
  BY <1>3, <1>4
<1>. QED  BY <1>5 DEF S, T

\* Every place has its rank, and the ranks are in the order of the places.
LEMMA NthOrder ==
    ASSUME NEW n \in Nat, NEW I, \A k \in I : k \in 1..n
    PROVE  /\ Cardinality(I) \in Nat
           /\ \A i \in I : \E j \in 1..Cardinality(I) : Nth(I, j) = i
           /\ \A j, k \in 1..Cardinality(I) : j < k => Nth(I, j) < Nth(I, k)
<1>. DEFINE Rank(i) == Cardinality({x \in I : x <= i})
<1>1. IsFiniteSet(I) /\ Cardinality(I) \in Nat
  <2>1. IsFiniteSet(1..n)
    BY FS_Interval
  <2>2. I \in SUBSET (1..n)
    OBVIOUS
  <2>. QED  BY <2>1, <2>2, FS_Subset, FS_CardinalityType
<1>2. \A j \in 1..Cardinality(I) : Nth(I, j) \in I /\ Rank(Nth(I, j)) = j
  BY NthIs
<1>3. \A i, k \in I : i < k => Rank(i) < Rank(k)
  BY RankOrder
<1>4. \A i \in I : Rank(i) \in 1..Cardinality(I)
  <2>. TAKE i \in I
  <2>. DEFINE U == {x \in I : x <= i}
  <2>1. U \subseteq I /\ i \in U /\ Rank(i) = Cardinality(U)
    OBVIOUS
  <2>. HIDE DEF U, Rank
  <2>2. IsFiniteSet(U) /\ Cardinality(U) \in Nat /\ Cardinality(U) <= Cardinality(I)
    BY <2>1, <1>1, FS_Subset, FS_CardinalityType
  <2>3. Cardinality(U) # 0
    BY <2>1, <2>2, FS_EmptySet
  <2>. QED  BY <2>1, <2>2, <2>3, <1>1
<1>. HIDE DEF Rank
<1>5. \A i \in I : Nth(I, Rank(i)) = i
  <2>. TAKE i \in I
  <2>1. Rank(i) \in 1..Cardinality(I) /\ Rank(i) \in Nat
    BY <1>4, <1>1
  <2>2. Nth(I, Rank(i)) \in I /\ Rank(Nth(I, Rank(i))) = Rank(i)
    BY <2>1, <1>2
  <2>3. ~ (Nth(I, Rank(i)) < i) /\ ~ (i < Nth(I, Rank(i)))
    BY <2>1, <2>2, <1>3
  <2>. QED  BY <2>2, <2>3
<1>6. \A j, k \in 1..Cardinality(I) : j < k => Nth(I, j) < Nth(I, k)
  <2>. TAKE j, k \in 1..Cardinality(I)
  <2>. HAVE j < k
  <2>1. /\ Nth(I, j) \in I /\ Rank(Nth(I, j)) = j
        /\ Nth(I, k) \in I /\ Rank(Nth(I, k)) = k
    BY <1>2
  <2>2. ~ (Nth(I, k) < Nth(I, j)) /\ Nth(I, k) # Nth(I, j)
    BY <2>1, <1>1, <1>3
  <2>. QED  BY <2>1, <2>2
<1>. QED  BY <1>1, <1>4, <1>5, <1>6

\* What is picked is a sequence of entries; the last of them for an account is the last one
\* at the places.
LEMMA PickIs ==
    ASSUME NEW seq \in Entered, NEW I, \A k \in I : k \in 1..Len(seq)
    PROVE  /\ Pick(seq, I) \in Entered /\ Len(Pick(seq, I)) = Cardinality(I)
           /\ \A a :
                LET picked == {j \in 1..Len(Pick(seq, I)) : Pick(seq, I)[j][1] = a}
                    placed == {i \in I : seq[i][1] = a}
                IN  /\ picked = {} <=> placed = {}
                    /\ placed # {} => Pick(seq, I)[Max(picked)] = seq[Max(placed)]
<1>. DEFINE n == Len(seq)  c == Cardinality(I)  P == Pick(seq, I)
<1>1. n \in Nat /\ \A i \in 1..n : seq[i] \in Accounts \X Nat
  BY DEF Entered
<1>2. c \in Nat /\ \A j \in 1..c : Nth(I, j) \in I
  BY <1>1, NthOrder, NthIs
<1>3. \A i \in I : \E j \in 1..c : Nth(I, j) = i
  BY <1>1, NthOrder
<1>4. \A j, k \in 1..c : j < k => Nth(I, j) < Nth(I, k)
  BY <1>1, NthOrder
<1>. HIDE DEF n
<1>5. P = [j \in 1..c |-> seq[Nth(I, j)]]
  BY DEF Pick
<1>6. P \in Entered /\ Len(P) = c
  BY <1>1, <1>2, <1>5 DEF Entered, n
<1>. HIDE DEF P
<1>7. \A a : LET picked == {j \in 1..Len(P) : P[j][1] = a}
                  placed == {i \in I : seq[i][1] = a}
              IN  /\ picked = {} <=> placed = {}
                  /\ placed # {} => P[Max(picked)] = seq[Max(placed)]
  <2>. TAKE a
  <2>. DEFINE picked == {j \in 1..Len(P) : P[j][1] = a}
              placed == {i \in I : seq[i][1] = a}
  <2>0. picked = {j \in 1..c : P[j][1] = a} /\ placed = {i \in I : seq[i][1] = a}
    BY <1>6
  <2>. SUFFICES /\ picked = {} <=> placed = {}
                /\ placed # {} => P[Max(picked)] = seq[Max(placed)]
    OBVIOUS
  <2>. HIDE DEF picked, placed
  <2>1. \A j \in 1..c : P[j] = seq[Nth(I, j)]
    BY <1>5
  <2>2. \A j \in 1..c : j \in picked <=> Nth(I, j) \in placed
    BY <2>1, <1>2, <2>0
  <2>3. picked = {} <=> placed = {}
    BY <2>2, <1>2, <1>3, <2>0
  <2>4. ASSUME placed # {} PROVE P[Max(picked)] = seq[Max(placed)]
    <3>1. Max(picked) \in picked /\ \A x \in picked : x <= Max(picked)
      <4>1. picked \in SUBSET (0..c) /\ picked # {}
        BY <2>3, <2>4, <1>2, <2>0
      <4>. QED  BY <4>1, <1>2, MaxIs
    <3>2. Max(placed) \in placed /\ \A x \in placed : x <= Max(placed)
      <4>1. placed \in SUBSET (0..n)
        BY <1>1, <2>0 DEF n
      <4>. QED  BY <4>1, <2>4, <1>1, MaxIs
    <3>3. PICK j \in 1..c : Nth(I, j) = Max(placed)
      BY <3>2, <1>3, <2>0
    <3>4. Max(picked) \in 1..c /\ Nth(I, Max(picked)) \in placed /\ j \in picked
      BY <3>1, <3>2, <3>3, <2>2, <2>0
    <3>5. j <= Max(picked) /\ Nth(I, Max(picked)) <= Nth(I, j)
      BY <3>1, <3>2, <3>3, <3>4
    <3>6. j = Max(picked)
      <4>1. ~ (j < Max(picked))
        <5>1. Nth(I, j) \in 1..n /\ Nth(I, Max(picked)) \in 1..n
          BY <3>4, <1>2, <2>0 DEF n
        <5>. QED  BY <5>1, <3>4, <3>5, <1>4, <1>1
      <4>. QED  BY <4>1, <3>4, <3>5, <1>2
    <3>. QED  BY <3>3, <3>6, <2>1
  <2>. QED  BY <2>3, <2>4
<1>. QED  BY <1>6, <1>7 DEF P

-----------------------------------------------------------------------------
\* Write sets: what applying a batch enters into them.

\* Writing one sequence over another leaves the beginning of the new one.
LEMMA OverIs ==
    ASSUME NEW new \in Entered, NEW old \in Entered
    PROVE  /\ Over(new, old) \in Entered /\ Len(Over(new, old)) >= Len(new)
           /\ \A i \in 1..Len(new) : Over(new, old)[i] = new[i]
<1>. DEFINE rest == SubSeq(old, Len(new) + 1, Len(old))
<1>1. rest \in Entered
  BY DEF Entered
<1>. HIDE DEF rest
<1>. QED  BY <1>1 DEF Entered, Over, rest

\* The entries of a batch.
LEMMA EntriesAre ==
    ASSUME TypeOK, NEW accounts \in Seq(Accounts)
    PROVE  /\ Entries(accounts) \in Entered /\ Len(Entries(accounts)) = Len(accounts)
           /\ DOMAIN accounts = 1..Len(accounts) /\ Len(accounts) \in Nat
           /\ \A i \in 1..Len(accounts) : /\ Entries(accounts)[i] = <<accounts[i], writes + i>>
                                          /\ accounts[i] \in Accounts
<1>1. writes \in Nat
  BY DEF TypeOK
<1>2. /\ DOMAIN accounts = 1..Len(accounts) /\ Len(accounts) \in Nat
      /\ \A i \in 1..Len(accounts) : accounts[i] \in Accounts
  OBVIOUS
<1>3. Entries(accounts) = [i \in 1..Len(accounts) |-> <<accounts[i], writes + i>>]
  BY <1>2 DEF Entries
<1>4. \A i \in 1..Len(accounts) : <<accounts[i], writes + i>> \in Accounts \X Nat
  BY <1>1, <1>2
<1>. QED  BY <1>2, <1>3, <1>4 DEF Entered

\* The write sets of a new run are empty.
LEMMA NoWritesAre ==
    /\ NoWrites \in WriteSets /\ Counted(NoWrites)
    /\ \A s \in Slots : NoWrites[s].entries = <<>> /\ NoWrites[s].count = 0
<1>1. <<>> \in Seq(Accounts \X Nat) /\ Len(<<>>) = 0
  OBVIOUS
<1>. QED  BY <1>1 DEF NoWrites, WriteSets, Counted

\* The accumulated entries are a write set for every slot.
LEMMA AccumulatedIs ==
    ASSUME TypeOK, Counted(accum), NEW accounts \in Seq(Accounts)
    PROVE  Accumulated(accounts) \in WriteSets /\ Counted(Accumulated(accounts))
<1>. DEFINE before(s) == IF WholeState THEN accum[s] ELSE NoWrites[s]
            places(s) == {i \in DOMAIN accounts : SlotOf(Entries(accounts)[i]) = s}
            kept(s) == SubSeq(before(s).entries, 1, before(s).count)
            new(s) == kept(s) \o Pick(Entries(accounts), places(s))
<1>1. ASSUME NEW s \in Slots
      PROVE  new(s) \in Entered /\ before(s).entries \in Entered
  <2>1. /\ before(s).entries \in Entered /\ before(s).count \in Nat
        /\ before(s).count <= Len(before(s).entries)
    <3>1. CASE WholeState
      BY <3>1 DEF TypeOK, WriteSets, Counted, Entered
    <3>2. CASE ~WholeState
      BY <3>2, NoWritesAre DEF Counted, WriteSets, Entered
    <3>. QED  BY <3>1, <3>2
  <2>. HIDE DEF before
  <2>2. kept(s) \in Entered
    BY <2>1 DEF Entered
  <2>3. \A i \in places(s) : i \in 1..Len(Entries(accounts))
    BY EntriesAre
  <2>. HIDE DEF places
  <2>4. Pick(Entries(accounts), places(s)) \in Entered
    BY <2>3, EntriesAre, PickIs
  <2>. HIDE DEF kept
  <2>. QED  BY <2>1, <2>2, <2>4 DEF Entered
<1>2. Accumulated(accounts) =
        [s \in Slots |-> [entries |-> Over(new(s), before(s).entries), count |-> Len(new(s))]]
  BY DEF Accumulated
<1>. HIDE DEF new, before
<1>3. ASSUME NEW s \in Slots
      PROVE  /\ Over(new(s), before(s).entries) \in Entered /\ Len(new(s)) \in Nat
             /\ Len(Over(new(s), before(s).entries)) >= Len(new(s))
  <2>1. Len(new(s)) \in Nat
    BY <1>1 DEF Entered
  <2>. QED  BY <1>1, <2>1, OverIs
<1>. QED  BY <1>2, <1>3 DEF WriteSets, Counted, Entered

\* The state after a batch is one.
LEMMA StateAfterIs ==
    ASSUME TypeOK, NEW accounts \in Seq(Accounts)
    PROVE  /\ StateAfter(accounts) \in Balances
           /\ \A a \in Accounts :
                 LET hits == {i \in 1..Len(accounts) : accounts[i] = a}
                 IN  StateAfter(accounts)[a] = IF hits = {} THEN state[a]
                                                            ELSE writes + Max(hits)
<1>1. DOMAIN accounts = 1..Len(accounts) /\ Len(accounts) \in Nat
  OBVIOUS
<1>2. ASSUME NEW a \in Accounts, NEW hits, hits = {i \in 1..Len(accounts) : accounts[i] = a},
             hits # {}
      PROVE  writes + Max(hits) \in Nat
  <2>1. hits \in SUBSET (0..Len(accounts))
    BY <1>1, <1>2
  <2>2. Max(hits) \in hits
    BY <1>1, <1>2, <2>1, MaxIs
  <2>3. Max(hits) \in Nat
    BY <1>1, <1>2, <2>2
  <2>. QED  BY <2>3 DEF TypeOK
<1>3. ASSUME NEW a \in Accounts PROVE state[a] \in Nat
  BY DEF TypeOK, Balances
<1>. QED  BY <1>1, <1>2, <1>3 DEF StateAfter, Balances

\* Where nothing was left from before, the last entry for an account has its new balance, and
\* an account without an entry keeps its old one.
LEMMA AccumulatedGives ==
    ASSUME TypeOK, NEW accounts \in Seq(Accounts), NEW s \in Slots, NEW a \in Accounts,
           IF WholeState THEN accum[s].count = 0 /\ Home(a) = s ELSE s = BatchSlot
    PROVE  LET set == Accumulated(accounts)[s]
           IN  IF SetHits(set, a) # {} THEN SetLast(set, a) = StateAfter(accounts)[a]
                                       ELSE StateAfter(accounts)[a] = state[a]
<1>. DEFINE old == IF WholeState THEN accum[s] ELSE NoWrites[s]
            entries == Entries(accounts)
            places == {i \in DOMAIN accounts : SlotOf(entries[i]) = s}
            new == SubSeq(old.entries, 1, old.count) \o Pick(entries, places)
            set == Accumulated(accounts)[s]
            hits == {i \in 1..Len(accounts) : accounts[i] = a}
            picked == {j \in 1..Len(Pick(entries, places)) : Pick(entries, places)[j][1] = a}
            placed == {i \in places : entries[i][1] = a}
<1>1. /\ entries \in Entered /\ Len(entries) = Len(accounts)
      /\ DOMAIN accounts = 1..Len(accounts) /\ Len(accounts) \in Nat
      /\ \A i \in 1..Len(accounts) : entries[i] = <<accounts[i], writes + i>>
  BY EntriesAre
<1>2. set = [entries |-> Over(new, old.entries), count |-> Len(new)]
  BY DEF Accumulated
<1>3. old.entries \in Entered /\ old.count = 0
  <2>1. CASE WholeState
    BY <2>1 DEF TypeOK, WriteSets, Entered
  <2>2. CASE ~WholeState
    BY <2>2, NoWritesAre DEF WriteSets, Entered
  <2>. QED  BY <2>1, <2>2
<1>4. \A i \in places : i \in 1..Len(entries)
  BY <1>1
<1>5. placed = hits
  <2>1. \A i \in 1..Len(accounts) : accounts[i] = a => SlotOf(entries[i]) = s
    BY <1>1 DEF SlotOf, Home
  <2>. QED  BY <2>1, <1>1
<1>. HIDE DEF entries, places
<1>6. /\ Pick(entries, places) \in Entered
      /\ picked = {} <=> placed = {}
      /\ placed # {} => Pick(entries, places)[Max(picked)] = entries[Max(placed)]
  <2>1. \A b : LET p == {j \in 1..Len(Pick(entries, places)) : Pick(entries, places)[j][1] = b}
                   q == {i \in places : entries[i][1] = b}
               IN  /\ p = {} <=> q = {}
                   /\ q # {} => Pick(entries, places)[Max(p)] = entries[Max(q)]
    BY <1>1, <1>4, PickIs
  <2>2. Pick(entries, places) \in Entered
    BY <1>1, <1>4, PickIs
  <2>. QED  BY <2>1, <2>2
<1>7. new = Pick(entries, places)
  <2>1. SubSeq(old.entries, 1, 0) = <<>>
    BY <1>3 DEF Entered
  <2>. DEFINE p == Pick(entries, places)
  <2>2. p \in Entered
    BY <1>6
  <2>. HIDE DEF p
  <2>3. <<>> \o p = p
    BY <2>2 DEF Entered
  <2>. QED  BY <2>1, <2>3, <1>3 DEF p
<1>. HIDE DEF old, new, set, placed
<1>8. new \in Entered /\ Len(new) \in Nat
  BY <1>6, <1>7 DEF Entered
<1>9. \A i \in 1..Len(new) : set.entries[i] = new[i]
  BY <1>2, <1>3, <1>8, OverIs
<1>10. SetHits(set, a) = picked
  BY <1>2, <1>7, <1>8, <1>9 DEF SetHits
<1>11. StateAfter(accounts)[a] = IF hits = {} THEN state[a] ELSE writes + Max(hits)
  BY StateAfterIs
<1>12. CASE hits = {}
  BY <1>5, <1>6, <1>10, <1>11, <1>12 DEF set
<1>13. CASE hits # {}
  <2>1. picked # {} /\ picked \in SUBSET (0..Len(new))
    BY <1>5, <1>6, <1>7, <1>8, <1>13
  <2>2. Max(picked) \in picked
    BY <2>1, <1>8, MaxIs
  <2>3. Max(picked) \in 1..Len(new)
    BY <2>2, <1>7
  <2>4. SetLast(set, a) = new[Max(picked)][2]
    BY <2>3, <1>9, <1>10 DEF SetLast
  <2>5. new[Max(picked)] = entries[Max(hits)]
    BY <1>5, <1>6, <1>7, <1>13
  <2>6. Max(hits) \in hits
    <3>1. hits \in SUBSET (0..Len(accounts))
      BY <1>1
    <3>. QED  BY <3>1, <1>1, <1>13, MaxIs
  <2>7. entries[Max(hits)][2] = writes + Max(hits)
    BY <2>6, <1>1
  <2>. QED  BY <2>1, <2>4, <2>5, <2>7, <1>10, <1>11, <1>13 DEF set
<1>. QED  BY <1>12, <1>13

\* What is clipped to the capacity is still a write set.
LEMMA ClippedIs ==
    ASSUME NEW sets \in WriteSets, Counted(sets)
    PROVE  Clipped(sets) \in WriteSets /\ Counted(Clipped(sets))
<1>1. ASSUME NEW m \in Nat, NEW n \in Nat
      PROVE  Min({m, n}) \in {m, n} /\ Min({m, n}) <= m /\ Min({m, n}) <= n
  <2>1. \E x \in {m, n} : \A y \in {m, n} : x <= y
    OBVIOUS
  <2>. QED  BY <2>1 DEF Min
<1>2. ASSUME NEW s \in Slots
      PROVE  /\ Prefix(sets[s].entries, Capacity) \in Entered
             /\ Min({sets[s].count, Capacity}) \in Nat
             /\ Min({sets[s].count, Capacity}) <= Len(Prefix(sets[s].entries, Capacity))
  <2>. DEFINE e == sets[s].entries  c == sets[s].count
              n == Min({Len(e), Capacity})  k == Min({c, Capacity})
  <2>1. e \in Entered /\ Len(e) \in Nat /\ c \in Nat /\ c <= Len(e) /\ Capacity \in Nat
    BY InputsAssumption DEF WriteSets, Counted, Entered
  <2>. HIDE DEF e, c
  <2>2. /\ n \in {Len(e), Capacity} /\ n <= Len(e) /\ n <= Capacity
        /\ k \in {c, Capacity} /\ k <= c /\ k <= Capacity
    BY <1>1, <2>1
  <2>. HIDE DEF n, k
  <2>3. n \in Nat /\ k \in Nat /\ k <= n
    BY <2>1, <2>2
  <2>4. SubSeq(e, 1, n) \in Entered /\ Len(SubSeq(e, 1, n)) = n
    BY <2>1, <2>2, <2>3 DEF Entered
  <2>. QED  BY <2>3, <2>4 DEF Prefix, e, c, n, k
<1>. QED  BY <1>2 DEF Clipped, WriteSets, Counted, Entered

\* What a commit is given.
LEMMA SetsAre ==
    ASSUME TypeOK, Counted(accum), NEW accounts \in Seq(Accounts)
    PROVE  /\ Sets(accounts) \in WriteSets /\ Counted(Sets(accounts))
           /\ ResetCounts(Sets(accounts)) \in WriteSets /\ Counted(ResetCounts(Sets(accounts)))
           /\ \A s \in Slots : ResetCounts(Sets(accounts))[s].count = 0
<1>1. Sets(accounts) \in WriteSets /\ Counted(Sets(accounts))
  BY AccumulatedIs, ClippedIs DEF Sets
<1>. DEFINE sets == Sets(accounts)
<1>2. sets \in WriteSets /\ Counted(sets)
  BY <1>1
<1>. HIDE DEF sets
<1>3. \A s \in Slots : [sets[s] EXCEPT !.count = 0] = [entries |-> sets[s].entries, count |-> 0]
  BY <1>2 DEF WriteSets
<1>4. ResetCounts(sets) = [s \in Slots |-> [entries |-> sets[s].entries, count |-> 0]]
  BY <1>3 DEF ResetCounts
<1>5. \A s \in Slots : sets[s].entries \in Entered
  BY <1>2 DEF WriteSets, Entered
<1>. QED  BY <1>1, <1>4, <1>5 DEF WriteSets, Counted, Entered, sets

\* The input of a batch.
LEMMA InputsAre ==
    /\ Inputs \subseteq Seq(Accounts)
    /\ \A accounts \in Seq(Accounts) : Fitting(accounts) \in Seq(Accounts)
<1>1. ASSUME NEW accounts \in Seq(Accounts) PROVE Prefix(accounts, Capacity) \in Seq(Accounts)
  <2>. DEFINE n == Min({Len(accounts), Capacity})
  <2>1. Len(accounts) \in Nat /\ Capacity \in Nat
    BY InputsAssumption
  <2>2. n \in {Len(accounts), Capacity} /\ n <= Len(accounts)
    <3>1. \E x \in {Len(accounts), Capacity} : \A y \in {Len(accounts), Capacity} : x <= y
      BY <2>1
    <3>. QED  BY <3>1 DEF Min
  <2>. HIDE DEF n
  <2>3. SubSeq(accounts, 1, n) \in Seq(Accounts)
    BY <2>1, <2>2
  <2>. QED  BY <2>3 DEF Prefix, n
<1>. QED  BY <1>1, InputsAssumption DEF Inputs, Fitting

-----------------------------------------------------------------------------
\* Commit plans, and what their steps do.

\* The seven programs.
LEMMA ProgramIs ==
    ASSUME TypeOK
    PROVE  /\ program \in {"glaze", "memset", "opcode", "fixing", "server", "breaking", "async"}
           /\ total \in Nat
  BY InputsAssumption DEF TypeOK

\* The three parts of a slot, in the order of the program.
LEMMA PartsAre ==
    ASSUME TypeOK
    PROVE  /\ \A j \in 1..3 : Part(j) \in PartNames
           /\ \A p \in PartNames : \E j \in 1..3 : Part(j) = p
           /\ \A j, k \in 1..3 : j # k => Part(j) # Part(k)
  BY DEF Part, PartNames

\* A pass visits the slots in turn, and in each its parts.
LEMMA PassIs ==
    ASSUME NEW parts \in Seq(PartNames), Len(parts) = 3
    PROVE  /\ Pass(parts) \in Seq(PlanSteps) /\ Len(Pass(parts)) = 3 * Ring
           /\ \A s \in Slots, j \in 1..3 :
                 Pass(parts)[3 * s + j] = [slot |-> s, part |-> parts[j]]
<1>0. 3 * Ring \in Nat
  BY SlotAssumption
<1>1. \A j \in 1..3 : parts[j] \in PartNames
  OBVIOUS
<1>2. ASSUME NEW i \in 1..3 * Ring
      PROVE  [slot |-> (i - 1) \div 3, part |-> parts[((i - 1) % 3) + 1]] \in PlanSteps
  <2>1. (i - 1) \div 3 \in Int /\ ((i - 1) % 3) + 1 \in 1..3
    OBVIOUS
  <2>. QED  BY <2>1, <1>1 DEF PlanSteps
<1>. DEFINE element(i) == [slot |-> (i - 1) \div 3, part |-> parts[((i - 1) % 3) + 1]]
<1>5. Pass(parts) = [i \in 1..3 * Ring |-> element(i)]
  BY DEF Pass, PassOf
<1>3. Pass(parts) \in Seq(PlanSteps) /\ Len(Pass(parts)) = 3 * Ring
  BY <1>0, <1>2, <1>5
<1>4. ASSUME NEW s \in Slots, NEW j \in 1..3
      PROVE  Pass(parts)[3 * s + j] = [slot |-> s, part |-> parts[j]]
  <2>1. s \in Nat /\ s <= Ring - 1
    BY SlotAssumption DEF Slots
  <2>2. 3 * s + j \in 1..3 * Ring
    BY <2>1, SlotAssumption
  <2>3. ((3 * s + j) - 1) \div 3 = s /\ (((3 * s + j) - 1) % 3) + 1 = j
    BY <2>1
  <2>4. element(3 * s + j) = [slot |-> s, part |-> parts[j]]
    <3>. DEFINE x == ((3 * s + j) - 1) \div 3  y == (((3 * s + j) - 1) % 3) + 1
    <3>1. element(3 * s + j) = [slot |-> x, part |-> parts[y]]
      OBVIOUS
    <3>2. x = s /\ y = j
      BY <2>3
    <3>. HIDE DEF x, y, element
    <3>. QED  BY <3>1, <3>2
  <2>. HIDE DEF element
  <2>. QED  BY <2>2, <2>4, <1>5
<1>. QED  BY <1>3, <1>4

\* A sequence with one element more.
LEMMA AppendedIs ==
    ASSUME NEW S, NEW p \in Seq(S), NEW q \in Seq(S), Len(q) = 1
    PROVE  /\ p \o q \in Seq(S) /\ Len(p \o q) = Len(p) + 1
           /\ \A i \in 1..Len(p) : (p \o q)[i] = p[i]
           /\ (p \o q)[Len(p) + 1] = q[1]
<1>. DEFINE n == Len(p)  r == p \o q
<1>1. /\ r \in Seq(S) /\ Len(r) = n + Len(q)
      /\ \A i \in 1..n + Len(q) : r[i] = IF i <= n THEN p[i] ELSE q[i - n]
  BY ConcatProperties
<1>2. n \in Nat
  OBVIOUS
<1>. HIDE DEF n, r
<1>3. /\ n + 1 \in 1..n + 1 /\ ~ (n + 1 <= n) /\ (n + 1) - n = 1
      /\ \A i \in 1..n : i \in 1..n + 1 /\ i <= n
  BY <1>2
<1>4. r \in Seq(S) /\ Len(r) = n + 1 /\ (\A i \in 1..n : r[i] = p[i]) /\ r[n + 1] = q[1]
  BY <1>1, <1>3
<1>. QED  BY <1>4 DEF n, r

\* The plan of a commit.
LEMMA PlanIs ==
    ASSUME TypeOK, NEW b \in Int
    PROVE  /\ Plan(b) \in Seq(PlanSteps)
           /\ WholeState =>
                 /\ Len(Plan(b)) = IF Mapped THEN 3 * Ring ELSE 3 * Ring + 1
                 /\ \A s \in Slots, j \in 1..3 :
                       Plan(b)[3 * s + j] = [slot |-> s, part |-> Part(j)]
                 /\ ~Mapped => Plan(b)[3 * Ring + 1].part = "sync"
           /\ ~WholeState =>
                 /\ Len(Plan(b)) = 4
                 /\ \A j \in 1..3 : Plan(b)[j] = [slot |-> b % Ring, part |-> Part(j)]
                 /\ Plan(b)[4].part = "sync"
<1>. DEFINE late == <<"chunk", "writes", "header">>  early == <<"header", "chunk", "writes">>
<1>1. /\ late \in Seq(PartNames) /\ Len(late) = 3
      /\ early \in Seq(PartNames) /\ Len(early) = 3
  BY DEF PartNames
<1>2. Sync \in Seq(PlanSteps) /\ Len(Sync) = 1 /\ Sync[1].part = "sync"
  BY DEF Sync, PlanSteps
<1>3. ASSUME NEW parts \in Seq(PartNames), Len(parts) = 3
      PROVE  /\ Pass(parts) \o Sync \in Seq(PlanSteps)
             /\ Len(Pass(parts) \o Sync) = 3 * Ring + 1
             /\ (Pass(parts) \o Sync)[3 * Ring + 1].part = "sync"
             /\ \A s \in Slots, j \in 1..3 :
                   (Pass(parts) \o Sync)[3 * s + j] = [slot |-> s, part |-> parts[j]]
  <2>. DEFINE pass == Pass(parts)
  <2>1. /\ pass \in Seq(PlanSteps) /\ Len(pass) = 3 * Ring
        /\ \A s \in Slots, j \in 1..3 : pass[3 * s + j] = [slot |-> s, part |-> parts[j]]
    BY <1>3, PassIs
  <2>. HIDE DEF pass
  <2>2. /\ pass \o Sync \in Seq(PlanSteps) /\ Len(pass \o Sync) = 3 * Ring + 1
        /\ \A i \in 1..3 * Ring : (pass \o Sync)[i] = pass[i]
        /\ (pass \o Sync)[3 * Ring + 1] = Sync[1]
    BY <2>1, <1>2, AppendedIs
  <2>3. \A s \in Slots, j \in 1..3 : 3 * s + j \in 1..3 * Ring
    BY SlotAssumption DEF Slots
  <2>. QED  BY <2>1, <2>2, <2>3, <1>2 DEF pass
<1>4. ASSUME NEW s \in Int, NEW parts \in Seq(PartNames), Len(parts) = 3
      PROVE  /\ Steps(s, parts) \o Sync \in Seq(PlanSteps)
             /\ Len(Steps(s, parts) \o Sync) = 4 /\ (Steps(s, parts) \o Sync)[4].part = "sync"
             /\ \A j \in 1..3 : (Steps(s, parts) \o Sync)[j] = [slot |-> s, part |-> parts[j]]
  <2>1. Steps(s, parts) = [i \in 1..3 |-> [slot |-> s, part |-> parts[i]]]
    BY <1>4 DEF Steps
  <2>2. Steps(s, parts) \in Seq(PlanSteps) /\ Len(Steps(s, parts)) = 3
    BY <2>1, <1>4 DEF PlanSteps
  <2>3. \A j \in 1..3 : Steps(s, parts)[j] = [slot |-> s, part |-> parts[j]]
    BY <2>1
  <2>. DEFINE steps == Steps(s, parts)
  <2>4. steps \in Seq(PlanSteps) /\ Len(steps) = 3
    BY <2>2
  <2>. HIDE DEF steps
  <2>5. /\ steps \o Sync \in Seq(PlanSteps) /\ Len(steps \o Sync) = 4
        /\ \A j \in 1..3 : (steps \o Sync)[j] = steps[j]
        /\ (steps \o Sync)[4] = Sync[1]
    <3>. DEFINE r == steps \o Sync
    <3>1. /\ r \in Seq(PlanSteps) /\ Len(r) = Len(steps) + 1
          /\ \A i \in 1..Len(steps) : r[i] = steps[i]
          /\ r[Len(steps) + 1] = Sync[1]
      BY <2>4, <1>2, AppendedIs
    <3>2. Len(steps) = 3 /\ Len(steps) + 1 = 4
      BY <2>4
    <3>. HIDE DEF r
    <3>3. /\ r \in Seq(PlanSteps) /\ Len(r) = 4 /\ r[4] = Sync[1]
          /\ \A j \in 1..3 : r[j] = steps[j]
      BY <3>1, <3>2
    <3>. QED  BY <3>3 DEF r
  <2>. QED  BY <2>3, <2>5, <1>2 DEF steps
<1>. DEFINE t == b % Ring
<1>5. t \in Int
  BY SlotAssumption
<1>. HIDE DEF late, early
<1>6. CASE program \in {"glaze", "memset"}
  <2>1. Plan(b) = Pass(late) \o Sync /\ WholeState /\ ~Mapped /\ \A j : Part(j) = late[j]
    BY <1>6 DEF Plan, GlazePlan, WholeState, Mapped, Part, late
  <2>. DEFINE plan == Pass(late) \o Sync
  <2>2. /\ plan \in Seq(PlanSteps) /\ Len(plan) = 3 * Ring + 1
        /\ plan[3 * Ring + 1].part = "sync"
        /\ \A s \in Slots, j \in 1..3 : plan[3 * s + j] = [slot |-> s, part |-> late[j]]
    BY <1>1, <1>3
  <2>. HIDE DEF plan
  <2>. QED  BY <2>1, <2>2 DEF plan
<1>7. CASE program = "fixing"
  <2>1. Plan(b) = Pass(late) /\ WholeState /\ Mapped /\ \A j : Part(j) = late[j]
    BY <1>7 DEF Plan, FixingPlan, WholeState, Mapped, Part, late
  <2>. QED  BY <2>1, <1>1, PassIs
<1>8. CASE program = "opcode"
  <2>1. Plan(b) = Pass(early) /\ WholeState /\ Mapped /\ \A j : Part(j) = early[j]
    BY <1>8 DEF Plan, OpcodePlan, WholeState, Mapped, Part, early
  <2>. QED  BY <2>1, <1>1, PassIs
<1>9. CASE program = "server"
  <2>1. Plan(b) = Steps(t, early) \o Sync /\ ~WholeState /\ \A j : Part(j) = early[j]
    BY <1>9 DEF Plan, ServerPlan, WholeState, Part, early
  <2>. DEFINE plan == Steps(t, early) \o Sync
  <2>2. /\ plan \in Seq(PlanSteps) /\ Len(plan) = 4 /\ plan[4].part = "sync"
        /\ \A j \in 1..3 : plan[j] = [slot |-> t, part |-> early[j]]
    <3>. HIDE DEF t
    <3>. QED  BY <1>1, <1>4, <1>5
  <2>. HIDE DEF plan
  <2>. QED  BY <2>1, <2>2 DEF plan
<1>11. CASE program = "breaking"
  <2>1. Plan(b) = Steps(t, early) \o Sync /\ ~WholeState /\ \A j : Part(j) = early[j]
    BY <1>11 DEF Plan, BreakingPlan, WholeState, Part, early
  <2>. DEFINE plan == Steps(t, early) \o Sync
  <2>2. /\ plan \in Seq(PlanSteps) /\ Len(plan) = 4 /\ plan[4].part = "sync"
        /\ \A j \in 1..3 : plan[j] = [slot |-> t, part |-> early[j]]
    <3>. HIDE DEF t
    <3>. QED  BY <1>1, <1>4, <1>5
  <2>. HIDE DEF plan
  <2>. QED  BY <2>1, <2>2 DEF plan
<1>10. CASE program = "async"
  <2>1. Plan(b) = Steps(t, late) \o Sync /\ ~WholeState /\ \A j : Part(j) = late[j]
    BY <1>10 DEF Plan, AsyncPlan, WholeState, Part, late
  <2>. DEFINE plan == Steps(t, late) \o Sync
  <2>2. /\ plan \in Seq(PlanSteps) /\ Len(plan) = 4 /\ plan[4].part = "sync"
        /\ \A j \in 1..3 : plan[j] = [slot |-> t, part |-> late[j]]
    <3>. HIDE DEF t
    <3>. QED  BY <1>1, <1>4, <1>5
  <2>. HIDE DEF plan
  <2>. QED  BY <2>1, <2>2 DEF plan
<1>. QED  BY <1>6, <1>7, <1>8, <1>9, <1>10, <1>11, ProgramIs

\* Which step of a pass is which part of which slot.
LEMMA StepOfPass ==
    \A n \in 1..3 * Ring : \E s \in Slots, j \in 1..3 : n = 3 * s + j
<1>. TAKE n \in 1..3 * Ring
<1>. DEFINE s == (n - 1) \div 3  j == ((n - 1) % 3) + 1
<1>1. s \in Nat /\ j \in 1..3 /\ n = 3 * s + j
  BY SlotAssumption
<1>. HIDE DEF s, j
<1>2. s \in Slots
  BY <1>1, SlotAssumption DEF Slots
<1>. QED  BY <1>1, <1>2

\* A part that a commit writes.
LEMMA ContentIs ==
    ASSUME TypeOK, NEW s \in Slots
    PROVE  /\ Content(s).header \in [batch : -1..total - 1, count : Nat]
           /\ Content(s).chunk \in [FirstChunk -> Nat] /\ Content(s).writes \in Entered
           /\ Content(s).header = [batch |-> job.batch, count |-> job.accum[s].count]
           /\ Content(s).chunk = ChunkAt(job.state, IF WholeState THEN s * PerChunk ELSE 0)
           /\ Content(s).writes = job.accum[s].entries
<1>1. /\ job.batch \in -1..total - 1 /\ job.accum[s].count \in Nat
      /\ job.accum[s].entries \in Entered /\ job.state \in Balances
  BY DEF TypeOK, Jobs, WriteSets, Entered, Balances
<1>2. \A i \in FirstChunk : s * PerChunk + i \in Accounts /\ 0 + i \in Accounts
  <2>1. ASSUME NEW i \in FirstChunk PROVE s * PerChunk + i \in Accounts
    <3>1. s \in Nat /\ i \in Nat /\ i < PerChunk /\ s * PerChunk \in Nat
      BY SlotAssumption DEF Slots, FirstChunk
    <3>2. PICK d \in Nat : Ring = s + 1 + d
      BY SlotAssumption DEF Slots
    <3>3. Ring * PerChunk = s * PerChunk + PerChunk + d * PerChunk /\ d * PerChunk \in Nat
      BY <3>1, <3>2, SlotAssumption
    <3>. QED  BY <3>1, <3>3, SlotAssumption DEF Accounts
  <2>2. \A i \in FirstChunk : 0 + i \in Accounts
    BY FirstAccounts
  <2>. QED  BY <2>1, <2>2
<1>3. Content(s).chunk = ChunkAt(job.state, IF WholeState THEN s * PerChunk ELSE 0)
  BY DEF Content
<1>4. Content(s).chunk \in [FirstChunk -> Nat]
  <2>1. CASE WholeState
    BY <1>1, <1>2, <1>3, <2>1 DEF ChunkAt, Balances
  <2>2. CASE ~WholeState
    BY <1>1, <1>2, <1>3, <2>2 DEF ChunkAt, Balances
  <2>. QED  BY <2>1, <2>2
<1>. QED  BY <1>1, <1>3, <1>4 DEF Content

\* Writing a part of a slot leaves the other parts and the other slots as they are.
LEMMA WriteSlotIs ==
    ASSUME TypeOK, NEW s \in Slots, NEW part \in PartNames, WriteSlot(s, part, Content(s))
    PROVE  /\ file' \in [Slots -> SlotRecords]
           /\ \A t \in Slots : t # s => file'[t] = file[t]
           /\ \A p \in PartNames : p # part => file'[s][p] = file[s][p]
           /\ HasPart(file'[s], s, part)
           /\ part = "writes" => file'[s].writes = Over(Content(s).writes, file[s].writes)
<1>. DEFINE old == file[s]
            area == Over(Content(s).writes, old.writes)
            new == CASE part = "header" -> [old EXCEPT !.header = Content(s).header]
                     [] part = "chunk"  -> [old EXCEPT !.chunk = Content(s).chunk]
                     [] part = "writes" -> [old EXCEPT !.writes = area]
<1>1. file \in [Slots -> SlotRecords] /\ old \in SlotRecords
  BY DEF TypeOK
<1>0. /\ old.header \in [batch : -1..total - 1, count : Nat]
      /\ old.chunk \in [FirstChunk -> Nat] /\ old.writes \in Entered
      /\ old = [header |-> old.header, chunk |-> old.chunk, writes |-> old.writes]
  BY <1>1 DEF SlotRecords
<1>2. /\ area \in Entered /\ Len(area) >= Len(Content(s).writes)
      /\ \A i \in 1..Len(Content(s).writes) : area[i] = Content(s).writes[i]
  BY <1>0, ContentIs, OverIs
<1>3. file' = [file EXCEPT ![s] = new]
  BY DEF WriteSlot
<1>. DEFINE h == IF part = "header" THEN Content(s).header ELSE old.header
            c == IF part = "chunk" THEN Content(s).chunk ELSE old.chunk
            w == IF part = "writes" THEN area ELSE old.writes
<1>4. new = [header |-> h, chunk |-> c, writes |-> w]
  BY <1>0 DEF PartNames
<1>5. /\ h \in [batch : -1..total - 1, count : Nat] /\ c \in [FirstChunk -> Nat]
      /\ w \in Entered
  BY <1>0, <1>2, ContentIs
<1>6. new \in SlotRecords
  <2>. HIDE DEF h, c, w, new
  <2>. QED  BY <1>4, <1>5 DEF SlotRecords
<1>7. new.header = h /\ new.chunk = c /\ new.writes = w
  <2>. HIDE DEF h, c, w, new
  <2>. QED  BY <1>4
<1>. HIDE DEF new
<1>8. /\ file' \in [Slots -> SlotRecords] /\ file'[s] = new
      /\ \A t \in Slots : t # s => file'[t] = file[t]
  BY <1>1, <1>3, <1>6
<1>9. HasPart(new, s, part)
  BY <1>2, <1>7 DEF HasPart, PartNames
<1>10. \A p \in PartNames : p # part => new[p] = old[p]
  BY <1>7 DEF PartNames
<1>. QED  BY <1>7, <1>8, <1>9, <1>10

\* A plan depends on the program and on the number of the batch.
LEMMA PlanStays ==
    ASSUME UNCHANGED <<program, job>>
    PROVE  Plan(job.batch)' = Plan(job.batch) /\ \A j : Part(j)' = Part(j)
  BY DEF Plan, GlazePlan, FixingPlan, OpcodePlan, ServerPlan, BreakingPlan, AsyncPlan, Part

\* The step at hand.
LEMMA StepIs ==
    ASSUME TypeOK, TodoFollows, todo # <<>>
    PROVE  /\ NextStep \in 1..Len(Plan(job.batch)) /\ Len(Plan(job.batch)) \in Nat
           /\ Head(todo) = Plan(job.batch)[NextStep]
           /\ Tail(todo) = <<>> <=> NextStep = Len(Plan(job.batch))
           /\ NextStep < Len(Plan(job.batch)) =>
                 /\ Tail(todo) = SubSeq(Plan(job.batch), NextStep + 1, Len(Plan(job.batch)))
                 /\ Len(Plan(job.batch)) - Len(Tail(todo)) + 1 = NextStep + 1
<1>. DEFINE P == Plan(job.batch)  n == Len(P)
<1>1. P \in Seq(PlanSteps) /\ n \in Nat
  <2>1. job.batch \in Int
    BY DEF TypeOK, Jobs
  <2>2. P \in Seq(PlanSteps)
    BY <2>1, PlanIs
  <2>. HIDE DEF P
  <2>. QED  BY <2>2
<1>2. PICK k \in 1..n : todo = SubSeq(P, k, n)
  BY DEF TodoFollows
<1>. HIDE DEF P
<1>3. Len(todo) = n - k + 1 /\ \A i \in 1..n - k + 1 : todo[i] = P[k + i - 1]
  BY <1>1, <1>2
<1>4. NextStep = k
  BY <1>1, <1>2, <1>3 DEF NextStep, P
<1>5. Head(todo) = P[k]
  BY <1>1, <1>2
<1>6. k = n => Tail(todo) = <<>>
  BY <1>1, <1>2
<1>7. k < n => Tail(todo) = SubSeq(P, k + 1, n) /\ Len(Tail(todo)) = n - k /\ Tail(todo) # <<>>
  <2>. HAVE k < n
  <2>1. Tail(todo) = SubSeq(P, k + 1, n)
    BY <1>1, <1>2, HeadTailOfSubSeq
  <2>2. k + 1 \in 1..n /\ SubSeq(P, k + 1, n) \in Seq(PlanSteps)
    BY <1>1, <1>2
  <2>3. Len(SubSeq(P, k + 1, n)) = n - k
    BY <1>1, <1>2
  <2>4. Len(Tail(todo)) = n - k
    BY <2>1, <2>3
  <2>5. n - k # 0 /\ Len(<<>>) = 0
    BY <1>1, <1>2
  <2>. QED  BY <2>1, <2>4, <2>5
<1>. QED  BY <1>1, <1>2, <1>4, <1>5, <1>6, <1>7 DEF P

\* A commit goes on with the next step of its plan.
LEMMA TodoGoesOn ==
    ASSUME TypeOK, TodoFollows, todo # <<>>, todo' = Tail(todo), UNCHANGED <<program, job>>
    PROVE  TodoFollows' /\ (todo' # <<>> => NextStep' = NextStep + 1)
<1>1. ASSUME todo' # <<>>
      PROVE  /\ NextStep + 1 \in 1..Len(Plan(job.batch))
             /\ todo' = SubSeq(Plan(job.batch), NextStep + 1, Len(Plan(job.batch)))
             /\ Len(Plan(job.batch)) - Len(todo') + 1 = NextStep + 1
  <2>. DEFINE n == Len(Plan(job.batch))
  <2>1. NextStep \in 1..n /\ n \in Nat /\ NextStep # n
    BY <1>1, StepIs
  <2>2. NextStep < n =>
           /\ todo' = SubSeq(Plan(job.batch), NextStep + 1, n)
           /\ n - Len(todo') + 1 = NextStep + 1
    BY StepIs
  <2>. HIDE DEF n
  <2>3. NextStep < n /\ NextStep + 1 \in 1..n
    BY <2>1
  <2>. QED  BY <2>2, <2>3 DEF n
<1>2. Plan(job.batch)' = Plan(job.batch) /\ job' = job
  BY PlanStays
<1>3. job.batch >= 0
  BY DEF TodoFollows
<1>4. TodoFollows'
  BY <1>1, <1>2, <1>3 DEF TodoFollows
<1>. QED  BY <1>1, <1>2, <1>4 DEF NextStep

\* A commit goes through the parts of the slots, and then waits for the device.
LEMMA HeadIs ==
    ASSUME TypeOK, TodoFollows, todo # <<>>
    PROVE  \/ /\ Head(todo).part = "sync" /\ Tail(todo) = <<>> /\ ~Mapped
              /\ NextStep = IF WholeState THEN 3 * Ring + 1 ELSE 4
           \/ \E s \in Slots, j \in 1..3 :
                 /\ Head(todo) = [slot |-> s, part |-> Part(j)] /\ Part(j) \in PartNames
                 /\ IF WholeState THEN NextStep = 3 * s + j
                                  ELSE NextStep = j /\ s = job.batch % Ring
                 /\ ~Mapped => Tail(todo) # <<>>
<1>. DEFINE P == Plan(job.batch)
<1>1. job.batch \in Nat /\ job.batch \in Int
  BY DEF TypeOK, Jobs, TodoFollows
<1>2. /\ NextStep \in 1..Len(P) /\ Head(todo) = P[NextStep]
      /\ Tail(todo) = <<>> <=> NextStep = Len(P)
  BY StepIs
<1>3. \A j \in 1..3 : Part(j) \in PartNames
  BY PartsAre
<1>4. CASE WholeState
  <2>1. /\ Len(P) = IF Mapped THEN 3 * Ring ELSE 3 * Ring + 1
        /\ \A s \in Slots, j \in 1..3 : P[3 * s + j] = [slot |-> s, part |-> Part(j)]
        /\ ~Mapped => P[3 * Ring + 1].part = "sync"
    BY <1>1, <1>4, PlanIs
  <2>. HIDE DEF P
  <2>2. CASE NextStep \in 1..3 * Ring
    <3>1. PICK s \in Slots, j \in 1..3 : NextStep = 3 * s + j
      BY <2>2, StepOfPass
    <3>2. ~Mapped => NextStep # Len(P)
      BY <2>1, <2>2, SlotAssumption
    <3>. QED  BY <1>2, <1>3, <1>4, <2>1, <3>1, <3>2
  <2>3. CASE NextStep \notin 1..3 * Ring
    <3>1. ~Mapped /\ NextStep = 3 * Ring + 1 /\ NextStep = Len(P)
      BY <1>2, <2>1, <2>3, SlotAssumption
    <3>. QED  BY <1>2, <1>4, <2>1, <3>1
  <2>. QED  BY <2>2, <2>3
<1>5. CASE ~WholeState
  <2>1. /\ Len(P) = 4 /\ P[4].part = "sync" /\ ~Mapped
        /\ \A j \in 1..3 : P[j] = [slot |-> job.batch % Ring, part |-> Part(j)]
    BY <1>1, <1>5, PlanIs DEF WholeState, Mapped
  <2>2. job.batch % Ring \in Slots
    BY <1>1, TurnOf
  <2>. HIDE DEF P
  <2>3. NextStep \in 1..3 \/ NextStep = 4
    BY <1>2, <2>1
  <2>. QED  BY <1>2, <1>3, <1>5, <2>1, <2>2, <2>3
<1>. QED  BY <1>4, <1>5

\* A sequence of some length is not the empty one.
LEMMA NotEmpty ==
    ASSUME NEW S, NEW q \in Seq(S), Len(q) # 0
    PROVE  q # <<>>
<1>. QED  OBVIOUS

\* A commit starts with the first step of its plan.
LEMMA PlanStarts ==
    ASSUME TypeOK, NEW b \in Nat, todo' = Plan(b), job'.batch = b, program' = program
    PROVE  TodoFollows' /\ todo' # <<>> /\ NextStep' = 1
<1>. DEFINE P == Plan(b)
<1>1. P \in Seq(PlanSteps) /\ P # <<>> /\ Len(P) \in Nat \ {0}
  <2>1. b \in Int
    OBVIOUS
  <2>2. P \in Seq(PlanSteps)
    BY <2>1, PlanIs
  <2>3. CASE WholeState
    <3>1. Len(P) = IF Mapped THEN 3 * Ring ELSE 3 * Ring + 1
      BY <2>1, <2>3, PlanIs
    <3>. HIDE DEF P
    <3>2. Len(P) \in Nat \ {0}
      BY <3>1, SlotAssumption
    <3>. QED  BY <2>2, <3>2, NotEmpty
  <2>4. CASE ~WholeState
    <3>1. Len(P) = 4
      BY <2>1, <2>4, PlanIs
    <3>. HIDE DEF P
    <3>2. Len(P) \in Nat \ {0}
      BY <3>1
    <3>. QED  BY <2>2, <3>2, NotEmpty
  <2>. QED  BY <2>3, <2>4
<1>2. Plan(job.batch)' = P
  BY DEF Plan, GlazePlan, FixingPlan, OpcodePlan, ServerPlan, BreakingPlan, AsyncPlan
<1>. HIDE DEF P
<1>3. P = SubSeq(P, 1, Len(P)) /\ 1 \in 1..Len(P)
  BY <1>1
<1>4. todo' = P
  BY DEF P
<1>5. TodoFollows'
  BY <1>2, <1>3, <1>4 DEF TodoFollows
<1>. QED  BY <1>1, <1>2, <1>4, <1>5 DEF NextStep

-----------------------------------------------------------------------------
\* Reconstruction.

\* An entry is of an account; where nothing was written it is of the first.
LEMMA EntryIs ==
    ASSUME NEW slot \in SlotRecords, NEW i \in Nat \ {0}
    PROVE  EntryOf(slot, i) \in Accounts \X Nat
<1>1. slot.writes \in Entered
  BY DEF SlotRecords
<1>2. 0 \in Accounts
  <2>1. Ring * PerChunk \in Nat \ {0}
    BY SlotAssumption
  <2>. QED  BY <2>1 DEF Accounts
<1>3. i <= Len(slot.writes) => slot.writes[i] \in Accounts \X Nat
  BY <1>1 DEF Entered
<1>. QED  BY <1>2, <1>3 DEF EntryOf

\* If an account has an entry in a slot it has a last one.
LEMMA LastHitIs ==
    ASSUME NEW slot \in SlotRecords, NEW a, SlotHits(slot, a) # {}
    PROVE  /\ Max(SlotHits(slot, a)) \in SlotHits(slot, a) /\ SlotLast(slot, a) \in Nat
           /\ \A i \in SlotHits(slot, a) : i <= Max(SlotHits(slot, a))
<1>1. slot.header.count \in Nat
  BY DEF SlotRecords
<1>2. SlotHits(slot, a) \in SUBSET (0..slot.header.count)
  BY <1>1 DEF SlotHits
<1>3. /\ Max(SlotHits(slot, a)) \in SlotHits(slot, a)
      /\ \A i \in SlotHits(slot, a) : i <= Max(SlotHits(slot, a))
  BY <1>1, <1>2, MaxIs
<1>4. Max(SlotHits(slot, a)) \in Nat \ {0}
  BY <1>1, <1>3 DEF SlotHits
<1>. QED  BY <1>3, <1>4, EntryIs DEF SlotLast

\* What the variants that log the whole state reconstruct.
LEMMA WholeIs ==
    ASSUME TypeOK, WholeState
    PROVE  Reconstruct.state = [a \in Accounts |-> Value(file[Home(a)], a)]
<1>1. \A a \in Accounts : Home(a) \in Slots
  BY HomeIs
<1>2. \A s \in Slots : s \in ValidSlots <=> file[s].header.batch # -1
  BY DEF ValidSlots
<1>3. \A s \in Slots, a \in Accounts : /\ Hits(s, a) = SlotHits(file[s], a)
                                       /\ LastHit(s, a) = SlotLast(file[s], a)
  BY DEF Hits, LastHit, SlotHits, SlotLast, Entry, EntryOf
<1>4. CASE program \in {"glaze", "memset"}
  <2>1. Reconstruct = CopyChunks /\ ~Mapped
    BY <1>4 DEF Reconstruct, Mapped
  <2>2. CopyChunks.state = [a \in Accounts |-> IF Home(a) \in ValidSlots
                              THEN file[Home(a)].chunk[a % PerChunk] ELSE 0]
    BY DEF CopyChunks, Home
  <2>. QED  BY <2>1, <2>2, <1>1, <1>2 DEF Value
<1>5. CASE Mapped
  <2>1. Reconstruct = CopyAndRedo
    BY <1>5 DEF Reconstruct, Mapped
  <2>2. CopyAndRedo.state = [a \in Accounts |->
           CASE Home(a) \notin ValidSlots -> 0
             [] Home(a) \in ValidSlots /\ Hits(Home(a), a) # {} -> LastHit(Home(a), a)
             [] OTHER -> file[Home(a)].chunk[a % PerChunk]]
    BY DEF CopyAndRedo, Home
  <2>3. \A a \in Accounts :
           (CASE Home(a) \notin ValidSlots -> 0
              [] Home(a) \in ValidSlots /\ Hits(Home(a), a) # {} -> LastHit(Home(a), a)
              [] OTHER -> file[Home(a)].chunk[a % PerChunk]) = Value(file[Home(a)], a)
    BY <1>1, <1>2, <1>3, <1>5 DEF Value
  <2>. QED  BY <2>1, <2>2, <2>3
<1>. QED  BY <1>4, <1>5 DEF WholeState, Mapped

\* Valid slots have the number of a batch.
LEMMA ValidAre ==
    ASSUME TypeOK
    PROVE  \A s \in ValidSlots : s \in Slots /\ file[s].header.batch \in 0..total
<1>1. \A s \in Slots : file[s].header.batch \in -1..total - 1
  BY DEF TypeOK, SlotRecords
<1>. QED  BY <1>1 DEF ValidSlots, TypeOK

\* Whatever the file holds, a state is reconstructed.
LEMMA ReconstructIs ==
    ASSUME TypeOK
    PROVE  Reconstruct.state \in Balances
<1>1. \A s \in Slots : file[s] \in SlotRecords
  BY DEF TypeOK
<1>2. \A s \in Slots, i \in FirstChunk : file[s].chunk[i] \in Nat
  BY <1>1 DEF SlotRecords
<1>3. ASSUME NEW s \in Slots, NEW a \in Accounts, Hits(s, a) # {} PROVE LastHit(s, a) \in Nat
  <2>1. Hits(s, a) = SlotHits(file[s], a) /\ LastHit(s, a) = SlotLast(file[s], a)
    BY DEF Hits, LastHit, SlotHits, SlotLast, Entry, EntryOf
  <2>. QED  BY <2>1, <1>1, <1>3, LastHitIs
<1>4. CASE WholeState
  <2>1. \A a \in Accounts : Home(a) \in Slots /\ a % PerChunk \in FirstChunk
    BY HomeIs
  <2>2. ASSUME NEW a \in Accounts PROVE Value(file[Home(a)], a) \in Nat
    <3>. DEFINE slot == file[Home(a)]
    <3>1. slot \in SlotRecords /\ slot.chunk[a % PerChunk] \in Nat
      BY <1>1, <1>2, <2>1
    <3>. HIDE DEF slot
    <3>2. SlotHits(slot, a) # {} => SlotLast(slot, a) \in Nat
      BY <3>1, LastHitIs
    <3>3. Value(slot, a) \in Nat
      BY <3>1, <3>2 DEF Value
    <3>. QED  BY <3>3 DEF slot
  <2>. QED  BY <1>4, <2>2, WholeIs DEF Balances
<1>5. ValidSlots # {} => /\ Newest(ValidSlots) \in ValidSlots
                         /\ Oldest(ValidSlots) \in ValidSlots
                         /\ Newest(ValidSlots) \in Slots /\ Oldest(ValidSlots) \in Slots
  BY ValidAre, ProgramIs, NewestIs
<1>6. CASE program = "breaking"
  <2>1. Reconstruct.state = [a \in Accounts |-> IF ValidSlots # {} /\ a \in FirstChunk
                               THEN file[Newest(ValidSlots)].chunk[a] ELSE 0]
    BY <1>6 DEF Reconstruct, LatestChunk, Mapped
  <2>. QED  BY <2>1, <1>2, <1>5 DEF Balances
<1>7. ASSUME NEW accounts PROVE SortedReplay(accounts).state \in Balances
  <2>. DEFINE later(a) == {s \in ValidSlots \ {Oldest(ValidSlots)} : Hits(s, a) # {}}
              base(a)  == IF ValidSlots # {} /\ a \in FirstChunk
                            THEN file[Oldest(ValidSlots)].chunk[a] ELSE 0
  <2>1. SortedReplay(accounts).state =
          [a \in Accounts |-> IF a \in accounts /\ ValidSlots # {} /\ later(a) # {}
                                THEN LastHit(Newest(later(a)), a) ELSE base(a)]
    BY DEF SortedReplay
  <2>2. ASSUME NEW a \in Accounts PROVE base(a) \in Nat
    BY <1>2, <1>5
  <2>3. ASSUME NEW a \in Accounts, later(a) # {} PROVE LastHit(Newest(later(a)), a) \in Nat
    <3>1. \A s \in later(a) : s \in Slots /\ file[s].header.batch \in 0..total
      BY ValidAre
    <3>2. Newest(later(a)) \in later(a)
      <4>. HIDE DEF later
      <4>. QED  BY <3>1, <2>3, ProgramIs, NewestIs
    <3>. QED  BY <3>1, <3>2, <1>3
  <2>. HIDE DEF later, base
  <2>. QED  BY <2>1, <2>2, <2>3 DEF Balances
<1>8. CASE program \in {"server", "async"}
  <2>1. Reconstruct \in {SortedReplay(FirstChunk), SortedReplay(Accounts)}
    BY <1>8 DEF Reconstruct, Mapped, SortedReplayFirst, SortedReplayAll
  <2>. QED  BY <2>1, <1>7
<1>. QED  BY <1>4, <1>6, <1>8, ProgramIs DEF WholeState

-----------------------------------------------------------------------------
\* Types and control are invariant.

Base == TypeOK /\ SetsCounted /\ Control /\ Untouched /\ TodoFollows

\* The records of the file depend on the number of batches.
LEMMA RecordsStay ==
    ASSUME total' = total
    PROVE  SlotRecords' = SlotRecords /\ Slots' = Slots /\ Balances' = Balances
  BY DEF SlotRecords, Entered

\* A step of a commit, done or failed.
LEMMA StepKeeps ==
    ASSUME TypeOK, TodoFollows, todo # <<>>,
           StepSucceeds \/ (StepFails /\ todo' \in {Tail(todo), <<>>}),
           UNCHANGED <<program, total, job>>
    PROVE  /\ file' \in [Slots -> SlotRecords] /\ disk' \in [Slots -> SlotRecords]
           /\ passed' \in Balances /\ failedAt' \in Nat \union {-1} /\ owed' \in BOOLEAN
           /\ TodoFollows' /\ (Mapped => failedAt' = failedAt)
<1>. DEFINE step == Head(todo)
<1>1. file' = file => file' \in [Slots -> SlotRecords]
  BY DEF TypeOK
<1>2. ASSUME step.part # "sync", WriteSlot(step.slot, step.part, Content(step.slot))
      PROVE  file' \in [Slots -> SlotRecords]
  <2>1. PICK s \in Slots, p \in PartNames : step = [slot |-> s, part |-> p]
    BY <1>2, HeadIs
  <2>2. WriteSlot(s, p, Content(s))
    BY <1>2, <2>1
  <2>. QED  BY <2>2, WriteSlotIs
<1>3. file' \in [Slots -> SlotRecords]
  BY <1>1, <1>2 DEF StepSucceeds, StepFails
<1>4. disk' \in [Slots -> SlotRecords]
  BY DEF TypeOK, StepSucceeds, StepFails
<1>5. job.batch \in Nat /\ job.state \in Balances
  BY DEF TypeOK, TodoFollows, Jobs, Balances
<1>6. passed' \in Balances /\ failedAt' \in Nat \union {-1} /\ owed' \in BOOLEAN
  BY <1>5 DEF TypeOK, StepSucceeds, StepFails
<1>7. TodoFollows'
  <2>1. CASE todo' = Tail(todo)
    BY <2>1, TodoGoesOn
  <2>2. CASE todo' = <<>>
    BY <2>2 DEF TodoFollows
  <2>. QED  BY <2>1, <2>2 DEF StepSucceeds
<1>8. Mapped => failedAt' = failedAt
  BY DEF StepSucceeds, StepFails
<1>. QED  BY <1>3, <1>4, <1>6, <1>7, <1>8

\* The memory is gone: no commit is under way.
LEMMA GoneKeeps ==
    ASSUME Base, MemoryGone, UNCHANGED <<config, job, runs, writes, after, passed, failedAt>>,
           file' \in [Slots -> SlotRecords], disk' \in [Slots -> SlotRecords],
           owed' \in BOOLEAN, runs = 0 => UNCHANGED <<file, disk, cut>>
    PROVE  Base'
<1>1. SlotRecords' = SlotRecords /\ program' = program /\ total' = total
  BY RecordsStay DEF config
<1>2. ZeroState \in Balances /\ 0 \in Nat /\ FALSE \in BOOLEAN /\ total >= 0
  BY DEF ZeroState, Balances, Base, TypeOK
<1>3. TypeOK'
  BY <1>1, <1>2, NoWritesAre DEF Base, TypeOK, MemoryGone
<1>4. SetsCounted'
  BY NoWritesAre DEF Base, SetsCounted, MemoryGone, Counted
<1>5. Control'
  BY <1>1 DEF Base, Control, MemoryGone, Sequential, Mapped
<1>6. Untouched'
  BY DEF Base, Untouched, MemoryGone
<1>7. TodoFollows'
  BY DEF Base, TodoFollows, MemoryGone
<1>. QED  BY <1>3, <1>4, <1>5, <1>6, <1>7 DEF Base

\* After a power loss the slots are mixtures of what they were and what they were to be.
LEMMA LossIs ==
    ASSUME TypeOK, LoseCache
    PROVE  /\ file' \in [Slots -> SlotRecords] /\ disk' = file'
           /\ \A s \in Slots, p \in PartNames : file'[s][p] \in {file[s][p], disk[s][p]}
<1>. DEFINE mixture(kept, s) == [p \in {"header", "chunk", "writes"} |->
                                   IF <<s, p>> \in kept THEN file[s][p] ELSE disk[s][p]]
<1>1. PICK kept : file' = [s \in Slots |-> mixture(kept, s)]
  BY DEF LoseCache
<1>2. disk' = file'
  BY DEF LoseCache
<1>3. ASSUME NEW s \in Slots
      PROVE  /\ mixture(kept, s) \in SlotRecords
             /\ \A p \in PartNames : mixture(kept, s)[p] \in {file[s][p], disk[s][p]}
  <2>. DEFINE m == mixture(kept, s)
  <2>1. \A p \in PartNames : m[p] \in {file[s][p], disk[s][p]}
    BY DEF PartNames
  <2>2. file[s] \in SlotRecords /\ disk[s] \in SlotRecords
    BY DEF TypeOK
  <2>3. /\ m.header \in [batch : -1..total - 1, count : Nat] /\ m.chunk \in [FirstChunk -> Nat]
        /\ m.writes \in Entered
    BY <2>2 DEF SlotRecords
  <2>4. m = [header |-> m.header, chunk |-> m.chunk, writes |-> m.writes]
    OBVIOUS
  <2>. HIDE DEF m
  <2>5. m \in SlotRecords
    BY <2>3, <2>4 DEF SlotRecords
  <2>. QED  BY <2>1, <2>5 DEF m
<1>. HIDE DEF mixture
<1>. QED  BY <1>1, <1>2, <1>3

\* The program starts with an empty log and nothing in memory.
LEMMA InitBase == Init => Base
<1>. SUFFICES ASSUME Init PROVE Base
  OBVIOUS
<1>1. program \in Programs /\ total \in Nat
  BY InputsAssumption DEF Init
<1>2. ZeroState \in Balances /\ 0 \in Nat
  BY DEF ZeroState, Balances
<1>3. EmptySlot \in SlotRecords
  <2>1. NoHeader \in [batch : -1..total - 1, count : Nat]
    BY <1>1 DEF NoHeader
  <2>2. [i \in FirstChunk |-> 0] \in [FirstChunk -> Nat] /\ <<>> \in Entered
    BY DEF Entered
  <2>. QED  BY <2>1, <2>2 DEF EmptySlot, SlotRecords
<1>4. <<ZeroState>> \in Seq(Balances)
  BY <1>2
<1>5. job \in Jobs /\ job.batch = -1 /\ job.accum = NoWrites
  BY <1>2, NoWritesAre DEF Init, Jobs, Balances
<1>6. TypeOK
  <2>1. file \in [Slots -> SlotRecords] /\ disk \in [Slots -> SlotRecords]
    BY <1>3 DEF Init, InitFile
  <2>2. /\ batch = 0 /\ writes = 0 /\ runs = 0 /\ failedAt = -1 /\ state = ZeroState
        /\ passed = ZeroState /\ after = <<ZeroState>> /\ accum = NoWrites /\ box = Empty
        /\ error = FALSE /\ terminate = FALSE /\ owed = FALSE
    BY DEF Init
  <2>3. -1 \in -1..total - 1 /\ 0 <= total
    BY <1>1
  <2>. QED  BY <1>1, <1>2, <1>4, <1>5, <2>1, <2>2, <2>3, NoWritesAre DEF TypeOK
<1>7. SetsCounted
  BY <1>5, NoWritesAre DEF Init, SetsCounted
<1>8. Control
  BY DEF Init, Control, Sequential
<1>9. Untouched
  BY <1>5 DEF Init, InitFile, Untouched
<1>10. TodoFollows
  BY DEF Init, TodoFollows
<1>. QED  BY <1>6, <1>7, <1>8, <1>9, <1>10 DEF Base

\* A start clears the memory and numbers the batches from 0.
LEMMA BootBase == Base /\ Boot => Base'
<1>. SUFFICES ASSUME Base, Boot PROVE Base'
  OBVIOUS
<1>1. SlotRecords' = SlotRecords /\ program' = program /\ total' = total
  BY RecordsStay DEF Boot, config
<1>2. state' \in Balances /\ 0 \in Nat
  BY ReconstructIs DEF Boot, Base
<1>3. total \in Nat /\ runs \in Nat
  BY DEF Base, TypeOK
<1>4. after' \in Seq(Balances) /\ passed' \in Balances /\ Len(after') = 1 /\ after'[1] = state'
  BY <1>2 DEF Boot
<1>5. Unfinished \in BOOLEAN
  BY DEF Unfinished
<1>6. TypeOK'
  <2>1. /\ batch' = 0 /\ accum' = NoWrites /\ box' = Empty /\ error' = FALSE
        /\ terminate' = FALSE
        /\ runs' \in Nat /\ owed' \in BOOLEAN
        /\ UNCHANGED <<file, disk, job, writes, failedAt>>
    BY <1>3, <1>5 DEF Boot
  <2>2. TypeOK /\ 0 <= total
    BY <1>3 DEF Base
  <2>. QED  BY <1>1, <1>2, <1>4, <2>1, <2>2, NoWritesAre DEF TypeOK
<1>7. SetsCounted'
  BY NoWritesAre DEF Base, SetsCounted, Boot, Counted
<1>8. Control'
  BY <1>1, <1>2, <1>3, <1>4 DEF Base, Control, Boot, Sequential, Mapped
<1>9. Untouched'
  BY <1>3 DEF Untouched, Boot
<1>10. TodoFollows'
  BY DEF Boot, TodoFollows
<1>. QED  BY <1>6, <1>7, <1>8, <1>9, <1>10 DEF Base

\* Reading a batch.
LEMMA ApplyKeeps ==
    ASSUME Base, NEW accounts \in Seq(Accounts), Apply(accounts), batch < total,
           main # "down", UNCHANGED config
    PROVE  /\ batch' = batch + 1 /\ batch' \in Nat \ {0} /\ batch' <= total' /\ writes' \in Nat
           /\ state' \in Balances /\ after' \in Seq(Balances)
           /\ Len(after') = batch' + 1 /\ after'[batch' + 1] = state'
<1>1. /\ batch \in Nat /\ writes \in Nat /\ total \in Nat /\ after \in Seq(Balances)
      /\ Len(after) = batch + 1
  BY DEF Base, TypeOK, Control
<1>2. state' \in Balances
  BY StateAfterIs DEF Apply, Base
<1>3. /\ after' \in Seq(Balances) /\ Len(after') = (batch + 1) + 1
      /\ after'[(batch + 1) + 1] = state'
  BY <1>1, <1>2 DEF Apply
<1>4. batch' = batch + 1 /\ total' = total /\ writes' \in Nat
  BY <1>1 DEF Apply, config
<1>. QED  BY <1>1, <1>2, <1>3, <1>4

\* A batch applied by main, with the commit that it may start.
LEMMA ApplyBatchBase == Base /\ ApplyBatch => Base'
<1>. SUFFICES ASSUME Base, ApplyBatch PROVE Base'
  OBVIOUS
<1>1. PICK accounts \in Inputs :
         /\ Apply(accounts)
         /\ IF CommitDue
              THEN /\ job' = [batch |-> batch, state |-> state', accum |-> Sets(accounts)]
                   /\ accum' = ResetCounts(Sets(accounts))
                   /\ todo' = Plan(batch) /\ main' = "commit"
              ELSE accum' = Sets(accounts) /\ UNCHANGED <<job, todo, main>>
  BY DEF ApplyBatch
<1>2. /\ Sequential /\ main = "apply" /\ batch < total
      /\ UNCHANGED <<file, disk, config, worker, shared, hash, runs, passed, failedAt, cut,
                     owed>>
  BY DEF ApplyBatch
<1>3. accounts \in Seq(Accounts)
  BY InputsAre
<1>4. /\ batch' = batch + 1 /\ batch' \in Nat \ {0} /\ batch' <= total' /\ writes' \in Nat
      /\ state' \in Balances /\ after' \in Seq(Balances)
      /\ Len(after') = batch' + 1 /\ after'[batch' + 1] = state'
  BY <1>1, <1>2, <1>3, ApplyKeeps
<1>5. /\ Sets(accounts) \in WriteSets /\ Counted(Sets(accounts))
      /\ ResetCounts(Sets(accounts)) \in WriteSets /\ Counted(ResetCounts(Sets(accounts)))
  BY <1>3, SetsAre DEF Base, SetsCounted
<1>6. /\ SlotRecords' = SlotRecords /\ program' = program /\ total' = total
      /\ Sequential' = Sequential /\ (Mapped' <=> Mapped)
  BY <1>2, RecordsStay DEF config, Sequential, Mapped
<1>7. /\ batch \in Nat /\ total \in Nat /\ runs > 0 /\ cut = "clean" /\ todo = <<>>
      /\ box = Empty /\ TypeOK /\ SetsCounted /\ TodoFollows /\ worker \in {"down", "run"}
      /\ (Mapped => failedAt = -1)
  BY <1>2 DEF Base, TypeOK, Control
<1>8. /\ file' = file /\ disk' = disk /\ runs' = runs /\ failedAt' = failedAt
      /\ passed' = passed
      /\ box' = box /\ error' = error /\ terminate' = terminate /\ owed' = owed /\ cut' = cut
      /\ worker' = worker
  BY <1>2 DEF shared
<1>9. /\ accum' \in WriteSets /\ Counted(accum')
  BY <1>1, <1>5
<1>10. /\ job' \in Jobs /\ job'.batch \in -1..total - 1 /\ Counted(job'.accum)
       /\ TodoFollows' /\ main' \in {"apply", "commit"} /\ (todo' # <<>> <=> main' = "commit")
  <2>1. CASE CommitDue
    <3>1. /\ job' = [batch |-> batch, state |-> state', accum |-> Sets(accounts)]
          /\ todo' = Plan(batch) /\ main' = "commit"
      BY <1>1, <2>1
    <3>2. job'.batch = batch /\ job'.accum = Sets(accounts)
      BY <3>1
    <3>3. job' \in Jobs
      BY <1>4, <1>5, <1>7, <3>1 DEF Jobs, Balances
    <3>4. batch \in -1..total - 1
      BY <1>2, <1>7
    <3>5. TodoFollows' /\ todo' # <<>>
      BY <1>6, <1>7, <3>1, <3>2, PlanStarts
    <3>. QED  BY <1>5, <3>1, <3>2, <3>3, <3>4, <3>5
  <2>2. CASE ~CommitDue
    <3>1. job' = job /\ todo' = todo /\ main' = main
      BY <1>1, <2>2
    <3>2. TodoFollows'
      BY <1>7, <3>1 DEF TodoFollows
    <3>. QED  BY <1>2, <1>7, <3>1, <3>2 DEF TypeOK, SetsCounted
  <2>. QED  BY <2>1, <2>2
<1>11. TypeOK'
  BY <1>4, <1>6, <1>7, <1>8, <1>9, <1>10 DEF TypeOK
<1>12. SetsCounted'
  <2>1. Counted(accum)' /\ Counted(job.accum)'
    BY <1>9, <1>10 DEF Counted
  <2>. QED  BY <1>7, <1>8, <2>1 DEF SetsCounted
<1>13. Control'
  BY <1>2, <1>4, <1>6, <1>7, <1>8, <1>10 DEF Control
<1>14. Untouched'
  BY <1>7, <1>8 DEF Untouched, TypeOK
<1>. QED  BY <1>10, <1>11, <1>12, <1>13, <1>14 DEF Base

\* A step that moves threads only.
LEMMA QuietKeeps ==
    ASSUME Base, Control', error' \in BOOLEAN, terminate' \in BOOLEAN,
           UNCHANGED <<file, disk, config, box, batch, state, accum, todo, job, runs, writes,
                       after, passed, failedAt, cut, owed>>
    PROVE  Base'
<1>1. SlotRecords' = SlotRecords /\ program' = program /\ total' = total
  BY RecordsStay DEF config
<1>2. TypeOK'
  BY <1>1 DEF Base, TypeOK
<1>3. SetsCounted'
  BY DEF Base, SetsCounted, Counted
<1>4. Untouched'
  BY DEF Base, Untouched
<1>5. TodoFollows'
  <2>1. Plan(job.batch)' = Plan(job.batch)
    BY <1>1, PlanStays
  <2>. QED  BY <2>1 DEF Base, TodoFollows
<1>. QED  BY <1>2, <1>3, <1>4, <1>5 DEF Base

\* A step of a commit that main takes itself.
LEMMA CommitStepBase == Base /\ CommitStep => Base'
<1>. SUFFICES ASSUME Base, CommitStep PROVE Base'
  OBVIOUS
<1>1. /\ Sequential /\ main \in {"commit", "flush"}
      /\ StepSucceeds \/ (StepFails /\ todo' = Tail(todo))
      /\ main' = CASE todo' # <<>> -> main
                   [] todo' = <<>> /\ main = "commit" -> "apply"
                   [] OTHER -> "finish"
      /\ UNCHANGED <<config, worker, shared, batch, state, accum, job, hash, runs, writes,
                     after, cut>>
  BY DEF CommitStep
<1>2. todo # <<>> /\ runs > 0 /\ TypeOK /\ TodoFollows
  BY <1>1 DEF Base, Control
<1>3. /\ SlotRecords' = SlotRecords /\ program' = program /\ total' = total
      /\ UNCHANGED <<program, total, job>> /\ (Sequential' <=> Sequential)
      /\ (Mapped' <=> Mapped)
  BY <1>1, RecordsStay DEF config, Sequential, Mapped
<1>4. /\ file' \in [Slots -> SlotRecords] /\ disk' \in [Slots -> SlotRecords]
      /\ passed' \in Balances /\ failedAt' \in Nat \union {-1} /\ owed' \in BOOLEAN
      /\ TodoFollows' /\ (Mapped => failedAt' = failedAt)
  BY <1>1, <1>2, <1>3, StepKeeps
<1>5. TypeOK'
  BY <1>1, <1>2, <1>3, <1>4 DEF TypeOK, shared
<1>6. SetsCounted'
  BY <1>1 DEF Base, SetsCounted, Counted, shared
<1>7. Control'
  BY <1>1, <1>2, <1>3, <1>4 DEF Base, Control, shared
<1>8. Untouched'
  BY <1>1, <1>2 DEF Untouched
<1>. QED  BY <1>4, <1>5, <1>6, <1>7, <1>8 DEF Base

\* The end of the loop, with the last commit of glaze.
LEMMA LeaveLoopBase == Base /\ LeaveLoop => Base'
<1>. SUFFICES ASSUME Base, LeaveLoop PROVE Base'
  OBVIOUS
<1>1. /\ Sequential /\ main = "apply"
      /\ terminate' = (program = "opcode")
      /\ UNCHANGED <<file, disk, config, worker, asleep, box, error, batch, state, accum,
                     hash, runs, writes, after, passed, failedAt, cut, owed>>
  BY DEF LeaveLoop, history
<1>2. /\ TypeOK /\ TodoFollows /\ SetsCounted /\ Control /\ total \in Nat /\ runs > 0
      /\ todo = <<>>
      /\ state \in Balances /\ box = Empty
  BY <1>1 DEF Base, TypeOK, Control
<1>3. /\ SlotRecords' = SlotRecords /\ program' = program /\ total' = total
      /\ (Sequential' <=> Sequential) /\ (Mapped' <=> Mapped)
  BY <1>1, RecordsStay DEF config, Sequential, Mapped
<1>4. /\ job' \in Jobs /\ job'.batch \in -1..total - 1 /\ Counted(job'.accum)
      /\ TodoFollows' /\ main' \in {"flush", "finish"} /\ (todo' # <<>> <=> main' = "flush")
      /\ main' = "flush" => program \in {"glaze", "memset"}
  <2>1. CASE program \in {"glaze", "memset"} /\ total % Ring # 0
    <3>. DEFINE zeros == [i \in 1..Capacity |-> <<0, 0>>]
                sets == [s \in Slots |-> [entries |-> zeros, count |-> 0]]
    <3>1. /\ job' = [batch |-> total - 1, state |-> state, accum |-> sets]
          /\ todo' = GlazePlan /\ main' = "flush"
      BY <1>1, <2>1 DEF LeaveLoop
    <3>2. zeros \in Entered /\ Len(zeros) >= 0
      <4>1. Capacity \in Nat /\ <<0, 0>> \in Accounts \X Nat
        <5>1. 0 \in FirstChunk
          BY SlotAssumption DEF FirstChunk
        <5>. QED  BY <5>1, FirstAccounts, InputsAssumption
      <4>. QED  BY <4>1 DEF Entered
    <3>. HIDE DEF zeros
    <3>3. sets \in WriteSets /\ Counted(sets)
      BY <3>2 DEF WriteSets, Counted, Entered
    <3>. HIDE DEF sets
    <3>4. total - 1 \in Nat
      <4>1. total # 0
        BY <2>1, TurnOf, SlotAssumption
      <4>. QED  BY <4>1, <1>2
    <3>5. job'.batch = total - 1 /\ job'.accum = sets /\ job' \in Jobs
      BY <3>1, <3>3, <3>4, <1>2 DEF Jobs, Balances
    <3>6. todo' = Plan(total - 1)
      BY <2>1, <3>1 DEF Plan
    <3>7. TodoFollows' /\ todo' # <<>>
      BY <1>2, <1>3, <3>4, <3>5, <3>6, PlanStarts
    <3>. QED  BY <2>1, <3>1, <3>3, <3>4, <3>5, <3>7
  <2>2. CASE ~(program \in {"glaze", "memset"} /\ total % Ring # 0)
    <3>1. job' = job /\ todo' = todo /\ main' = "finish"
      BY <2>2 DEF LeaveLoop
    <3>. QED  BY <1>2, <3>1 DEF TypeOK, SetsCounted, TodoFollows
  <2>. QED  BY <2>1, <2>2
<1>5. TypeOK'
  BY <1>1, <1>2, <1>3, <1>4 DEF TypeOK
<1>6. SetsCounted'
  BY <1>1, <1>2, <1>4 DEF SetsCounted, Counted
<1>7. Control'
  BY <1>1, <1>2, <1>3, <1>4 DEF Control
<1>8. Untouched'
  BY <1>1, <1>2 DEF Untouched
<1>. QED  BY <1>4, <1>5, <1>6, <1>7, <1>8 DEF Base

\* A batch read by the version with a checkpoint thread.
LEMMA ReadBatchBase == Base /\ ReadBatch => Base'
<1>. SUFFICES ASSUME Base, ReadBatch PROVE Base'
  OBVIOUS
<1>1. PICK input \in Inputs :
         Apply(Fitting(input)) /\ accum' = Accumulated(Fitting(input))
  BY DEF ReadBatch
<1>. DEFINE accounts == Fitting(input)
<1>2. /\ main = "read" /\ main' = "submit"
      /\ UNCHANGED <<file, disk, config, worker, shared, todo, job, hash, runs, passed,
                     failedAt, cut, owed>>
  BY DEF ReadBatch
<1>3. accounts \in Seq(Accounts)
  BY InputsAre
<1>. HIDE DEF accounts
<1>4. batch < total /\ ~Sequential /\ TypeOK /\ SetsCounted /\ TodoFollows /\ Control
      /\ runs > 0
  BY <1>2 DEF Base, Control
<1>5. /\ batch' = batch + 1 /\ batch' \in Nat \ {0} /\ batch' <= total' /\ writes' \in Nat
      /\ state' \in Balances /\ after' \in Seq(Balances)
      /\ Len(after') = batch' + 1 /\ after'[batch' + 1] = state'
  BY <1>1, <1>2, <1>3, <1>4, ApplyKeeps DEF accounts
<1>6. accum' \in WriteSets /\ Counted(accum')
  BY <1>1, <1>3, <1>4, AccumulatedIs DEF SetsCounted, accounts
<1>7. /\ SlotRecords' = SlotRecords /\ program' = program /\ total' = total
      /\ (Sequential' <=> Sequential) /\ (Mapped' <=> Mapped)
      /\ Plan(job.batch)' = Plan(job.batch)
  BY <1>2, RecordsStay, PlanStays DEF config, Sequential, Mapped
<1>8. TypeOK'
  BY <1>2, <1>4, <1>5, <1>6, <1>7 DEF TypeOK, shared
<1>9. SetsCounted'
  BY <1>2, <1>4, <1>6 DEF SetsCounted, Counted, shared
<1>10. Control'
  BY <1>2, <1>4, <1>5, <1>7 DEF Control, shared
<1>11. Untouched'
  BY <1>2, <1>4 DEF Untouched
<1>12. TodoFollows'
  BY <1>2, <1>4, <1>7 DEF TodoFollows
<1>. QED  BY <1>8, <1>9, <1>10, <1>11, <1>12 DEF Base

\* A batch applied and dropped by it.
LEMMA DropBatchBase == Base /\ DropBatch => Base'
<1>. SUFFICES ASSUME Base, DropBatch PROVE Base'
  OBVIOUS
<1>1. PICK input \in Inputs :
         Apply(Fitting(input)) /\ accum' = Accumulated(Fitting(input))
  BY DEF DropBatch
<1>. DEFINE accounts == Fitting(input)
<1>2. /\ main = "read" /\ main' = "drain"
      /\ failedAt' = batch /\ terminate' \in BOOLEAN /\ error' \in BOOLEAN
      /\ UNCHANGED <<file, disk, config, worker, box, todo, job, hash, runs, passed,
                     cut, owed>>
  BY DEF DropBatch
<1>3. accounts \in Seq(Accounts)
  BY InputsAre
<1>. HIDE DEF accounts
<1>4. batch < total /\ ~Sequential /\ TypeOK /\ SetsCounted /\ TodoFollows /\ Control
      /\ runs > 0
  BY <1>2 DEF Base, Control
<1>5. /\ batch' = batch + 1 /\ batch' \in Nat \ {0} /\ batch' <= total' /\ writes' \in Nat
      /\ state' \in Balances /\ after' \in Seq(Balances)
      /\ Len(after') = batch' + 1 /\ after'[batch' + 1] = state'
  BY <1>1, <1>2, <1>3, <1>4, ApplyKeeps DEF accounts
<1>6. accum' \in WriteSets /\ Counted(accum')
  BY <1>1, <1>3, <1>4, AccumulatedIs DEF SetsCounted, accounts
<1>7. /\ SlotRecords' = SlotRecords /\ program' = program /\ total' = total
      /\ (Sequential' <=> Sequential) /\ (Mapped' <=> Mapped)
      /\ Plan(job.batch)' = Plan(job.batch)
  BY <1>2, RecordsStay, PlanStays DEF config, Sequential, Mapped
<1>8. TypeOK'
  BY <1>2, <1>4, <1>5, <1>6, <1>7 DEF TypeOK
<1>9. SetsCounted'
  BY <1>2, <1>4, <1>6 DEF SetsCounted, Counted
<1>10. Control'
  BY <1>2, <1>4, <1>5, <1>7 DEF Control, Sequential, Mapped
<1>11. Untouched'
  BY <1>2, <1>4 DEF Untouched
<1>12. TodoFollows'
  BY <1>2, <1>4, <1>7 DEF TodoFollows
<1>. QED  BY <1>8, <1>9, <1>10, <1>11, <1>12 DEF Base

\* Main and the box.
LEMMA SubmitBase == Base /\ Submit => Base'
<1>. SUFFICES ASSUME Base, Submit PROVE Base'
  OBVIOUS
<1>1. /\ main = "submit"
      /\ UNCHANGED <<file, disk, config, worker, error, batch, state, accum, todo, job,
                     hash, history>>
  BY DEF Submit
<1>2. /\ ~Sequential /\ TypeOK /\ SetsCounted /\ TodoFollows /\ Control /\ runs > 0 /\ batch > 0
      /\ Untouched
  BY <1>1 DEF Base, Control
<1>3. /\ program' = program /\ total' = total /\ SlotRecords' = SlotRecords
      /\ (Sequential' <=> Sequential) /\ (Mapped' <=> Mapped)
      /\ Plan(job.batch)' = Plan(job.batch)
  BY <1>1, RecordsStay, PlanStays DEF config, Sequential, Mapped
<1>4. Control'
  BY <1>1, <1>2, <1>3 DEF Control, Submit, MainSleeps, PutCheckpoint, history
<1>5. CASE box' = box
  <2>1. terminate' = terminate
    BY DEF Submit, MainSleeps, PutCheckpoint
  <2>. QED  BY <1>1, <1>2, <1>4, <1>5, <2>1, QuietKeeps DEF history, TypeOK
<1>6. CASE box' # box
  <2>1. box' = Checkpoint /\ terminate' = terminate
    BY <1>6 DEF Submit, MainSleeps, PutCheckpoint
  <2>2. Checkpoint \in Jobs /\ Checkpoint.batch = batch - 1 /\ Checkpoint.accum = accum
    BY <1>2 DEF Checkpoint, Jobs, TypeOK, Balances
  <2>3. batch - 1 \in 0..total - 1
    BY <1>2 DEF TypeOK
  <2>. DEFINE c == Checkpoint
  <2>4. box' \in Jobs /\ box'.batch \in 0..total - 1 /\ box'.accum = accum
    BY <2>1, <2>2, <2>3
  <2>5. TypeOK'
    BY <1>1, <1>2, <1>3, <2>1, <2>4 DEF TypeOK, history
  <2>6. SetsCounted'
    BY <1>1, <1>2, <2>4 DEF SetsCounted, Counted
  <2>7. Untouched' /\ TodoFollows'
    BY <1>1, <1>2, <1>3 DEF Untouched, TodoFollows, history
  <2>. QED  BY <1>4, <2>5, <2>6, <2>7 DEF Base
<1>. QED  BY <1>5, <1>6

\* The checkpoint thread.
LEMMA TakeCheckpointBase == Base /\ TakeCheckpoint => Base'
<1>. SUFFICES ASSUME Base, TakeCheckpoint PROVE Base'
  OBVIOUS
<1>1. /\ program = "async" /\ worker = "run"
      /\ UNCHANGED <<file, disk, config, main, error, terminate, batch, state, accum, hash,
                     history>>
  BY DEF TakeCheckpoint
<1>2. ~Sequential /\ TypeOK /\ SetsCounted /\ TodoFollows /\ Control /\ Untouched
  BY <1>1 DEF Base, Sequential
<1>3. /\ program' = program /\ total' = total /\ SlotRecords' = SlotRecords
      /\ (Sequential' <=> Sequential) /\ (Mapped' <=> Mapped)
  BY <1>1, RecordsStay DEF config, Sequential, Mapped
<1>4. CASE box' = box
  <2>1. todo' = todo /\ job' = job /\ worker' \in {"run", "down"}
    BY <1>1, <1>4 DEF TakeCheckpoint
  <2>2. Control'
    BY <1>1, <1>2, <1>3, <1>4, <2>1 DEF Control, history
  <2>. QED  BY <1>1, <1>2, <1>4, <2>1, <2>2, QuietKeeps DEF history, TypeOK
<1>5. CASE box' # box
  <2>1. box # Empty /\ job' = box /\ box' = Empty /\ todo' = Plan(box.batch)
        /\ worker' = "commit"
    BY <1>5 DEF TakeCheckpoint
  <2>2. /\ box \in Jobs /\ box.batch \in 0..total - 1 /\ box.batch \in Nat
        /\ box.batch \in -1..total - 1 /\ Counted(box.accum)
    BY <1>2, <2>1 DEF TypeOK, SetsCounted
  <2>3. TodoFollows' /\ todo' # <<>>
    BY <1>2, <1>3, <2>1, <2>2, PlanStarts
  <2>4. TypeOK'
    BY <1>1, <1>2, <1>3, <2>1, <2>2 DEF TypeOK, history
  <2>5. SetsCounted'
    BY <1>1, <1>2, <2>1, <2>2 DEF SetsCounted, Counted
  <2>6. Control'
    BY <1>1, <1>2, <1>3, <2>1, <2>3 DEF Control, history
  <2>7. Untouched'
    <3>1. main # "down" /\ runs > 0
      BY <1>1, <1>2 DEF Control
    <3>. QED  BY <1>1, <3>1 DEF Untouched, history
  <2>. QED  BY <2>3, <2>4, <2>5, <2>6, <2>7 DEF Base
<1>. QED  BY <1>4, <1>5

\* A step of a commit that the checkpoint thread takes.
LEMMA WorkerStepBase == Base /\ WorkerStep => Base'
<1>. SUFFICES ASSUME Base, WorkerStep PROVE Base'
  OBVIOUS
<1>1. /\ program = "async" /\ worker = "commit"
      /\ \/ StepSucceeds /\ worker' = IF todo' = <<>> THEN "run" ELSE "commit"
         \/ StepFails /\ todo' = <<>> /\ worker' = "report"
      /\ UNCHANGED <<config, main, shared, batch, state, accum, job, hash, runs, writes,
                     after, cut>>
  BY DEF WorkerStep
<1>2. todo # <<>> /\ main # "down" /\ runs > 0 /\ TypeOK /\ TodoFollows /\ ~Sequential
  BY <1>1 DEF Base, Control, Sequential
<1>3. /\ SlotRecords' = SlotRecords /\ program' = program /\ total' = total
      /\ UNCHANGED <<program, total, job>> /\ (Sequential' <=> Sequential)
      /\ (Mapped' <=> Mapped)
  BY <1>1, RecordsStay DEF config, Sequential, Mapped
<1>4. /\ file' \in [Slots -> SlotRecords] /\ disk' \in [Slots -> SlotRecords]
      /\ passed' \in Balances /\ failedAt' \in Nat \union {-1} /\ owed' \in BOOLEAN
      /\ TodoFollows' /\ (Mapped => failedAt' = failedAt)
  BY <1>1, <1>2, <1>3, StepKeeps
<1>5. TypeOK'
  BY <1>1, <1>2, <1>3, <1>4 DEF TypeOK, shared
<1>6. SetsCounted'
  BY <1>1 DEF Base, SetsCounted, Counted, shared
<1>7. Control'
  BY <1>1, <1>2, <1>3, <1>4 DEF Base, Control, shared
<1>8. Untouched'
  BY <1>1, <1>2 DEF Untouched
<1>. QED  BY <1>4, <1>5, <1>6, <1>7, <1>8 DEF Base

\* The machine stops, or the process does.
LEMMA PowerLossBase == Base /\ PowerLoss => Base'
<1>. SUFFICES ASSUME Base, PowerLoss PROVE Base'
  OBVIOUS
<1>1. TypeOK /\ main # "down" /\ runs > 0
  BY DEF PowerLoss, Base, Control
<1>2. LoseCache /\ MemoryGone
      /\ UNCHANGED <<config, job, runs, writes, after, passed, failedAt, owed>>
  BY DEF PowerLoss
<1>3. file' \in [Slots -> SlotRecords] /\ disk' \in [Slots -> SlotRecords] /\ owed' \in BOOLEAN
  BY <1>1, <1>2, LossIs DEF TypeOK
<1>4. runs # 0
  BY <1>1
<1>. QED  BY <1>2, <1>3, <1>4, GoneKeeps

\* The ends of the program that leave the log as it is.
LEMMA EndsBase == Base /\ (Finish \/ Kill \/ OverflowExit) => Base'
<1>. SUFFICES ASSUME Base, Finish \/ Kill \/ OverflowExit PROVE Base'
  OBVIOUS
<1>1. TypeOK /\ main # "down" /\ runs > 0
  BY DEF Finish, Kill, OverflowExit, Base, Control
<1>2. MemoryGone /\ UNCHANGED <<config, job, runs, writes, after, passed, failedAt, owed, file,
                                disk>>
  BY DEF Finish, Kill, OverflowExit, history
<1>3. file' \in [Slots -> SlotRecords] /\ disk' \in [Slots -> SlotRecords] /\ owed' \in BOOLEAN
  BY <1>1, <1>2 DEF TypeOK
<1>4. runs # 0
  BY <1>1
<1>. QED  BY <1>2, <1>3, <1>4, GoneKeeps

\* The steps that move threads only.
LEMMA QuietBase ==
    ASSUME Base, CheckError \/ EndOfFile \/ Drain \/ Msync \/ ReportError \/ SpuriousWakeup
    PROVE  Base'
<1>1. /\ UNCHANGED <<file, disk, config, box, batch, state, accum, todo, job, runs, writes,
                     after, passed, failedAt, cut, owed>>
      /\ error' \in BOOLEAN /\ terminate' \in BOOLEAN
  BY DEF CheckError, EndOfFile, Drain, Msync, ReportError, SpuriousWakeup, history, shared,
         MainSleeps, Base, TypeOK
<1>2. /\ (Sequential' <=> Sequential) /\ (Mapped' <=> Mapped) /\ total' = total
      /\ (Mapped => Sequential)
  BY <1>1 DEF config, Sequential, Mapped
<1>3. Control /\ batch \in Nat /\ total \in Nat /\ batch <= total
  BY DEF Base, TypeOK
<1>4. Control'
  <2>1. CASE CheckError
    <3>1. main' = "read" => batch < total
      BY <2>1, <1>3 DEF CheckError
    <3>. QED  BY <1>1, <1>2, <1>3, <2>1, <3>1 DEF Control, CheckError
  <2>2. CASE EndOfFile
    BY <1>1, <1>2, <1>3, <2>2 DEF Control, EndOfFile
  <2>3. CASE Drain
    BY <1>1, <1>2, <1>3, <2>3 DEF Control, Drain, MainSleeps
  <2>4. CASE Msync
    <3>1. Sequential
      BY <2>4 DEF Msync, Sequential
    <3>. QED  BY <1>1, <1>2, <1>3, <2>4, <3>1 DEF Control, Msync
  <2>5. CASE ReportError
    BY <1>1, <1>2, <1>3, <2>5 DEF Control, ReportError
  <2>6. CASE SpuriousWakeup
    <3>1. main' = main /\ worker' = worker
      BY <2>6 DEF SpuriousWakeup
    <3>2. UNCHANGED <<main, worker, box, batch, state, accum, todo, runs, after, failedAt, cut,
                      total>>
      BY <1>1, <3>1, <2>6 DEF config
    <3>3. program' = program
      BY <1>1 DEF config
    <3>. QED  BY <1>3, <3>2, <3>3 DEF Control, Sequential, Mapped
  <2>. QED  BY <2>1, <2>2, <2>3, <2>4, <2>5, <2>6
<1>. QED  BY <1>1, <1>4, QuietKeeps

\* Every step keeps types and control.
LEMMA NextBase == Base /\ [Next]_vars => Base'
<1>. SUFFICES ASSUME Base, [Next]_vars PROVE Base'
  OBVIOUS
<1>1. CASE UNCHANGED vars
  <2>1. Control'
    BY <1>1 DEF vars, config, memory, shared, history, Base, Control, Sequential, Mapped
  <2>. QED  BY <1>1, <2>1, QuietKeeps DEF vars, config, memory, shared, history, Base, TypeOK
<1>. QED  BY <1>1, BootBase, ApplyBatchBase, CommitStepBase, LeaveLoopBase, ReadBatchBase,
             DropBatchBase, SubmitBase, TakeCheckpointBase, WorkerStepBase,
             PowerLossBase, EndsBase, QuietBase
          DEF Next, MainNext, WorkerNext

\* Every variable keeps its type and every thread its place; what is left of a commit is
\* the end of its plan.
THEOREM RingsTypesAndControl == Spec => []Base
<1>. QED  BY InitBase, NextBase, PTL DEF Spec

-----------------------------------------------------------------------------
\* async: what main hands over is committed, and synced.

\* The count of the batches on their way is kept by both threads.
LEMMA HandOverNext == Base /\ HandOver /\ [Next]_vars => HandOver'
<1>. SUFFICES ASSUME Base, HandOver, [Next]_vars, ~Sequential', main' # "down"
              PROVE  HandOver'
  BY DEF HandOver
<1>1. /\ TypeOK /\ Control /\ Untouched /\ TodoFollows
      /\ batch \in Nat /\ runs \in Nat /\ total \in Nat
      /\ failedAt \in Nat \union {-1} /\ job.batch \in Int
      /\ (box # Empty => box.batch \in Int)
  BY DEF Base, TypeOK, Jobs
<1>2. program = "async" /\ ~Sequential /\ program' = program
  <2>1. program' = program
    BY DEF Next, MainNext, WorkerNext, Boot, ApplyBatch, CommitStep, OverflowExit, LeaveLoop,
           Finish, CheckError, ReadBatch, DropBatch, EndOfFile, Submit, Drain, Msync,
           TakeCheckpoint, WorkerStep, ReportError, SpuriousWakeup, Kill, PowerLoss,
           vars, config
  <2>. QED  BY <2>1 DEF Sequential
<1>3. CASE Boot
  <2>1. runs' = 1 => runs = 0
    BY <1>1, <1>3 DEF Boot
  <2>2. runs' = 1 => job'.batch = -1
    BY <1>3, <2>1 DEF Base, Untouched, Boot
  <2>. QED  BY <1>1, <1>2, <1>3, <2>2 DEF HandOver, Boot, Taken, Submitted
<1>4. CASE CheckError
  BY <1>1, <1>2, <1>4 DEF HandOver, Control, CheckError, Taken, Submitted, shared, history
<1>5. CASE ReadBatch
  <2>1. batch' = batch + 1
    BY <1>5 DEF ReadBatch, Apply
  <2>2. /\ main = "read" /\ main' = "submit"
        /\ UNCHANGED <<file, disk, worker, box, error, terminate, job, runs, failedAt>>
    BY <1>5 DEF ReadBatch, shared
  <2>. QED  BY <1>1, <1>2, <2>1, <2>2 DEF HandOver, Taken, Submitted
<1>6. CASE EndOfFile
  BY <1>1, <1>2, <1>6 DEF HandOver, EndOfFile, Taken, Submitted, history
<1>15. CASE DropBatch
  <2>1. batch' = batch + 1
    BY <1>15 DEF DropBatch, Apply
  <2>2. /\ main = "read" /\ main' = "drain" /\ failedAt = -1 /\ failedAt' = batch
        /\ error' = TRUE /\ terminate' = TRUE
        /\ UNCHANGED <<file, disk, worker, box, job, runs>>
    BY <1>15 DEF DropBatch
  <2>. QED  BY <1>1, <1>2, <2>1, <2>2 DEF HandOver, Taken, Submitted
<1>7. CASE Submit
  <2>1. /\ main = "submit" /\ batch > 0
        /\ UNCHANGED <<file, disk, worker, error, batch, job, runs, failedAt, terminate>>
    BY <1>1, <1>2, <1>7 DEF Submit, MainSleeps, PutCheckpoint, history, Control
  <2>2. CASE box = Empty /\ ~error /\ box' = Checkpoint /\ main' = "top"
    <3>1. box'.batch = batch - 1 /\ Empty' = Empty
      BY <2>2 DEF Checkpoint
    <3>2. box' # Empty
      <4>1. Checkpoint \in Jobs
        BY <1>1, <2>1 DEF Checkpoint, Jobs, TypeOK, Balances
      <4>. QED  BY <2>2, <4>1, InputsAssumption
    <3>. QED  BY <1>1, <1>2, <2>1, <2>2, <3>1, <3>2 DEF HandOver, Taken, Submitted
  <2>3. CASE error /\ main' = "drain" /\ box' = box
    BY <1>1, <1>2, <2>1, <2>3 DEF HandOver, Taken, Submitted
  <2>4. CASE main' = main /\ box' = box
    BY <1>1, <1>2, <2>1, <2>4 DEF HandOver, Taken, Submitted
  <2>. QED  BY <1>7, <2>2, <2>3, <2>4 DEF Submit, MainSleeps, PutCheckpoint
<1>8. CASE Drain
  BY <1>1, <1>2, <1>8 DEF HandOver, Drain, MainSleeps, Taken, Submitted, history
<1>9. CASE TakeCheckpoint
  <2>1. /\ worker = "run"
        /\ UNCHANGED <<file, disk, main, error, terminate, batch, runs, failedAt>>
    BY <1>9 DEF TakeCheckpoint, history
  <2>2. CASE box # Empty /\ job' = box /\ box' = Empty /\ worker' = "commit"
    BY <1>1, <1>2, <2>1, <2>2 DEF HandOver, Taken, Submitted
  <2>3. CASE box = Empty /\ box' = box /\ job' = job
             /\ (worker' = worker \/ (terminate /\ worker' = "down"))
    BY <1>1, <1>2, <2>1, <2>3 DEF HandOver, Taken, Submitted
  <2>. QED  BY <1>9, <2>2, <2>3 DEF TakeCheckpoint
<1>10. CASE WorkerStep
  <2>1. /\ worker = "commit" /\ todo # <<>>
        /\ UNCHANGED <<main, box, error, terminate, batch, job, runs>>
    BY <1>1, <1>2, <1>10 DEF WorkerStep, shared, Control
  <2>2. CASE StepSucceeds /\ worker' = IF todo' = <<>> THEN "run" ELSE "commit"
    <3>1. failedAt' = failedAt /\ todo' = Tail(todo)
      BY <2>2 DEF StepSucceeds
    <3>2. todo' = <<>> => disk' = file'
      <4>1. Tail(todo) = <<>> => Head(todo).part = "sync"
        <5>1. ~Mapped
          BY <1>2 DEF Mapped
        <5>. QED  BY <1>1, <2>1, <5>1, HeadIs
      <4>. QED  BY <2>2, <3>1, <4>1 DEF StepSucceeds
    <3>. QED  BY <1>1, <1>2, <2>1, <2>2, <3>1, <3>2 DEF HandOver, Taken, Submitted
  <2>3. CASE StepFails /\ worker' = "report"
    <3>1. failedAt' # -1
      BY <1>1, <2>1, <2>3 DEF StepFails, TodoFollows
    <3>. QED  BY <1>1, <1>2, <2>1, <2>3, <3>1 DEF HandOver, Taken, Submitted
  <2>. QED  BY <1>10, <2>2, <2>3 DEF WorkerStep
<1>11. CASE ReportError
  BY <1>1, <1>2, <1>11 DEF HandOver, ReportError, Taken, Submitted, history
<1>12. CASE SpuriousWakeup \/ UNCHANGED vars
  <2>1. UNCHANGED <<file, disk, main, worker, box, error, terminate, batch, job, runs,
                    failedAt>>
    BY <1>12 DEF SpuriousWakeup, vars, memory, shared, history
  <2>. QED  BY <1>2, <2>1 DEF HandOver, Taken, Submitted, Sequential
<1>13. ~(ApplyBatch \/ CommitStep \/ OverflowExit \/ LeaveLoop \/ Msync)
  BY <1>2 DEF ApplyBatch, CommitStep, OverflowExit, LeaveLoop, Msync
<1>14. ~(Finish \/ Kill \/ PowerLoss)
  BY DEF Finish, Kill, PowerLoss, MemoryGone
<1>. QED  BY <1>3, <1>4, <1>5, <1>6, <1>7, <1>8, <1>9, <1>10, <1>11, <1>12, <1>13, <1>14,
             <1>15
          DEF Next, MainNext, WorkerNext

\* Nothing is on its way before the first start.
LEMMA HandOverInit == Init => HandOver
  BY DEF Init, HandOver

\* DrainedAtEnd: an orderly end of the version with a checkpoint thread leaves nothing in
\* the box, whatever the threads did before; all is in the log and on the device.
THEOREM AsyncDrained == Spec => []DrainedAtEnd
<1>1. Base /\ HandOver => DrainedAtEnd
  <2>. SUFFICES ASSUME Base, HandOver, program = "async", main = "finish", worker = "down",
                       failedAt = -1
                PROVE  /\ box = Empty /\ todo = <<>>
                       /\ batch > 0 => disk = file /\ job.batch = batch - 1
    BY DEF DrainedAtEnd
  <2>1. ~Sequential /\ box = Empty /\ todo = <<>>
    BY DEF Sequential, HandOver, Base, Control
  <2>2. batch \in Nat
    BY DEF Base, TypeOK
  <2>. QED  BY <2>1, <2>2 DEF HandOver, Taken, Submitted
<1>. QED  BY <1>1, InitBase, NextBase, HandOverInit, HandOverNext, PTL DEF Spec

\* Nothing has failed before the first start.
LEMMA FailureBoundedInit == Init => FailureBounded
  BY DEF Init, FailureBounded

\* After a failure main submits one batch at most: the error is seen when it submits.
LEMMA FailureBoundedNext == Base /\ HandOver /\ FailureBounded /\ [Next]_vars => FailureBounded'
<1>. SUFFICES ASSUME Base, HandOver, FailureBounded, [Next]_vars, ~Sequential', runs' = 1,
                     failedAt' # -1
              PROVE  FailureBounded'
  BY DEF FailureBounded
<1>1. /\ TypeOK /\ Control /\ Untouched /\ TodoFollows
      /\ batch \in Nat /\ runs \in Nat /\ total \in Nat
      /\ failedAt \in Nat \union {-1} /\ job.batch \in Int
      /\ (box # Empty => box.batch \in Int)
  BY DEF Base, TypeOK, Jobs
<1>2. program = "async" /\ ~Sequential /\ program' = program
  <2>1. program' = program
    BY DEF Next, MainNext, WorkerNext, Boot, ApplyBatch, CommitStep, OverflowExit, LeaveLoop,
           Finish, CheckError, ReadBatch, DropBatch, EndOfFile, Submit, Drain, Msync,
           TakeCheckpoint, WorkerStep, ReportError, SpuriousWakeup, Kill, PowerLoss,
           vars, config
  <2>. QED  BY <2>1 DEF Sequential
<1>3. CASE Boot
  <2>1. runs = 0 /\ failedAt' = failedAt
    BY <1>1, <1>3 DEF Boot
  <2>. QED  BY <1>1, <2>1 DEF Untouched
<1>4. CASE CheckError
  BY <1>1, <1>2, <1>4 DEF FailureBounded, Control, CheckError, Taken, Submitted, shared, history
<1>5. CASE ReadBatch
  <2>1. batch' = batch + 1
    BY <1>5 DEF ReadBatch, Apply
  <2>2. /\ main = "read" /\ main' = "submit"
        /\ UNCHANGED <<file, disk, worker, box, error, terminate, job, runs, failedAt>>
    BY <1>5 DEF ReadBatch, shared
  <2>. QED  BY <1>1, <1>2, <2>1, <2>2 DEF FailureBounded, Taken, Submitted
<1>6. CASE EndOfFile
  BY <1>1, <1>2, <1>6 DEF FailureBounded, EndOfFile, Taken, Submitted, history
<1>15. CASE DropBatch
  <2>1. batch' = batch + 1
    BY <1>15 DEF DropBatch, Apply
  <2>2. /\ main = "read" /\ main' = "drain" /\ failedAt = -1 /\ failedAt' = batch
        /\ error' = TRUE /\ terminate' = TRUE
        /\ UNCHANGED <<file, disk, worker, box, job, runs>>
    BY <1>15 DEF DropBatch
  <2>. QED  BY <1>1, <1>2, <2>1, <2>2 DEF HandOver, FailureBounded, Taken, Submitted
<1>7. CASE Submit
  <2>1. /\ main = "submit" /\ batch > 0
        /\ UNCHANGED <<file, disk, worker, error, batch, job, runs, failedAt, terminate>>
    BY <1>1, <1>2, <1>7 DEF Submit, MainSleeps, PutCheckpoint, history, Control
  <2>2. CASE box = Empty /\ ~error /\ box' = Checkpoint /\ main' = "top"
    <3>1. box'.batch = batch - 1 /\ Empty' = Empty
      BY <2>2 DEF Checkpoint
    <3>2. box' # Empty
      <4>1. Checkpoint \in Jobs
        BY <1>1, <2>1 DEF Checkpoint, Jobs, TypeOK, Balances
      <4>. QED  BY <2>2, <4>1, InputsAssumption
    <3>. QED  BY <1>1, <1>2, <2>1, <2>2, <3>1, <3>2 DEF FailureBounded, Taken, Submitted
  <2>3. CASE error /\ main' = "drain" /\ box' = box
    BY <1>1, <1>2, <2>1, <2>3 DEF FailureBounded, Taken, Submitted
  <2>4. CASE main' = main /\ box' = box
    BY <1>1, <1>2, <2>1, <2>4 DEF FailureBounded, Taken, Submitted
  <2>. QED  BY <1>7, <2>2, <2>3, <2>4 DEF Submit, MainSleeps, PutCheckpoint
<1>8. CASE Drain
  BY <1>1, <1>2, <1>8 DEF FailureBounded, Drain, MainSleeps, Taken, Submitted, history
<1>9. CASE TakeCheckpoint
  <2>1. /\ worker = "run" /\ main # "down"
        /\ UNCHANGED <<file, disk, main, error, terminate, batch, runs, failedAt>>
    BY <1>1, <1>9 DEF TakeCheckpoint, history, Control
  <2>2. CASE box # Empty /\ job' = box /\ box' = Empty /\ worker' = "commit"
    BY <1>1, <1>2, <2>1, <2>2 DEF FailureBounded, Taken, Submitted
  <2>3. CASE box = Empty /\ box' = box /\ job' = job
             /\ (worker' = worker \/ (terminate /\ worker' = "down"))
    BY <1>1, <1>2, <2>1, <2>3 DEF FailureBounded, Taken, Submitted
  <2>. QED  BY <1>9, <2>2, <2>3 DEF TakeCheckpoint
<1>10. CASE WorkerStep
  <2>1. /\ worker = "commit" /\ todo # <<>> /\ main # "down" /\ job.batch >= 0
        /\ UNCHANGED <<main, box, error, terminate, batch, job, runs>>
    BY <1>1, <1>2, <1>10 DEF WorkerStep, shared, Control, TodoFollows
  <2>2. CASE StepSucceeds /\ worker' = IF todo' = <<>> THEN "run" ELSE "commit"
    <3>1. failedAt' = failedAt
      BY <2>2 DEF StepSucceeds
    <3>. QED  BY <1>1, <1>2, <2>1, <2>2, <3>1 DEF FailureBounded, Taken, Submitted
  <2>3. CASE StepFails /\ worker' = "report"
    <3>1. failedAt' = job.batch /\ failedAt = -1
      BY <2>3 DEF StepFails
    <3>. QED  BY <1>1, <1>2, <2>1, <2>3, <3>1 DEF HandOver, FailureBounded, Taken, Submitted
  <2>. QED  BY <1>10, <2>2, <2>3 DEF WorkerStep
<1>11. CASE ReportError
  BY <1>1, <1>2, <1>11 DEF FailureBounded, ReportError, Taken, Submitted, history
<1>12. CASE SpuriousWakeup \/ UNCHANGED vars
  <2>1. UNCHANGED <<file, disk, main, worker, box, error, terminate, batch, job, runs,
                    failedAt>>
    BY <1>12 DEF SpuriousWakeup, vars, memory, shared, history
  <2>. QED  BY <1>2, <2>1 DEF FailureBounded, Taken, Submitted, Sequential
<1>13. ~(ApplyBatch \/ CommitStep \/ OverflowExit \/ LeaveLoop \/ Msync)
  BY <1>2 DEF ApplyBatch, CommitStep, OverflowExit, LeaveLoop, Msync
<1>14. CASE Finish \/ Kill \/ PowerLoss
  <2>1. main' = "down" /\ UNCHANGED <<job, runs, failedAt>>
    BY <1>14 DEF Finish, Kill, PowerLoss, MemoryGone, history
  <2>. QED  BY <1>1, <1>2, <2>1 DEF FailureBounded
<1>. QED  BY <1>3, <1>4, <1>5, <1>6, <1>7, <1>8, <1>9, <1>10, <1>11, <1>12, <1>13, <1>14,
             <1>15
          DEF Next, MainNext, WorkerNext

\* ErrorBoundsGap: when a commit has failed, main puts at most one batch more into the
\* box before it sees the flag, and at most that one is logged after the gap.
THEOREM AsyncGapBounded == Spec => []ErrorBoundsGap
<1>1. FailureBounded => ErrorBoundsGap
  BY DEF FailureBounded, ErrorBoundsGap, Sequential
<1>. QED  BY <1>1, InitBase, NextBase, HandOverInit, HandOverNext, FailureBoundedInit,
             FailureBoundedNext, PTL DEF Spec

-----------------------------------------------------------------------------
\* Variants that log the whole state: a pass leaves every slot with what the state was.

\* A part is in a slot whatever the other parts of it are.
LEMMA PartOnly ==
    ASSUME NEW slot, NEW other, NEW s, NEW p \in PartNames, slot[p] = other[p],
           HasPart(slot, s, p)
    PROVE  HasPart(other, s, p)
  BY DEF HasPart, PartNames

\* The chunk of a slot has the balances of its accounts.
LEMMA ChunkPart ==
    ASSUME TypeOK, WholeState, NEW slot, NEW a \in Accounts, HasPart(slot, Home(a), "chunk")
    PROVE  slot.chunk[a % PerChunk] = job.state[a]
<1>. DEFINE s == Home(a)
<1>1. s \in Slots /\ a % PerChunk \in FirstChunk /\ s * PerChunk + (a % PerChunk) = a
  BY HomeIs
<1>2. slot.chunk = ChunkAt(job.state, s * PerChunk)
  BY ContentIs, <1>1 DEF HasPart
<1>. HIDE DEF s
<1>. QED  BY <1>1, <1>2 DEF ChunkAt

\* A slot that has the counted entries of a write set gives what it gives.
LEMMA SameHits ==
    ASSUME NEW slot \in SlotRecords, NEW set, set.entries \in Entered, set.count \in Nat,
           set.count <= Len(set.entries), slot.header.count = set.count,
           Len(slot.writes) >= Len(set.entries),
           \A i \in 1..Len(set.entries) : slot.writes[i] = set.entries[i], NEW a
    PROVE  /\ SlotHits(slot, a) = SetHits(set, a)
           /\ SlotHits(slot, a) # {} => SlotLast(slot, a) = SetLast(set, a)
<1>. DEFINE n == Len(set.entries)  m == Len(slot.writes)
<1>1. n \in Nat /\ m \in Nat /\ set.count <= n /\ m >= n
  BY DEF SlotRecords, Entered
<1>2. \A i \in 1..set.count : EntryOf(slot, i) = set.entries[i]
  <2>. TAKE i \in 1..set.count
  <2>1. i \in 1..n
    BY <1>1
  <2>2. slot.writes[i] = set.entries[i]
    BY <2>1
  <2>3. i <= m
    BY <1>1, <2>1
  <2>. QED  BY <2>2, <2>3 DEF EntryOf
<1>3. SlotHits(slot, a) = SetHits(set, a)
  BY <1>2 DEF SlotHits, SetHits
<1>4. ASSUME SlotHits(slot, a) # {} PROVE SlotLast(slot, a) = SetLast(set, a)
  <2>1. SetHits(set, a) \in SUBSET (0..set.count)
    BY DEF SetHits
  <2>2. Max(SetHits(set, a)) \in SetHits(set, a)
    BY <1>3, <1>4, <2>1, MaxIs
  <2>3. Max(SetHits(set, a)) \in 1..set.count
    BY <2>2 DEF SetHits
  <2>. QED  BY <1>2, <1>3, <2>3 DEF SlotLast, SetLast
<1>. QED  BY <1>3, <1>4

\* A slot with all parts of a commit gives the state that the commit logs.
LEMMA FullSlot ==
    ASSUME TypeOK, SetsCounted, TodoFollows, JobFits, WholeState, todo # <<>>,
           NEW slot \in SlotRecords, NEW a \in Accounts,
           \A j \in 1..3 : HasPart(slot, Home(a), Part(j))
    PROVE  Value(slot, a) = job.state[a] /\ slot.header.batch # -1
<1>. DEFINE s == Home(a)  set == job.accum[s]
<1>1. s \in Slots
  BY HomeIs
<1>2. \A p \in PartNames : HasPart(slot, s, p)
  BY PartsAre
<1>3. /\ HasPart(slot, s, "header") /\ HasPart(slot, s, "chunk") /\ HasPart(slot, s, "writes")
  BY <1>2 DEF PartNames
<1>4. slot.header = [batch |-> job.batch, count |-> set.count]
  BY <1>1, <1>3, ContentIs DEF HasPart
<1>5. slot.header.batch # -1 /\ slot.header.count = set.count
  BY <1>4 DEF TodoFollows, TypeOK
<1>6. slot.chunk[a % PerChunk] = job.state[a]
  BY <1>3, ChunkPart
<1>7. /\ Len(slot.writes) >= Len(set.entries)
      /\ \A i \in 1..Len(set.entries) : slot.writes[i] = set.entries[i]
  BY <1>1, <1>3, ContentIs DEF HasPart
<1>8. set.entries \in Entered /\ set.count \in Nat /\ set.count <= Len(set.entries)
  BY <1>1 DEF TypeOK, SetsCounted, Counted, Jobs, WriteSets, Entered
<1>9. ASSUME SlotHits(slot, a) # {}
      PROVE  SetHits(set, a) # {} /\ SlotLast(slot, a) = SetLast(set, a)
  BY <1>5, <1>7, <1>8, <1>9, SameHits
<1>10. ASSUME Mapped, SlotHits(slot, a) # {} PROVE SlotLast(slot, a) = job.state[a]
  BY <1>9, <1>10 DEF JobFits, SetGives
<1>. QED  BY <1>5, <1>6, <1>10 DEF Value

\* One step of a pass: its part is in the slot, the parts before it stay, and those after
\* it are as they were.
LEMMA PassStep ==
    ASSUME TypeOK, WholeState, PassFollows, todo # <<>>, failedAt = -1, main # "down",
           NEW s \in Slots, NEW j \in 1..3, NextStep = 3 * s + j,
           WriteSlot(s, Part(j), Content(s)), NEW t \in Slots
    PROVE  /\ NextStep + 1 <= 3 * t + 1 => Old(file'[t], t)
           /\ \A i \in 1..3 : 3 * t + i < NextStep + 1 => HasPart(file'[t], t, Part(i))
           /\ \A i \in 1..3 : NextStep + 1 <= 3 * t + i => file'[t][Part(i)] = file[t][Part(i)]
           /\ ~Mapped /\ NextStep + 1 <= 3 * t + 3 /\ file'[t].header.batch = -1 =>
                 \A a \in Accounts : Home(a) = t => passed[a] = 0
<1>1. /\ \A i \in 1..3 : Part(i) \in PartNames
      /\ \A i, k \in 1..3 : i # k => Part(i) # Part(k)
  BY PartsAre
<1>2. /\ \A u \in Slots : u # s => file'[u] = file[u]
      /\ \A p \in PartNames : p # Part(j) => file'[s][p] = file[s][p]
      /\ HasPart(file'[s], s, Part(j))
  BY <1>1, WriteSlotIs
<1>3. /\ NextStep <= 3 * t + 1 => Old(file[t], t)
      /\ \A i \in 1..3 : 3 * t + i < NextStep => HasPart(file[t], t, Part(i))
      /\ ~Mapped /\ NextStep <= 3 * t + 3 /\ file[t].header.batch = -1 =>
            \A a \in Accounts : Home(a) = t => passed[a] = 0
  BY DEF PassFollows
<1>4. s \in Nat /\ t \in Nat
  BY DEF Slots
<1>5. CASE t # s
  <2>1. file'[t] = file[t]
    BY <1>2, <1>5
  <2>2. NextStep + 1 <= 3 * t + 1 => NextStep <= 3 * t + 1
    BY <1>4
  <2>3. \A i \in 1..3 : 3 * t + i < NextStep + 1 => 3 * t + i < NextStep
    BY <1>4, <1>5
  <2>4. NextStep + 1 <= 3 * t + 3 => NextStep <= 3 * t + 3
    BY <1>4
  <2>. QED  BY <1>3, <2>1, <2>2, <2>3, <2>4
<1>6. CASE t = s
  <2>1. ~(NextStep + 1 <= 3 * t + 1)
    BY <1>4, <1>6
  <2>2. ASSUME NEW i \in 1..3, i # j PROVE file'[t][Part(i)] = file[t][Part(i)]
    BY <1>1, <1>2, <1>6, <2>2
  <2>3. ASSUME NEW i \in 1..3, 3 * t + i < NextStep + 1
        PROVE  HasPart(file'[t], t, Part(i))
    <3>1. CASE i = j
      BY <1>2, <1>6, <3>1
    <3>2. CASE i # j
      <4>1. 3 * t + i < NextStep
        BY <1>4, <1>6, <2>3, <3>2
      <4>2. HasPart(file[t], t, Part(i))
        BY <1>3, <4>1
      <4>. QED  BY <1>1, <2>2, <3>2, <4>2, PartOnly
    <3>. QED  BY <3>1, <3>2
  <2>4. ASSUME NEW i \in 1..3, NextStep + 1 <= 3 * t + i
        PROVE  file'[t][Part(i)] = file[t][Part(i)]
    <3>1. i # j
      BY <1>4, <1>6, <2>4
    <3>. QED  BY <2>2, <3>1
  <2>5. ASSUME ~Mapped, NextStep + 1 <= 3 * t + 3, file'[t].header.batch = -1
        PROVE  \A a \in Accounts : Home(a) = t => passed[a] = 0
    <3>1. j # 3 /\ 3 \in 1..3 /\ NextStep <= 3 * t + 3
      BY <1>4, <1>6, <2>5
    <3>2. Part(3) = "header"
      BY <2>5, ProgramIs DEF Part, Mapped, WholeState
    <3>3. file'[t].header = file[t].header
      BY <2>2, <3>1, <3>2
    <3>. QED  BY <1>3, <2>5, <3>1, <3>3
  <2>. QED  BY <2>1, <2>3, <2>4, <2>5
<1>. QED  BY <1>5, <1>6

\* The steps of the variants that log the whole state.
LEMMA WholeCases ==
    ASSUME Base, WholeState, [Next]_vars
    PROVE  /\ UNCHANGED <<program, total>> /\ (WholeState' <=> WholeState)
           /\ (Mapped' <=> Mapped)
           /\ \/ Boot \/ ApplyBatch \/ CommitStep \/ LeaveLoop \/ Kill \/ PowerLoss
              \/ (OverflowExit \/ Finish) /\ todo = <<>> /\ main # "down"
              \/ UNCHANGED <<file, disk, main, batch, state, accum, todo, job, after, passed,
                             failedAt, cut, owed>>
<1>1. UNCHANGED <<program, total>>
  BY DEF Next, MainNext, WorkerNext, Boot, ApplyBatch, CommitStep, OverflowExit, LeaveLoop,
         Finish, CheckError, ReadBatch, DropBatch, EndOfFile, Submit, Drain, Msync,
         TakeCheckpoint, WorkerStep, ReportError, SpuriousWakeup, Kill, PowerLoss, vars, config
<1>2. Sequential /\ program # "async" /\ Control
  BY DEF WholeState, Sequential, Base
<1>3. ~(CheckError \/ ReadBatch \/ DropBatch \/ EndOfFile \/ Submit \/ Drain \/ TakeCheckpoint
          \/ WorkerStep \/ ReportError)
  BY <1>2 DEF Control, CheckError, ReadBatch, DropBatch, EndOfFile, Submit, Drain,
              TakeCheckpoint, WorkerStep, ReportError
<1>4. CASE UNCHANGED vars \/ Msync \/ SpuriousWakeup
  <2>1. UNCHANGED <<file, disk, main, batch, state, accum, todo, job, after, passed, failedAt,
                    cut, owed>>
    BY <1>4 DEF vars, Msync, SpuriousWakeup, memory, history
  <2>. QED  BY <1>1, <2>1 DEF WholeState, Mapped
<1>5. OverflowExit \/ Finish => todo = <<>> /\ main # "down"
  BY <1>2 DEF OverflowExit, Finish, Control
<1>. QED  BY <1>1, <1>3, <1>4, <1>5 DEF Next, MainNext, WorkerNext, WholeState, Mapped

\* What a batch enters into the write sets leads to the state after it.
LEMMA FitsNext == Base /\ JobFits /\ FreshSets /\ [Next]_vars => JobFits' /\ FreshSets'
<1>. SUFFICES ASSUME Base, JobFits, FreshSets, [Next]_vars, Mapped'
              PROVE  JobFits' /\ FreshSets'
  BY DEF JobFits, FreshSets
<1>1. Mapped /\ WholeState /\ Sequential /\ TypeOK /\ SetsCounted /\ Control /\ Mapped'
  <2>1. program' = program
    BY DEF Next, MainNext, WorkerNext, Boot, ApplyBatch, CommitStep, OverflowExit, LeaveLoop,
           Finish, CheckError, ReadBatch, DropBatch, EndOfFile, Submit, Drain, Msync,
           TakeCheckpoint, WorkerStep, ReportError, SpuriousWakeup, Kill, PowerLoss,
           vars, config
  <2>. QED  BY <2>1 DEF Mapped, WholeState, Sequential, Base
<1>2. \A s \in Slots : NoWrites[s].count = 0
  BY NoWritesAre
<1>3. CASE Boot \/ Kill \/ PowerLoss \/ OverflowExit \/ Finish
  <2>1. todo' = <<>> /\ accum' = NoWrites
    BY <1>3 DEF Boot, Kill, PowerLoss, OverflowExit, Finish, MemoryGone
  <2>. QED  BY <1>2, <2>1 DEF JobFits, FreshSets
<1>4. CASE ApplyBatch
  <2>1. PICK accounts \in Inputs :
           /\ Apply(accounts)
           /\ IF CommitDue
                THEN /\ job' = [batch |-> batch, state |-> state', accum |-> Sets(accounts)]
                     /\ accum' = ResetCounts(Sets(accounts))
                     /\ todo' = Plan(batch) /\ main' = "commit"
                ELSE accum' = Sets(accounts) /\ UNCHANGED <<job, todo, main>>
    BY <1>4 DEF ApplyBatch
  <2>2. CommitDue
    BY <1>1 DEF CommitDue, Mapped
  <2>3. accounts \in Seq(Accounts)
    BY InputsAre
  <2>4. Sets(accounts) = Accumulated(accounts)
    BY <1>1 DEF Sets, Mapped
  <2>5. job' = [batch |-> batch, state |-> StateAfter(accounts),
                accum |-> Accumulated(accounts)]
    BY <2>1, <2>2, <2>4 DEF Apply
  <2>6. job'.state = StateAfter(accounts) /\ job'.accum = Accumulated(accounts)
    BY <2>5
  <2>7. ASSUME NEW a \in Accounts PROVE SetGives(job'.accum[Home(a)], job'.state, a)
    <3>1. Home(a) \in Slots /\ accum[Home(a)].count = 0
      BY <1>1, HomeIs DEF FreshSets
    <3>2. LET set == Accumulated(accounts)[Home(a)]
          IN  IF SetHits(set, a) # {} THEN SetLast(set, a) = StateAfter(accounts)[a]
                                      ELSE StateAfter(accounts)[a] = state[a]
      BY <1>1, <2>3, <3>1, AccumulatedGives
    <3>. QED  BY <2>6, <3>2 DEF SetGives
  <2>8. \A s \in Slots : accum'[s].count = 0
    BY <1>1, <2>1, <2>2, <2>3, SetsAre DEF SetsCounted
  <2>. QED  BY <2>7, <2>8 DEF JobFits, FreshSets
<1>5. CASE CommitStep
  <2>1. todo # <<>> /\ job' = job /\ accum' = accum
    BY <1>1, <1>5 DEF CommitStep, Control
  <2>. QED  BY <1>1, <2>1 DEF JobFits, FreshSets
<1>6. CASE LeaveLoop
  <2>1. todo' = todo /\ job' = job /\ accum' = accum
    BY <1>1, <1>6 DEF LeaveLoop, Mapped
  <2>. QED  BY <1>1, <2>1 DEF JobFits, FreshSets
<1>7. CASE UNCHANGED <<accum, todo, job>>
  BY <1>1, <1>7 DEF JobFits, FreshSets
<1>. QED  BY <1>1, <1>3, <1>4, <1>5, <1>6, <1>7, WholeCases

\* A slot the pass has gone through gives the new state.
LEMMA NewestPass ==
    ASSUME TypeOK, SetsCounted, TodoFollows, JobFits, WholeState, PassFollows, todo # <<>>,
           failedAt = -1, main # "down", NEW s \in Slots, NextStep > 3 * s + 3
    PROVE  /\ \A a \in Accounts : Home(a) = s => Value(file[s], a) = job.state[a]
           /\ file[s].header.batch # -1
<1>1. \A j \in 1..3 : HasPart(file[s], s, Part(j))
  <2>. TAKE j \in 1..3
  <2>1. NextStep \in Int /\ s \in Nat
    BY StepIs DEF Slots
  <2>2. 3 * s + j < NextStep
    BY <2>1
  <2>. QED  BY <2>2 DEF PassFollows
<1>2. file[s] \in SlotRecords
  BY DEF TypeOK
<1>3. \A a \in Accounts : Home(a) = s => Value(file[s], a) = job.state[a]
  BY <1>1, <1>2, FullSlot
<1>4. file[s].header.batch # -1
  <2>1. file[s].header.batch = job.batch
    <3>1. HasPart(file[s], s, "header")
      <4>1. "header" \in PartNames
        BY DEF PartNames
      <4>. QED  BY <1>1, <4>1, PartsAre
    <3>2. Content(s).header = [batch |-> job.batch, count |-> job.accum[s].count]
      BY ContentIs
    <3>3. file[s].header = Content(s).header
      BY <3>1 DEF HasPart
    <3>. QED  BY <3>2, <3>3
  <2>. QED  BY <2>1 DEF TodoFollows, TypeOK
<1>. QED  BY <1>3, <1>4

\* The slots, as a commit leaves them and as the others find them.
LEMMA PassCommitStep ==
    ASSUME Base, JobFits, PassFollows, DevicePass, WholeState, CommitStep, failedAt' = -1
    PROVE  PassFollows' /\ DevicePass'
<1>1. /\ todo # <<>> /\ main # "down" /\ failedAt = -1 /\ StepSucceeds
      /\ TypeOK /\ SetsCounted /\ TodoFollows /\ UNCHANGED <<program, total, job>>
  <2>1. todo # <<>> /\ main # "down" /\ TypeOK /\ SetsCounted /\ TodoFollows /\ Sequential
    BY DEF Base, CommitStep, Control
  <2>2. UNCHANGED <<program, total, job>>
    BY DEF CommitStep, config
  <2>3. StepFails => failedAt' # -1
    BY <2>1 DEF StepFails, TodoFollows
  <2>4. StepSucceeds /\ failedAt = -1
    BY <2>3 DEF CommitStep, StepSucceeds
  <2>. QED  BY <2>1, <2>2, <2>4
<1>2. /\ (WholeState' <=> WholeState) /\ (Mapped' <=> Mapped) /\ main' # "down"
      /\ \A j : Part(j)' = Part(j)
  BY <1>1, PlanStays DEF WholeState, Mapped, CommitStep
<1>3. /\ todo' = Tail(todo) /\ passed' = (IF todo' = <<>> THEN job.state ELSE passed)
      /\ owed' = (owed /\ Head(todo).part # "sync")
      /\ TodoFollows' /\ (todo' # <<>> => NextStep' = NextStep + 1)
  BY <1>1, TodoGoesOn DEF StepSucceeds
<1>4. NextStep \in Int
  BY <1>1, StepIs
<1>5. /\ todo = <<>> => \A s \in Slots : Old(file[s], s)
      /\ todo # <<>> => \A s \in Slots :
             /\ NextStep <= 3 * s + 1 => Old(file[s], s)
             /\ \A j \in 1..3 : 3 * s + j < NextStep => HasPart(file[s], s, Part(j))
             /\ ~Mapped /\ NextStep <= 3 * s + 3 /\ file[s].header.batch = -1 =>
                   \A a \in Accounts : Home(a) = s => passed[a] = 0
  BY <1>1 DEF PassFollows
<1>6. CASE Head(todo).part = "sync"
  <2>1. todo' = <<>> /\ disk' = file /\ file' = file /\ NextStep = 3 * Ring + 1
    <3>1. \A s \in Slots, j \in 1..3 : Part(j) \in PartNames =>
             [slot |-> s, part |-> Part(j)].part # "sync"
      BY DEF PartNames
    <3>2. Tail(todo) = <<>> /\ NextStep = 3 * Ring + 1
      BY <1>1, <1>6, <3>1, HeadIs
    <3>. QED  BY <1>1, <1>3, <1>6, <3>2 DEF StepSucceeds
  <2>2. ASSUME NEW s \in Slots
        PROVE  /\ file[s].header.batch # -1
               /\ \A a \in Accounts : Home(a) = s => Value(file[s], a) = job.state[a]
    <3>1. NextStep > 3 * s + 3
      BY <2>1, SlotAssumption DEF Slots
    <3>. QED  BY <1>1, <3>1, NewestPass
  <2>3. passed' = job.state
    BY <1>3, <2>1
  <2>4. \A s \in Slots : Old(file[s], s)'
    BY <1>1, <1>2, <2>1, <2>2, <2>3 DEF Old, Value
  <2>5. \A s \in Slots : disk'[s] = file'[s] /\ disk'[s].header.batch # -1
    BY <2>1, <2>2
  <2>6. \A s \in Slots : Old(disk[s], s)'
    BY <2>4, <2>1 DEF Old, Value
  <2>. QED  BY <2>1, <2>4, <2>5, <2>6 DEF PassFollows, DevicePass
<1>7. CASE Head(todo).part # "sync"
  <2>1. PICK s \in Slots, j \in 1..3 :
           /\ Head(todo) = [slot |-> s, part |-> Part(j)] /\ Part(j) \in PartNames
           /\ NextStep = 3 * s + j /\ (~Mapped => Tail(todo) # <<>>)
    BY <1>1, <1>7, HeadIs
  <2>2. WriteSlot(s, Part(j), Content(s)) /\ disk' = disk
    <3>1. Head(todo).slot = s /\ Head(todo).part = Part(j)
      BY <2>1
    <3>. QED  BY <1>1, <1>7, <3>1 DEF StepSucceeds
  <2>3. \A t \in Slots :
           /\ NextStep + 1 <= 3 * t + 1 => Old(file'[t], t)
           /\ \A i \in 1..3 : 3 * t + i < NextStep + 1 => HasPart(file'[t], t, Part(i))
           /\ \A i \in 1..3 : NextStep + 1 <= 3 * t + i => file'[t][Part(i)] = file[t][Part(i)]
           /\ ~Mapped /\ NextStep + 1 <= 3 * t + 3 /\ file'[t].header.batch = -1 =>
                 \A a \in Accounts : Home(a) = t => passed[a] = 0
    BY <1>1, <2>1, <2>2, PassStep
  <2>4. file' \in [Slots -> SlotRecords]
    BY <2>1, <2>2, <1>1, WriteSlotIs
  <2>5. CASE todo' # <<>>
    <3>1. NextStep' = NextStep + 1 /\ passed' = passed /\ (owed' <=> owed)
      BY <1>3, <1>7, <2>5
    <3>2. \A t \in Slots, i \in 1..3 :
             3 * t + i < NextStep' => HasPart(file[t], t, Part(i))'
      <4>1. ASSUME NEW t \in Slots, NEW i \in 1..3, HasPart(file'[t], t, Part(i))
            PROVE  HasPart(file[t], t, Part(i))'
        BY <1>1, <1>2, <4>1 DEF HasPart, Content, ChunkAt
      <4>. QED  BY <2>3, <3>1, <4>1
    <3>3. \A t \in Slots : NextStep' <= 3 * t + 1 => Old(file[t], t)'
      BY <1>2, <2>3, <3>1 DEF Old, Value
    <3>4. PassFollows'
      BY <1>2, <2>3, <2>5, <3>1, <3>2, <3>3 DEF PassFollows
    <3>5. DevicePass'
      <4>1. ASSUME ~Mapped, ~owed
            PROVE  /\ \A t \in Slots : /\ disk[t].header.batch = -1 => disk[t] = EmptySlot
                                       /\ Old(disk[t], t)
                   /\ \A t \in Slots : \A i \in 1..3 :
                         NextStep <= 3 * t + i => file[t][Part(i)] = disk[t][Part(i)]
        BY <1>1, <4>1 DEF DevicePass
      <4>2. \A t \in Slots, i \in 1..3 : NextStep + 1 <= 3 * t + i => NextStep <= 3 * t + i
        BY <1>4 DEF Slots
      <4>3. ASSUME ~Mapped, ~owed, NEW t \in Slots PROVE Old(disk[t], t)'
        BY <1>2, <4>1, <4>3, <2>2, <3>1 DEF Old, Value
      <4>4. ASSUME ~Mapped, ~owed, NEW t \in Slots, NEW i \in 1..3, NextStep + 1 <= 3 * t + i
            PROVE  file'[t][Part(i)] = disk'[t][Part(i)]
        BY <2>2, <2>3, <4>1, <4>2, <4>4
      <4>. QED  BY <1>2, <2>2, <2>5, <3>1, <4>1, <4>3, <4>4 DEF DevicePass
    <3>. QED  BY <3>4, <3>5
  <2>6. CASE todo' = <<>>
    <3>1. Mapped /\ NextStep = 3 * Ring /\ passed' = job.state
      <4>1. Mapped /\ passed' = job.state
        BY <1>3, <2>1, <2>6
      <4>2. NextStep = Len(Plan(job.batch))
        BY <1>1, <1>3, <2>6, StepIs
      <4>3. job.batch \in Int
        BY <1>1 DEF TypeOK
      <4>. QED  BY <4>1, <4>2, <4>3, <1>1, PlanIs
    <3>2. ASSUME NEW t \in Slots PROVE Old(file[t], t)'
      <4>1. \A i \in 1..3 : 3 * t + i < NextStep + 1
        BY <3>1, SlotAssumption DEF Slots
      <4>2. \A i \in 1..3 : HasPart(file'[t], t, Part(i))
        BY <2>3, <4>1
      <4>3. \A a \in Accounts : Home(a) = t => Value(file'[t], a) = job.state[a]
        BY <1>1, <2>4, <4>2, FullSlot
      <4>. QED  BY <1>1, <1>2, <3>1, <4>3 DEF Old, Value
    <3>. QED  BY <1>2, <2>6, <3>1, <3>2 DEF PassFollows, DevicePass
  <2>. QED  BY <2>5, <2>6
<1>. QED  BY <1>6, <1>7

\* A commit that starts finds the slots as the last one has left them.
LEMMA PassBegins ==
    ASSUME Base, PassFollows, DevicePass, WholeState, main # "down", todo = <<>>,
           UNCHANGED <<file, disk, program, total, passed, failedAt, owed>>,
           todo' # <<>> => NextStep' = 1
    PROVE  PassFollows' /\ DevicePass'
<1>1. (WholeState' <=> WholeState) /\ (Mapped' <=> Mapped) /\ \A j : Part(j)' = Part(j)
  BY DEF WholeState, Mapped, Part
<1>2. failedAt = -1 => \A s \in Slots : Old(file[s], s)
  BY DEF PassFollows
<1>3. ASSUME NEW slot, NEW s, Old(slot, s), slot.header.batch = -1
      PROVE  \A a \in Accounts : Home(a) = s => passed[a] = 0
  BY <1>3 DEF Old, Value
<1>4. \A s \in Slots, j \in 1..3 : ~(3 * s + j < 1)
  BY DEF Slots
<1>5. failedAt = -1 => \A s \in Slots : Old(file[s], s)'
  BY <1>1, <1>2 DEF Old, Value
<1>6. PassFollows'
  BY <1>1, <1>2, <1>3, <1>4, <1>5 DEF PassFollows
<1>7. ASSUME failedAt = -1, ~Mapped, ~owed
      PROVE  /\ \A s \in Slots : /\ disk[s].header.batch = -1 => disk[s] = EmptySlot
                                 /\ Old(disk[s], s)'
             /\ disk = file
  BY <1>1, <1>7 DEF DevicePass, Old, Value
<1>8. \A s \in Slots : \A j : file = disk => file'[s][Part(j)'] = disk'[s][Part(j)']
  OBVIOUS
<1>9. DevicePass'
  BY <1>1, <1>7, <1>8 DEF DevicePass
<1>. QED  BY <1>6, <1>9

\* A start finds in every slot what it reads from it.
LEMMA PassBoot ==
    ASSUME Base, WholeState, Boot
    PROVE  PassFollows' /\ DevicePass'
<1>1. /\ UNCHANGED <<file, disk, program, total, failedAt>> /\ todo' = <<>>
      /\ passed' = Reconstruct.state /\ owed' = Unfinished
  BY DEF Boot, config
<1>2. (WholeState' <=> WholeState) /\ (Mapped' <=> Mapped)
  BY <1>1 DEF WholeState, Mapped
<1>3. TypeOK
  BY DEF Base
<1>4. \A a \in Accounts : passed'[a] = Value(file[Home(a)], a)
  BY <1>1, <1>3, WholeIs
<1>5. \A s \in Slots : Old(file[s], s)'
  BY <1>1, <1>2, <1>4 DEF Old, Value
<1>6. PassFollows'
  BY <1>1, <1>5 DEF PassFollows
<1>7. ~owed' => file = disk /\ \A s \in Slots : file[s].header.batch = -1 => file[s] = EmptySlot
  BY <1>1 DEF Unfinished, ValidSlots
<1>8. ~owed' => \A s \in Slots : Old(disk[s], s)'
  <2>. SUFFICES ASSUME ~owed' PROVE \A s \in Slots : Old(disk[s], s)'
    OBVIOUS
  <2>1. disk' = file'
    BY <1>1, <1>7
  <2>. QED  BY <1>5, <2>1 DEF Old, Value
<1>9. DevicePass'
  <2>1. EmptySlot' = EmptySlot
    BY DEF EmptySlot, NoHeader
  <2>. QED  BY <1>1, <1>7, <1>8, <2>1 DEF DevicePass
<1>. QED  BY <1>6, <1>9

\* Every step keeps what is known of the slots in a pass.
LEMMA PassNext ==
    ASSUME Base, JobFits, PassFollows, DevicePass, [Next]_vars
    PROVE  PassFollows' /\ DevicePass'
<1>. SUFFICES ASSUME WholeState', main' # "down", failedAt' = -1
              PROVE  PassFollows' /\ DevicePass'
  BY DEF PassFollows, DevicePass
<1>1. WholeState
  <2>1. program' = program
    BY DEF Next, MainNext, WorkerNext, Boot, ApplyBatch, CommitStep, OverflowExit, LeaveLoop,
           Finish, CheckError, ReadBatch, DropBatch, EndOfFile, Submit, Drain, Msync,
           TakeCheckpoint, WorkerStep, ReportError, SpuriousWakeup, Kill, PowerLoss,
           vars, config
  <2>. QED  BY <2>1 DEF WholeState
<1>2. UNCHANGED <<program, total>> /\ (Mapped' <=> Mapped) /\ TypeOK /\ Control /\ total \in Nat
      /\ batch \in Nat
  BY <1>1, WholeCases DEF Base, TypeOK
<1>3. CASE ApplyBatch
  <2>1. /\ main # "down" /\ todo = <<>>
        /\ UNCHANGED <<file, disk, passed, failedAt, owed>>
    BY <1>2, <1>3 DEF ApplyBatch, Control
  <2>2. PICK accounts \in Inputs :
           IF CommitDue
             THEN /\ job' = [batch |-> batch, state |-> state', accum |-> Sets(accounts)]
                  /\ todo' = Plan(batch)
             ELSE UNCHANGED todo
    BY <1>3 DEF ApplyBatch
  <2>3. todo' # <<>> => NextStep' = 1
    <3>1. ASSUME CommitDue PROVE NextStep' = 1
      <4>1. todo' = Plan(batch) /\ job'.batch = batch
        BY <2>2, <3>1
      <4>. QED  BY <1>2, <4>1, PlanStarts
    <3>. QED  BY <2>1, <2>2, <3>1
  <2>. QED  BY <1>1, <1>2, <2>1, <2>3, PassBegins
<1>4. CASE LeaveLoop
  <2>1. /\ main # "down" /\ todo = <<>>
        /\ UNCHANGED <<file, disk, passed, failedAt, owed>>
    BY <1>2, <1>4 DEF LeaveLoop, Control, history
  <2>2. todo' # <<>> => NextStep' = 1
    <3>1. ASSUME program \in {"glaze", "memset"}, total % Ring # 0 PROVE NextStep' = 1
      <4>1. todo' = Plan(total - 1) /\ job'.batch = total - 1
        BY <1>4, <3>1 DEF LeaveLoop, Plan
      <4>2. total - 1 \in Nat
        <5>1. total # 0
          BY <3>1, TurnOf, SlotAssumption
        <5>. QED  BY <1>2, <5>1
      <4>. QED  BY <1>2, <4>1, <4>2, PlanStarts
    <3>. QED  BY <1>4, <2>1, <3>1 DEF LeaveLoop
  <2>. QED  BY <1>1, <1>2, <2>1, <2>2, PassBegins
<1>5. CASE UNCHANGED <<file, disk, main, batch, state, accum, todo, job, after, passed,
                       failedAt, cut, owed>>
  <2>1. \A j : Part(j)' = Part(j)
    BY <1>2, PlanStays, <1>5
  <2>2. NextStep' = NextStep
    BY <1>2, <1>5, PlanStays DEF NextStep
  <2>3. \A s \in Slots : /\ Old(file[s], s)' <=> Old(file[s], s)
                         /\ Old(disk[s], s)' <=> Old(disk[s], s)
    BY <1>2, <1>5 DEF Old, Value
  <2>4. \A s \in Slots, j \in 1..3 :
           HasPart(file[s], s, Part(j))' <=> HasPart(file[s], s, Part(j))
    BY <1>1, <1>5, <2>1 DEF HasPart, Content, ChunkAt
  <2>5. EmptySlot' = EmptySlot
    BY DEF EmptySlot, NoHeader
  <2>6. PassFollows'
    BY <1>1, <1>2, <1>5, <2>2, <2>3, <2>4 DEF PassFollows
  <2>7. DevicePass'
    BY <1>1, <1>2, <1>5, <2>1, <2>2, <2>3, <2>5 DEF DevicePass
  <2>. QED  BY <2>6, <2>7
<1>6. ~(Kill \/ PowerLoss \/ OverflowExit \/ Finish)
  BY DEF Kill, PowerLoss, OverflowExit, Finish, MemoryGone
<1>. QED  BY <1>1, <1>3, <1>4, <1>5, <1>6, WholeCases, PassCommitStep, PassBoot

\* The state in memory is what the last pass has logged, or a pass is due.
LEMMA StateNext ==
    ASSUME Base, StateFollows, [Next]_vars
    PROVE  StateFollows'
<1>. SUFFICES ASSUME WholeState', failedAt' = -1 PROVE StateFollows'
  BY DEF StateFollows
<1>1. WholeState
  <2>1. program' = program
    BY DEF Next, MainNext, WorkerNext, Boot, ApplyBatch, CommitStep, OverflowExit, LeaveLoop,
           Finish, CheckError, ReadBatch, DropBatch, EndOfFile, Submit, Drain, Msync,
           TakeCheckpoint, WorkerStep, ReportError, SpuriousWakeup, Kill, PowerLoss,
           vars, config
  <2>. QED  BY <2>1 DEF WholeState
<1>2. /\ UNCHANGED <<program, total>> /\ (Mapped' <=> Mapped) /\ TypeOK /\ Control
      /\ total \in Nat
      /\ batch \in Nat /\ TodoFollows
  BY <1>1, WholeCases DEF Base, TypeOK
<1>3. CASE Kill \/ PowerLoss \/ OverflowExit \/ Finish
  <2>1. main' = "down"
    BY <1>3 DEF Kill, PowerLoss, OverflowExit, Finish, MemoryGone
  <2>. QED  BY <2>1 DEF StateFollows
<1>4. CASE Boot
  <2>1. main' = "apply" /\ passed' = state'
    <3>1. Sequential
      BY <1>1 DEF WholeState, Sequential
    <3>. QED  BY <1>4, <3>1 DEF Boot
  <2>. QED  BY <2>1 DEF StateFollows
<1>5. CASE ApplyBatch
  <2>1. /\ UNCHANGED <<passed, failedAt>> /\ main = "apply"
    BY <1>5 DEF ApplyBatch
  <2>2. PICK accounts \in Inputs :
           /\ batch' = batch + 1
           /\ IF CommitDue
                THEN /\ job' = [batch |-> batch, state |-> state', accum |-> Sets(accounts)]
                     /\ main' = "commit"
                ELSE UNCHANGED main
    BY <1>5 DEF ApplyBatch, Apply
  <2>3. CASE CommitDue
    <3>1. job'.state = state' /\ main' = "commit"
      BY <2>2, <2>3
    <3>2. ~Mapped => batch' % Ring = 0
      BY <2>2, <2>3, <1>1 DEF CommitDue, WholeState, Mapped
    <3>. QED  BY <1>2, <3>1, <3>2 DEF StateFollows
  <2>4. CASE ~CommitDue
    <3>1. main' = "apply"
      BY <2>1, <2>2, <2>4
    <3>2. ~Mapped /\ batch' % Ring # 0
      BY <2>2, <2>4 DEF CommitDue, Mapped
    <3>. QED  BY <1>2, <3>1, <3>2 DEF StateFollows
  <2>. QED  BY <2>3, <2>4
<1>6. CASE CommitStep
  <2>1. /\ main \in {"commit", "flush"} /\ todo # <<>>
        /\ UNCHANGED <<batch, state, job>>
        /\ main' = CASE todo' # <<>> -> main
                     [] todo' = <<>> /\ main = "commit" -> "apply"
                     [] OTHER -> "finish"
    BY <1>2, <1>6 DEF CommitStep, Control
  <2>2. StepSucceeds /\ failedAt = -1
    <3>1. StepFails => failedAt' # -1
      BY <1>2, <2>1 DEF StepFails, TodoFollows
    <3>. QED  BY <1>6, <3>1 DEF CommitStep, StepSucceeds
  <2>3. passed' = IF todo' = <<>> THEN job.state ELSE passed
    BY <2>2 DEF StepSucceeds
  <2>4. job.state = state /\ (main = "commit" /\ ~Mapped => batch % Ring = 0)
    BY <1>1, <2>1, <2>2 DEF StateFollows
  <2>5. CASE todo' # <<>>
    <3>1. main' = main
      BY <2>1, <2>5
    <3>. QED  BY <1>2, <2>1, <2>4, <3>1 DEF StateFollows
  <2>6. CASE todo' = <<>> /\ main = "commit"
    <3>1. main' = "apply"
      BY <2>1, <2>6
    <3>. QED  BY <1>2, <2>1, <2>3, <2>4, <2>6, <3>1 DEF StateFollows
  <2>7. CASE todo' = <<>> /\ main = "flush"
    <3>1. main' = "finish"
      BY <2>1, <2>7
    <3>. QED  BY <1>2, <2>1, <2>3, <2>4, <2>7, <3>1 DEF StateFollows
  <2>. QED  BY <2>1, <2>5, <2>6, <2>7
<1>7. CASE LeaveLoop
  <2>1. main = "apply" /\ UNCHANGED <<batch, state, passed, failedAt>>
    BY <1>7 DEF LeaveLoop, history
  <2>2. IF Mapped \/ batch % Ring = 0 THEN state = passed ELSE TRUE
    BY <1>1, <2>1 DEF StateFollows
  <2>3. CASE program \in {"glaze", "memset"} /\ total % Ring # 0
    <3>1. main' = "flush" /\ job'.state = state
      BY <1>7, <2>3 DEF LeaveLoop
    <3>. QED  BY <2>1, <3>1 DEF StateFollows
  <2>4. CASE ~(program \in {"glaze", "memset"} /\ total % Ring # 0)
    <3>1. main' = "finish"
      BY <1>7, <2>4 DEF LeaveLoop
    <3>2. Mapped \/ total % Ring = 0
      BY <1>1, <2>4 DEF WholeState, Mapped
    <3>. QED  BY <1>2, <2>1, <2>2, <3>1, <3>2 DEF StateFollows
  <2>. QED  BY <2>3, <2>4
<1>8. CASE UNCHANGED <<file, disk, main, batch, state, accum, todo, job, after, passed,
                       failedAt, cut, owed>>
  BY <1>1, <1>2, <1>8 DEF StateFollows
<1>. QED  BY <1>1, <1>3, <1>4, <1>5, <1>6, <1>7, <1>8, WholeCases

PassBase == JobFits /\ FreshSets /\ PassFollows /\ DevicePass /\ StateFollows

\* Before the first start there is no pass.
LEMMA PassBaseInit == Init => PassBase
<1>. SUFFICES ASSUME Init PROVE PassBase
  OBVIOUS
<1>1. main = "down" /\ todo = <<>> /\ accum = NoWrites
  BY DEF Init
<1>. QED  BY <1>1, NoWritesAre
          DEF PassBase, JobFits, FreshSets, PassFollows, DevicePass, StateFollows

\* Every step keeps the invariant of the passes.
LEMMA PassBaseNext == Base /\ PassBase /\ [Next]_vars => PassBase'
  BY FitsNext, PassNext, StateNext DEF PassBase

-----------------------------------------------------------------------------
\* What the variants that log the whole state reconstruct.

\* Between two commits it is the state that the last one has logged.
LEMMA PassRestores ==
    ASSUME Base, PassFollows, WholeState, failedAt = -1, main # "down", todo = <<>>
    PROVE  Reconstruct.state = passed
<1>1. TypeOK /\ passed \in [Accounts -> Nat]
  BY DEF Base, TypeOK, Balances
<1>2. \A a \in Accounts : Value(file[Home(a)], a) = passed[a]
  BY HomeIs DEF PassFollows, Old
<1>3. Reconstruct.state = [a \in Accounts |-> Value(file[Home(a)], a)]
  BY <1>1, WholeIs
<1>. QED  BY <1>1, <1>2, <1>3

\* Inside a pass, each balance is of one of two states.
LEMMA PassMixes ==
    ASSUME Base, PassBase, WholeState, failedAt = -1, main # "down", todo # <<>>,
           Mapped => CutOpen = "between", NEW a \in Accounts
    PROVE  Value(file[Home(a)], a) \in {passed[a], job.state[a]}
<1>. DEFINE s == Home(a)
<1>1. /\ TypeOK /\ SetsCounted /\ TodoFollows /\ JobFits /\ PassFollows /\ s \in Slots
      /\ NextStep \in Int /\ s \in Nat
  BY StepIs, HomeIs DEF Base, PassBase, Slots
<1>2. CASE NextStep <= 3 * s + 1
  BY <1>1, <1>2 DEF PassFollows, Old
<1>3. CASE NextStep > 3 * s + 3
  BY <1>1, <1>3, NewestPass
<1>4. CASE ~(NextStep <= 3 * s + 1) /\ ~(NextStep > 3 * s + 3) /\ ~Mapped
  <2>1. file[s].header.batch = -1 => passed[a] = 0
    <3>1. NextStep <= 3 * s + 3 /\ Home(a) = s
      BY <1>1, <1>4
    <3>2. NextStep <= 3 * s + 3 /\ file[s].header.batch = -1 =>
             \A b \in Accounts : Home(b) = s => passed[b] = 0
      BY <1>1, <1>4 DEF PassFollows
    <3>. QED  BY <3>1, <3>2
  <2>2. HasPart(file[s], s, "chunk")
    <3>1. Part(1) = "chunk"
      BY <1>4, <1>1, ProgramIs DEF Part, Mapped, WholeState
    <3>2. 1 \in 1..3 /\ 3 * s + 1 < NextStep
      BY <1>1, <1>4
    <3>. QED  BY <1>1, <3>1, <3>2 DEF PassFollows
  <2>3. file[s].chunk[a % PerChunk] = job.state[a]
    BY <1>1, <2>2, ChunkPart
  <2>. QED  BY <2>1, <2>3, <1>4 DEF Value
<1>5. CASE ~(NextStep <= 3 * s + 1) /\ ~(NextStep > 3 * s + 3) /\ Mapped
  <2>1. \/ todo = Plan(job.batch) \/ Head(todo).part = Head(Plan(job.batch)).part
        \/ Head(todo).part = "sync"
    BY <1>5 DEF CutOpen
  <2>2. PICK t \in Slots, j \in 1..3 :
           Head(todo) = [slot |-> t, part |-> Part(j)] /\ NextStep = 3 * t + j
           /\ Part(j) \in PartNames
    BY <1>1, <1>5, HeadIs
  <2>3. job.batch \in Int
    BY <1>1 DEF TypeOK
  <2>4. /\ Plan(job.batch) \in Seq(PlanSteps) /\ Len(Plan(job.batch)) = 3 * Ring
        /\ Plan(job.batch)[3 * 0 + 1] = [slot |-> 0, part |-> Part(1)]
    <3>1. 0 \in Slots /\ 1 \in 1..3
      BY SlotAssumption DEF Slots
    <3>2. /\ Plan(job.batch) \in Seq(PlanSteps) /\ Len(Plan(job.batch)) = 3 * Ring
          /\ \A u \in Slots, i \in 1..3 :
                Plan(job.batch)[3 * u + i] = [slot |-> u, part |-> Part(i)]
      BY <1>1, <1>5, <2>3, PlanIs
    <3>. QED  BY <3>1, <3>2
  <2>5. Head(Plan(job.batch)).part = Part(1)
    <3>. DEFINE P == Plan(job.batch)
    <3>1. P \in Seq(PlanSteps) /\ Len(P) = 3 * Ring /\ P[1] = [slot |-> 0, part |-> Part(1)]
      BY <2>4
    <3>. HIDE DEF P
    <3>2. Head(P) = P[1]
      BY <3>1, SlotAssumption
    <3>3. Head(P).part = Part(1)
      BY <3>1, <3>2
    <3>. QED  BY <3>3 DEF P
  <2>6. t \in Nat /\ Head(todo).part = Part(j) /\ Part(j) # "sync"
    BY <2>2 DEF Slots, PartNames
  <2>7. j # 1
    <3>1. j = 1 => t # s /\ ~(3 * t + 1 <= 3 * s + 1) /\ ~(3 * t + 1 > 3 * s + 3)
      BY <1>5, <2>2
    <3>. QED  BY <1>1, <2>6, <3>1
  <2>8. Part(j) # Part(1)
    <3>1. 1 \in 1..3
      OBVIOUS
    <3>. QED  BY <1>1, <2>7, <3>1, PartsAre
  <2>9. todo # Plan(job.batch)
    BY <2>5, <2>6, <2>8
  <2>. QED  BY <2>1, <2>5, <2>6, <2>8, <2>9
<1>. QED  BY <1>2, <1>3, <1>4, <1>5

\* After a power loss inside a pass each slot is a mixture that gives one of the two.
LEMMA LossMixes ==
    ASSUME Base, PassBase, WholeState, ~Mapped, failedAt = -1, main # "down", ~owed,
           todo # <<>>, NEW slot \in SlotRecords, NEW a \in Accounts,
           \A p \in PartNames : slot[p] \in {file[Home(a)][p], disk[Home(a)][p]}
    PROVE  Value(slot, a) \in {passed[a], job.state[a]}
<1>. DEFINE s == Home(a)
<1>1. /\ TypeOK /\ SetsCounted /\ TodoFollows /\ JobFits /\ PassFollows /\ s \in Slots
      /\ NextStep \in Int /\ s \in Nat
  BY StepIs, HomeIs DEF Base, PassBase, Slots
<1>2. a % PerChunk \in FirstChunk
  BY HomeIs
<1>3. /\ Part(1) = "chunk" /\ Part(2) = "writes" /\ Part(3) = "header"
  BY <1>1, ProgramIs DEF Part, Mapped, WholeState
<1>4. /\ disk[s].header.batch = -1 => disk[s] = EmptySlot
      /\ Old(disk[s], s)
      /\ \A j \in 1..3 : NextStep <= 3 * s + j => file[s][Part(j)] = disk[s][Part(j)]
  BY <1>1 DEF PassBase, DevicePass
<1>5. Value(disk[s], a) = passed[a]
  BY <1>4 DEF Old
<1>6. /\ disk[s].header.batch = -1 => passed[a] = 0 /\ disk[s].chunk[a % PerChunk] = 0
      /\ disk[s].header.batch # -1 => disk[s].chunk[a % PerChunk] = passed[a]
  <2>1. disk[s].header.batch = -1 => passed[a] = 0
    BY <1>5 DEF Value
  <2>2. disk[s].header.batch = -1 => disk[s].chunk[a % PerChunk] = 0
    BY <1>2, <1>4 DEF EmptySlot
  <2>3. disk[s].header.batch # -1 => disk[s].chunk[a % PerChunk] = passed[a]
    BY <1>5 DEF Value
  <2>. QED  BY <2>1, <2>2, <2>3
<1>7. /\ slot.header \in {file[s].header, disk[s].header}
      /\ slot.chunk \in {file[s].chunk, disk[s].chunk}
  BY DEF PartNames
<1>8. disk[s].chunk[a % PerChunk] = passed[a]
  BY <1>6
<1>9. CASE NextStep <= 3 * s + 1
  <2>1. \A j \in 1..3 : NextStep <= 3 * s + j
    BY <1>1, <1>9
  <2>2. file[s].header = disk[s].header /\ file[s].chunk = disk[s].chunk
    BY <1>3, <1>4, <2>1
  <2>. QED  BY <1>6, <1>7, <2>2 DEF Value
<1>10. CASE ~(NextStep <= 3 * s + 1)
  <2>1. HasPart(file[s], s, "chunk")
    <3>1. 1 \in 1..3 /\ 3 * s + 1 < NextStep
      BY <1>1, <1>10
    <3>. QED  BY <1>1, <1>3, <3>1 DEF PassFollows
  <2>2. file[s].chunk[a % PerChunk] = job.state[a]
    BY <1>1, <2>1, ChunkPart
  <2>3. slot.chunk[a % PerChunk] \in {passed[a], job.state[a]}
    BY <1>7, <1>8, <2>2
  <2>4. slot.header.batch = -1 => passed[a] = 0
    <3>1. CASE slot.header = disk[s].header
      BY <1>6, <3>1
    <3>2. CASE slot.header = file[s].header /\ NextStep <= 3 * s + 3
      <4>1. 3 \in 1..3
        OBVIOUS
      <4>2. file[s].header = disk[s].header
        BY <1>3, <1>4, <3>2, <4>1
      <4>. QED  BY <1>6, <3>2, <4>2
    <3>3. CASE slot.header = file[s].header /\ ~(NextStep <= 3 * s + 3)
      <4>1. NextStep > 3 * s + 3
        BY <1>1, <3>3
      <4>2. file[s].header.batch # -1
        BY <1>1, <4>1, NewestPass
      <4>. QED  BY <3>3, <4>2
    <3>. QED  BY <1>7, <3>1, <3>2, <3>3
  <2>. QED  BY <2>3, <2>4 DEF Value
<1>. QED  BY <1>9, <1>10

\* ReconstructsPass, once the program has ended, said of the slots.
PassLeft ==
    WholeState /\ failedAt = -1 /\ main = "down" /\ ~Spoilt =>
       \A a \in Accounts :
          Value(file[Home(a)], a) \in IF cut # "clean" THEN {passed[a], job.state[a]}
                                                       ELSE {passed[a]}

\* The empty log gives zeros.
LEMMA PassLeftInit == Init => PassLeft
<1>. SUFFICES ASSUME Init PROVE \A a \in Accounts : Value(file[Home(a)], a) = passed[a]
  BY DEF PassLeft, Init
<1>. TAKE a \in Accounts
<1>1. file[Home(a)] = EmptySlot /\ passed = ZeroState
  BY HomeIs DEF Init, InitFile
<1>2. EmptySlot.header.batch = -1
  BY DEF EmptySlot, NoHeader
<1>. QED  BY <1>1, <1>2 DEF Value, ZeroState

\* A process that ends leaves the slots as they are; after a power loss they are mixtures.
LEMMA PassLeftNext == Base /\ PassBase /\ PassLeft /\ [Next]_vars => PassLeft'
<1>. SUFFICES ASSUME Base, PassBase, PassLeft, [Next]_vars,
                     WholeState', failedAt' = -1, main' = "down", ~Spoilt', NEW a \in Accounts
              PROVE  Value(file[Home(a)], a)' \in
                        IF cut' # "clean" THEN {passed'[a], job'.state[a]} ELSE {passed'[a]}
  BY DEF PassLeft
<1>1. WholeState
  <2>1. program' = program
    BY DEF Next, MainNext, WorkerNext, Boot, ApplyBatch, CommitStep, OverflowExit, LeaveLoop,
           Finish, CheckError, ReadBatch, DropBatch, EndOfFile, Submit, Drain, Msync,
           TakeCheckpoint, WorkerStep, ReportError, SpuriousWakeup, Kill, PowerLoss,
           vars, config
  <2>. QED  BY <2>1 DEF WholeState
<1>2. /\ UNCHANGED <<program, total>> /\ (Mapped' <=> Mapped) /\ TypeOK /\ Control
      /\ PassFollows
      /\ Home(a) \in Slots
  BY <1>1, WholeCases, HomeIs DEF Base, PassBase
<1>3. \A slot : Value(slot, a)' = Value(slot, a)
  BY <1>2 DEF Value
<1>4. Value(file[Home(a)], a)' = Value(file'[Home(a)], a)
  BY <1>2 DEF Value
<1>5. CASE UNCHANGED <<file, disk, main, batch, state, accum, todo, job, after, passed,
                       failedAt, cut, owed>>
  <2>1. ~Spoilt
    <3>1. main = "down"
      BY <1>5
    <3>. QED  BY <1>2, <1>5, <3>1 DEF Spoilt
  <2>. QED  BY <1>1, <1>2, <1>4, <1>5, <2>1 DEF PassLeft
<1>6. CASE Kill
  <2>1. /\ main # "down" /\ cut' = CutOpen /\ UNCHANGED <<file, passed, job, failedAt>>
    BY <1>6 DEF Kill
  <2>2. CASE todo = <<>>
    <3>1. Value(file[Home(a)], a) = passed[a]
      BY <1>1, <1>2, <2>1, <2>2 DEF PassFollows, Old
    <3>2. cut' = "clean"
      BY <2>1, <2>2 DEF CutOpen
    <3>. QED  BY <1>4, <2>1, <3>1, <3>2
  <2>3. CASE todo # <<>>
    <3>1. Mapped => CutOpen = "between"
      <4>1. CutOpen \in {"between", "inside"}
        BY <2>3 DEF CutOpen
      <4>2. Mapped => cut' # "inside"
        BY <1>2 DEF Spoilt
      <4>. QED  BY <2>1, <4>1, <4>2
    <3>2. Value(file[Home(a)], a) \in {passed[a], job.state[a]}
      BY <1>1, <2>1, <2>3, <3>1, PassMixes
    <3>3. cut' # "clean"
      BY <2>1, <2>3 DEF CutOpen
    <3>. QED  BY <1>4, <2>1, <3>2, <3>3
  <2>. QED  BY <2>2, <2>3
<1>7. CASE PowerLoss
  <2>1. /\ main # "down" /\ cut' = (IF file = disk THEN CutOpen ELSE "power")
        /\ UNCHANGED <<passed, job, failedAt, owed>> /\ LoseCache /\ ~Mapped
    BY <1>7 DEF PowerLoss
  <2>2. /\ file' \in [Slots -> SlotRecords]
        /\ \A p \in PartNames : file'[Home(a)][p] \in {file[Home(a)][p], disk[Home(a)][p]}
    BY <1>2, <2>1, LossIs
  <2>3. ASSUME file = disk PROVE Value(file'[Home(a)], a) = Value(file[Home(a)], a)
    <3>1. /\ file'[Home(a)].header = file[Home(a)].header
          /\ file'[Home(a)].chunk = file[Home(a)].chunk
      BY <2>2, <2>3 DEF PartNames
    <3>. QED  BY <2>1, <3>1 DEF Value
  <2>4. CASE todo = <<>>
    <3>1. Value(file[Home(a)], a) = passed[a]
      BY <1>1, <1>2, <2>1, <2>4 DEF PassFollows, Old
    <3>2. file = disk
      <4>1. cut' = "power" => ~owed
        BY <2>1 DEF Spoilt
      <4>. QED  BY <1>1, <2>1, <2>4, <4>1 DEF PassBase, DevicePass
    <3>3. cut' = "clean"
      BY <2>1, <2>4, <3>2 DEF CutOpen
    <3>. QED  BY <1>4, <2>1, <2>3, <3>1, <3>2, <3>3
  <2>5. CASE todo # <<>>
    <3>1. cut' # "clean"
      BY <2>1, <2>5 DEF CutOpen
    <3>2. CASE file = disk
      <4>1. Value(file[Home(a)], a) \in {passed[a], job.state[a]}
        BY <1>1, <2>1, <2>5, PassMixes
      <4>. QED  BY <1>4, <2>1, <2>3, <3>1, <3>2, <4>1
    <3>3. CASE file # disk
      <4>1. ~owed
        BY <2>1, <3>3 DEF Spoilt
      <4>2. file'[Home(a)] \in SlotRecords
        BY <1>2, <2>2
      <4>3. Value(file'[Home(a)], a) \in {passed[a], job.state[a]}
        BY <1>1, <2>1, <2>2, <2>5, <4>1, <4>2, LossMixes
      <4>. QED  BY <1>4, <2>1, <3>1, <4>3
    <3>. QED  BY <3>2, <3>3
  <2>. QED  BY <2>4, <2>5
<1>8. CASE (OverflowExit \/ Finish) /\ todo = <<>> /\ main # "down"
  <2>1. UNCHANGED <<file, passed, job, failedAt>>
    BY <1>8 DEF OverflowExit, Finish, history
  <2>2. Value(file[Home(a)], a) = passed[a]
    BY <1>1, <1>2, <1>8, <2>1 DEF PassFollows, Old
  <2>. QED  BY <1>4, <2>1, <2>2
<1>9. ~(Boot \/ ApplyBatch \/ CommitStep \/ LeaveLoop)
  <2>1. Boot => main' # "down"
    BY DEF Boot
  <2>2. ApplyBatch \/ LeaveLoop => main' # "down"
    BY DEF ApplyBatch, LeaveLoop
  <2>3. CommitStep => main' # "down"
    BY DEF CommitStep
  <2>. QED  BY <2>1, <2>2, <2>3
<1>. QED  BY <1>1, <1>5, <1>6, <1>7, <1>8, <1>9, WholeCases

\* ReconstructsPass: whenever the program ends, in a pass or between two, what the next
\* start reads is what the last pass has logged, or in part what the one under way logs.
THEOREM RingsReconstructPass == Spec => []ReconstructsPass
<1>1. ASSUME Base, PassBase, PassLeft PROVE ReconstructsPass
  <2>. SUFFICES ASSUME WholeState, failedAt = -1, ~Spoilt
                PROVE  IF Committing
                         THEN \A a \in Accounts :
                                 Reconstruct.state[a] \in {passed[a], job.state[a]}
                         ELSE Reconstruct.state = passed
    BY DEF ReconstructsPass
  <2>1. TypeOK /\ Control /\ PassFollows /\ passed \in [Accounts -> Nat]
    BY <1>1 DEF Base, PassBase, TypeOK, Balances
  <2>2. Reconstruct.state = [a \in Accounts |-> Value(file[Home(a)], a)]
    BY <2>1, WholeIs
  <2>3. CASE main = "down" /\ cut = "clean"
    <3>1. ~Committing
      BY <2>1, <2>3 DEF Committing, Control
    <3>2. \A a \in Accounts : Value(file[Home(a)], a) = passed[a]
      BY <1>1, <2>3 DEF PassLeft
    <3>. QED  BY <2>1, <2>2, <3>1, <3>2
  <2>4. CASE main = "down" /\ cut # "clean"
    <3>1. Committing
      BY <2>4 DEF Committing
    <3>2. \A a \in Accounts : Value(file[Home(a)], a) \in {passed[a], job.state[a]}
      BY <1>1, <2>4 DEF PassLeft
    <3>. QED  BY <2>2, <3>1, <3>2
  <2>5. CASE main # "down" /\ todo = <<>>
    BY <1>1, <2>1, <2>5, PassRestores DEF Committing
  <2>6. CASE main # "down" /\ todo # <<>>
    <3>1. Mapped => CutOpen = "between"
      <4>1. CutOpen \in {"between", "inside"}
        BY <2>6 DEF CutOpen
      <4>. QED  BY <2>6, <4>1 DEF Spoilt
    <3>2. \A a \in Accounts : Value(file[Home(a)], a) \in {passed[a], job.state[a]}
      BY <1>1, <2>6, <3>1, PassMixes
    <3>3. Committing
      BY <2>6 DEF Committing
    <3>. QED  BY <2>2, <3>2, <3>3
  <2>. QED  BY <2>3, <2>4, <2>5, <2>6
<1>. QED  BY <1>1, InitBase, NextBase, PassBaseInit, PassBaseNext, PassLeftInit, PassLeftNext,
             PTL DEF Spec

-----------------------------------------------------------------------------
\* Variants that log a slot for a batch: each write set leads from one state to the next.

\* The states of the batches before stay.
LEMMA VersionStays ==
    ASSUME TypeOK, after' = after \/ (\E st \in Balances : after' = Append(after, st))
    PROVE  /\ \A b \in Int : b <= Len(after) - 2 => Version(b)' = Version(b)
           /\ Len(after') \in Nat /\ Len(after) \in Nat /\ Len(after') >= Len(after)
           /\ after[1] = ZeroState /\ Len(after) > 0 => after'[1] = ZeroState
<1>1. after \in Seq(Balances)
  BY DEF TypeOK
<1>2. /\ Len(after) \in Nat /\ Len(after') \in Nat /\ Len(after') >= Len(after)
      /\ \A i \in 1..Len(after) : after'[i] = after[i]
  BY <1>1
<1>3. ASSUME NEW b \in Int, b <= Len(after) - 2 PROVE Version(b)' = Version(b)
  <2>1. CASE b < 0
    BY <2>1 DEF Version, ZeroState
  <2>2. CASE ~(b < 0)
    <3>1. b + 2 \in 1..Len(after)
      BY <1>2, <1>3, <2>2
    <3>2. after'[b + 2] = after[b + 2]
      BY <1>2, <3>1
    <3>. QED  BY <2>2, <3>2 DEF Version
  <2>. QED  BY <2>1, <2>2
<1>4. after[1] = ZeroState /\ Len(after) > 0 => after'[1] = ZeroState
  BY <1>2
<1>. QED  BY <1>2, <1>3, <1>4

\* The write set of a batch of the server has as many entries as every other.
LEMMA EntriesCount ==
    ASSUME TypeOK, program = "server", NEW accounts \in Inputs
    PROVE  Accumulated(accounts)[BatchSlot].count = EntryCount
<1>. DEFINE entries == Entries(accounts)  n == Len(accounts)
            places == {i \in DOMAIN accounts : SlotOf(entries[i]) = BatchSlot}
            new == SubSeq(<<>>, 1, 0) \o Pick(entries, places)
<1>1. accounts \in Transfers /\ accounts \in Seq(Accounts)
  BY InputsAre DEF Inputs
<1>2. /\ entries \in Entered /\ Len(entries) = n /\ DOMAIN accounts = 1..n /\ n \in Nat
  BY <1>1, EntriesAre
<1>3. ~WholeState /\ BatchSlot \in Slots
  BY TurnOf DEF WholeState, BatchSlot, TypeOK
<1>4. places = 1..n
  BY <1>2, <1>3 DEF SlotOf
<1>5. Accumulated(accounts)[BatchSlot].count = Len(new)
  BY <1>3 DEF Accumulated, NoWrites
<1>. HIDE DEF entries, places
<1>6. Pick(entries, places) \in Entered /\ Len(Pick(entries, places)) = Cardinality(places)
  BY <1>2, <1>4, PickIs
<1>7. Cardinality(places) = n
  <2>1. 1 \in Int /\ n \in Int
    BY <1>2
  <2>2. Cardinality(1..n) = IF 1 > n THEN 0 ELSE n - 1 + 1
    BY <2>1, FS_Interval
  <2>. HIDE DEF n
  <2>3. Cardinality(1..n) = n
    BY <1>2, <2>2
  <2>. QED  BY <1>4, <2>3
<1>8. Len(new) = n
  <2>. DEFINE p == Pick(entries, places)
  <2>1. p \in Entered /\ Len(p) = n
    BY <1>6, <1>7
  <2>. HIDE DEF p
  <2>2. SubSeq(<<>>, 1, 0) \o p = p
    BY <2>1 DEF Entered
  <2>. QED  BY <2>1, <2>2 DEF p
<1>9. n = EntryCount
  <2>1. (CHOOSE t \in Transfers : TRUE) \in Transfers
    BY <1>1
  <2>. QED  BY <1>1, <2>1, InputsAssumption DEF EntryCount
<1>. QED  BY <1>5, <1>8, <1>9

\* The write set of a batch leads from the state before it to the state after it.
LEMMA AppliedIs ==
    ASSUME Base, ~WholeState, after[1] = ZeroState, main # "down", UNCHANGED program,
           NEW accounts \in Seq(Accounts), program = "server" => accounts \in Inputs,
           Apply(accounts), NEW b \in Nat, b = batch,
           NEW set, set = Accumulated(accounts)[b % Ring]
    PROVE  /\ Version(b)' = state' /\ Len(after') = b + 2
           /\ SetOf(b, set)'
<1>1. /\ TypeOK /\ after \in Seq(Balances) /\ Len(after) = b + 1 /\ after[b + 1] = state
      /\ state \in Balances
  BY DEF Base, TypeOK, Control
<1>2. state' = StateAfter(accounts) /\ state' \in Balances /\ after' = Append(after, state')
  BY <1>1, StateAfterIs DEF Apply
<1>3. /\ Len(after') = b + 2 /\ after'[b + 2] = state'
      /\ \A i \in 1..b + 1 : after'[i] = after[i]
  BY <1>1, <1>2
<1>4. Version(b)' = state'
  BY <1>3 DEF Version
<1>5. Version(b - 1)' = state
  <2>1. CASE b = 0
    BY <1>1, <2>1 DEF Version, ZeroState
  <2>2. CASE b # 0
    <3>1. ~(b - 1 < 0) /\ (b - 1) + 2 = b + 1 /\ b + 1 \in 1..b + 1
      BY <2>2
    <3>2. after'[(b - 1) + 2] = state
      BY <1>1, <1>3, <3>1
    <3>. QED  BY <3>1, <3>2 DEF Version
  <2>. QED  BY <2>1, <2>2
<1>6. b % Ring \in Slots /\ b % Ring = BatchSlot
  BY TurnOf DEF BatchSlot
<1>7. ASSUME NEW a \in Accounts
      PROVE  IF SetHits(set, a) # {} THEN SetLast(set, a) = StateAfter(accounts)[a]
                                     ELSE StateAfter(accounts)[a] = state[a]
  BY <1>1, <1>6, AccumulatedGives
<1>8. program = "server" => set.count = EntryCount
  BY <1>1, <1>6, EntriesCount
<1>. DEFINE old == state  new == StateAfter(accounts)
<1>9. Redoes(set, old, new)
  BY <1>7 DEF Redoes
<1>10. Redoes(set, Version(b - 1)', Version(b)')
  BY <1>2, <1>4, <1>5, <1>9
<1>. QED  BY <1>3, <1>4, <1>8, <1>10 DEF SetOf, EntryCount

\* The data of a commit stay right when another batch is applied.
LEMMA JobOfStays ==
    ASSUME TypeOK, after' = after \/ (\E st \in Balances : after' = Append(after, st)),
           UNCHANGED program, NEW b \in Int, NEW j, JobOf(b, j)
    PROVE  JobOf(b, j)'
<1>1. b \in 0..Len(after) - 2 /\ Len(after) \in Nat /\ Len(after') \in Nat
      /\ Len(after') >= Len(after)
  BY VersionStays DEF JobOf
<1>2. Version(b)' = Version(b) /\ Version(b - 1)' = Version(b - 1)
  BY <1>1, VersionStays
<1>3. SetOf(b, j.accum[b % Ring])'
  BY <1>2 DEF JobOf, SetOf, EntryCount
<1>. QED  BY <1>1, <1>2, <1>3 DEF JobOf

\* From a log without a valid slot come zeros.
LEMMA NothingRead ==
    ASSUME TypeOK, ~WholeState, \A s \in Slots : file[s].header.batch = -1
    PROVE  Reconstruct.state = ZeroState /\ Reconstruct.batch = -1
<1>1. ValidSlots = {}
  BY DEF ValidSlots
<1>2. ASSUME NEW accounts
      PROVE  SortedReplay(accounts).state = ZeroState /\ SortedReplay(accounts).batch = -1
  BY <1>1 DEF SortedReplay, ZeroState
<1>3. LatestChunk.state = ZeroState /\ LatestChunk.batch = -1
  BY <1>1 DEF LatestChunk, ZeroState
<1>4. Reconstruct \in {SortedReplay(FirstChunk), SortedReplay(Accounts), LatestChunk}
  BY ProgramIs DEF Reconstruct, WholeState, Mapped, SortedReplayFirst, SortedReplayAll
<1>. QED  BY <1>2, <1>3, <1>4

\* Before the first start there is nothing to commit.
LEMMA JobsFollowInit == Init => JobsFollow
  BY DEF Init, JobsFollow

\* Every step keeps the write sets right: of a commit, in the box, and of the last batch.
LEMMA JobsFollowNext == Base /\ JobsFollow /\ [Next]_vars => JobsFollow'
<1>. SUFFICES ASSUME Base, JobsFollow, [Next]_vars, ~WholeState', runs' = 1
              PROVE  JobsFollow'
  BY DEF JobsFollow
<1>1. program' = program /\ ~WholeState /\ (Sequential' <=> Sequential)
  <2>1. program' = program
    BY DEF Next, MainNext, WorkerNext, Boot, ApplyBatch, CommitStep, OverflowExit, LeaveLoop,
           Finish, CheckError, ReadBatch, DropBatch, EndOfFile, Submit, Drain, Msync,
           TakeCheckpoint, WorkerStep, ReportError, SpuriousWakeup, Kill, PowerLoss,
           vars, config
  <2>. QED  BY <2>1 DEF WholeState, Sequential
<1>2. /\ TypeOK /\ Control /\ batch \in Nat /\ runs \in Nat /\ job.batch \in Int
      /\ (box # Empty => box.batch \in Int) /\ (main # "down" => Len(after) = batch + 1)
      /\ state \in Balances
  BY DEF Base, TypeOK, Jobs, Control
<1>3. CASE Boot
  <2>1. runs = 0
    BY <1>2, <1>3 DEF Boot
  <2>2. job.batch = -1 /\ job' = job /\ box' = Empty /\ batch' = 0
        /\ after' = <<Reconstruct.state>>
        /\ main' # "submit"
    BY <1>3, <2>1 DEF Boot, Base, Untouched
  <2>3. Reconstruct.state = ZeroState
    <3>1. \A s \in Slots : file[s].header.batch = -1
      BY <2>1 DEF Base, Untouched, EmptySlot, NoHeader
    <3>. QED  BY <1>1, <1>2, <3>1, NothingRead
  <2>. QED  BY <1>1, <2>2, <2>3 DEF JobsFollow, ZeroState
<1>4. /\ ~Boot => runs = 1
      /\ runs = 1 => /\ after[1] = ZeroState
                     /\ job.batch # -1 => JobOf(job.batch, job)
                     /\ box # Empty => JobOf(box.batch, box)
                     /\ main = "submit" => SetOf(batch - 1, accum[(batch - 1) % Ring])
                     /\ Sequential /\ main # "down" => job.batch = batch - 1
  <2>1. ~Boot => runs' = runs
    BY DEF Next, MainNext, WorkerNext, ApplyBatch, CommitStep, OverflowExit, LeaveLoop,
           Finish, CheckError, ReadBatch, DropBatch, EndOfFile, Submit, Drain, Msync,
           TakeCheckpoint, WorkerStep, ReportError, SpuriousWakeup, Kill, PowerLoss,
           vars, history
  <2>. QED  BY <1>1, <2>1 DEF JobsFollow
<1>5. ASSUME after' = after \/ (\E st \in Balances : after' = Append(after, st))
      PROVE  \A b \in Int : \A j : JobOf(b, j) => JobOf(b, j)'
  BY <1>1, <1>2, <1>5, JobOfStays
<1>6. ASSUME after' = after, NEW b \in Nat, b < Len(after) - 1, NEW set, SetOf(b, set)
      PROVE  SetOf(b, set)'
  <2>1. Len(after) \in Nat
    BY <1>2, <1>6, VersionStays
  <2>2. Version(b)' = Version(b) /\ Version(b - 1)' = Version(b - 1)
    BY <1>2, <1>6, <2>1, VersionStays
  <2>. QED  BY <1>1, <1>6, <2>2 DEF SetOf, EntryCount
<1>7. CASE ApplyBatch
  <2>1. PICK accounts \in Inputs :
           /\ Apply(accounts)
           /\ IF CommitDue
                THEN /\ job' = [batch |-> batch, state |-> state', accum |-> Sets(accounts)]
                     /\ main' = "commit"
                ELSE UNCHANGED <<job, main>>
    BY <1>7 DEF ApplyBatch
  <2>2. CommitDue /\ program # "memset"
    BY <1>1 DEF CommitDue, WholeState
  <2>3. Sequential /\ main = "apply" /\ runs = 1 /\ box = Empty /\ box' = Empty
    BY <1>2, <1>4, <1>7 DEF ApplyBatch, Boot, Control, shared
  <2>4. PICK b \in Nat : b = batch
    BY <1>2
  <2>5. PICK set : set = Accumulated(accounts)[b % Ring]
    OBVIOUS
  <2>6. accounts \in Seq(Accounts)
    BY InputsAre
  <2>7. Version(b)' = state' /\ Len(after') = b + 2 /\ SetOf(b, set)'
    BY <1>1, <1>4, <2>1, <2>3, <2>4, <2>5, <2>6, AppliedIs
  <2>8. /\ job' = [batch |-> b, state |-> state', accum |-> Accumulated(accounts)]
        /\ main' = "commit"
    BY <2>1, <2>2, <2>4 DEF Sets
  <2>9. job'.batch = b /\ job'.state = state' /\ job'.accum[b % Ring] = set
    BY <2>5, <2>8
  <2>10. JobOf(job.batch, job)'
    BY <2>7, <2>9 DEF JobOf
  <2>11. batch' = b + 1
    BY <2>1, <2>4 DEF Apply
  <2>12. after'[1] = ZeroState
    <3>1. \E st \in Balances : after' = Append(after, st)
      BY <1>2, <2>1, <2>6, StateAfterIs DEF Apply
    <3>2. Len(after) > 0
      BY <1>2, <2>3
    <3>. QED  BY <1>2, <1>4, <2>3, <3>1, <3>2, VersionStays
  <2>. QED  BY <2>3, <2>8, <2>9, <2>10, <2>11, <2>12 DEF JobsFollow
<1>8. CASE ReadBatch
  <2>1. PICK input \in Inputs :
           Apply(Fitting(input)) /\ accum' = Accumulated(Fitting(input))
    BY <1>8 DEF ReadBatch
  <2>. DEFINE accounts == Fitting(input)
  <2>2. main = "read" /\ main' = "submit" /\ UNCHANGED <<job, box>> /\ ~Sequential /\ runs = 1
    BY <1>2, <1>4, <1>8 DEF ReadBatch, Boot, Control, shared
  <2>3. accounts \in Seq(Accounts) /\ program # "server"
    BY <2>2, InputsAre DEF Sequential
  <2>. HIDE DEF accounts
  <2>4. PICK b \in Nat : b = batch
    BY <1>2
  <2>5. PICK set : set = Accumulated(accounts)[b % Ring]
    OBVIOUS
  <2>6. Version(b)' = state' /\ Len(after') = b + 2 /\ SetOf(b, set)'
    BY <1>1, <1>4, <2>1, <2>2, <2>3, <2>4, <2>5, AppliedIs DEF accounts
  <2>7. batch' - 1 = b
    BY <2>1, <2>4 DEF Apply
  <2>8. accum'[b % Ring] = set
    BY <2>1, <2>5 DEF accounts
  <2>9. SetOf(batch - 1, accum[(batch - 1) % Ring])'
    BY <2>6, <2>7, <2>8
  <2>10. \E st \in Balances : after' = Append(after, st)
    BY <1>2, <2>1, <2>3, StateAfterIs DEF Apply, accounts
  <2>11. after'[1] = ZeroState
    <3>1. Len(after) > 0
      BY <1>2, <2>2
    <3>. QED  BY <1>2, <1>4, <2>2, <2>10, <3>1, VersionStays
  <2>. QED  BY <1>1, <1>2, <1>4, <1>5, <2>2, <2>9, <2>10, <2>11 DEF JobsFollow
<1>20. CASE DropBatch
  <2>1. PICK input \in Inputs : Apply(Fitting(input))
    BY <1>20 DEF DropBatch
  <2>2. /\ main = "read" /\ main' = "drain" /\ UNCHANGED <<job, box, runs>>
        /\ ~Sequential /\ runs = 1
    BY <1>2, <1>4, <1>20 DEF DropBatch, Boot, Control
  <2>3. \E st \in Balances : after' = Append(after, st)
    BY <1>2, <2>1, InputsAre, StateAfterIs DEF Apply
  <2>4. after'[1] = ZeroState
    <3>1. Len(after) > 0
      BY <1>2, <2>2
    <3>. QED  BY <1>2, <1>4, <2>2, <2>3, <3>1, VersionStays
  <2>. QED  BY <1>1, <1>2, <1>4, <1>5, <2>2, <2>3, <2>4 DEF JobsFollow
<1>9. CASE Submit
  <2>1. /\ main = "submit" /\ runs = 1 /\ ~Sequential
        /\ UNCHANGED <<batch, state, accum, job, after>>
    BY <1>2, <1>4, <1>9 DEF Submit, Boot, history, Control
  <2>2. box' \in {box, Checkpoint} /\ main' \in {"submit", "top", "drain"}
    BY <2>1, <1>9 DEF Submit, MainSleeps, PutCheckpoint
  <2>3. PICK b \in Nat : b = batch - 1
    BY <1>2, <2>1 DEF Control
  <2>4. batch = b + 1 /\ Len(after) = b + 2 /\ after[b + 2] = state /\ main # "down"
    BY <1>2, <2>1, <2>3 DEF Control
  <2>5. JobOf(b, Checkpoint)
    <3>1. Version(b) = state
      BY <2>4 DEF Version
    <3>2. /\ Checkpoint.batch = b /\ Checkpoint.state = state /\ Checkpoint.accum = accum
      BY <2>3 DEF Checkpoint
    <3>3. SetOf(b, accum[b % Ring])
      BY <1>4, <2>1, <2>3
    <3>4. b \in 0..Len(after) - 2
      BY <2>4
    <3>. QED  BY <3>1, <3>2, <3>3, <3>4 DEF JobOf
  <2>6. Checkpoint.batch = b
    BY <2>3 DEF Checkpoint
  <2>7. box' # Empty => JobOf(box.batch, box)'
    <3>1. CASE box' = box
      BY <1>2, <1>4, <1>5, <2>1, <3>1
    <3>2. CASE box' = Checkpoint
      <4>1. PICK j : j = Checkpoint
        OBVIOUS
      <4>2. JobOf(b, j)' /\ box' = j /\ j.batch = b
        BY <1>5, <2>1, <2>5, <2>6, <3>2, <4>1
      <4>. QED  BY <4>2
    <3>. QED  BY <2>2, <3>1, <3>2
  <2>8. SetOf(batch - 1, accum[(batch - 1) % Ring])'
    <3>1. SetOf(b, accum[b % Ring])
      BY <1>4, <2>1, <2>3
    <3>2. PICK set : set = accum[b % Ring]
      OBVIOUS
    <3>3. b < Len(after) - 1
      BY <2>4
    <3>4. SetOf(b, set)'
      BY <1>6, <2>1, <3>1, <3>2, <3>3
    <3>5. batch' - 1 = b /\ accum'[b % Ring] = set
      BY <2>1, <2>3, <3>2
    <3>. QED  BY <3>4, <3>5
  <2>. QED  BY <1>1, <1>2, <1>4, <1>5, <2>1, <2>7, <2>8 DEF JobsFollow
<1>10. CASE TakeCheckpoint
  <2>1. /\ runs = 1 /\ ~Sequential /\ UNCHANGED <<main, batch, accum, after>>
        /\ \/ UNCHANGED <<box, job>>
           \/ box # Empty /\ job' = box /\ box' = Empty
    BY <1>4, <1>10 DEF TakeCheckpoint, Boot, history, Sequential
  <2>2. main = "submit" => SetOf(batch - 1, accum[(batch - 1) % Ring])'
    <3>. HAVE main = "submit"
    <3>1. PICK b \in Nat : b = batch - 1
      BY <1>2, <2>1 DEF Control
    <3>2. PICK set : set = accum[b % Ring]
      OBVIOUS
    <3>3. SetOf(b, set) /\ b < Len(after) - 1
      BY <1>2, <1>4, <2>1, <3>1, <3>2
    <3>4. SetOf(b, set)'
      BY <1>6, <2>1, <3>3
    <3>5. batch' - 1 = b /\ accum'[b % Ring] = set
      BY <2>1, <3>1, <3>2
    <3>. QED  BY <3>4, <3>5
  <2>. QED  BY <1>1, <1>2, <1>4, <1>5, <2>1, <2>2 DEF JobsFollow
<1>11. CASE \/ CommitStep \/ OverflowExit \/ LeaveLoop \/ Finish \/ CheckError \/ EndOfFile
            \/ Drain
            \/ Msync \/ WorkerStep \/ ReportError \/ SpuriousWakeup \/ Kill \/ PowerLoss
            \/ UNCHANGED vars
  <2>1. /\ runs = 1 /\ after' = after /\ job' = job
        /\ box' \in {box, Empty}
    BY <1>1, <1>4, <1>11
       DEF CommitStep, OverflowExit, LeaveLoop, Finish, CheckError, EndOfFile, Drain, Msync,
           WorkerStep, ReportError, SpuriousWakeup, Kill, PowerLoss, vars, Boot, history,
           memory, shared, MemoryGone, MainSleeps, WholeState
  <2>2. /\ main' = "submit" => main = "submit" /\ UNCHANGED <<batch, accum>>
        /\ Sequential /\ main' # "down" => main # "down" /\ batch' = batch
    BY <1>1, <1>2, <1>11
       DEF CommitStep, OverflowExit, LeaveLoop, Finish, CheckError, EndOfFile, Drain, Msync,
           WorkerStep, ReportError, SpuriousWakeup, Kill, PowerLoss, vars, Boot, history,
           memory, shared, MemoryGone, MainSleeps, WholeState, Control
  <2>3. main' = "submit" => SetOf(batch - 1, accum[(batch - 1) % Ring])'
    <3>. HAVE main' = "submit"
    <3>1. PICK b \in Nat : b = batch - 1
      BY <1>2, <2>2 DEF Control, Sequential
    <3>2. PICK set : set = accum[b % Ring]
      OBVIOUS
    <3>3. SetOf(b, set) /\ b < Len(after) - 1
      BY <1>2, <1>4, <2>1, <2>2, <3>1, <3>2
    <3>4. SetOf(b, set)'
      BY <1>6, <2>1, <3>3
    <3>5. batch' - 1 = b /\ accum'[b % Ring] = set
      BY <2>2, <3>1, <3>2
    <3>. QED  BY <3>4, <3>5
  <2>. QED  BY <1>1, <1>2, <1>4, <1>5, <2>1, <2>2, <2>3 DEF JobsFollow
<1>. QED  BY <1>3, <1>7, <1>8, <1>9, <1>10, <1>11, <1>20 DEF Next, MainNext, WorkerNext

-----------------------------------------------------------------------------
\* Variants that log a slot for a batch: each slot holds the last batch of its turn.

\* A batch that goes to another slot makes no difference to a slot.
LEMMA HoldsOn ==
    ASSUME NEW slot, NEW s \in Slots, NEW m \in Nat, Holds(slot, s, m), m % Ring # s
    PROVE  Holds(slot, s, m + 1)
<1>1. CASE m <= s /\ slot = EmptySlot
  <2>1. m # s
    <3>1. m = s => m < Ring
      BY SlotAssumption DEF Slots
    <3>. QED  BY <3>1, TurnOf
  <2>. QED  BY <1>1, <2>1 DEF Holds, Slots
<1>2. ASSUME NEW b \in 0..m - 1, m <= b + Ring, b % Ring = s, HoldsBatch(slot, b)
      PROVE  Holds(slot, s, m + 1)
  <2>1. m # b + Ring
    BY <1>2, TurnAgain
  <2>2. m + 1 <= b + Ring /\ b \in 0..(m + 1) - 1
    BY <1>2, <2>1, SlotAssumption
  <2>. QED  BY <1>2, <2>2 DEF Holds
<1>. QED  BY <1>1, <1>2 DEF Holds

\* A slot with the header and the write set of the commit leads from the state before its
\* batch to the state after it.
LEMMA WritesNow ==
    ASSUME Base, ~WholeState, JobOf(job.batch, job), NEW slot \in SlotRecords,
           HasPart(slot, job.batch % Ring, "header"), HasPart(slot, job.batch % Ring, "writes")
    PROVE  /\ slot.header.batch = job.batch
           /\ program = "server" => slot.header.count = EntryCount
           /\ SlotRedoes(slot, Version(job.batch - 1), Version(job.batch))
<1>. DEFINE b == job.batch  s == b % Ring  set == job.accum[s]
<1>1. TypeOK /\ b \in Nat /\ s \in Slots /\ b \in Int
  BY TurnOf DEF Base, JobOf
<1>2. HasPart(slot, s, "header") /\ HasPart(slot, s, "writes")
  OBVIOUS
<1>. HIDE DEF b, s
<1>3. slot.header = [batch |-> b, count |-> set.count]
  BY <1>1, <1>2, ContentIs DEF HasPart, b
<1>4. /\ Len(slot.writes) >= Len(set.entries)
      /\ \A i \in 1..Len(set.entries) : slot.writes[i] = set.entries[i]
  BY <1>1, <1>2, ContentIs DEF HasPart
<1>5. set.entries \in Entered /\ set.count \in Nat /\ set.count <= Len(set.entries)
  BY <1>1 DEF Base, TypeOK, SetsCounted, Counted, Jobs, WriteSets, Entered
<1>6. slot.header.batch = b /\ slot.header.count = set.count
  BY <1>3
<1>7. /\ program = "server" => set.count = EntryCount
      /\ Redoes(set, Version(b - 1), Version(b))
  BY DEF JobOf, SetOf, b, s
<1>. DEFINE old == Version(b - 1)  new == Version(b)
<1>. HIDE DEF old, new
<1>8. \A a \in Accounts : /\ SlotHits(slot, a) = SetHits(set, a)
                          /\ SlotHits(slot, a) # {} => SlotLast(slot, a) = SetLast(set, a)
  BY <1>4, <1>5, <1>6, SameHits
<1>9. Redoes(set, old, new)
  BY <1>7 DEF old, new
<1>10. SlotRedoes(slot, old, new)
  BY <1>8, <1>9 DEF Redoes, SlotRedoes
<1>. QED  BY <1>6, <1>7, <1>10 DEF old, new, b

\* A slot with all parts of the commit holds its batch.
LEMMA HoldsNow ==
    ASSUME Base, ~WholeState, JobOf(job.batch, job), NEW slot \in SlotRecords,
           \A p \in PartNames : HasPart(slot, job.batch % Ring, p)
    PROVE  HoldsBatch(slot, job.batch)
<1>1. TypeOK /\ job.batch \in Nat /\ job.batch % Ring \in Slots
      /\ job.state = Version(job.batch)
  BY TurnOf DEF Base, JobOf
<1>2. /\ HasPart(slot, job.batch % Ring, "header") /\ HasPart(slot, job.batch % Ring, "chunk")
      /\ HasPart(slot, job.batch % Ring, "writes")
  BY DEF PartNames
<1>3. slot.chunk = ChunkAt(job.state, 0)
  BY <1>1, <1>2, ContentIs DEF HasPart
<1>. QED  BY <1>1, <1>2, <1>3, WritesNow DEF HoldsBatch

\* What a slot holds does not change when another batch is applied.
LEMMA HoldsStays ==
    ASSUME TypeOK, after' = after \/ (\E st \in Balances : after' = Append(after, st)),
           UNCHANGED program, NEW slot, NEW s, NEW m \in Nat, m <= Len(after) - 1,
           Holds(slot, s, m)
    PROVE  Holds(slot, s, m)'
<1>1. CASE m <= s /\ slot = EmptySlot
  BY <1>1 DEF Holds, EmptySlot, NoHeader
<1>2. ASSUME NEW b \in 0..m - 1, m <= b + Ring, b % Ring = s, HoldsBatch(slot, b)
      PROVE  Holds(slot, s, m)'
  <2>1. b \in Int /\ b - 1 \in Int /\ b <= Len(after) - 2 /\ b - 1 <= Len(after) - 2
    BY VersionStays
  <2>2. Version(b)' = Version(b) /\ Version(b - 1)' = Version(b - 1)
    BY <2>1, VersionStays
  <2>3. HoldsBatch(slot, b)'
    BY <1>2, <2>2 DEF HoldsBatch, EntryCount, ChunkAt
  <2>. QED  BY <1>2, <2>3 DEF Holds
<1>. QED  BY <1>1, <1>2 DEF Holds

\* How many batches the slots are of, on the device.
LEMMA BatchesKnown ==
    ASSUME Base, JobsFollow, ~WholeState, runs = 1, main # "down"
    PROVE  /\ job.batch \in Int /\ job.batch >= -1 /\ job.batch + 1 <= Len(after) - 1
           /\ job.batch # -1 => JobOf(job.batch, job) /\ job.batch \in Nat
           /\ todo # <<>> => job.batch \in Nat
<1>1. /\ job.batch \in Int /\ job.batch >= -1 /\ Len(after) = batch + 1 /\ batch \in Nat
      /\ todo # <<>> => job.batch >= 0
  BY DEF Base, TypeOK, Control, TodoFollows
<1>2. job.batch # -1 => JobOf(job.batch, job)
  BY DEF JobsFollow
<1>3. job.batch # -1 => job.batch \in 0..Len(after) - 2
  BY <1>2 DEF JobOf
<1>. QED  BY <1>1, <1>2, <1>3

\* The parts of a commit stay what they are.
LEMMA PartStays ==
    ASSUME UNCHANGED <<program, job>>
    PROVE  \A slot, s, p : HasPart(slot, s, p) => HasPart(slot, s, p)'
<1>1. WholeState' <=> WholeState
  BY DEF WholeState
<1>2. \A s : Content(s)' = Content(s)
  BY <1>1 DEF Content, ChunkAt, FirstChunk
<1>. TAKE slot, s, p
<1>. HAVE HasPart(slot, s, p)
<1>. QED  BY <1>2 DEF HasPart

\* No commit step is taken.
LEMMA BatchQuiet ==
    ASSUME Base, JobsFollow, BatchFollows, ~WholeState, runs = 1, failedAt = -1, main # "down",
           after' = after \/ (\E st \in Balances : after' = Append(after, st)),
           UNCHANGED <<program, file, disk, todo, job>>
    PROVE  BatchFollows'
<1>1. /\ TypeOK /\ job.batch \in Int /\ job.batch >= -1 /\ job.batch + 1 <= Len(after) - 1
      /\ todo # <<>> => job.batch \in Nat
  BY BatchesKnown DEF Base
<1>2. PICK m : m = IF todo = <<>> THEN job.batch + 1 ELSE job.batch
  OBVIOUS
<1>3. m \in Nat /\ m <= Len(after) - 1
  <2>1. Len(after) \in Nat
    BY <1>1 DEF TypeOK
  <2>. QED  BY <1>1, <1>2, <2>1
<1>4. ASSUME NEW s \in Slots PROVE Holds(disk[s], s, m)'
  <2>1. PICK slot : slot = disk[s]
    OBVIOUS
  <2>2. Holds(slot, s, m)
    BY <1>2, <2>1 DEF BatchFollows
  <2>3. Holds(slot, s, m)'
    BY <1>1, <1>3, <2>2, HoldsStays
  <2>. QED  BY <2>1, <2>3
<1>5. m = IF todo' = <<>> THEN job'.batch + 1 ELSE job'.batch
  BY <1>2
<1>6. NextStep' = NextStep /\ \A j : Part(j)' = Part(j)
  BY PlanStays DEF NextStep
<1>7. \A slot, s, p : HasPart(slot, s, p) => HasPart(slot, s, p)'
  BY PartStays
<1>8. \A j \in 1..3 : HasPart(file[job.batch % Ring], job.batch % Ring, Part(j)) =>
                         HasPart(file[job.batch % Ring], job.batch % Ring, Part(j))'
  BY <1>6, <1>7
<1>. QED  BY <1>4, <1>5, <1>6, <1>8 DEF BatchFollows

\* A commit starts.
LEMMA BatchBegins ==
    ASSUME Base, JobsFollow, BatchFollows, ~WholeState, runs = 1, failedAt = -1, main # "down",
           after' = after \/ (\E st \in Balances : after' = Append(after, st)),
           UNCHANGED <<program, file, disk>>, todo = <<>>, todo' # <<>>, NextStep' = 1,
           job'.batch = job.batch + 1
    PROVE  BatchFollows'
<1>1. /\ TypeOK /\ job.batch \in Int /\ job.batch >= -1 /\ job.batch + 1 <= Len(after) - 1
  BY BatchesKnown DEF Base
<1>2. PICK m : m = job.batch + 1
  OBVIOUS
<1>3. m \in Nat /\ m <= Len(after) - 1 /\ m = job'.batch
  BY <1>1, <1>2
<1>4. file = disk /\ \A s \in Slots : Holds(disk[s], s, m)
  BY <1>2 DEF BatchFollows
<1>5. ASSUME NEW s \in Slots PROVE Holds(disk[s], s, m)'
  <2>1. PICK slot : slot = disk[s]
    OBVIOUS
  <2>2. Holds(slot, s, m)'
    BY <1>1, <1>3, <1>4, <2>1, HoldsStays
  <2>. QED  BY <2>1, <2>2
<1>6. \A j \in 1..3 : 1 <= j
  OBVIOUS
<1>. QED  BY <1>3, <1>4, <1>5, <1>6 DEF BatchFollows

\* A step of a commit.
LEMMA BatchStep ==
    ASSUME Base, JobsFollow, BatchFollows, ~WholeState, runs = 1, failedAt = -1, main # "down",
           StepSucceeds, todo # <<>>, UNCHANGED <<program, total, job, after>>
    PROVE  BatchFollows'
<1>. DEFINE t == job.batch % Ring
<1>1. /\ TypeOK /\ TodoFollows /\ job.batch \in Nat /\ JobOf(job.batch, job) /\ t \in Slots
      /\ job.batch + 1 <= Len(after) - 1
  BY BatchesKnown, TurnOf DEF Base
<1>2. /\ \A s \in Slots : Holds(disk[s], s, job.batch)
      /\ \A s \in Slots \ {t} : file[s] = disk[s]
      /\ \A j \in 1..3 : IF NextStep <= j THEN file[t][Part(j)] = disk[t][Part(j)]
                                          ELSE HasPart(file[t], t, Part(j))
  BY DEF BatchFollows
<1>. HIDE DEF t
<1>3. /\ todo' = Tail(todo) /\ (todo' # <<>> => NextStep' = NextStep + 1) /\ NextStep \in Int
  BY <1>1, TodoGoesOn, StepIs DEF StepSucceeds
<1>4. \A slot, s, p : HasPart(slot, s, p) => HasPart(slot, s, p)'
  BY PartStays
<1>5. \A j : Part(j)' = Part(j)
  BY PlanStays
<1>6. /\ \A j \in 1..3 : Part(j) \in PartNames
      /\ \A p \in PartNames : \E j \in 1..3 : Part(j) = p
      /\ \A j, k \in 1..3 : j # k => Part(j) # Part(k)
  BY <1>1, PartsAre
<1>7. \A slot, s : Holds(slot, s, job.batch) => Holds(slot, s, job.batch)'
  <2>1. PICK m \in Nat : m = job.batch
    BY <1>1
  <2>2. m <= Len(after) - 1
    <3>1. Len(after) \in Nat
      BY <1>1 DEF TypeOK
    <3>. QED  BY <1>1, <2>1, <3>1
  <2>3. \A slot, s : Holds(slot, s, m) => Holds(slot, s, m)'
    BY <1>1, <2>2, HoldsStays
  <2>. QED  BY <2>1, <2>3
<1>8. CASE Head(todo).part = "sync"
  <2>1. todo' = <<>> /\ disk' = file /\ file' = file /\ NextStep = 4
    <3>1. \A s \in Slots, j \in 1..3 : Part(j) \in PartNames =>
             [slot |-> s, part |-> Part(j)].part # "sync"
      BY DEF PartNames
    <3>2. Tail(todo) = <<>> /\ NextStep = 4
      BY <1>1, <1>8, <3>1, HeadIs
    <3>. QED  BY <1>3, <1>8, <3>2 DEF StepSucceeds
  <2>2. HoldsBatch(file[t], job.batch)
    <3>1. \A p \in PartNames : HasPart(file[t], t, p)
      <4>1. \A j \in 1..3 : ~(NextStep <= j)
        BY <2>1
      <4>. QED  BY <1>2, <1>6, <4>1
    <3>2. file[t] \in SlotRecords
      BY <1>1 DEF TypeOK
    <3>. QED  BY <1>1, <3>1, <3>2, HoldsNow DEF t
  <2>3. ASSUME NEW s \in Slots PROVE Holds(file[s], s, job.batch + 1)
    <3>1. CASE s = t
      <4>1. job.batch \in 0..(job.batch + 1) - 1 /\ job.batch + 1 <= job.batch + Ring
        BY <1>1, SlotAssumption
      <4>. QED  BY <2>2, <3>1, <4>1 DEF Holds, t
    <3>2. CASE s # t
      <4>1. Holds(file[s], s, job.batch)
        BY <1>2, <3>2
      <4>2. job.batch % Ring # s
        BY <3>2 DEF t
      <4>. QED  BY <1>1, <4>1, <4>2, HoldsOn
    <3>. QED  BY <3>1, <3>2
  <2>4. \A slot, s : Holds(slot, s, job.batch + 1) => Holds(slot, s, job.batch + 1)'
    <3>1. PICK m \in Nat : m = job.batch + 1
      BY <1>1
    <3>2. m <= Len(after) - 1
      BY <1>1, <3>1
    <3>3. \A slot, s : Holds(slot, s, m) => Holds(slot, s, m)'
      BY <1>1, <3>2, HoldsStays
    <3>. QED  BY <3>1, <3>3
  <2>5. ASSUME NEW s \in Slots PROVE Holds(disk[s], s, job.batch + 1)'
    <3>1. PICK slot : slot = file[s]
      OBVIOUS
    <3>2. Holds(slot, s, job.batch + 1)'
      BY <2>3, <2>4, <3>1
    <3>. QED  BY <2>1, <3>1, <3>2
  <2>. QED  BY <2>1, <2>5 DEF BatchFollows
<1>9. CASE Head(todo).part # "sync"
  <2>1. PICK j \in 1..3 :
           /\ Head(todo) = [slot |-> t, part |-> Part(j)] /\ Part(j) \in PartNames
           /\ NextStep = j /\ Tail(todo) # <<>>
    <3>1. ~Mapped
      BY DEF Mapped, WholeState
    <3>. QED  BY <1>1, <1>9, <3>1, HeadIs DEF t
  <2>2. WriteSlot(t, Part(j), Content(t)) /\ disk' = disk
    <3>1. Head(todo).slot = t /\ Head(todo).part = Part(j)
      BY <2>1
    <3>. QED  BY <1>9, <3>1 DEF StepSucceeds
  <2>3. /\ \A s \in Slots : s # t => file'[s] = file[s]
        /\ \A p \in PartNames : p # Part(j) => file'[t][p] = file[t][p]
        /\ HasPart(file'[t], t, Part(j))
    BY <1>1, <2>1, <2>2, WriteSlotIs
  <2>4. ASSUME NEW s \in Slots PROVE Holds(disk[s], s, job.batch)'
    <3>1. PICK slot : slot = disk[s]
      OBVIOUS
    <3>2. Holds(slot, s, job.batch)'
      BY <1>2, <1>7, <3>1
    <3>. QED  BY <2>2, <3>1, <3>2
  <2>5. ASSUME NEW i \in 1..3
        PROVE  IF NextStep + 1 <= i THEN file'[t][Part(i)] = disk'[t][Part(i)]
                                    ELSE HasPart(file'[t], t, Part(i))
    <3>1. CASE i > j
      <4>1. NextStep <= i /\ NextStep + 1 <= i /\ i # j
        BY <2>1, <3>1
      <4>. QED  BY <1>2, <1>6, <2>2, <2>3, <4>1
    <3>2. CASE i = j
      <4>1. ~(NextStep + 1 <= i)
        BY <2>1, <3>2
      <4>. QED  BY <2>3, <3>2, <4>1
    <3>3. CASE i < j
      <4>1. ~(NextStep <= i) /\ ~(NextStep + 1 <= i) /\ i # j
        BY <2>1, <3>3
      <4>2. HasPart(file[t], t, Part(i)) /\ file[t][Part(i)] = file'[t][Part(i)]
        BY <1>2, <1>6, <2>3, <4>1
      <4>. QED  BY <1>6, <4>1, <4>2, PartOnly
    <3>. QED  BY <3>1, <3>2, <3>3
  <2>6. todo' # <<>> /\ NextStep' = NextStep + 1 /\ t' = t
    BY <1>3, <2>1 DEF t
  <2>7. \A i \in 1..3 : HasPart(file'[t], t, Part(i)) => HasPart(file[t], t, Part(i))'
    <3>. TAKE i \in 1..3
    <3>. HAVE HasPart(file'[t], t, Part(i))
    <3>1. PICK slot, s, p : slot = file'[t] /\ s = t /\ p = Part(i)
      OBVIOUS
    <3>2. HasPart(slot, s, p)'
      BY <1>4, <3>1
    <3>. QED  BY <1>5, <2>6, <3>1, <3>2
  <2>8. \A s \in Slots \ {t} : file'[s] = disk'[s]
    BY <1>2, <2>2, <2>3
  <2>. QED  BY <1>5, <2>4, <2>5, <2>6, <2>7, <2>8 DEF BatchFollows, t
<1>. QED  BY <1>8, <1>9

\* Before the first start there are no batches.
LEMMA BatchFollowsInit == Init => BatchFollows
  BY DEF Init, BatchFollows

\* The slots follow the batches through every step.
LEMMA BatchFollowsNext ==
    Base /\ HandOver /\ JobsFollow /\ BatchFollows /\ [Next]_vars => BatchFollows'
<1>. SUFFICES ASSUME Base, HandOver, JobsFollow, BatchFollows, [Next]_vars,
                     ~WholeState', runs' = 1, failedAt' = -1, main' # "down"
              PROVE  BatchFollows'
  BY DEF BatchFollows
<1>1. program' = program /\ total' = total
  BY DEF Next, MainNext, WorkerNext, Boot, ApplyBatch, CommitStep, OverflowExit, LeaveLoop,
         Finish, CheckError, ReadBatch, DropBatch, EndOfFile, Submit, Drain, Msync,
         TakeCheckpoint, WorkerStep, ReportError, SpuriousWakeup, Kill, PowerLoss, vars, config
<1>2. ~WholeState /\ (Sequential' <=> Sequential)
  BY <1>1 DEF WholeState, Sequential
<1>3. /\ TypeOK /\ Control /\ batch \in Nat /\ runs \in Nat /\ job.batch \in Int
      /\ state \in Balances /\ TodoFollows
  BY DEF Base, TypeOK, Jobs
<1>4. CASE Boot
  <2>1. runs = 0
    BY <1>3, <1>4 DEF Boot
  <2>2. /\ file = [s \in Slots |-> EmptySlot] /\ disk = file /\ job.batch = -1
        /\ UNCHANGED <<file, disk, job>> /\ todo' = <<>>
    BY <1>4, <2>1 DEF Boot, Base, Untouched
  <2>3. \A s \in Slots : Holds(disk[s], s, 0)'
    BY <2>2 DEF Holds, EmptySlot, NoHeader, Slots
  <2>4. job'.batch + 1 = 0
    BY <2>2
  <2>. QED  BY <2>2, <2>3, <2>4 DEF BatchFollows
<1>5. ~Boot => runs = 1 /\ main # "down"
  <2>1. ~Boot => runs' = runs
    BY DEF Next, MainNext, WorkerNext, ApplyBatch, CommitStep, OverflowExit, LeaveLoop,
           Finish, CheckError, ReadBatch, DropBatch, EndOfFile, Submit, Drain, Msync,
           TakeCheckpoint, WorkerStep, ReportError, SpuriousWakeup, Kill, PowerLoss,
           vars, history
  <2>2. ASSUME ~Boot PROVE main # "down"
    BY <1>3, <2>2
       DEF Next, MainNext, WorkerNext, ApplyBatch, CommitStep, OverflowExit, LeaveLoop,
           Finish, CheckError, ReadBatch, DropBatch, EndOfFile, Submit, Drain, Msync,
           TakeCheckpoint, WorkerStep, ReportError, SpuriousWakeup, Kill, PowerLoss,
           vars, memory, Control
  <2>. QED  BY <2>1, <2>2
<1>6. CASE ApplyBatch
  <2>1. PICK accounts \in Inputs :
           /\ Apply(accounts)
           /\ IF CommitDue
                THEN /\ job' = [batch |-> batch, state |-> state', accum |-> Sets(accounts)]
                     /\ todo' = Plan(batch)
                ELSE UNCHANGED todo
    BY <1>6 DEF ApplyBatch
  <2>2. CommitDue
    BY <1>2 DEF CommitDue, WholeState
  <2>3. /\ Sequential /\ main = "apply" /\ runs = 1 /\ UNCHANGED <<file, disk, failedAt>>
        /\ main # "down" /\ todo = <<>> /\ failedAt = -1
    BY <1>3, <1>5, <1>6 DEF ApplyBatch, Boot, Control
  <2>4. job'.batch = batch /\ todo' = Plan(batch)
    BY <2>1, <2>2
  <2>5. todo' # <<>> /\ NextStep' = 1
    BY <1>1, <1>3, <2>4, PlanStarts
  <2>6. job'.batch = job.batch + 1
    <3>1. job.batch = batch - 1
      BY <1>2, <2>3 DEF JobsFollow
    <3>. QED  BY <1>3, <2>4, <3>1
  <2>7. \E st \in Balances : after' = Append(after, st)
    BY <1>3, <2>1, InputsAre, StateAfterIs DEF Apply
  <2>. QED  BY <1>1, <1>2, <2>3, <2>5, <2>6, <2>7, BatchBegins
<1>7. CASE TakeCheckpoint
  <2>1. /\ ~Sequential /\ runs = 1 /\ main # "down" /\ failedAt = -1
        /\ UNCHANGED <<program, file, disk, after>> /\ worker = "run" /\ todo = <<>>
    BY <1>1, <1>3, <1>5, <1>7 DEF TakeCheckpoint, Boot, history, Sequential, Control
  <2>2. CASE UNCHANGED <<todo, job>>
    BY <1>2, <2>1, <2>2, BatchQuiet
  <2>3. CASE box # Empty /\ job' = box /\ todo' = Plan(box.batch)
    <3>1. box.batch = Submitted - 1 /\ job.batch = Taken - 1 /\ Taken = Submitted - 1
      BY <2>1, <2>3 DEF HandOver, Taken
    <3>2. box.batch \in Nat
      BY <1>3, <2>3 DEF TypeOK
    <3>3. PICK b \in Nat : b = box.batch
      BY <3>2
    <3>4. job'.batch = b /\ todo' = Plan(b)
      BY <2>3, <3>3
    <3>5. todo' # <<>> /\ NextStep' = 1
      BY <1>1, <1>3, <3>4, PlanStarts
    <3>6. Submitted \in Int
      BY <1>3 DEF Submitted
    <3>7. job'.batch = job.batch + 1
      BY <1>3, <3>1, <3>3, <3>4, <3>6
    <3>. QED  BY <1>2, <2>1, <3>5, <3>7, BatchBegins
  <2>. QED  BY <1>7, <2>2, <2>3 DEF TakeCheckpoint
<1>8. CASE CommitStep \/ WorkerStep
  <2>1. /\ runs = 1 /\ main # "down" /\ todo # <<>> /\ UNCHANGED <<program, total, job, after>>
        /\ StepSucceeds \/ StepFails
    BY <1>1, <1>3, <1>5, <1>8 DEF CommitStep, WorkerStep, Boot, Control, Sequential
  <2>2. ~StepFails
    BY <1>3, <2>1 DEF StepFails, TodoFollows
  <2>3. failedAt = -1
    BY <2>1, <2>2 DEF StepSucceeds
  <2>. QED  BY <1>2, <2>1, <2>2, <2>3, BatchStep
<1>9. CASE ReadBatch
  <2>1. PICK input \in Inputs : Apply(Fitting(input))
    BY <1>9 DEF ReadBatch
  <2>2. \E st \in Balances : after' = Append(after, st)
    BY <1>3, <2>1, InputsAre, StateAfterIs DEF Apply
  <2>3. runs = 1 /\ main # "down" /\ failedAt = -1
        /\ UNCHANGED <<program, file, disk, todo, job>>
    BY <1>1, <1>5, <1>9 DEF ReadBatch, Boot
  <2>. QED  BY <1>2, <2>2, <2>3, BatchQuiet
<1>10. CASE \/ LeaveLoop \/ CheckError \/ EndOfFile \/ Submit \/ Drain \/ Msync \/ ReportError
            \/ SpuriousWakeup \/ UNCHANGED vars
  <2>1. ~Boot
    BY <1>3, <1>10
       DEF LeaveLoop, CheckError, EndOfFile, Submit, Drain, Msync, ReportError, SpuriousWakeup,
           vars, memory, history, Boot
  <2>2. failedAt = -1 /\ UNCHANGED <<program, file, disk, todo, job, after>>
    BY <1>1, <1>2, <1>10
       DEF LeaveLoop, CheckError, EndOfFile, Submit, Drain, Msync, ReportError, SpuriousWakeup,
           vars, memory, history, WholeState
  <2>. QED  BY <1>2, <1>5, <2>1, <2>2, BatchQuiet
<1>11. ~(Kill \/ PowerLoss \/ OverflowExit \/ Finish)
  BY DEF Kill, PowerLoss, OverflowExit, Finish, MemoryGone
<1>12. ~DropBatch
  BY <1>3 DEF DropBatch
<1>. QED  BY <1>4, <1>6, <1>7, <1>8, <1>9, <1>10, <1>11, <1>12 DEF Next, MainNext, WorkerNext

-----------------------------------------------------------------------------
\* Variants that log a slot for a batch: what is in the slots, said of the file alone.

\* While the program runs.
LEMMA SlotsUp ==
    ASSUME Base, JobsFollow, BatchFollows, ~WholeState, runs = 1, failedAt = -1, main # "down"
    PROVE  SlotsLeft
<1>. DEFINE t == job.batch % Ring
<1>1. TypeOK /\ Control /\ TodoFollows /\ (Committing <=> todo # <<>>)
  BY DEF Base, Committing
<1>2. CASE todo = <<>>
  BY <1>1, <1>2 DEF BatchFollows, SlotsLeft
<1>3. CASE todo # <<>>
  <2>1. job.batch \in Nat /\ t \in Slots
    BY <1>3, BatchesKnown, TurnOf
  <2>. HIDE DEF t
  <2>2. /\ \A s \in Slots : Holds(disk[s], s, job.batch)
        /\ \A s \in Slots \ {t} : file[s] = disk[s]
        /\ \A j \in 1..3 : IF NextStep <= j THEN file[t][Part(j)] = disk[t][Part(j)]
                                            ELSE HasPart(file[t], t, Part(j))
    BY <1>3 DEF BatchFollows, t
  <2>3. disk[t] \in SlotRecords /\ NextStep \in Int
    BY <1>1, <1>3, <2>1, StepIs DEF TypeOK
  <2>4. \A p \in PartNames : \E j \in 1..3 : Part(j) = p
    BY <1>1, PartsAre
  <2>5. \A p \in PartNames : file[t][p] = disk[t][p] \/ HasPart(file[t], t, p)
    BY <2>2, <2>4
  <2>6. ASSUME program = "async"
        PROVE  file[t].header = disk[t].header \/ \A p \in PartNames : HasPart(file[t], t, p)
    <3>1. Part(3) = "header"
      BY <2>6 DEF Part
    <3>2. CASE NextStep <= 3
      <4>1. file[t][Part(3)] = disk[t][Part(3)]
        BY <2>2, <3>2
      <4>. QED  BY <3>1, <4>1
    <3>3. CASE ~(NextStep <= 3)
      <4>1. \A j \in 1..3 : ~(NextStep <= j)
        BY <2>3, <3>3
      <4>. QED  BY <2>2, <2>4, <4>1
    <3>. QED  BY <3>2, <3>3
  <2>7. Mixture(file[t], disk[t], t)
    BY <2>5, <2>6 DEF Mixture
  <2>8. \A s \in Slots \ {t} : Holds(file[s], s, job.batch)
    BY <2>2
  <2>9. \E old \in SlotRecords : Holds(old, t, job.batch) /\ Mixture(file[t], old, t)
    BY <2>1, <2>2, <2>3, <2>7
  <2>. QED  BY <1>1, <1>3, <2>1, <2>8, <2>9 DEF SlotsLeft, t
<1>. QED  BY <1>2, <1>3

\* What a slot holds depends on the states of the run.
LEMMA HoldsSame ==
    ASSUME UNCHANGED <<program, after>>
    PROVE  \A slot, s, m : Holds(slot, s, m) => Holds(slot, s, m)'
<1>1. \A b : Version(b)' = Version(b)
  BY DEF Version, ZeroState
<1>2. \A slot, b : HoldsBatch(slot, b) => HoldsBatch(slot, b)'
  BY <1>1 DEF HoldsBatch, EntryCount, ChunkAt
<1>. QED  BY <1>2 DEF Holds, EmptySlot, NoHeader

\* A mixture stays one.
LEMMA MixtureSame ==
    ASSUME UNCHANGED <<program, job>>
    PROVE  \A slot, old, t : Mixture(slot, old, t) => Mixture(slot, old, t)'
  BY PartStays DEF Mixture

\* What is said of the slots stays true when the process ends and leaves them.
LEMMA LeftStays ==
    ASSUME SlotsLeft, UNCHANGED <<program, total, job, after, file>>, Committing' <=> Committing
    PROVE  SlotsLeft'
<1>1. SlotRecords' = SlotRecords
  BY RecordsStay
<1>2. PICK b, f : b = job.batch /\ f = file
  OBVIOUS
<1>3. CASE Committing
  <2>1. /\ b >= 0 /\ \A s \in Slots \ {b % Ring} : Holds(f[s], s, b)
        /\ \E old \in SlotRecords :
              Holds(old, b % Ring, b) /\ Mixture(f[b % Ring], old, b % Ring)
    BY <1>2, <1>3 DEF SlotsLeft
  <2>2. /\ \A s \in Slots \ {b % Ring} : Holds(f[s], s, b)'
        /\ \E old \in SlotRecords :
              Holds(old, b % Ring, b)' /\ Mixture(f[b % Ring], old, b % Ring)'
    BY <2>1, HoldsSame, MixtureSame
  <2>3. b = job'.batch /\ f = file'
    BY <1>2
  <2>. QED  BY <1>1, <1>3, <2>1, <2>2, <2>3 DEF SlotsLeft
<1>4. CASE ~Committing
  <2>1. \A s \in Slots : Holds(f[s], s, b + 1)
    BY <1>2, <1>4 DEF SlotsLeft
  <2>2. \A s \in Slots : Holds(f[s], s, b + 1)'
    BY <2>1, HoldsSame
  <2>3. b = job'.batch /\ f = file'
    BY <1>2
  <2>. QED  BY <1>4, <2>2, <2>3 DEF SlotsLeft
<1>. QED  BY <1>3, <1>4

\* Before the first start nothing is left.
LEMMA BatchLeftInit == Init => BatchLeft
  BY DEF Init, BatchLeft

\* A power loss leaves mixtures of what is in the page cache and what is on the device.
LEMMA BatchLost ==
    ASSUME Base, JobsFollow, BatchFollows, ~WholeState, runs = 1, failedAt = -1, main # "down",
           PowerLoss, program # "async", file # disk
    PROVE  SlotsLeft'
<1>. DEFINE t == job.batch % Ring
<1>1. /\ TypeOK /\ LoseCache /\ cut' = "power" /\ main' = "down"
      /\ UNCHANGED <<program, total, job, after>>
  BY DEF PowerLoss, Base, MemoryGone, config
<1>2. /\ file' \in [Slots -> SlotRecords]
      /\ \A s \in Slots, p \in PartNames : file'[s][p] \in {file[s][p], disk[s][p]}
  BY <1>1, LossIs
<1>3. todo # <<>>
  BY DEF BatchFollows
<1>4. job.batch \in Nat /\ t \in Slots
  BY <1>3, BatchesKnown, TurnOf
<1>. HIDE DEF t
<1>5. /\ \A s \in Slots : Holds(disk[s], s, job.batch)
      /\ \A s \in Slots \ {t} : file[s] = disk[s]
      /\ \A j \in 1..3 : IF NextStep <= j THEN file[t][Part(j)] = disk[t][Part(j)]
                                          ELSE HasPart(file[t], t, Part(j))
  BY <1>3 DEF BatchFollows, t
<1>6. \A p \in PartNames : \E j \in 1..3 : Part(j) = p
  BY <1>1, PartsAre
<1>7. \A s \in Slots : file'[s] \in SlotRecords /\ disk[s] \in SlotRecords
  BY <1>1, <1>2 DEF TypeOK
<1>8. ASSUME NEW s \in Slots \ {t} PROVE Holds(file'[s], s, job.batch)
  <2>1. \A p \in PartNames : file'[s][p] = disk[s][p]
    BY <1>2, <1>5
  <2>2. /\ file'[s].header = disk[s].header /\ file'[s].chunk = disk[s].chunk
        /\ file'[s].writes = disk[s].writes
    BY <2>1 DEF PartNames
  <2>3. file'[s] = disk[s]
    BY <1>7, <2>2 DEF SlotRecords
  <2>. QED  BY <1>5, <2>3
<1>9. \A p \in PartNames : file'[t][p] = disk[t][p] \/ HasPart(file'[t], t, p)
  <2>. TAKE p \in PartNames
  <2>1. file[t][p] = disk[t][p] \/ HasPart(file[t], t, p)
    BY <1>5, <1>6
  <2>2. file'[t][p] \in {file[t][p], disk[t][p]}
    BY <1>2, <1>4
  <2>3. file'[t][p] = file[t][p] /\ HasPart(file[t], t, p) => HasPart(file'[t], t, p)
    BY PartOnly
  <2>. QED  BY <2>1, <2>2, <2>3
<1>10. Mixture(file'[t], disk[t], t)
  BY <1>9 DEF Mixture
<1>11. PICK b, f, d : b = job.batch /\ f = file' /\ d = disk[t]
  OBVIOUS
<1>12. PICK u : u = t
  OBVIOUS
<1>13. /\ \A s \in Slots \ {u} : Holds(f[s], s, b)'
       /\ Holds(d, u, b)' /\ Mixture(f[u], d, u)'
  BY <1>1, <1>4, <1>5, <1>8, <1>10, <1>11, <1>12, HoldsSame, MixtureSame
<1>14. b = job'.batch /\ f = file' /\ u = b % Ring /\ d \in SlotRecords'
  BY <1>1, <1>4, <1>7, <1>11, <1>12, RecordsStay DEF t
<1>15. Committing' /\ job'.batch >= 0
  BY <1>1, <1>4 DEF Committing
<1>. QED  BY <1>13, <1>14, <1>15 DEF SlotsLeft

\* A program that ends leaves the slots as they were, or after a power loss as mixtures.
LEMMA BatchLeftNext ==
    Base /\ JobsFollow /\ BatchFollows /\ BatchLeft /\ [Next]_vars => BatchLeft'
<1>. SUFFICES ASSUME Base, JobsFollow, BatchFollows, BatchLeft, [Next]_vars,
                     ~WholeState', runs' = 1, failedAt' = -1, main' = "down",
                     ~(program' = "async" /\ cut' = "power")
              PROVE  SlotsLeft'
  BY DEF BatchLeft
<1>1. program' = program /\ total' = total
  BY DEF Next, MainNext, WorkerNext, Boot, ApplyBatch, CommitStep, OverflowExit, LeaveLoop,
         Finish, CheckError, ReadBatch, DropBatch, EndOfFile, Submit, Drain, Msync,
         TakeCheckpoint, WorkerStep, ReportError, SpuriousWakeup, Kill, PowerLoss, vars, config
<1>2. ~WholeState /\ TypeOK /\ Control
  BY <1>1 DEF WholeState, Base
<1>3. CASE main = "down"
  <2>1. ~(\/ ApplyBatch \/ CommitStep \/ OverflowExit \/ LeaveLoop \/ Finish \/ CheckError
          \/ ReadBatch \/ DropBatch \/ EndOfFile \/ Submit \/ Drain \/ Kill \/ PowerLoss)
    BY <1>3 DEF ApplyBatch, CommitStep, OverflowExit, LeaveLoop, Finish, CheckError,
                ReadBatch, DropBatch, EndOfFile, Submit, Drain, Kill, PowerLoss
  <2>2. ~(Msync \/ TakeCheckpoint \/ WorkerStep \/ ReportError)
    BY <1>2, <1>3 DEF Msync, TakeCheckpoint, WorkerStep, ReportError, Control
  <2>3. ~Boot
    BY DEF Boot
  <2>4. UNCHANGED <<file, main, todo, job, after, runs, failedAt, cut>>
    BY <2>1, <2>2, <2>3 DEF Next, MainNext, WorkerNext, SpuriousWakeup, vars, memory, history
  <2>5. SlotsLeft
    BY <1>1, <1>2, <1>3, <2>4 DEF BatchLeft
  <2>6. Committing' <=> Committing
    BY <2>4 DEF Committing
  <2>. QED  BY <1>1, <2>4, <2>5, <2>6, LeftStays
<1>4. CASE main # "down"
  <2>1. CASE Kill \/ Finish
    <3>1. /\ UNCHANGED <<file, job, after, runs, failedAt>> /\ todo' = <<>>
      BY <2>1 DEF Kill, Finish, history, MemoryGone
    <3>2. SlotsLeft
      BY <1>2, <1>4, <3>1, SlotsUp
    <3>3. Finish => todo = <<>> /\ cut' = "clean"
      BY <1>2, <1>4 DEF Finish, Control, history
    <3>4. Kill => (cut' # "clean" <=> todo # <<>>)
      BY DEF Kill, CutOpen
    <3>5. Committing' <=> Committing
      BY <1>4, <2>1, <3>1, <3>3, <3>4 DEF Committing
    <3>. QED  BY <1>1, <3>1, <3>2, <3>5, LeftStays
  <2>2. CASE PowerLoss /\ file # disk
    <3>1. UNCHANGED <<runs, failedAt>> /\ cut' = "power"
      BY <2>2 DEF PowerLoss
    <3>. QED  BY <1>1, <1>2, <1>4, <2>2, <3>1, BatchLost
  <2>3. CASE PowerLoss /\ file = disk
    <3>1. /\ UNCHANGED <<job, after, runs, failedAt>> /\ todo' = <<>> /\ cut' = CutOpen
          /\ LoseCache
      BY <2>3 DEF PowerLoss, MemoryGone
    <3>2. SlotsLeft
      BY <1>2, <1>4, <3>1, SlotsUp
    <3>3. cut' # "clean" <=> todo # <<>>
      BY <3>1 DEF CutOpen
    <3>4. Committing' <=> Committing
      BY <1>4, <3>1, <3>3 DEF Committing
    <3>5. file' = file
      <4>1. /\ file' \in [Slots -> SlotRecords] /\ file \in [Slots -> SlotRecords]
            /\ \A s \in Slots, p \in PartNames : file'[s][p] = file[s][p]
        BY <1>2, <2>3, <3>1, LossIs DEF TypeOK
      <4>2. ASSUME NEW s \in Slots PROVE file'[s] = file[s]
        <5>1. /\ file'[s].header = file[s].header /\ file'[s].chunk = file[s].chunk
              /\ file'[s].writes = file[s].writes
          BY <4>1 DEF PartNames
        <5>2. file'[s] \in SlotRecords /\ file[s] \in SlotRecords
          BY <4>1
        <5>. QED  BY <5>1, <5>2 DEF SlotRecords
      <4>. QED  BY <4>1, <4>2
    <3>. QED  BY <1>1, <3>1, <3>2, <3>4, <3>5, LeftStays
  <2>4. ~OverflowExit
    BY <1>2 DEF OverflowExit, WholeState
  <2>5. ~(\/ Boot \/ ApplyBatch \/ CommitStep \/ LeaveLoop \/ CheckError \/ ReadBatch
          \/ DropBatch \/ EndOfFile \/ Submit \/ Drain \/ Msync \/ TakeCheckpoint \/ WorkerStep
          \/ ReportError \/ SpuriousWakeup \/ UNCHANGED vars)
    BY <1>4 DEF Boot, ApplyBatch, CommitStep, LeaveLoop, CheckError, ReadBatch, DropBatch,
                EndOfFile, Submit, MainSleeps, PutCheckpoint, Drain, Msync,
                TakeCheckpoint, WorkerStep, ReportError, SpuriousWakeup, vars, memory
  <2>. QED  BY <2>1, <2>2, <2>3, <2>4, <2>5 DEF Next, MainNext, WorkerNext
<1>. QED  BY <1>3, <1>4

-----------------------------------------------------------------------------
\* Variants that log a slot for a batch: which batches the file has, and what is read.

\* Slot s has the number of the last of the first m batches that went to it.
Numbered(m) ==
    \A s \in Slots :
       \/ m <= s /\ file[s].header.batch = -1
       \/ \E b \in 0..m - 1 : m <= b + Ring /\ b % Ring = s /\ file[s].header.batch = b

\* The first batch of the last round.
Earliest(m) == IF m <= Ring THEN 0 ELSE m - Ring

\* The valid slots are those of the last round.
LEMMA RangeIs ==
    ASSUME NEW m \in Nat, Numbered(m)
    PROVE  /\ \A c \in Earliest(m)..m - 1 : /\ c \in Nat /\ c % Ring \in ValidSlots
                                            /\ file[c % Ring].header.batch = c
           /\ \A s \in ValidSlots : /\ s \in Slots
                                    /\ file[s].header.batch \in Earliest(m)..m - 1
                                    /\ file[s].header.batch % Ring = s
<1>1. Earliest(m) \in Nat /\ m - Ring <= Earliest(m)
  BY SlotAssumption DEF Earliest
<1>2. ASSUME NEW c \in Earliest(m)..m - 1
      PROVE  c \in Nat /\ c % Ring \in ValidSlots /\ file[c % Ring].header.batch = c
  <2>1. c \in Nat /\ c < m /\ m <= c + Ring
    BY <1>1, SlotAssumption
  <2>2. PICK s \in Slots : s = c % Ring
    BY <2>1, TurnOf
  <2>3. ~(m <= s)
    <3>1. s < Ring
      BY <2>2, SlotAssumption DEF Slots
    <3>2. m <= s => c < Ring
      BY <2>1, <3>1, SlotAssumption DEF Slots
    <3>3. m <= s => c = s
      BY <2>1, <2>2, <3>2, TurnOf
    <3>. QED  BY <2>1, <3>3
  <2>4. PICK b \in 0..m - 1 : m <= b + Ring /\ b % Ring = s /\ file[s].header.batch = b
    BY <2>3 DEF Numbered
  <2>5. b = c
    <3>1. b \in Nat /\ b < m
      OBVIOUS
    <3>2. ~(b < c) /\ ~(c < b)
      BY <2>1, <2>2, <2>4, <3>1, TurnsApart, SlotAssumption
    <3>. QED  BY <2>1, <3>1, <3>2
  <2>. QED  BY <2>1, <2>2, <2>4, <2>5 DEF ValidSlots
<1>3. ASSUME NEW s \in ValidSlots
      PROVE  /\ s \in Slots /\ file[s].header.batch \in Earliest(m)..m - 1
             /\ file[s].header.batch % Ring = s
  <2>1. s \in Slots /\ file[s].header.batch # -1
    BY DEF ValidSlots
  <2>2. PICK b \in 0..m - 1 : m <= b + Ring /\ b % Ring = s /\ file[s].header.batch = b
    BY <2>1 DEF Numbered
  <2>3. b \in Earliest(m)..m - 1
    BY <2>2, SlotAssumption DEF Earliest
  <2>. QED  BY <2>1, <2>2, <2>3
<1>. QED  BY <1>2, <1>3

\* The slots of the first and of the last batch.
LEMMA EndsAre ==
    ASSUME NEW m \in Nat \ {0}, Numbered(m)
    PROVE  /\ ValidSlots # {} /\ Newest(ValidSlots) = (m - 1) % Ring
           /\ Oldest(ValidSlots) = Earliest(m) % Ring
<1>. DEFINE lo == Earliest(m)
<1>1. lo \in Nat /\ lo <= m - 1 /\ lo \in lo..m - 1 /\ m - 1 \in lo..m - 1
  BY SlotAssumption DEF Earliest
<1>. HIDE DEF lo
<1>2. /\ \A c \in lo..m - 1 : c % Ring \in ValidSlots /\ file[c % Ring].header.batch = c
      /\ \A s \in ValidSlots : /\ file[s].header.batch \in lo..m - 1
                               /\ file[s].header.batch % Ring = s
  BY RangeIs DEF lo
<1>3. ValidSlots # {} /\ \A s \in ValidSlots : file[s].header.batch \in 0..m
  BY <1>1, <1>2
<1>4. /\ Newest(ValidSlots) \in ValidSlots /\ Oldest(ValidSlots) \in ValidSlots
      /\ \A s \in ValidSlots : /\ file[s].header.batch <= file[Newest(ValidSlots)].header.batch
                               /\ file[Oldest(ValidSlots)].header.batch <= file[s].header.batch
  BY <1>3, NewestIs
<1>5. file[Newest(ValidSlots)].header.batch = m - 1
  BY <1>1, <1>2, <1>4
<1>6. file[Oldest(ValidSlots)].header.batch = lo
  BY <1>1, <1>2, <1>4
<1>. QED  BY <1>2, <1>3, <1>4, <1>5, <1>6 DEF lo

\* A replay gives the last entry for an account in the slots after the first, and without one
\* the balance in the chunk of the first.
LEMMA ReplayIs ==
    ASSUME TypeOK, NEW m \in Nat \ {0}, Numbered(m), NEW accounts, NEW a \in FirstChunk,
           a \in accounts
    PROVE  \/ \E c \in Earliest(m) + 1..m - 1 :
                 /\ SlotHits(file[c % Ring], a) # {}
                 /\ SortedReplay(accounts).state[a] = SlotLast(file[c % Ring], a)
                 /\ \A d \in c + 1..m - 1 : SlotHits(file[d % Ring], a) = {}
           \/ /\ SortedReplay(accounts).state[a] = file[Earliest(m) % Ring].chunk[a]
              /\ \A d \in Earliest(m) + 1..m - 1 : SlotHits(file[d % Ring], a) = {}
<1>. DEFINE lo == Earliest(m)
            later == {s \in ValidSlots \ {Oldest(ValidSlots)} : Hits(s, a) # {}}
            x == SortedReplay(accounts).state[a]
<1>1. lo \in Nat /\ lo <= m - 1 /\ a \in Accounts
  BY SlotAssumption, FirstAccounts DEF Earliest
<1>2. /\ \A c \in lo..m - 1 : c % Ring \in ValidSlots /\ file[c % Ring].header.batch = c
      /\ \A s \in ValidSlots : /\ file[s].header.batch \in lo..m - 1
                               /\ file[s].header.batch % Ring = s
  BY RangeIs
<1>3. ValidSlots # {} /\ Oldest(ValidSlots) = lo % Ring
  BY EndsAre
<1>4. \A s : Hits(s, a) = SlotHits(file[s], a) /\ LastHit(s, a) = SlotLast(file[s], a)
  BY DEF Hits, LastHit, SlotHits, SlotLast, Entry, EntryOf
<1>5. x = IF later # {} THEN LastHit(Newest(later), a) ELSE file[Oldest(ValidSlots)].chunk[a]
  BY <1>1, <1>3 DEF SortedReplay
<1>. HIDE DEF lo, x
<1>6. ASSUME NEW d \in lo + 1..m - 1, SlotHits(file[d % Ring], a) # {}
      PROVE  d % Ring \in later /\ file[d % Ring].header.batch = d
  <2>1. d \in lo..m - 1 /\ lo \in lo..m - 1 /\ d # lo
    BY <1>1
  <2>2. d % Ring \in ValidSlots /\ file[d % Ring].header.batch = d
        /\ file[lo % Ring].header.batch = lo
    BY <1>2, <2>1
  <2>. QED  BY <1>3, <1>4, <1>6, <2>1, <2>2
<1>7. CASE later = {}
  BY <1>3, <1>5, <1>6, <1>7 DEF lo, x
<1>8. CASE later # {}
  <2>1. \A s \in later : file[s].header.batch \in 0..m
    BY <1>1, <1>2
  <2>2. later \subseteq ValidSlots /\ \A s \in later : s # lo % Ring /\ Hits(s, a) # {}
    BY <1>3
  <2>. HIDE DEF later
  <2>3. /\ Newest(later) \in later
        /\ \A s \in later : file[s].header.batch <= file[Newest(later)].header.batch
    BY <1>8, <2>1, NewestIs
  <2>4. PICK c \in lo..m - 1 : c = file[Newest(later)].header.batch
    BY <1>2, <2>2, <2>3
  <2>5. c % Ring = Newest(later) /\ c # lo
    BY <1>2, <2>2, <2>3, <2>4
  <2>6. c \in lo + 1..m - 1
    BY <1>1, <2>5
  <2>7. SlotHits(file[c % Ring], a) # {} /\ x = SlotLast(file[c % Ring], a)
    BY <1>4, <1>5, <1>8, <2>2, <2>3, <2>5
  <2>8. ASSUME NEW d \in c + 1..m - 1, SlotHits(file[d % Ring], a) # {} PROVE FALSE
    <3>1. d \in lo + 1..m - 1
      BY <1>1, <2>6
    <3>2. d % Ring \in later /\ file[d % Ring].header.batch = d
      BY <1>6, <2>8, <3>1
    <3>3. d <= c
      BY <2>3, <2>4, <3>2
    <3>. QED  BY <1>1, <3>3
  <2>. QED  BY <2>6, <2>7, <2>8 DEF lo, x
<1>. QED  BY <1>7, <1>8

\* A balance that no batch changes stays.
LEMMA Unchanging ==
    ASSUME NEW a, NEW c \in Int, NEW n \in Int, c <= n,
           \A d \in c + 1..n : Version(d)[a] = Version(d - 1)[a]
    PROVE  Version(n)[a] = Version(c)[a]
<1>. DEFINE T == {k \in 0..n - c : Version(c + k)[a] # Version(c)[a]}
<1>. SUFFICES ASSUME Version(n)[a] # Version(c)[a] PROVE FALSE
  OBVIOUS
<1>1. n - c \in 0..n - c /\ c + (n - c) = n
  OBVIOUS
<1>2. n - c \in T /\ T \in SUBSET Nat
  BY <1>1
<1>3. PICK k \in T : \A j \in T : k <= j
  BY <1>2, LeastOf
<1>4. k \in 0..n - c /\ Version(c + k)[a] # Version(c)[a]
  BY <1>3
<1>5. k # 0
  <2>1. k = 0 => c + k = c
    OBVIOUS
  <2>. QED  BY <1>4, <2>1
<1>6. k - 1 \in 0..n - c /\ ~(k <= k - 1) /\ c + k \in c + 1..n /\ (c + k) - 1 = c + (k - 1)
  BY <1>4, <1>5
<1>7. Version(c + (k - 1))[a] = Version(c)[a]
  BY <1>3, <1>6
<1>8. Version(c + k)[a] = Version(c + (k - 1))[a]
  BY <1>6
<1>. QED  BY <1>4, <1>7, <1>8

\* A replay over slots whose write sets are right gives a balance of the last of them, or
\* else it is the balance in the chunk of the first, or one of the slots after them.
LEMMA ReplayGives ==
    ASSUME TypeOK, NEW m \in Nat \ {0}, Numbered(m), NEW accounts, NEW a \in FirstChunk,
           a \in accounts, NEW n \in Earliest(m)..m - 1,
           \A c \in Earliest(m) + 1..n : HoldsBatch(file[c % Ring], c)
    PROVE  \/ SortedReplay(accounts).state[a] = Version(n)[a]
           \/ /\ SortedReplay(accounts).state[a] = file[Earliest(m) % Ring].chunk[a]
              /\ Version(n)[a] = Version(Earliest(m))[a]
           \/ \E c \in n + 1..m - 1 :
                 /\ SlotHits(file[c % Ring], a) # {}
                 /\ SortedReplay(accounts).state[a] = SlotLast(file[c % Ring], a)
<1>. DEFINE lo == Earliest(m)  x == SortedReplay(accounts).state[a]
<1>1. lo \in Nat /\ n \in Int /\ lo <= n /\ n <= m - 1 /\ a \in Accounts
  BY SlotAssumption, FirstAccounts DEF Earliest
<1>2. \A c \in lo + 1..n :
         /\ SlotHits(file[c % Ring], a) # {} => SlotLast(file[c % Ring], a) = Version(c)[a]
         /\ SlotHits(file[c % Ring], a) = {} => Version(c)[a] = Version(c - 1)[a]
  BY <1>1 DEF HoldsBatch, SlotRedoes
<1>3. \/ \E c \in lo + 1..m - 1 : /\ SlotHits(file[c % Ring], a) # {}
                                  /\ x = SlotLast(file[c % Ring], a)
                                  /\ \A d \in c + 1..m - 1 : SlotHits(file[d % Ring], a) = {}
      \/ /\ x = file[lo % Ring].chunk[a]
         /\ \A d \in lo + 1..m - 1 : SlotHits(file[d % Ring], a) = {}
  BY ReplayIs
<1>. HIDE DEF lo, x
<1>4. ASSUME NEW c \in lo + 1..m - 1, SlotHits(file[c % Ring], a) # {},
             x = SlotLast(file[c % Ring], a),
             \A d \in c + 1..m - 1 : SlotHits(file[d % Ring], a) = {}, c <= n
      PROVE  x = Version(n)[a]
  <2>1. c \in lo + 1..n /\ c \in Int
    BY <1>1, <1>4
  <2>2. x = Version(c)[a]
    BY <1>2, <1>4, <2>1
  <2>3. \A d \in c + 1..n : d \in lo + 1..n /\ d \in c + 1..m - 1
    BY <1>1, <2>1
  <2>4. \A d \in c + 1..n : Version(d)[a] = Version(d - 1)[a]
    BY <1>2, <1>4, <2>3
  <2>5. Version(n)[a] = Version(c)[a]
    BY <1>1, <1>4, <2>1, <2>4, Unchanging
  <2>. QED  BY <2>2, <2>5
<1>5. ASSUME \A d \in lo + 1..m - 1 : SlotHits(file[d % Ring], a) = {}
      PROVE  Version(n)[a] = Version(lo)[a]
  <2>1. \A d \in lo + 1..n : d \in lo + 1..m - 1
    BY <1>1
  <2>2. \A d \in lo + 1..n : Version(d)[a] = Version(d - 1)[a]
    BY <1>2, <1>5, <2>1
  <2>. QED  BY <1>1, <2>2, Unchanging
<1>6. ASSUME NEW c \in lo + 1..m - 1, ~(c <= n) PROVE c \in n + 1..m - 1
  BY <1>1, <1>6
<1>. QED  BY <1>3, <1>4, <1>5, <1>6 DEF lo, x

-----------------------------------------------------------------------------
\* Variants that log a slot for a batch: what is reconstructed.

\* How the three variants read.
LEMMA ReadsAre ==
    ASSUME TypeOK, ~WholeState
    PROVE  \/ program = "breaking" /\ Reconstruct = LatestChunk
           \/ /\ program \in {"server", "async"}
              /\ \E accounts : /\ FirstChunk \subseteq accounts
                               /\ Reconstruct = SortedReplay(accounts)
<1>1. CASE program = "breaking"
  BY <1>1 DEF Reconstruct, Mapped
<1>2. CASE program = "server"
  BY <1>2 DEF Reconstruct, Mapped, SortedReplayFirst
<1>3. CASE program = "async"
  <2>1. FirstChunk \subseteq Accounts
    BY FirstAccounts
  <2>. QED  BY <1>3, <2>1 DEF Reconstruct, Mapped, SortedReplayAll
<1>. QED  BY <1>1, <1>2, <1>3, ProgramIs DEF WholeState

\* The last batch of the file is reported; breaking takes its chunk.
LEMMA LastRead ==
    ASSUME TypeOK, ~WholeState, NEW m \in Nat \ {0}, Numbered(m)
    PROVE  /\ Reconstruct.batch = m - 1
           /\ program = "breaking" =>
                 \A a \in FirstChunk : Reconstruct.state[a] = file[(m - 1) % Ring].chunk[a]
<1>1. ValidSlots # {} /\ Newest(ValidSlots) = (m - 1) % Ring
  BY EndsAre
<1>2. file[(m - 1) % Ring].header.batch = m - 1
  <2>1. m - 1 \in Earliest(m)..m - 1
    BY SlotAssumption DEF Earliest
  <2>. QED  BY <2>1, RangeIs
<1>3. LatestChunk.batch = m - 1 /\ \A accounts : SortedReplay(accounts).batch = m - 1
  BY <1>1, <1>2 DEF LatestChunk, SortedReplay
<1>4. \A a \in FirstChunk : LatestChunk.state[a] = file[(m - 1) % Ring].chunk[a]
  BY <1>1, FirstAccounts DEF LatestChunk
<1>. QED  BY <1>3, <1>4, ReadsAre

\* A file without a batch gives zeros.
LEMMA NumberedNone ==
    ASSUME TypeOK, ~WholeState, Numbered(0)
    PROVE  Reconstruct.state = ZeroState /\ Reconstruct.batch = -1
<1>1. \A s \in Slots : file[s].header.batch = -1
  BY DEF Numbered
<1>. QED  BY <1>1, NothingRead

\* What a slot with a number holds.
LEMMA NumberHeld ==
    ASSUME NEW slot, NEW s, NEW m, Holds(slot, s, m)
    PROVE  /\ slot.header.batch # -1 => HoldsBatch(slot, slot.header.batch)
           /\ \/ m <= s /\ slot.header.batch = -1
              \/ \E b \in 0..m - 1 : m <= b + Ring /\ b % Ring = s /\ slot.header.batch = b
  BY DEF Holds, HoldsBatch, EmptySlot, NoHeader

\* The chunk of a batch has the balances after it.
LEMMA HeldChunk ==
    ASSUME NEW slot, NEW b, HoldsBatch(slot, b)
    PROVE  \A a \in FirstChunk : slot.chunk[a] = Version(b)[a]
  BY FirstAccounts DEF HoldsBatch, ChunkAt

\* The slot of batch b before it is committed: never used, or with the batch a round before.
LEMMA OldSlot ==
    ASSUME NEW b \in Nat, NEW old, Holds(old, b % Ring, b)
    PROVE  /\ \/ b < Ring /\ old = EmptySlot
              \/ b >= Ring /\ HoldsBatch(old, b - Ring)
           /\ \A a \in FirstChunk : old.chunk[a] = Version(b - Ring)[a]
<1>1. \/ b < Ring /\ old = EmptySlot
      \/ b >= Ring /\ HoldsBatch(old, b - Ring)
  <2>1. ASSUME b <= b % Ring, old = EmptySlot PROVE b < Ring
    <3>1. PICK s \in Slots : s = b % Ring
      BY TurnOf
    <3>2. b <= s /\ s \in 0..Ring - 1
      BY <2>1, <3>1 DEF Slots
    <3>. QED  BY <3>2, SlotAssumption
  <2>2. ASSUME NEW c \in 0..b - 1, b <= c + Ring, c % Ring = b % Ring, HoldsBatch(old, c)
        PROVE  b >= Ring /\ HoldsBatch(old, b - Ring)
    <3>1. c \in Nat /\ c < b
      OBVIOUS
    <3>2. ~(b < c + Ring)
      BY <2>2, <3>1, TurnsApart
    <3>3. c = b - Ring /\ b >= Ring
      BY <2>2, <3>1, <3>2, SlotAssumption
    <3>. QED  BY <2>2, <3>3
  <2>. QED  BY <2>1, <2>2 DEF Holds
<1>2. ASSUME b < Ring, old = EmptySlot, NEW a \in FirstChunk
      PROVE  old.chunk[a] = Version(b - Ring)[a]
  <2>1. b - Ring < 0
    BY <1>2, SlotAssumption
  <2>. QED  BY <1>2, <2>1, FirstAccounts DEF Version, ZeroState, EmptySlot
<1>. QED  BY <1>1, <1>2, HeldChunk

\* Between two commits the last batch is read, and its balances.
LEMMA CommittedRead ==
    ASSUME Base, ~WholeState, SlotsLeft, ~Committing
    PROVE  /\ Reconstruct.batch = job.batch
           /\ \A a \in FirstChunk : Reconstruct.state[a] = Version(job.batch)[a]
<1>1. TypeOK /\ job.batch \in Int /\ job.batch >= -1
  BY DEF Base, TypeOK
<1>2. PICK m \in Nat : m = job.batch + 1
  BY <1>1
<1>3. \A s \in Slots : Holds(file[s], s, m)
  BY <1>2 DEF SlotsLeft
<1>4. Numbered(m)
  BY <1>3, NumberHeld DEF Numbered
<1>5. CASE m = 0
  <2>1. job.batch = -1
    BY <1>1, <1>2, <1>5
  <2>. QED  BY <1>1, <1>4, <1>5, <2>1, NumberedNone DEF Version
<1>6. CASE m # 0
  <2>1. m \in Nat \ {0} /\ m - 1 = job.batch
    BY <1>1, <1>2, <1>6
  <2>2. ASSUME NEW c \in Earliest(m)..m - 1 PROVE HoldsBatch(file[c % Ring], c)
    <3>1. c % Ring \in Slots /\ file[c % Ring].header.batch = c /\ c # -1
      BY <1>4, RangeIs, TurnOf
    <3>. QED  BY <1>3, <3>1, NumberHeld
  <2>3. Earliest(m) \in Earliest(m)..m - 1 /\ m - 1 \in Earliest(m)..m - 1
        /\ \A c \in Earliest(m) + 1..m - 1 : c \in Earliest(m)..m - 1
    BY <2>1, SlotAssumption DEF Earliest
  <2>4. ASSUME NEW c \in Earliest(m)..m - 1, NEW a \in FirstChunk
        PROVE  file[c % Ring].chunk[a] = Version(c)[a]
    BY <2>2, HeldChunk
  <2>5. ASSUME NEW accounts, FirstChunk \subseteq accounts, NEW a \in FirstChunk
        PROVE  SortedReplay(accounts).state[a] = Version(m - 1)[a]
    <3>1. ~ \E c \in (m - 1) + 1..m - 1 : TRUE
      BY <2>1
    <3>. QED  BY <1>1, <1>4, <2>1, <2>2, <2>3, <2>4, <2>5, <3>1, ReplayGives
  <2>6. /\ Reconstruct.batch = m - 1
        /\ program = "breaking" =>
              \A a \in FirstChunk : Reconstruct.state[a] = Version(m - 1)[a]
    BY <1>1, <1>4, <2>1, <2>3, <2>4, LastRead
  <2>. QED  BY <1>1, <2>1, <2>5, <2>6, ReadsAre
<1>. QED  BY <1>5, <1>6

\* While the slot of batch b has its old header the file reads as before the commit, except
\* that the chunk may be the new one in the slot that is read from.
LEMMA OldHeaderRead ==
    ASSUME Base, ~WholeState, NEW b \in Nat, NEW old, Holds(old, b % Ring, b),
           file[b % Ring].header = old.header,
           \A a \in FirstChunk : file[b % Ring].chunk[a] \in {old.chunk[a], Version(b)[a]},
           \A s \in Slots \ {b % Ring} : Holds(file[s], s, b), NEW a \in FirstChunk
    PROVE  Reconstruct.state[a] \in {Version(b)[a], Version(b - 1)[a]}
<1>. DEFINE t == b % Ring  lo == Earliest(b)
<1>1. TypeOK /\ t \in Slots /\ b - 1 \in Int
  BY TurnOf DEF Base
<1>2. Numbered(b)
  BY NumberHeld DEF Numbered
<1>3. CASE b = 0
  BY <1>1, <1>2, <1>3, NumberedNone DEF Version
<1>4. CASE b # 0
  <2>1. b \in Nat \ {0} /\ lo \in Nat /\ lo <= b - 1 /\ b <= lo + Ring /\ lo \in lo..b - 1
        /\ b - 1 \in lo..b - 1
    BY <1>4, SlotAssumption DEF Earliest
  <2>. HIDE DEF lo, t
  <2>2. ASSUME NEW c \in lo..b - 1, b < c + Ring PROVE HoldsBatch(file[c % Ring], c)
    <3>1. c \in Nat /\ c < b
      BY <2>1
    <3>2. c % Ring # t /\ c % Ring \in Slots
      BY <2>2, <3>1, TurnsApart, TurnOf DEF t
    <3>3. file[c % Ring].header.batch = c /\ c # -1
      BY <1>2, <3>1, RangeIs DEF lo
    <3>4. Holds(file[c % Ring], c % Ring, b)
      BY <3>2 DEF t
    <3>. QED  BY <3>3, <3>4, NumberHeld
  <2>3. \A c \in lo + 1..b - 1 : c \in lo..b - 1 /\ b < c + Ring
    BY <2>1, SlotAssumption
  <2>4. /\ file[lo % Ring].chunk[a] \in {Version(lo)[a], Version(b)[a]}
        /\ file[(b - 1) % Ring].chunk[a] \in {Version(b - 1)[a], Version(b)[a]}
    <3>1. ASSUME NEW c \in lo..b - 1, b <= c + Ring
          PROVE  file[c % Ring].chunk[a] \in {Version(c)[a], Version(b)[a]}
      <4>1. CASE b < c + Ring
        BY <2>2, <4>1, HeldChunk
      <4>2. CASE b = c + Ring
        <5>1. c \in Nat
          BY <2>1
        <5>2. c % Ring = t /\ b - Ring = c
          BY <4>2, <5>1, TurnAgain, SlotAssumption DEF t
        <5>3. old.chunk[a] = Version(b - Ring)[a]
          BY OldSlot
        <5>. QED  BY <5>2, <5>3 DEF t
      <4>. QED  BY <3>1, <4>1, <4>2, <2>1, SlotAssumption
    <3>2. b <= (b - 1) + Ring
      BY SlotAssumption
    <3>. QED  BY <2>1, <3>1, <3>2
  <2>5. ASSUME NEW accounts, FirstChunk \subseteq accounts
        PROVE  SortedReplay(accounts).state[a] \in {Version(b)[a], Version(b - 1)[a]}
    <3>1. ~ \E c \in (b - 1) + 1..b - 1 : TRUE
      BY <2>1
    <3>2. \A c \in lo + 1..b - 1 : HoldsBatch(file[c % Ring], c)
      BY <2>2, <2>3
    <3>3. \/ SortedReplay(accounts).state[a] = Version(b - 1)[a]
          \/ /\ SortedReplay(accounts).state[a] = file[lo % Ring].chunk[a]
             /\ Version(b - 1)[a] = Version(lo)[a]
      BY <1>1, <1>2, <2>1, <2>5, <3>1, <3>2, ReplayGives DEF lo
    <3>. QED  BY <2>4, <3>3
  <2>6. program = "breaking" => Reconstruct.state[a] = file[(b - 1) % Ring].chunk[a]
    BY <1>1, <1>2, <2>1, LastRead
  <2>. QED  BY <1>1, <2>4, <2>5, <2>6, ReadsAre
<1>. QED  BY <1>3, <1>4

\* With its new header it is read last: its entries are those of the batch or, if the
\* header goes first, those that were in the slot before.
LEMMA NewHeaderRead ==
    ASSUME Base, ~WholeState, NEW b \in Nat, b = job.batch, JobOf(job.batch, job),
           NEW old \in SlotRecords, Holds(old, b % Ring, b),
           Mixture(file[b % Ring], old, b % Ring), HasPart(file[b % Ring], b % Ring, "header"),
           \A s \in Slots \ {b % Ring} : Holds(file[s], s, b), NEW a \in FirstChunk
    PROVE  Reconstruct.state[a] \in {Version(b)[a], Version(b - 1)[a]}
                \union (IF program = "async" THEN {} ELSE {Version(b - Ring)[a]})
<1>. DEFINE t == b % Ring  m == b + 1  lo == Earliest(m)  slot == file[t]
            mayBe == {Version(b)[a], Version(b - 1)[a]}
                        \union (IF program = "async" THEN {} ELSE {Version(b - Ring)[a]})
<1>1. /\ TypeOK /\ t \in Slots /\ slot \in SlotRecords /\ a \in Accounts
  BY TurnOf, FirstAccounts DEF Base, TypeOK
<1>2. slot.header.batch = b
  <2>1. slot.header = Content(t).header
    BY DEF HasPart
  <2>. HIDE DEF t, slot
  <2>2. Content(t).header = [batch |-> job.batch, count |-> job.accum[t].count]
    BY <1>1, ContentIs
  <2>. QED  BY <2>1, <2>2
<1>3. /\ \A p \in PartNames : slot[p] = old[p] \/ HasPart(slot, t, p)
      /\ program = "async" => \A p \in PartNames : HasPart(slot, t, p)
  <2>1. slot.header # old.header
    <3>1. old.header.batch # b
      BY NumberHeld
    <3>. QED  BY <1>2, <3>1
  <2>. QED  BY <2>1 DEF Mixture
<1>4. /\ slot.chunk = old.chunk \/ HasPart(slot, t, "chunk")
      /\ slot.writes = old.writes \/ HasPart(slot, t, "writes")
      /\ program = "async" => HasPart(slot, t, "chunk") /\ HasPart(slot, t, "writes")
  BY <1>3 DEF PartNames
<1>5. m \in Nat \ {0} /\ lo \in Nat /\ lo <= b /\ b <= lo + Ring /\ b \in lo..m - 1 /\ m - 1 = b
      /\ b < lo + Ring
  BY SlotAssumption DEF Earliest
<1>. HIDE DEF t, slot
<1>6. ASSUME NEW s \in Slots \ {t} PROVE Holds(file[s], s, m)
  <2>1. Holds(file[s], s, b) /\ b % Ring # s
    BY DEF t
  <2>. QED  BY <2>1, HoldsOn
<1>7. Numbered(m)
  <2>. SUFFICES ASSUME NEW s \in Slots
                PROVE  \/ m <= s /\ file[s].header.batch = -1
                       \/ \E c \in 0..m - 1 : m <= c + Ring /\ c % Ring = s
                                              /\ file[s].header.batch = c
    BY DEF Numbered
  <2>1. CASE s = t
    <3>1. b \in 0..m - 1 /\ m <= b + Ring
      BY SlotAssumption
    <3>. QED  BY <1>2, <2>1, <3>1 DEF t, slot
  <2>2. CASE s # t
    BY <1>6, <2>2, NumberHeld
  <2>. QED  BY <2>1, <2>2
<1>. HIDE DEF lo, m
<1>8. ASSUME NEW c \in lo..m - 1, c # b PROVE HoldsBatch(file[c % Ring], c)
  <2>1. c \in Nat /\ c < b /\ b < c + Ring
    BY <1>5, <1>8, SlotAssumption
  <2>2. c % Ring # t /\ c % Ring \in Slots
    BY <2>1, TurnsApart, TurnOf DEF t
  <2>3. file[c % Ring].header.batch = c /\ c # -1
    BY <1>5, <1>7, <2>1, RangeIs DEF lo
  <2>. QED  BY <1>6, <2>2, <2>3, NumberHeld
<1>9. slot.chunk[a] \in mayBe
  <2>1. ASSUME HasPart(slot, t, "chunk") PROVE slot.chunk[a] = Version(b)[a]
    <3>1. slot.chunk = ChunkAt(job.state, 0) /\ job.state = Version(b)
      BY <1>1, <2>1, ContentIs DEF HasPart, JobOf
    <3>. QED  BY <3>1, FirstAccounts DEF ChunkAt
  <2>2. old.chunk[a] = Version(b - Ring)[a]
    BY OldSlot
  <2>. QED  BY <1>4, <2>1, <2>2
<1>10. ASSUME SlotHits(slot, a) # {} PROVE SlotLast(slot, a) \in mayBe \/ program = "breaking"
  <2>1. CASE HasPart(slot, t, "writes")
    <3>1. SlotRedoes(slot, Version(b - 1), Version(b))
      BY <1>1, <2>1, WritesNow DEF t, slot
    <3>. QED  BY <1>1, <1>10, <3>1 DEF SlotRedoes
  <2>2. CASE slot.writes = old.writes /\ program = "server"
    <3>1. CASE old = EmptySlot /\ b < Ring
      <4>1. slot.writes = <<>>
        BY <2>2, <3>1 DEF EmptySlot
      <4>2. Max(SlotHits(slot, a)) \in Nat \ {0}
        <5>1. PICK h : h = Max(SlotHits(slot, a))
          OBVIOUS
        <5>2. h \in SlotHits(slot, a) /\ slot.header.count \in Nat
          BY <1>1, <1>10, <5>1, LastHitIs DEF SlotRecords
        <5>3. h \in 1..slot.header.count
          BY <5>2 DEF SlotHits
        <5>. QED  BY <5>1, <5>2, <5>3
      <4>3. EntryOf(slot, Max(SlotHits(slot, a))) = <<0, 0>>
        <5>1. \A i \in Nat \ {0} : ~(i <= Len(<<>>))
          OBVIOUS
        <5>. QED  BY <4>1, <4>2, <5>1 DEF EntryOf
      <4>4. SlotLast(slot, a) = 0
        BY <4>3 DEF SlotLast
      <4>5. Version(b - Ring)[a] = 0
        <5>1. b - Ring < 0
          BY <3>1, SlotAssumption
        <5>. QED  BY <1>1, <5>1 DEF Version, ZeroState
      <4>. QED  BY <2>2, <4>4, <4>5
    <3>2. CASE HoldsBatch(old, b - Ring)
      <4>1. old.header.count = EntryCount /\ slot.header.count = EntryCount
        <5>1. slot.header = [batch |-> job.batch, count |-> job.accum[t].count]
          BY <1>1, ContentIs DEF HasPart, t, slot
        <5>2. job.accum[t].count = EntryCount
          BY <2>2 DEF JobOf, SetOf, t
        <5>. QED  BY <2>2, <3>2, <5>1, <5>2 DEF HoldsBatch
      <4>2. \A i : EntryOf(slot, i) = EntryOf(old, i)
        BY <2>2 DEF EntryOf
      <4>3. SlotHits(slot, a) = SlotHits(old, a)
        BY <4>1, <4>2 DEF SlotHits
      <4>4. SlotLast(slot, a) = SlotLast(old, a)
        BY <4>2, <4>3 DEF SlotLast
      <4>5. SlotLast(old, a) = Version(b - Ring)[a]
        BY <1>1, <1>10, <3>2, <4>3 DEF HoldsBatch, SlotRedoes
      <4>. QED  BY <2>2, <4>4, <4>5
    <3>. QED  BY <3>1, <3>2, OldSlot
  <2>3. program \in {"server", "breaking", "async"}
    BY <1>1, ProgramIs DEF WholeState
  <2>. QED  BY <1>4, <2>1, <2>2, <2>3
<1>. HIDE DEF mayBe
<1>11. ASSUME NEW accounts, FirstChunk \subseteq accounts, program # "breaking"
       PROVE  SortedReplay(accounts).state[a] \in mayBe
  <2>. DEFINE x == SortedReplay(accounts).state[a]
  <2>. HIDE DEF x
  <2>1. CASE lo = b
    <3>1. \A c \in lo + 1..b : HoldsBatch(file[c % Ring], c)
      BY <1>5, <2>1
    <3>2. ~ \E c \in b + 1..m - 1 : TRUE
      BY <1>5
    <3>3. x = Version(b)[a] \/ x = file[lo % Ring].chunk[a]
      BY <1>1, <1>5, <1>7, <1>11, <3>1, <3>2, ReplayGives DEF x, lo
    <3>. QED  BY <1>9, <2>1, <3>3 DEF x, mayBe, t, slot
  <2>2. CASE lo # b
    <3>1. b - 1 \in lo..m - 1 /\ lo \in lo..m - 1 /\ (b - 1) + 1 = b
      BY <1>5, <2>2
    <3>2. \A c \in lo + 1..b - 1 : c \in lo..m - 1 /\ c # b
      BY <1>5
    <3>3. \A c \in lo + 1..b - 1 : HoldsBatch(file[c % Ring], c)
      BY <1>8, <3>2
    <3>4. \/ x = Version(b - 1)[a]
          \/ x = file[lo % Ring].chunk[a] /\ Version(b - 1)[a] = Version(lo)[a]
          \/ \E c \in (b - 1) + 1..m - 1 : /\ SlotHits(file[c % Ring], a) # {}
                                           /\ x = SlotLast(file[c % Ring], a)
      BY <1>1, <1>5, <1>7, <1>11, <3>1, <3>3, ReplayGives DEF x, lo
    <3>5. file[lo % Ring].chunk[a] = Version(lo)[a]
      BY <1>8, <2>2, <3>1, HeldChunk
    <3>6. ASSUME NEW c \in (b - 1) + 1..m - 1 PROVE c = b
      BY <1>5
    <3>. QED  BY <1>10, <1>11, <3>4, <3>5, <3>6 DEF x, mayBe, t, slot
  <2>. QED  BY <2>1, <2>2 DEF x
<1>12. program = "breaking" => Reconstruct.state[a] = slot.chunk[a]
  BY <1>1, <1>5, <1>7, LastRead DEF slot, t
<1>. QED  BY <1>1, <1>9, <1>11, <1>12, ReadsAre DEF mayBe

\* ReconstructsBatch: what is read is the last batch committed, and in the middle of a commit
\* each balance is of that batch, of the one before, or of the one a round before.
THEOREM RingsReconstructBatch == Spec => []ReconstructsBatch
<1>1. ASSUME Base, JobsFollow, BatchFollows, BatchLeft PROVE ReconstructsBatch
  <2>. DEFINE b == job.batch  t == b % Ring
              mayBe(a) == {Version(b)[a], Version(b - 1)[a]}
                             \union (IF program = "async" THEN {} ELSE {Version(b - Ring)[a]})
  <2>. SUFFICES ASSUME ~WholeState, failedAt = -1, runs = 1,
                       ~(program = "async" /\ cut = "power")
                PROVE  IF Committing
                         THEN \A a \in FirstChunk : Reconstruct.state[a] \in mayBe(a)
                         ELSE /\ Reconstruct.batch = b
                              /\ ChunkAt(Reconstruct.state, 0) = ChunkAt(Version(b), 0)
    BY DEF ReconstructsBatch
  <2>1. SlotsLeft /\ TypeOK
    BY <1>1, SlotsUp DEF BatchLeft, Base
  <2>2. CASE ~Committing
    <3>1. Reconstruct.batch = b /\ \A a \in FirstChunk : Reconstruct.state[a] = Version(b)[a]
      BY <1>1, <2>1, <2>2, CommittedRead
    <3>. QED  BY <2>2, <3>1, FirstAccounts DEF ChunkAt
  <2>3. CASE Committing
    <3>1. /\ b >= 0 /\ \A s \in Slots \ {t} : Holds(file[s], s, b)
          /\ \E old \in SlotRecords : Holds(old, t, b) /\ Mixture(file[t], old, t)
      BY <2>1, <2>3 DEF SlotsLeft
    <3>2. b \in Nat /\ JobOf(b, job)
      BY <1>1, <2>1, <3>1 DEF TypeOK, JobsFollow
    <3>3. PICK old \in SlotRecords : Holds(old, t, b) /\ Mixture(file[t], old, t)
      BY <3>1
    <3>4. t \in Slots
      BY <3>2, TurnOf
    <3>5. ASSUME HasPart(file[t], t, "header"), NEW a \in FirstChunk
          PROVE  Reconstruct.state[a] \in mayBe(a)
      BY <1>1, <3>1, <3>2, <3>3, <3>5, NewHeaderRead
    <3>6. ASSUME file[t].header = old.header, NEW a \in FirstChunk
          PROVE  Reconstruct.state[a] \in mayBe(a)
      <4>1. ASSUME NEW c \in FirstChunk PROVE file[t].chunk[c] \in {old.chunk[c], Version(b)[c]}
        <5>1. file[t].chunk = old.chunk \/ HasPart(file[t], t, "chunk")
          BY <3>3 DEF Mixture, PartNames
        <5>2. ASSUME HasPart(file[t], t, "chunk") PROVE file[t].chunk[c] = Version(b)[c]
          <6>1. job.state = Version(b)
            BY <3>2 DEF JobOf
          <6>2. file[t].chunk = Content(t).chunk
            BY <5>2 DEF HasPart
          <6>. HIDE DEF t, b
          <6>3. Content(t).chunk = ChunkAt(job.state, 0)
            BY <2>1, <3>4, ContentIs
          <6>. QED  BY <6>1, <6>2, <6>3, FirstAccounts DEF ChunkAt
        <5>. QED  BY <5>1, <5>2
      <4>2. Reconstruct.state[a] \in {Version(b)[a], Version(b - 1)[a]}
        BY <1>1, <3>1, <3>2, <3>3, <3>6, <4>1, OldHeaderRead
      <4>. QED  BY <4>2
    <3>7. file[t].header = old.header \/ HasPart(file[t], t, "header")
      BY <3>3 DEF Mixture, PartNames
    <3>. QED  BY <2>3, <3>5, <3>6, <3>7
  <2>. QED  BY <2>2, <2>3
<1>. QED  BY <1>1, InitBase, NextBase, HandOverInit, HandOverNext, JobsFollowInit,
             JobsFollowNext, BatchFollowsInit, BatchFollowsNext, BatchLeftInit, BatchLeftNext,
             PTL DEF Spec

\* HashVerifies: the hash of an orderly end is that of what the next start reads.
THEOREM RingsHashVerifies == Spec => []HashVerifies
<1>1. ASSUME Base, PassBase, HandOver, JobsFollow, BatchFollows PROVE HashVerifies
  <2>. SUFFICES ASSUME main = "finish", worker = "down", failedAt = -1,
                       program \in {"glaze", "memset"} =>
                          total % Ring # 0 \/ (Len(after) - 1) % Ring = 0,
                       WholeState \/ runs = 1
                PROVE  Hashed(Reconstruct.state) = Hashed(state)
    BY DEF HashVerifies
  <2>1. TypeOK /\ Control /\ todo = <<>> /\ batch \in Nat
        /\ Len(after) = batch + 1 /\ after[batch + 1] = state
    BY <1>1 DEF Base, Control, TypeOK
  <2>2. CASE WholeState
    <3>1. Reconstruct.state = passed
      BY <1>1, <2>1, <2>2, PassRestores DEF PassBase
    <3>2. Mapped \/ total % Ring # 0 \/ batch % Ring = 0
      <4>1. (Len(after) - 1) = batch
        BY <2>1
      <4>. QED  BY <2>1, <2>2, <4>1 DEF WholeState, Mapped
    <3>3. state = passed
      BY <1>1, <2>2, <3>2 DEF PassBase, StateFollows
    <3>. QED  BY <3>1, <3>3
  <2>3. CASE ~WholeState
    <3>1. SlotsLeft /\ ~Committing
      BY <1>1, <2>1, <2>3, SlotsUp DEF Committing
    <3>2. \A a \in FirstChunk : Reconstruct.state[a] = Version(job.batch)[a]
      BY <1>1, <2>3, <3>1, CommittedRead
    <3>3. job.batch = batch - 1
      <4>1. CASE Sequential
        BY <1>1, <2>3, <4>1 DEF JobsFollow
      <4>2. CASE ~Sequential
        <5>1. box = Empty /\ job.batch = Taken - 1
          BY <1>1, <2>3, <4>2 DEF HandOver
        <5>. QED  BY <5>1 DEF Taken, Submitted
      <4>. QED  BY <4>1, <4>2
    <3>4. Version(batch - 1) = state
      <4>1. CASE batch = 0
        BY <1>1, <2>1, <2>3, <4>1 DEF JobsFollow, Version
      <4>2. CASE batch # 0
        <5>1. ~(batch - 1 < 0) /\ (batch - 1) + 2 = batch + 1
          BY <2>1, <4>2
        <5>. QED  BY <2>1, <5>1 DEF Version
      <4>. QED  BY <4>1, <4>2
    <3>. QED  BY <2>3, <3>2, <3>3, <3>4, FirstAccounts DEF Hashed, ChunkAt
  <2>. QED  BY <2>2, <2>3
<1>. QED  BY <1>1, InitBase, NextBase, PassBaseInit, PassBaseNext, HandOverInit, HandOverNext,
             JobsFollowInit, JobsFollowNext, BatchFollowsInit, BatchFollowsNext, PTL DEF Spec
=============================================================================
