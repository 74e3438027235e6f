----------------------- MODULE TransactionRingProofs -----------------------
(***************************************************************************)
(* Proofs about the ring of entries, for every size of the ring, all       *)
(* batches and every number of starts: however the program is killed, the  *)
(* ring in the file is the latest entries, and every account that it tells *)
(* is recovered as it was after the newest of them.                        *)
(***************************************************************************)
EXTENDS TransactionRing, FiniteSetTheorems, SequenceTheorems, WellFoundedInduction, TLAPS

\* Head, tail and count; a file without a signature has had no entries.
Metas == {m \in [sig : {"none", "zero", "signed"}, head : 0..Capacity-1,
                 tail : 0..Capacity-1, count : Nat] :
            m.sig # "signed" => m.head = 0 /\ m.tail = 0 /\ m.count = 0}

\* The same head, tail and count.
SamePlace(m, n) == m.head = n.head /\ m.tail = n.tail /\ m.count = n.count

\* The ring that m describes is the latest entries of m.count, in s.
Holds(s, m) ==
    /\ Length(m) = IF m.count < Capacity THEN m.count ELSE Capacity - 1
    /\ \A n \in 1..Length(m) : /\ s[(m.tail - n) % Capacity].valid
                               /\ s[(m.tail - n) % Capacity].body.batch = m.count + 1 - n

\* A function on the slots.
IsRing(s) == s = [i \in 0..Capacity-1 |-> s[i]]

\* The file, and the device.
Files ==
    /\ IsRing(slots) /\ fileMeta \in Metas /\ Holds(slots, fileMeta)
    /\ IsRing(diskSlots) /\ diskMeta \in Metas /\ Holds(diskSlots, diskMeta)
    /\ committed \in Nat /\ committed <= diskMeta.count /\ diskMeta.count <= fileMeta.count

\* The places at which an entry is being written.
Writing == {"write", "writing", "mark", "metadata"}

\* The metadata in memory is that of the file, but for the head while an entry is being
\* written behind the tail.
InMemory ==
    /\ phase \in {"down", "create", "recover", "run", "undefined"}
    /\ pc \in {"read", "sync", "apply"} \union Writing
    /\ phase \in {"create", "recover", "run"} =>
          /\ meta \in Metas /\ meta.sig = "signed"
          /\ meta.tail = fileMeta.tail /\ meta.count = fileMeta.count
          /\ pc \notin Writing => meta.head = fileMeta.head
    /\ phase \in {"create", "recover"} => pc = "read"
    /\ phase = "create" => meta = EmptyRing

\* The head has made room for the entry, which is the next one.
Ahead ==
    phase = "run" /\ pc \in Writing =>
       /\ meta.head = IF NextSlot(fileMeta.tail) = fileMeta.head
                        THEN NextSlot(fileMeta.head) ELSE fileMeta.head
       /\ entry.batch = meta.count + 1

\* What of it is in its slot.
Behind ==
    phase = "run" =>
       /\ pc = "writing" => slots[meta.tail] = [valid |-> FALSE, body |-> Torn]
       /\ pc = "mark" => slots[meta.tail] = [valid |-> FALSE, body |-> entry]
       /\ pc = "metadata" => slots[meta.tail].valid /\ slots[meta.tail].body = entry
       /\ pc = "sync" => entry.batch = meta.count

\* Nothing is claimed of a ring whose order a power loss has broken.
RingInv == ~disordered => Files /\ InMemory /\ Ahead /\ Behind

-----------------------------------------------------------------------------
\* Places in the ring.

\* There are at least two slots.
LEMMA Room == Capacity \in Nat /\ Capacity > 1
  BY RingAssumption DEF Capacity

\* Wrapping a number that is at most one round outside the ring.
LEMMA Wrap == \A i \in -Capacity..2*Capacity-1 :
    i % Capacity = CASE i < 0 -> i + Capacity
                     [] i >= 0 /\ i < Capacity -> i
                     [] OTHER -> i - Capacity
<1>. TAKE i \in -Capacity..2*Capacity-1
<1>. DEFINE C == Capacity
            q == i \div C
            r == i % C
<1>1. C \in Nat /\ C > 1
  BY Room
<1>. HIDE DEF C
<1>2. i \in Int /\ -C <= i /\ i < 2*C
  BY <1>1 DEF C
<1>3. q \in Int /\ r \in 0..C-1 /\ i = C * q + r
  BY <1>1, <1>2
<1>. HIDE DEF q, r
<1>4. q \in {-1, 0, 1}
  <2>1. ~ (q >= 2)
    <3>. SUFFICES ASSUME q >= 2 PROVE FALSE
      OBVIOUS
    <3>1. C * q >= C * 2
      BY <1>1, <1>3
    <3>. QED  BY <1>1, <1>2, <1>3, <3>1
  <2>2. ~ (q <= -2)
    <3>. SUFFICES ASSUME q <= -2 PROVE FALSE
      OBVIOUS
    <3>1. C * q <= C * (-2)
      BY <1>1, <1>3
    <3>. QED  BY <1>1, <1>2, <1>3, <3>1
  <2>. QED  BY <1>3, <2>1, <2>2
<1>5. r = CASE i < 0 -> i + C [] i >= 0 /\ i < C -> i [] OTHER -> i - C
  <2>1. C * (-1) = -C /\ C * 0 = 0 /\ C * 1 = C
    BY <1>1
  <2>2. i = r \/ i = r + C \/ i = r - C
    BY <1>1, <1>3, <1>4, <2>1
  <2>. QED  BY <1>1, <1>2, <1>3, <2>2
<1>. QED  BY <1>5 DEF C, r

\* The slot after another.
LEMMA Following == \A i \in 0..Capacity-1 :
    /\ NextSlot(i) \in 0..Capacity-1
    /\ NextSlot(i) = IF i + 1 = Capacity THEN 0 ELSE i + 1
  BY Room, Wrap DEF NextSlot

\* The slot n before another.
LEMMA Before == \A i \in 0..Capacity-1, n \in 0..Capacity-1 :
    /\ (i - n) % Capacity \in 0..Capacity-1
    /\ (i - n) % Capacity = IF n <= i THEN i - n ELSE i - n + Capacity
  BY Room, Wrap

\* The length of a ring, from its ends.
LEMMA LengthIs ==
    ASSUME NEW m \in Metas
    PROVE  /\ Length(m) \in 0..Capacity-1
           /\ Length(m) = IF m.head <= m.tail THEN m.tail - m.head
                                              ELSE m.tail - m.head + Capacity
  BY Before DEF Length, Metas

\* The slot at the tail is not in the ring.
LEMMA TailIsFree ==
    \A t \in 0..Capacity-1, n \in 1..Capacity-1 : (t - n) % Capacity # t
  BY Before, Room

\* None before it is the slot itself.
LEMMA TailItself == \A t \in 0..Capacity-1 : (t - 0) % Capacity = t
<1>. TAKE t \in 0..Capacity-1
<1>1. PICK n \in 0..Capacity-1 : n = 0
  BY Room
<1>2. (t - n) % Capacity = t
  BY <1>1, Before, Room
<1>. QED  BY <1>1, <1>2

\* A slot of the ring, counted from the tail, is found in InRing.
LEMMA RingSlots ==
    ASSUME NEW m \in Metas, NEW n \in 1..Length(m)
    PROVE  (m.tail - n) % Capacity \in InRing(m)
<1>. DEFINE i == (m.tail - n) % Capacity
<1>1. m.head \in 0..Capacity-1 /\ m.tail \in 0..Capacity-1
  BY DEF Metas
<1>2. Length(m) \in 0..Capacity-1
      /\ Length(m) = IF m.head <= m.tail THEN m.tail - m.head
                                         ELSE m.tail - m.head + Capacity
  BY LengthIs
<1>3. n \in 1..Capacity-1 /\ n <= Length(m)
  BY <1>2, Room
<1>4. i \in 0..Capacity-1 /\ i = IF n <= m.tail THEN m.tail - n ELSE m.tail - n + Capacity
  BY <1>1, <1>3, Before, Room
<1>. HIDE DEF i
<1>5. (i - m.head) % Capacity = IF m.head <= i THEN i - m.head ELSE i - m.head + Capacity
  BY <1>1, <1>4, Before
<1>6. (i - m.head) % Capacity < Length(m)
  BY <1>1, <1>2, <1>3, <1>4, <1>5, Room
<1>7. i \in InRing(m)
  BY <1>4, <1>6 DEF InRing, Length
<1>. QED  BY <1>7 DEF i

\* Only the slots of the ring matter.
LEMMA OnlyRing ==
    ASSUME NEW m \in Metas, NEW s, NEW t, Holds(s, m), \A i \in InRing(m) : t[i] = s[i]
    PROVE  Holds(t, m)
  BY RingSlots DEF Holds

\* A ring that has had no entries.
LEMMA EmptyHolds ==
    ASSUME NEW m \in Metas, m.head = 0, m.tail = 0, m.count = 0, NEW s
    PROVE  Holds(s, m)
  BY LengthIs, Room DEF Holds

-----------------------------------------------------------------------------
\* Writing an entry.

\* While an entry is being written the slot behind the tail changes, and no other.
LEMMA WriteBehind ==
    ASSUME NEW m \in Metas, NEW s, NEW t, Holds(s, m),
           \A i \in 0..Capacity-1 : i # m.tail => t[i] = s[i]
    PROVE  Holds(t, m)
<1>1. \A n \in 1..Length(m) : /\ (m.tail - n) % Capacity \in 0..Capacity-1
                              /\ (m.tail - n) % Capacity # m.tail
  <2>1. m.tail \in 0..Capacity-1 /\ Length(m) \in 0..Capacity-1
    BY LengthIs DEF Metas
  <2>2. \A n \in 1..Length(m) : n \in 1..Capacity-1 /\ n \in 0..Capacity-1
    BY <2>1, Room
  <2>. QED  BY <2>1, <2>2, Before, TailIsFree
<1>. QED  BY <1>1 DEF Holds

\* The metadata of one entry more.
Stepped(m) ==
    [sig |-> "signed",
     head |-> IF NextSlot(m.tail) = m.head THEN NextSlot(m.head) ELSE m.head,
     tail |-> NextSlot(m.tail), count |-> m.count + 1]

\* It counts one entry more, or leaves out the oldest, and the entries are one place further
\* from its tail.
LEMMA SteppedIs ==
    ASSUME NEW m \in Metas
    PROVE  LET w == Stepped(m)
           IN  /\ w \in Metas /\ w.tail = NextSlot(m.tail) /\ w.count = m.count + 1
               /\ Length(w) = IF Length(m) = Capacity - 1 THEN Length(m) ELSE Length(m) + 1
               /\ \A n \in 1..Length(w) :
                     (w.tail - n) % Capacity = (m.tail - (n - 1)) % Capacity
<1>. DEFINE w == Stepped(m)
<1>1. m.head \in 0..Capacity-1 /\ m.tail \in 0..Capacity-1 /\ m.count \in Nat
  BY DEF Metas
<1>2. /\ w.sig = "signed" /\ w.tail = NextSlot(m.tail) /\ w.count = m.count + 1
      /\ w.head = IF NextSlot(m.tail) = m.head THEN NextSlot(m.head) ELSE m.head
      /\ w \in [sig : {"none", "zero", "signed"}, head : 0..Capacity-1,
                tail : 0..Capacity-1, count : Nat]
  <2>1. NextSlot(m.tail) \in 0..Capacity-1 /\ NextSlot(m.head) \in 0..Capacity-1
    BY <1>1, Following
  <2>2. m.count + 1 \in Nat
    BY <1>1
  <2>. QED  BY <1>1, <2>1, <2>2 DEF Stepped
<1>3. w \in Metas
  BY <1>2 DEF Metas
<1>. HIDE DEF w
<1>4. /\ NextSlot(m.tail) = IF m.tail + 1 = Capacity THEN 0 ELSE m.tail + 1
      /\ NextSlot(m.head) = IF m.head + 1 = Capacity THEN 0 ELSE m.head + 1
  BY <1>1, Following
<1>5. Length(m) = IF m.head <= m.tail THEN m.tail - m.head ELSE m.tail - m.head + Capacity
  BY LengthIs
<1>6. /\ Length(w) \in 0..Capacity-1
      /\ Length(w) = IF w.head <= w.tail THEN w.tail - w.head ELSE w.tail - w.head + Capacity
  BY <1>3, LengthIs
<1>7. Length(w) = IF NextSlot(m.tail) = m.head THEN Length(m) ELSE Length(m) + 1
  BY <1>1, <1>2, <1>4, <1>5, <1>6, Room
<1>8. NextSlot(m.tail) = m.head <=> Length(m) = Capacity - 1
  BY <1>1, <1>4, <1>5, Room
<1>9. ASSUME NEW n \in 1..Length(w)
      PROVE  (w.tail - n) % Capacity = (m.tail - (n - 1)) % Capacity
  <2>1. n \in 0..Capacity-1 /\ n - 1 \in 0..Capacity-1 /\ w.tail \in 0..Capacity-1
    BY <1>1, <1>2, <1>6, Following, Room
  <2>2. (w.tail - n) % Capacity = IF n <= w.tail THEN w.tail - n ELSE w.tail - n + Capacity
    BY <2>1, Before
  <2>3. (m.tail - (n - 1)) % Capacity
          = IF n - 1 <= m.tail THEN m.tail - (n - 1) ELSE m.tail - (n - 1) + Capacity
    BY <1>1, <2>1, Before
  <2>. QED  BY <1>1, <1>2, <1>4, <2>1, <2>2, <2>3, Room
<1>. QED  BY <1>2, <1>3, <1>7, <1>8, <1>9 DEF w

\* With the entry behind the tail whole, moving the tail over it, and the head off it,
\* leaves the latest entries in the ring.
LEMMA MoveTail ==
    ASSUME NEW m \in Metas, NEW s, Holds(s, m),
           s[m.tail].valid, s[m.tail].body.batch = m.count + 1
    PROVE  Stepped(m) \in Metas /\ Holds(s, Stepped(m))
<1>1. m.tail \in 0..Capacity-1 /\ m.count \in Nat /\ Length(m) \in 0..Capacity-1
  BY LengthIs DEF Metas
<1>2. PICK w : w = Stepped(m)
  OBVIOUS
<1>3. /\ w \in Metas /\ w.count = m.count + 1
      /\ Length(w) = IF Length(m) = Capacity - 1 THEN Length(m) ELSE Length(m) + 1
      /\ \A n \in 1..Length(w) : (w.tail - n) % Capacity = (m.tail - (n - 1)) % Capacity
  BY <1>2, SteppedIs
<1>4. Length(m) = IF m.count < Capacity THEN m.count ELSE Capacity - 1
  BY DEF Holds
<1>5. Length(w) = IF w.count < Capacity THEN w.count ELSE Capacity - 1
  BY <1>1, <1>3, <1>4, Room
<1>6. ASSUME NEW n \in 1..Length(w)
      PROVE  /\ s[(w.tail - n) % Capacity].valid
             /\ s[(w.tail - n) % Capacity].body.batch = w.count + 1 - n
  <2>1. (w.tail - n) % Capacity = (m.tail - (n - 1)) % Capacity
    BY <1>3
  <2>2. CASE n = 1
    <3>1. (m.tail - 0) % Capacity = m.tail
      BY <1>1, TailItself
    <3>2. (w.tail - n) % Capacity = m.tail
      BY <1>1, <2>1, <2>2, <3>1
    <3>. QED  BY <1>1, <1>3, <2>2, <3>2
  <2>3. CASE n # 1
    <3>1. n - 1 \in 1..Length(m)
      BY <1>1, <1>3, <2>3, Room
    <3>2. /\ s[(m.tail - (n - 1)) % Capacity].valid
          /\ s[(m.tail - (n - 1)) % Capacity].body.batch = m.count + 1 - (n - 1)
      BY <3>1 DEF Holds
    <3>. QED  BY <1>1, <1>3, <2>1, <3>2
  <2>. QED  BY <2>2, <2>3
<1>7. Holds(s, w)
  BY <1>5, <1>6 DEF Holds
<1>. QED  BY <1>2, <1>3, <1>7

-----------------------------------------------------------------------------
\* The steps.

\* The first start finds no file.
LEMMA RingInit == Init => RingInv
<1>. SUFFICES ASSUME Init PROVE Files /\ InMemory /\ Ahead /\ Behind
  BY DEF RingInv
<1>1. /\ slots = [i \in 0..Capacity-1 |-> EmptySlot] /\ diskSlots = slots
      /\ fileMeta = NoMeta /\ diskMeta = NoMeta /\ committed = 0
  BY DEF Init
<1>2. phase = "down" /\ pc = "read"
  BY DEF Init
<1>3. NoMeta \in Metas /\ NoMeta.head = 0 /\ NoMeta.tail = 0 /\ NoMeta.count = 0
  BY Room DEF NoMeta, Metas
<1>4. IsRing(slots) /\ IsRing(diskSlots)
  BY <1>1 DEF IsRing
<1>5. Holds(slots, NoMeta)
  BY <1>3, EmptyHolds
<1>6. Files
  BY <1>1, <1>3, <1>4, <1>5 DEF Files
<1>7. InMemory /\ Ahead /\ Behind
  BY <1>2 DEF InMemory, Ahead, Behind, Writing
<1>. QED  BY <1>6, <1>7

\* The metadata of an empty ring.
LEMMA EmptyMetas ==
    /\ NoMeta \in Metas /\ ZeroMeta \in Metas /\ EmptyRing \in Metas
    /\ \A m \in {NoMeta, ZeroMeta, EmptyRing} : m.head = 0 /\ m.tail = 0 /\ m.count = 0
    /\ EmptyRing.sig = "signed" /\ ZeroMeta.sig = "zero" /\ NoMeta.sig = "none"
  BY Room DEF NoMeta, ZeroMeta, EmptyRing, Metas

\* What the program reads when it starts.
LEMMA BootKeeps ==
    ASSUME Files, InMemory, Ahead, Behind, Boot
    PROVE  Files' /\ InMemory' /\ Ahead' /\ Behind'
<1>1. /\ UNCHANGED <<slots, fileMeta, diskSlots, diskMeta, committed>>
      /\ pc' = "read" /\ phase' = IF fileMeta.sig = "zero" THEN "create" ELSE "recover"
      /\ meta' = IF fileMeta.sig = "signed" THEN fileMeta ELSE EmptyRing
  BY DEF Boot, fileVars, diskVars
<1>2. Files'
  BY <1>1 DEF Files, IsRing, Holds
<1>3. /\ meta' \in Metas /\ meta'.sig = "signed" /\ meta'.tail = fileMeta.tail
      /\ meta'.count = fileMeta.count /\ meta'.head = fileMeta.head
  <2>1. fileMeta \in Metas
    BY DEF Files
  <2>. QED  BY <1>1, <2>1, EmptyMetas DEF Metas
<1>4. InMemory'
  BY <1>1, <1>3 DEF InMemory, Writing
<1>. QED  BY <1>1, <1>2, <1>4 DEF Ahead, Behind

\* A new ring is created in a file that had none.
LEMMA CreateKeeps ==
    ASSUME Files, InMemory, Ahead, Behind, CreateRing \/ SyncNewRing
    PROVE  Files' /\ InMemory' /\ Ahead' /\ Behind'
<1>1. meta = EmptyRing /\ pc = "read" /\ phase = "create"
  BY DEF CreateRing, SyncNewRing, InMemory
<1>2. fileMeta \in Metas /\ fileMeta.count = 0 /\ fileMeta.tail = 0 /\ fileMeta.head = 0
  BY <1>1, EmptyMetas DEF InMemory, Files, Writing
<1>3. CASE CreateRing
  <2>1. /\ fileMeta' = EmptyRing
        /\ UNCHANGED <<phase, pc, meta, slots, diskSlots, diskMeta, committed>>
    BY <1>1, <1>3 DEF CreateRing, processVars, diskVars, historyVars
  <2>2. Holds(slots, EmptyRing)
    BY EmptyHolds, EmptyMetas
  <2>3. diskMeta.count <= EmptyRing.count
    BY <1>2, EmptyMetas DEF Files
  <2>4. Holds(diskSlots, diskMeta)'
    BY <2>1 DEF Files, Holds
  <2>5. Holds(slots, fileMeta)'
    BY <2>1, <2>2 DEF Holds
  <2>6. Files'
    <3>1. fileMeta' \in Metas /\ diskMeta' \in Metas /\ IsRing(slots)' /\ IsRing(diskSlots)'
      BY <2>1, EmptyMetas DEF Files, IsRing
    <3>2. /\ committed' \in Nat /\ committed' <= diskMeta'.count
          /\ diskMeta'.count <= fileMeta'.count
      BY <2>1, <2>3 DEF Files
    <3>. QED  BY <2>4, <2>5, <3>1, <3>2 DEF Files
  <2>7. InMemory'
    BY <1>1, <2>1, EmptyMetas DEF InMemory, Writing
  <2>. QED  BY <1>1, <2>1, <2>6, <2>7 DEF Ahead, Behind
<1>4. CASE SyncNewRing
  <2>1. /\ diskSlots' = slots /\ diskMeta' = fileMeta /\ phase' = "run"
        /\ UNCHANGED <<pc, meta, slots, fileMeta, committed>>
    BY <1>4 DEF SyncNewRing, fileVars, historyVars
  <2>2. Holds(slots, fileMeta)' /\ Holds(diskSlots, diskMeta)'
    BY <2>1 DEF Files, Holds
  <2>3. committed <= fileMeta.count /\ fileMeta.count \in Nat
    BY DEF Files, Metas
  <2>4. Files'
    BY <2>1, <2>2, <2>3 DEF Files, IsRing
  <2>5. InMemory'
    BY <1>1, <2>1 DEF InMemory, Writing
  <2>. QED  BY <1>1, <2>1, <2>4, <2>5 DEF Ahead, Behind, Writing
<1>. QED  BY <1>3, <1>4

\* Recovery writes nothing.
LEMMA RecoverKeeps ==
    ASSUME Files, InMemory, Ahead, Behind, RecoverEntry \/ RecoverTornEntry \/ StopRecovery
           \/ FinishRecovery
    PROVE  Files' /\ InMemory' /\ Ahead' /\ Behind'
<1>1. /\ UNCHANGED <<pc, meta, entry, slots, fileMeta, diskSlots, diskMeta, committed>>
      /\ phase = "recover" /\ phase' \in {"recover", "undefined", "run"}
  BY DEF RecoverEntry, RecoverTornEntry, StopRecovery, FinishRecovery, fileVars, diskVars,
         historyVars
<1>2. Files'
  BY <1>1 DEF Files, IsRing, Holds
<1>3. pc = "read" /\ InMemory'
  BY <1>1 DEF InMemory, Writing
<1>. QED  BY <1>1, <1>2, <1>3 DEF Ahead, Behind, Writing

\* A batch is taken: room is made for its entry.
LEMMA BuildKeeps ==
    ASSUME Files, InMemory, Ahead, Behind, NEW batch, BuildEntry(batch)
    PROVE  Files' /\ InMemory' /\ Ahead' /\ Behind'
<1>1. /\ phase = "run" /\ meta \in Metas /\ meta.sig = "signed"
      /\ meta.tail = fileMeta.tail /\ meta.count = fileMeta.count
      /\ meta.tail \in 0..Capacity-1 /\ fileMeta \in Metas
  BY DEF InMemory, Files, BuildEntry, Metas
<1>2. /\ UNCHANGED <<phase, slots, fileMeta, diskSlots, diskMeta, committed>>
      /\ pc = "read" /\ pc' = "write" /\ meta' = [meta EXCEPT !.head = HeadBeforeWrite]
      /\ entry' = [batch |-> meta.count + 1, chunk |-> writes % NumChunks,
                   transactions |-> batch, before |-> state]
  BY DEF BuildEntry, fileVars, diskVars, historyVars
<1>3. meta.head = fileMeta.head /\ meta.head \in 0..Capacity-1
  BY <1>1, <1>2 DEF InMemory, Writing, Metas
<1>4. HeadBeforeWrite \in 0..Capacity-1
  BY <1>1, <1>3, Following DEF HeadBeforeWrite
<1>5. /\ meta' \in Metas /\ meta'.sig = "signed" /\ meta'.tail = meta.tail
      /\ meta'.count = meta.count /\ meta'.head = HeadBeforeWrite
  BY <1>1, <1>2, <1>4 DEF Metas
<1>6. entry'.batch = meta.count + 1
  BY <1>2
<1>7. Files'
  BY <1>2 DEF Files, IsRing, Holds
<1>8. InMemory'
  BY <1>1, <1>2, <1>5 DEF InMemory, Writing
<1>9. Ahead' /\ Behind'
  BY <1>1, <1>2, <1>3, <1>5, <1>6 DEF Ahead, Behind, HeadBeforeWrite, Writing
<1>. QED  BY <1>7, <1>8, <1>9

\* The parts of an entry are written behind the tail of the file.
LEMMA PartKeeps ==
    ASSUME Files, InMemory, Ahead, phase = "run", IsRing(slots'),
           UNCHANGED <<phase, meta, entry, diskSlots, diskMeta, committed>>,
           \A i \in 0..Capacity-1 : i # meta.tail => slots'[i] = slots[i],
           fileMeta' = fileMeta \/ (fileMeta = NoMeta /\ fileMeta' = ZeroMeta),
           pc \in Writing, pc' \in Writing
    PROVE  Files' /\ InMemory' /\ Ahead'
<1>1. /\ meta.tail = fileMeta.tail /\ fileMeta \in Metas /\ Holds(slots, fileMeta)
  BY DEF InMemory, Files
<1>2. fileMeta' \in Metas /\ SamePlace(fileMeta', fileMeta)
  BY <1>1, EmptyMetas DEF SamePlace
<1>3. Holds(slots', fileMeta)
  BY <1>1, WriteBehind
<1>4. Holds(slots', fileMeta')
  BY <1>2, <1>3 DEF Holds, SamePlace, Length
<1>5. Holds(diskSlots, diskMeta)'
  BY DEF Files, Holds
<1>6. Files'
  BY <1>2, <1>4, <1>5 DEF Files, IsRing, SamePlace
<1>7. InMemory'
  BY <1>2 DEF InMemory, SamePlace
<1>8. Ahead'
  BY <1>2 DEF Ahead, SamePlace
<1>. QED  BY <1>6, <1>7, <1>8

\* So the ring in the file is as it was.
LEMMA WriteKeeps ==
    ASSUME Files, InMemory, Ahead, Behind, BeginWrite \/ EndWrite \/ MarkValid
    PROVE  Files' /\ InMemory' /\ Ahead' /\ Behind'
<1>1. /\ phase = "run" /\ UNCHANGED <<phase, meta, entry, diskSlots, diskMeta, committed>>
      /\ pc \in Writing /\ pc' \in Writing
      /\ fileMeta' = fileMeta \/ (fileMeta = NoMeta /\ fileMeta' = ZeroMeta)
  BY DEF BeginWrite, EndWrite, MarkValid, diskVars, historyVars, Writing
<1>2. meta.tail \in 0..Capacity-1 /\ IsRing(slots)
  BY <1>1 DEF InMemory, Files, Metas
<1>3. CASE BeginWrite
  <2>1. /\ slots' = [slots EXCEPT ![meta.tail] = [valid |-> FALSE, body |-> Torn]]
        /\ pc' = "writing"
    BY <1>3 DEF BeginWrite
  <2>2. IsRing(slots') /\ slots'[meta.tail] = [valid |-> FALSE, body |-> Torn]
        /\ \A i \in 0..Capacity-1 : i # meta.tail => slots'[i] = slots[i]
    BY <1>2, <2>1 DEF IsRing
  <2>3. Behind'
    BY <1>1, <2>1, <2>2 DEF Behind
  <2>. QED  BY <1>1, <2>2, <2>3, PartKeeps
<1>4. CASE EndWrite
  <2>1. /\ slots' = [slots EXCEPT ![meta.tail] = [slots[meta.tail] EXCEPT !.body = entry]]
        /\ slots[meta.tail] = [valid |-> FALSE, body |-> Torn] /\ pc' = "mark"
    BY <1>1, <1>4 DEF EndWrite, Behind
  <2>2. slots' = [slots EXCEPT ![meta.tail] = [valid |-> FALSE, body |-> entry]]
    <3>1. \A r, b, c, e : r = [valid |-> b, body |-> c]
                             => [r EXCEPT !.body = e] = [valid |-> b, body |-> e]
      OBVIOUS
    <3>2. [slots[meta.tail] EXCEPT !.body = entry] = [valid |-> FALSE, body |-> entry]
      BY <2>1, <3>1, Zenon
    <3>. QED  BY <2>1, <3>2
  <2>3. IsRing(slots') /\ slots'[meta.tail] = [valid |-> FALSE, body |-> entry]
        /\ \A i \in 0..Capacity-1 : i # meta.tail => slots'[i] = slots[i]
    BY <1>2, <2>2 DEF IsRing
  <2>4. Behind'
    BY <1>1, <2>1, <2>3 DEF Behind
  <2>. QED  BY <1>1, <2>3, <2>4, PartKeeps
<1>5. CASE MarkValid
  <2>1. slots[meta.tail] = [valid |-> FALSE, body |-> entry] /\ pc' = "metadata"
    BY <1>1, <1>5 DEF MarkValid, Behind
  <2>2. PICK marked : /\ marked = [slots[meta.tail] EXCEPT !.valid = TRUE]
                      /\ slots' = [slots EXCEPT ![meta.tail] = marked]
    BY <1>5 DEF MarkValid
  <2>3. marked.valid /\ marked.body = entry
    <3>1. \A r, c : r = [valid |-> FALSE, body |-> c]
                       => [r EXCEPT !.valid = TRUE].valid /\ [r EXCEPT !.valid = TRUE].body = c
      OBVIOUS
    <3>. QED  BY <2>1, <2>2, <3>1
  <2>4. IsRing(slots') /\ slots'[meta.tail] = marked
        /\ \A i \in 0..Capacity-1 : i # meta.tail => slots'[i] = slots[i]
    BY <1>2, <2>2 DEF IsRing
  <2>5. Behind'
    BY <1>1, <2>1, <2>3, <2>4 DEF Behind
  <2>. QED  BY <1>1, <2>4, <2>5, PartKeeps
<1>. QED  BY <1>3, <1>4, <1>5

\* The metadata that takes the new entry into the ring.
LEMMA MetadataIs ==
    ASSUME Files, InMemory, Ahead, Behind, WriteMetadata
    PROVE  /\ fileMeta' = Stepped(fileMeta) /\ fileMeta \in Metas
           /\ slots[fileMeta.tail].valid /\ slots[fileMeta.tail].body = entry
           /\ entry.batch = fileMeta.count + 1
<1>1. /\ phase = "run" /\ pc = "metadata" /\ fileMeta' = meta'
      /\ meta' = [meta EXCEPT !.tail = NextSlot(meta.tail), !.count = meta.count + 1]
  BY DEF WriteMetadata
<1>2. /\ meta \in Metas /\ meta.sig = "signed"
      /\ meta.tail = fileMeta.tail /\ meta.count = fileMeta.count /\ fileMeta \in Metas
  BY <1>1 DEF InMemory, Files
<1>3. /\ meta.head = IF NextSlot(fileMeta.tail) = fileMeta.head
                       THEN NextSlot(fileMeta.head) ELSE fileMeta.head
      /\ entry.batch = meta.count + 1
      /\ slots[meta.tail].valid /\ slots[meta.tail].body = entry
  BY <1>1 DEF Ahead, Behind, Writing
<1>4. meta' = Stepped(fileMeta)
  <2>1. meta = [sig |-> "signed", head |-> meta.head, tail |-> fileMeta.tail,
                count |-> fileMeta.count]
    BY <1>2 DEF Metas
  <2>2. meta' = [sig |-> "signed", head |-> meta.head, tail |-> NextSlot(fileMeta.tail),
                 count |-> fileMeta.count + 1]
    BY <1>1, <1>2, <2>1
  <2>. QED  BY <1>3, <2>2 DEF Stepped
<1>. QED  BY <1>1, <1>2, <1>3, <1>4

\* It leaves the latest entries in the ring.
LEMMA MetadataKeeps ==
    ASSUME Files, InMemory, Ahead, Behind, WriteMetadata
    PROVE  Files' /\ InMemory' /\ Ahead' /\ Behind'
<1>1. /\ phase = "run" /\ pc = "metadata" /\ pc' = "sync"
      /\ meta' = [meta EXCEPT !.tail = NextSlot(meta.tail), !.count = meta.count + 1]
      /\ fileMeta' = meta'
      /\ UNCHANGED <<phase, entry, slots, diskSlots, diskMeta, committed>>
  BY DEF WriteMetadata, diskVars, historyVars
<1>2. /\ meta \in Metas /\ meta.sig = "signed"
      /\ meta.tail = fileMeta.tail /\ meta.count = fileMeta.count
      /\ fileMeta \in Metas /\ Holds(slots, fileMeta)
  BY <1>1 DEF InMemory, Files
<1>3. /\ meta' = Stepped(fileMeta) /\ entry.batch = meta.count + 1
      /\ slots[meta.tail].valid /\ slots[meta.tail].body = entry
  BY <1>1, <1>2, MetadataIs
<1>4. slots[fileMeta.tail].valid /\ slots[fileMeta.tail].body.batch = fileMeta.count + 1
  BY <1>2, <1>3
<1>5. meta' \in Metas /\ Holds(slots, meta')
  BY <1>2, <1>3, <1>4, MoveTail
<1>6. meta'.count = meta.count + 1 /\ meta'.sig = "signed"
  BY <1>1, <1>2 DEF Metas
<1>7. Holds(slots, fileMeta)' /\ Holds(diskSlots, diskMeta)'
  BY <1>1, <1>5 DEF Files, Holds
<1>8. Files'
  <2>1. diskMeta'.count <= fileMeta'.count
    <3>1. diskMeta.count \in Nat /\ fileMeta.count \in Nat /\ diskMeta.count <= fileMeta.count
      BY DEF Files, Metas
    <3>2. fileMeta'.count = fileMeta.count + 1 /\ diskMeta'.count = diskMeta.count
      BY <1>1, <1>2, <1>6
    <3>. QED  BY <3>1, <3>2
  <2>2. IsRing(slots)' /\ IsRing(diskSlots)' /\ fileMeta' \in Metas /\ diskMeta' \in Metas
    BY <1>1, <1>5 DEF Files, IsRing
  <2>3. committed' \in Nat /\ committed' <= diskMeta'.count
    BY <1>1 DEF Files
  <2>. QED  BY <1>7, <2>1, <2>2, <2>3 DEF Files
<1>9. InMemory'
  BY <1>1, <1>5, <1>6 DEF InMemory, Writing
<1>10. Ahead' /\ Behind'
  BY <1>1, <1>3, <1>6 DEF Ahead, Behind, Writing
<1>. QED  BY <1>8, <1>9, <1>10

\* The sync makes the file and the device the same, and the batch committed; then it is
\* applied.
LEMMA SyncKeeps ==
    ASSUME Files, InMemory, Ahead, Behind, SyncMetadata \/ ApplyBatch
    PROVE  Files' /\ InMemory' /\ Ahead' /\ Behind'
<1>1. /\ phase = "run" /\ pc \in {"sync", "apply"} /\ pc' \in {"apply", "read"}
      /\ UNCHANGED <<phase, meta, slots, fileMeta>>
  BY DEF SyncMetadata, ApplyBatch, fileVars
<1>2. InMemory' /\ Ahead' /\ Behind'
  BY <1>1 DEF InMemory, Ahead, Behind, Writing
<1>3. CASE SyncMetadata
  <2>1. diskSlots' = slots /\ diskMeta' = fileMeta /\ committed' = entry.batch /\ pc = "sync"
    BY <1>3 DEF SyncMetadata
  <2>2. entry.batch = fileMeta.count
    BY <1>1, <2>1 DEF Behind, InMemory
  <2>3. fileMeta.count \in Nat
    BY DEF Files, Metas
  <2>4. Holds(slots, fileMeta)' /\ Holds(diskSlots, diskMeta)'
    BY <1>1, <2>1 DEF Files, Holds
  <2>5. Files'
    BY <1>1, <2>1, <2>2, <2>3, <2>4 DEF Files, IsRing
  <2>. QED  BY <1>2, <2>5
<1>4. CASE ApplyBatch
  <2>1. UNCHANGED <<diskSlots, diskMeta, committed>>
    BY <1>4 DEF ApplyBatch, diskVars, historyVars
  <2>. QED  BY <1>1, <1>2, <2>1 DEF Files, IsRing, Holds
<1>. QED  BY <1>1, <1>3, <1>4

\* The end of a process leaves the file as it is.
LEMMA KillKeeps ==
    ASSUME Files, InMemory, Finish \/ Kill
    PROVE  Files' /\ InMemory' /\ Ahead' /\ Behind'
<1>1. /\ phase' = "down" /\ pc' = "read"
      /\ UNCHANGED <<slots, fileMeta, diskSlots, diskMeta, committed>>
  BY DEF Finish, Kill, Reset, fileVars, diskVars, historyVars
<1>2. Files'
  BY <1>1 DEF Files, IsRing, Holds
<1>. QED  BY <1>1, <1>2 DEF InMemory, Ahead, Behind, Writing

\* After a power loss the ring is that of the metadata that was kept, if the entries in it
\* are as they were then.
LEMMA PowerLossKeeps ==
    ASSUME Files, InMemory, PowerLoss, ~disordered'
    PROVE  Files' /\ InMemory' /\ Ahead' /\ Behind'
<1>1. /\ phase' = "down" /\ pc' = "read" /\ committed' = committed
      /\ diskSlots' = slots' /\ diskMeta' = fileMeta'
  BY DEF PowerLoss, Reset
<1>2. \A i \in InRing(fileMeta') :
          slots'[i] = IF fileMeta' = diskMeta THEN diskSlots[i] ELSE slots[i]
  BY DEF PowerLoss
<1>3. /\ fileMeta \in Metas /\ diskMeta \in Metas /\ Holds(slots, fileMeta)
      /\ Holds(diskSlots, diskMeta) /\ IsRing(diskSlots)
      /\ committed \in Nat /\ committed <= diskMeta.count /\ diskMeta.count <= fileMeta.count
  BY DEF Files
<1>4. fileMeta' \in {diskMeta, fileMeta}
  BY DEF PowerLoss
<1>5. PICK f : f = fileMeta'
  OBVIOUS
<1>6. PICK s : s = slots'
  OBVIOUS
<1>7. IsRing(s)
  <2>1. CASE slots' = diskSlots
    BY <1>3, <1>6, <2>1
  <2>2. CASE slots' # diskSlots
    <3>1. slots' = [i \in 0..Capacity-1 |-> slots'[i]]
      <4>. DEFINE dirty == {i \in 0..Capacity-1 : slots[i] # diskSlots[i]}
      <4>1. PICK outcome : slots' = [i \in 0..Capacity-1 |->
                              IF i \in dirty THEN Leftover(i, outcome[i]) ELSE slots[i]]
        BY <2>2 DEF PowerLoss
      <4>2. PICK value : slots' = [i \in 0..Capacity-1 |-> value[i]]
        <5>1. PICK value : value = [i \in 0..Capacity-1 |->
                              IF i \in dirty THEN Leftover(i, outcome[i]) ELSE slots[i]]
          OBVIOUS
        <5>2. value = [i \in 0..Capacity-1 |-> value[i]]
          <6>. HIDE DEF dirty
          <6>. QED  BY <5>1
        <5>. QED  BY <4>1, <5>1, <5>2
      <4>. HIDE DEF dirty
      <4>. QED  BY <4>2
    <3>. QED  BY <1>6, <3>1 DEF IsRing
  <2>. QED  BY <2>1, <2>2
<1>8. Holds(s, f)
  <2>1. CASE f = diskMeta
    BY <1>2, <1>3, <1>5, <1>6, <2>1, OnlyRing
  <2>2. CASE f # diskMeta
    BY <1>2, <1>3, <1>4, <1>5, <1>6, <2>2, OnlyRing
  <2>. QED  BY <2>1, <2>2
<1>9. f \in Metas /\ committed <= f.count /\ f.count \in Nat
  BY <1>3, <1>4, <1>5 DEF Metas
<1>10. Files'
  <2>1. Holds(slots, fileMeta)' /\ Holds(diskSlots, diskMeta)'
    BY <1>1, <1>5, <1>6, <1>8 DEF Holds
  <2>2. IsRing(slots)' /\ IsRing(diskSlots)'
    BY <1>1, <1>6, <1>7 DEF IsRing
  <2>. QED  BY <1>1, <1>3, <1>5, <1>9, <2>1, <2>2 DEF Files
<1>. QED  BY <1>1, <1>10 DEF InMemory, Ahead, Behind, Writing

\* No step breaks the invariant.
LEMMA RingStep == RingInv /\ [Next]_vars => RingInv'
<1>. SUFFICES ASSUME RingInv, [Next]_vars, ~disordered'
              PROVE  Files' /\ InMemory' /\ Ahead' /\ Behind'
  BY DEF RingInv
<1>1. ~disordered
  BY DEF Next, OpenNext, PersistNext, EndNext, Boot, CreateRing, SyncNewRing, RecoverEntry,
         RecoverTornEntry, StopRecovery, FinishRecovery, BuildEntry, BeginWrite, EndWrite,
         MarkValid, WriteMetadata, SyncMetadata, ApplyBatch, Finish, Kill, PowerLoss, vars,
         historyVars
<1>2. Files /\ InMemory /\ Ahead /\ Behind
  BY <1>1 DEF RingInv
<1>3. CASE UNCHANGED vars
  BY <1>2, <1>3 DEF vars, processVars, fileVars, diskVars, historyVars, Files, InMemory, Ahead,
                    Behind, IsRing, Holds
<1>4. CASE OpenNext
  BY <1>2, <1>4, BootKeeps, CreateKeeps, RecoverKeeps DEF OpenNext
<1>5. CASE PersistNext
  BY <1>2, <1>5, BuildKeeps, WriteKeeps, MetadataKeeps, SyncKeeps DEF PersistNext
<1>6. CASE EndNext
  BY <1>2, <1>6, KillKeeps, PowerLossKeeps DEF EndNext
<1>. QED  BY <1>3, <1>4, <1>5, <1>6 DEF Next

\* The inductive invariant of the ring: the file and the device each hold the latest entries,
\* and what is being written lies behind the tail.
THEOREM RingInvariant == Spec => []RingInv
  BY RingInit, RingStep, PTL DEF Spec

\* The ring in the file is the latest entries, every committed one among them, unless power
\* failed and the device had mixed up the order of writes (RingIsLatestEntries).
THEOREM RingIsLatest == Spec => []RingIsLatestEntries
<1>1. RingInv => RingIsLatestEntries
  <2>. SUFFICES ASSUME Files PROVE
           /\ Length(fileMeta) = IF fileMeta.count < Capacity THEN fileMeta.count
                                                              ELSE Capacity - 1
           /\ \A n \in 1..Length(fileMeta) :
                 Stored(n).valid /\ Stored(n).body.batch = fileMeta.count + 1 - n
           /\ committed <= fileMeta.count
    BY DEF RingInv, RingIsLatestEntries
  <2>1. committed <= fileMeta.count
    BY DEF Files, Metas
  <2>. QED  BY <2>1 DEF Files, Holds, Stored
<1>. QED  BY <1>1, RingInvariant, PTL

-----------------------------------------------------------------------------
\* The entries of a ring, from the oldest to the newest, and what recovery makes of them.

\* What the transactions, the balances and the entries are.
Transfers == [sender : Chunks, receiver : Chunks, amount : Nat]
States == [Chunks -> Nat]
Entries == [batch : Nat, chunk : Chunks, transactions : Seq(Transfers), before : States]

\* The state that the program had after the batch of an entry.
After(body) == ApplyAll(body.before, body.transactions)

\* The entries of the ring that m describes.
EntriesOf(s, m) ==
    [j \in 1..Length(m) |-> s[(m.tail - ((Length(m) + 1) - j)) % Capacity].body]

\* Recovery from the entries of q, beginning with the balances b.
Replayed(q, b) ==
    LET redone[j \in 0..Len(q)] == IF j = 0 THEN b ELSE Redo(redone[j - 1], q[j])
    IN  redone

\* The program has the state after entry j, or recovered it from the entries up to j,
\* beginning with any balances: older entries have been discarded.
Continues(q, j, b) ==
    \/ j > 0 /\ b = After(q[j])
    \/ \E first \in States : b = Replayed(q, first)[j]

\* Every entry was stored in such a state.
Linked(q) ==
    /\ q \in Seq(Entries)
    /\ \A j \in 1..Len(q) - 1 : Continues(q, j, q[j + 1].before)

\* The entries in the file, and on the device.
Chains == Linked(EntriesOf(slots, fileMeta)) /\ Linked(EntriesOf(diskSlots, diskMeta))

\* Recovery has redone the entries behind idx; a run has the state after the newest entry, or
\* the recovered one, until an entry takes it.
StateFollows ==
    /\ writes \in Nat
    /\ phase = "create" => state \in States /\ fileMeta.count = 0
    /\ phase = "recover" => \E left \in 0..Length(fileMeta) :
          /\ idx = (fileMeta.tail - left) % Capacity
          /\ state = Replayed(EntriesOf(slots, fileMeta), Zeros)[Length(fileMeta) - left]
    /\ phase = "run" =>
          /\ state \in States
          /\ pc \in {"read"} \union Writing =>
                Continues(EntriesOf(slots, fileMeta), Length(fileMeta), state)
          /\ pc # "read" => entry \in Entries /\ entry.before = state
          /\ pc \in {"sync", "apply"} =>
                Length(fileMeta) > 0 /\ EntriesOf(slots, fileMeta)[Length(fileMeta)] = entry

\* Nothing is claimed of a ring whose order a power loss has broken, or of what recovery
\* gives once it could not read.
RestoreInv == ~disordered /\ ~cut => Chains /\ StateFollows

-----------------------------------------------------------------------------
\* The loops.

\* A nonempty set of naturals has a least element.
LEMMA LeastOf ==
    ASSUME NEW M \in SUBSET Nat, M # {}
    PROVE  \E n \in M : \A m \in M : n <= m
<1>. DEFINE ordering == StrictSubsetOrdering(Nat)
            intervals == {0..n : n \in M}
<1>1. IsWellFoundedOn(ordering, FiniteSubsetsOf(Nat))
  BY FS_StrictSubsetOrderingWellFounded
<1>2. intervals \subseteq FiniteSubsetsOf(Nat) /\ intervals # {}
  <2>1. \A n \in M : 0..n \in SUBSET Nat /\ IsFiniteSet(0..n)
    BY FS_Interval
  <2>. QED  BY <2>1 DEF FiniteSubsetsOf
<1>. HIDE DEF ordering
<1>3. PICK least \in intervals : \A i \in intervals : ~ (<<i, least>> \in ordering)
  BY <1>1, <1>2, WFMin
<1>4. PICK n \in M : least = 0..n
  BY <1>3
<1>5. \A m \in M : m < n => <<0..m, 0..n>> \in ordering
  <2>1. \A m \in M : m < n => 0..m \subseteq 0..n /\ n \notin 0..m /\ n \in 0..n
    OBVIOUS
  <2>2. \A m \in M : 0..m \in SUBSET Nat
    OBVIOUS
  <2>3. \A m \in M : m < n => 0..m # 0..n
    BY <2>1
  <2>. QED  BY <2>1, <2>2, <2>3 DEF ordering, StrictSubsetOrdering
<1>6. \A m \in M : 0..m \in intervals
  OBVIOUS
<1>. HIDE DEF intervals
<1>7. \A m \in M : ~ (m < n)
  BY <1>3, <1>4, <1>5, <1>6
<1>. QED  BY <1>7

\* Induction: what holds of 0, and of the next number with each, holds up to n.
LEMMA UpTo ==
    ASSUME NEW n \in Nat, NEW H, 0 \in H, \A i \in 0..n - 1 : i \in H => i + 1 \in H
    PROVE  \A i \in 0..n : i \in H
<1>. SUFFICES ASSUME NEW j \in 0..n, j \notin H PROVE FALSE
  OBVIOUS
<1>. DEFINE M == {i \in 0..n : i \notin H}
<1>1. PICK least \in M : \A i \in M : least <= i
  <2>1. M \in SUBSET Nat /\ M # {}
    OBVIOUS
  <2>. QED  BY <2>1, LeastOf
<1>2. least # 0 /\ least - 1 \in 0..n - 1
  BY <1>1
<1>3. least - 1 \in H
  BY <1>1, <1>2
<1>. QED  BY <1>1, <1>2, <1>3

\* The balances after each transaction, from those before it.
LEMMA AppliedEachIs ==
    ASSUME NEW b, NEW txs, Len(txs) \in Nat
    PROVE  LET e == AppliedEach(b, txs)
           IN  /\ e[0] = b
               /\ \A i \in 1..Len(txs) : e[i] = Transfer(e[i - 1], txs[i])
<1>. DEFINE Is(f, n) == f = [i \in 0..n |-> IF i = 0 THEN b
                                          ELSE Transfer(f[i - 1], txs[i])]
            H == {n \in 0..Len(txs) : \E f : Is(f, n)}
<1>. HIDE DEF Is
<1>1. 0 \in H
  <2>1. Is([i \in 0..0 |-> b], 0)
    BY DEF Is
  <2>. QED  BY <2>1
<1>2. ASSUME NEW n \in 0..Len(txs) - 1, n \in H PROVE n + 1 \in H
  <2>1. PICK f : Is(f, n)
    BY <1>2
  <2>. DEFINE g == [i \in 0..n + 1 |-> IF i <= n THEN f[i]
                                    ELSE Transfer(f[n], txs[(n + 1)])]
  <2>2. ASSUME NEW i \in 0..n + 1
        PROVE  g[i] = IF i = 0 THEN b ELSE Transfer(g[i - 1], txs[i])
    <3>1. CASE i = 0
      BY <2>1, <3>1 DEF Is
    <3>2. CASE i \in 1..n
      BY <2>1, <3>2 DEF Is
    <3>3. CASE i = n + 1
      BY <3>3
    <3>. QED  BY <3>1, <3>2, <3>3
  <2>3. Is(g, n + 1)
    BY <2>2 DEF Is
  <2>. HIDE DEF g
  <2>. QED  BY <2>3
<1>3. Len(txs) \in H
  <2>. HIDE DEF H
  <2>1. \A i \in 0..Len(txs) : i \in H
    BY <1>1, <1>2, UpTo
  <2>. QED  BY <2>1
<1>4. Is(AppliedEach(b, txs), Len(txs))
  BY <1>3 DEF Is, AppliedEach
<1>. QED  BY <1>4 DEF Is

\* The accounts that are right after a transfer, if those in known were before it.
StillKnown(known, tx) == IF tx.sender \in known THEN known ELSE known \ {tx.receiver}

\* The accounts that are right after each transaction.
LEMMA TouchedIs ==
    ASSUME NEW known, NEW txs, Len(txs) \in Nat
    PROVE  LET e == Touched(known, txs)
           IN  /\ e[0] = known
               /\ \A i \in 1..Len(txs) : e[i] = StillKnown(e[i - 1], txs[i])
<1>. DEFINE Is(f, n) == f = [i \in 0..n |-> IF i = 0 THEN known
                                          ELSE StillKnown(f[i - 1], txs[i])]
            H == {n \in 0..Len(txs) : \E f : Is(f, n)}
<1>. HIDE DEF Is
<1>1. 0 \in H
  <2>1. Is([i \in 0..0 |-> known], 0)
    BY DEF Is
  <2>. QED  BY <2>1
<1>2. ASSUME NEW n \in 0..Len(txs) - 1, n \in H PROVE n + 1 \in H
  <2>1. PICK f : Is(f, n)
    BY <1>2
  <2>. DEFINE g == [i \in 0..n + 1 |-> IF i <= n THEN f[i]
                                    ELSE StillKnown(f[n], txs[(n + 1)])]
  <2>2. ASSUME NEW i \in 0..n + 1
        PROVE  g[i] = IF i = 0 THEN known ELSE StillKnown(g[i - 1], txs[i])
    <3>1. CASE i = 0
      BY <2>1, <3>1 DEF Is
    <3>2. CASE i \in 1..n
      BY <2>1, <3>2 DEF Is
    <3>3. CASE i = n + 1
      BY <3>3
    <3>. QED  BY <3>1, <3>2, <3>3
  <2>3. Is(g, n + 1)
    BY <2>2 DEF Is
  <2>. HIDE DEF g
  <2>. QED  BY <2>3
<1>3. Len(txs) \in H
  <2>. HIDE DEF H
  <2>1. \A i \in 0..Len(txs) : i \in H
    BY <1>1, <1>2, UpTo
  <2>. QED  BY <2>1
<1>4. Is(Touched(known, txs), Len(txs))
  BY <1>3 DEF Is, Touched, StillKnown
<1>. QED  BY <1>4 DEF Is

\* The balances after each entry, from those before it.
LEMMA ReplayedIs ==
    ASSUME NEW q, NEW b, Len(q) \in Nat
    PROVE  LET e == Replayed(q, b)
           IN  /\ e[0] = b
               /\ \A i \in 1..Len(q) : e[i] = Redo(e[i - 1], q[i])
<1>. DEFINE Is(f, n) == f = [i \in 0..n |-> IF i = 0 THEN b
                                          ELSE Redo(f[i - 1], q[i])]
            H == {n \in 0..Len(q) : \E f : Is(f, n)}
<1>. HIDE DEF Is
<1>1. 0 \in H
  <2>1. Is([i \in 0..0 |-> b], 0)
    BY DEF Is
  <2>. QED  BY <2>1
<1>2. ASSUME NEW n \in 0..Len(q) - 1, n \in H PROVE n + 1 \in H
  <2>1. PICK f : Is(f, n)
    BY <1>2
  <2>. DEFINE g == [i \in 0..n + 1 |-> IF i <= n THEN f[i]
                                    ELSE Redo(f[n], q[(n + 1)])]
  <2>2. ASSUME NEW i \in 0..n + 1
        PROVE  g[i] = IF i = 0 THEN b ELSE Redo(g[i - 1], q[i])
    <3>1. CASE i = 0
      BY <2>1, <3>1 DEF Is
    <3>2. CASE i \in 1..n
      BY <2>1, <3>2 DEF Is
    <3>3. CASE i = n + 1
      BY <3>3
    <3>. QED  BY <3>1, <3>2, <3>3
  <2>3. Is(g, n + 1)
    BY <2>2 DEF Is
  <2>. HIDE DEF g
  <2>. QED  BY <2>3
<1>3. Len(q) \in H
  <2>. HIDE DEF H
  <2>1. \A i \in 0..Len(q) : i \in H
    BY <1>1, <1>2, UpTo
  <2>. QED  BY <2>1
<1>4. Is(Replayed(q, b), Len(q))
  BY <1>3 DEF Is, Replayed
<1>. QED  BY <1>4 DEF Is

\* The accounts that the ring tells, entry by entry.
LEMMA KnownIs ==
    ASSUME Length(fileMeta) \in Nat
    PROVE  \E e :
              /\ e[0] = {} /\ Known = e[Length(fileMeta)]
              /\ \A i \in 1..Length(fileMeta) :
                    e[i] = KnownAfter(e[i - 1], Stored(Length(fileMeta) + 1 - i).body)
<1>. DEFINE Step(known, i) == KnownAfter(known, Stored(Length(fileMeta) + 1 - i).body)
            Is(f, n) == f = [i \in 0..n |-> IF i = 0 THEN {} ELSE Step(f[i - 1], i)]
            H == {n \in 0..Length(fileMeta) : \E f : Is(f, n)}
<1>. HIDE DEF Step, Is
<1>1. 0 \in H
  <2>1. Is([i \in 0..0 |-> {}], 0)
    BY DEF Is
  <2>. QED  BY <2>1
<1>2. ASSUME NEW n \in 0..Length(fileMeta) - 1, n \in H PROVE n + 1 \in H
  <2>1. PICK f : Is(f, n)
    BY <1>2
  <2>. DEFINE g == [i \in 0..n + 1 |-> IF i <= n THEN f[i] ELSE Step(f[n], n + 1)]
  <2>2. ASSUME NEW i \in 0..n + 1
        PROVE  g[i] = IF i = 0 THEN {} ELSE Step(g[i - 1], i)
    <3>1. CASE i = 0
      BY <2>1, <3>1 DEF Is
    <3>2. CASE i \in 1..n
      BY <2>1, <3>2 DEF Is
    <3>3. CASE i = n + 1
      BY <3>3
    <3>. QED  BY <3>1, <3>2, <3>3
  <2>3. Is(g, n + 1)
    BY <2>2 DEF Is
  <2>. HIDE DEF g
  <2>. QED  BY <2>3
<1>3. Length(fileMeta) \in H
  <2>. HIDE DEF H
  <2>1. \A i \in 0..Length(fileMeta) : i \in H
    BY <1>1, <1>2, UpTo
  <2>. QED  BY <2>1
<1>. DEFINE told[k \in 0..Length(fileMeta)] ==
                IF k = 0 THEN {} ELSE Step(told[k - 1], k)
<1>5. Is(told, Length(fileMeta))
  BY <1>3 DEF Is
<1>6. Known = told[Length(fileMeta)]
  BY DEF Known, Step
<1>7. PICK e : Is(e, Length(fileMeta)) /\ Known = e[Length(fileMeta)]
  BY <1>5, <1>6
<1>8. e[0] = {} /\ \A i \in 1..Length(fileMeta) : e[i] = Step(e[i - 1], i)
  <2>1. PICK n \in Nat : n = Length(fileMeta)
    OBVIOUS
  <2>2. e = [i \in 0..n |-> IF i = 0 THEN {} ELSE Step(e[i - 1], i)]
    BY <1>7, <2>1 DEF Is
  <2>3. e[0] = {}
    BY <2>2
  <2>4. ASSUME NEW i \in 1..n PROVE e[i] = Step(e[i - 1], i)
    <3>1. i \in 0..n /\ i # 0
      OBVIOUS
    <3>2. e[i] = IF i = 0 THEN {} ELSE Step(e[i - 1], i)
      BY <2>2, <3>1, Zenon
    <3>. QED  BY <3>1, <3>2
  <2>. QED  BY <2>1, <2>3, <2>4
<1>9. \A i \in 1..Length(fileMeta) :
         e[i] = KnownAfter(e[i - 1], Stored(Length(fileMeta) + 1 - i).body)
  BY <1>8 DEF Step
<1>. QED  BY <1>7, <1>8, <1>9

-----------------------------------------------------------------------------
\* Transfers.

\* What a transfer makes of an account.
LEMMA TransferIs ==
    ASSUME NEW b \in States, NEW tx \in Transfers
    PROVE  /\ Transfer(b, tx) \in States
           /\ \A c \in Chunks :
                 Transfer(b, tx)[c] =
                    IF b[tx.sender] < tx.amount THEN b[c]
                    ELSE (IF c = tx.sender THEN b[c] - tx.amount ELSE b[c])
                            + (IF c = tx.receiver THEN tx.amount ELSE 0)
<1>1. tx.sender \in Chunks /\ tx.receiver \in Chunks /\ tx.amount \in Nat
  BY DEF Transfers
<1>2. CASE b[tx.sender] < tx.amount
  <2>1. Transfer(b, tx) = b
    BY <1>2 DEF Transfer
  <2>. QED  BY <1>2, <2>1
<1>3. CASE ~(b[tx.sender] < tx.amount)
  <2>1. PICK paid : paid = [b EXCEPT ![tx.sender] = b[tx.sender] - tx.amount]
    OBVIOUS
  <2>2. paid \in States
        /\ \A c \in Chunks : paid[c] = IF c = tx.sender THEN b[c] - tx.amount ELSE b[c]
    BY <1>1, <1>3, <2>1 DEF States
  <2>3. Transfer(b, tx) = [paid EXCEPT ![tx.receiver] = paid[tx.receiver] + tx.amount]
    BY <1>3, <2>1 DEF Transfer
  <2>4. /\ Transfer(b, tx) \in States
        /\ \A c \in Chunks :
              Transfer(b, tx)[c] = paid[c] + (IF c = tx.receiver THEN tx.amount ELSE 0)
    BY <1>1, <2>2, <2>3 DEF States
  <2>. QED  BY <1>3, <2>2, <2>4
<1>. QED  BY <1>2, <1>3

\* On two states with the same accounts in known, a transfer does the same to those.
LEMMA SameTransfer ==
    ASSUME NEW a \in States, NEW b \in States, NEW tx \in Transfers,
           NEW known \in SUBSET Chunks, \A c \in known : a[c] = b[c]
    PROVE  \A c \in StillKnown(known, tx) : Transfer(a, tx)[c] = Transfer(b, tx)[c]
<1>. SUFFICES ASSUME NEW c \in StillKnown(known, tx)
              PROVE  Transfer(a, tx)[c] = Transfer(b, tx)[c]
  OBVIOUS
<1>1. c \in known /\ c \in Chunks /\ a[c] = b[c]
  BY DEF StillKnown
<1>2. CASE tx.sender \in known
  <2>1. a[tx.sender] = b[tx.sender]
    BY <1>2
  <2>. QED  BY <1>1, <2>1, TransferIs
<1>3. CASE tx.sender \notin known
  <2>1. c # tx.sender /\ c # tx.receiver
    BY <1>1, <1>3 DEF StillKnown
  <2>2. a[c] \in Nat /\ b[c] \in Nat
    BY <1>1 DEF States
  <2>3. Transfer(a, tx)[c] = a[c] /\ Transfer(b, tx)[c] = b[c]
    BY <1>1, <2>1, <2>2, TransferIs
  <2>. QED  BY <1>1, <2>3
<1>. QED  BY <1>2, <1>3

\* A batch keeps the balances natural.
LEMMA BatchKeeps ==
    ASSUME NEW b \in States, NEW txs \in Seq(Transfers)
    PROVE  /\ \A k \in 0..Len(txs) : AppliedEach(b, txs)[k] \in States
           /\ ApplyAll(b, txs) \in States
<1>. DEFINE n == Len(txs)
            e == AppliedEach(b, txs)
            H == {k \in 0..n : e[k] \in States}
<1>1. n \in Nat /\ \A k \in 1..n : txs[k] \in Transfers
  OBVIOUS
<1>2. e[0] = b /\ \A k \in 1..n : e[k] = Transfer(e[k - 1], txs[k])
  BY <1>1, AppliedEachIs
<1>3. ApplyAll(b, txs) = e[n]
  BY DEF ApplyAll
<1>. HIDE DEF n, e
<1>4. 0 \in H
  BY <1>1, <1>2
<1>5. ASSUME NEW k \in 0..n - 1, k \in H PROVE k + 1 \in H
  <2>1. k + 1 \in 1..n /\ (k + 1) - 1 = k /\ k + 1 \in 0..n
    BY <1>1
  <2>2. e[k + 1] = Transfer(e[k], txs[k + 1]) /\ txs[k + 1] \in Transfers /\ e[k] \in States
    BY <1>1, <1>2, <1>5, <2>1
  <2>. QED  BY <2>1, <2>2, TransferIs
<1>. HIDE DEF H
<1>6. \A k \in 0..n : k \in H
  BY <1>1, <1>4, <1>5, UpTo
<1>. QED  BY <1>1, <1>3, <1>6 DEF H, n, e

\* On two states with the same accounts in known, a batch leaves the same in those that it
\* has not touched.
LEMMA SameBatch ==
    ASSUME NEW a \in States, NEW b \in States, NEW txs \in Seq(Transfers),
           NEW known \in SUBSET Chunks, \A c \in known : a[c] = b[c]
    PROVE  /\ Touched(known, txs)[Len(txs)] \in SUBSET Chunks
           /\ \A c \in Touched(known, txs)[Len(txs)] : ApplyAll(a, txs)[c] = ApplyAll(b, txs)[c]
<1>. DEFINE n == Len(txs)
            e == AppliedEach(a, txs)
            f == AppliedEach(b, txs)
            t == Touched(known, txs)
            H == {k \in 0..n : t[k] \in SUBSET Chunks /\ \A c \in t[k] : e[k][c] = f[k][c]}
<1>1. n \in Nat /\ \A k \in 1..n : txs[k] \in Transfers
  OBVIOUS
<1>2. /\ e[0] = a /\ \A k \in 1..n : e[k] = Transfer(e[k - 1], txs[k])
      /\ f[0] = b /\ \A k \in 1..n : f[k] = Transfer(f[k - 1], txs[k])
      /\ t[0] = known /\ \A k \in 1..n : t[k] = StillKnown(t[k - 1], txs[k])
  BY <1>1, AppliedEachIs, TouchedIs
<1>3. \A k \in 0..n : e[k] \in States /\ f[k] \in States
  BY BatchKeeps
<1>4. ApplyAll(a, txs) = e[n] /\ ApplyAll(b, txs) = f[n]
  BY DEF ApplyAll
<1>. HIDE DEF n, e, f, t
<1>5. 0 \in H
  BY <1>1, <1>2
<1>6. ASSUME NEW k \in 0..n - 1, k \in H PROVE k + 1 \in H
  <2>1. k + 1 \in 1..n /\ (k + 1) - 1 = k /\ k + 1 \in 0..n /\ k \in 0..n
    BY <1>1
  <2>2. PICK tx \in Transfers : tx = txs[k + 1]
    BY <1>1, <2>1
  <2>3. /\ e[k + 1] = Transfer(e[k], tx) /\ f[k + 1] = Transfer(f[k], tx)
        /\ t[k + 1] = StillKnown(t[k], tx)
    BY <1>2, <2>1, <2>2
  <2>4. /\ t[k] \in SUBSET Chunks /\ \A c \in t[k] : e[k][c] = f[k][c]
        /\ e[k] \in States /\ f[k] \in States
    BY <1>3, <1>6, <2>1
  <2>5. \A c \in StillKnown(t[k], tx) : Transfer(e[k], tx)[c] = Transfer(f[k], tx)[c]
    BY <2>4, SameTransfer
  <2>6. StillKnown(t[k], tx) \in SUBSET Chunks
    BY <2>4 DEF StillKnown
  <2>. QED  BY <2>1, <2>3, <2>5, <2>6
<1>. HIDE DEF H
<1>7. \A k \in 0..n : k \in H
  BY <1>1, <1>5, <1>6, UpTo
<1>8. t[n] \in SUBSET Chunks /\ \A c \in t[n] : e[n][c] = f[n][c]
  BY <1>1, <1>7 DEF H
<1>. QED  BY <1>4, <1>8 DEF n, t

-----------------------------------------------------------------------------
\* Recovery.

\* The parts of an entry.
LEMMA EntryParts ==
    ASSUME NEW body \in Entries
    PROVE  /\ body.batch \in Nat /\ body.chunk \in Chunks /\ body.before \in States
           /\ body.transactions \in Seq(Transfers)
           /\ \A c \in Chunks : body.before[c] \in Nat
  BY DEF Entries, States

\* Putting a chunk back.
PutBack(b, body) == [b EXCEPT ![body.chunk] = body.before[body.chunk]]

\* An entry puts its chunk back, and no other.
LEMMA PutBackIs ==
    ASSUME NEW b \in States, NEW body \in Entries
    PROVE  /\ PutBack(b, body) \in States
           /\ PutBack(b, body)[body.chunk] = body.before[body.chunk]
           /\ \A c \in Chunks : c # body.chunk => PutBack(b, body)[c] = b[c]
           /\ Redo(b, body) = ApplyAll(PutBack(b, body), body.transactions)
           /\ Redo(b, body) \in States
           /\ After(body) \in States
<1>1. body.chunk \in Chunks /\ body.before \in States /\ body.before[body.chunk] \in Nat
      /\ body.transactions \in Seq(Transfers)
  BY EntryParts
<1>2. /\ PutBack(b, body) \in States
      /\ PutBack(b, body)[body.chunk] = body.before[body.chunk]
      /\ \A c \in Chunks : c # body.chunk => PutBack(b, body)[c] = b[c]
  BY <1>1 DEF PutBack, States
<1>3. Redo(b, body) = ApplyAll(PutBack(b, body), body.transactions)
  BY DEF Redo, PutBack
<1>4. Redo(b, body) \in States /\ After(body) \in States
  BY <1>1, <1>2, <1>3, BatchKeeps DEF After
<1>. QED  BY <1>2, <1>3, <1>4

\* Recovery keeps the balances natural.
LEMMA ReplayedAreStates ==
    ASSUME NEW q \in Seq(Entries), NEW b \in States
    PROVE  /\ \A j \in 0..Len(q) : Replayed(q, b)[j] \in States
           /\ Replayed(q, b)[0] = b
           /\ \A j \in 1..Len(q) : /\ q[j] \in Entries
                                   /\ Replayed(q, b)[j] = Redo(Replayed(q, b)[j - 1], q[j])
<1>. DEFINE n == Len(q)
            e == Replayed(q, b)
            H == {j \in 0..n : e[j] \in States}
<1>1. n \in Nat /\ \A j \in 1..n : q[j] \in Entries
  OBVIOUS
<1>2. e[0] = b /\ \A j \in 1..n : e[j] = Redo(e[j - 1], q[j])
  BY <1>1, ReplayedIs
<1>. HIDE DEF n, e
<1>3. 0 \in H
  BY <1>1, <1>2
<1>4. ASSUME NEW j \in 0..n - 1, j \in H PROVE j + 1 \in H
  <2>1. j + 1 \in 1..n /\ (j + 1) - 1 = j /\ j + 1 \in 0..n
    BY <1>1
  <2>2. e[j + 1] = Redo(e[j], q[j + 1]) /\ q[j + 1] \in Entries
    BY <1>1, <1>2, <2>1
  <2>3. e[j + 1] \in States
    BY <1>4, <2>2, PutBackIs
  <2>. QED  BY <2>1, <2>3
<1>. HIDE DEF H
<1>5. \A j \in 0..n : j \in H
  BY <1>1, <1>3, <1>4, UpTo
<1>6. \A j \in 0..n : e[j] \in States
  BY <1>5 DEF H
<1>. QED  BY <1>1, <1>2, <1>6 DEF n, e

\* The first n entries of r are those that follow on the first k of q.
Shifted(q, r, k, n) ==
    k + n <= Len(q) /\ n <= Len(r) /\ \A j \in 1..n : r[j] = q[j + k]

\* Recovery from r then goes on where that from q has got.
LEMMA ReplayedMoved ==
    ASSUME NEW q \in Seq(Entries), NEW r \in Seq(Entries), NEW k \in Nat, NEW n \in Nat,
           Shifted(q, r, k, n), NEW b \in States
    PROVE  Replayed(r, Replayed(q, b)[k])[n] = Replayed(q, b)[k + n]
<1>. DEFINE e == Replayed(q, b)
            f == Replayed(r, e[k])
            H == {j \in 0..n : f[j] = e[k + j]}
<1>1. Len(q) \in Nat /\ Len(r) \in Nat /\ k + n <= Len(q) /\ n <= Len(r)
  BY DEF Shifted
<1>2. k \in 0..Len(q)
  BY <1>1
<1>3. /\ e[k] \in States
      /\ \A j \in 1..Len(q) : e[j] = Redo(e[j - 1], q[j])
  BY <1>2, ReplayedAreStates
<1>4. /\ f[0] = e[k]
      /\ \A j \in 1..Len(r) : f[j] = Redo(f[j - 1], r[j])
  BY <1>3, ReplayedAreStates
<1>. HIDE DEF e, f
<1>5. 0 \in H
  BY <1>4
<1>6. ASSUME NEW j \in 0..n - 1, j \in H PROVE j + 1 \in H
  <2>1. /\ j + 1 \in 1..n /\ j + 1 \in 0..n /\ j + 1 \in 1..Len(r) /\ (j + 1) - 1 = j
        /\ k + (j + 1) \in 1..Len(q) /\ (k + (j + 1)) - 1 = k + j /\ (j + 1) + k = k + (j + 1)
    BY <1>1
  <2>2. f[j + 1] = Redo(f[j], r[j + 1]) /\ r[j + 1] = q[k + (j + 1)]
    BY <1>4, <2>1 DEF Shifted
  <2>3. e[k + (j + 1)] = Redo(e[k + j], q[k + (j + 1)])
    BY <1>3, <2>1
  <2>4. f[j + 1] = e[k + (j + 1)]
    BY <1>6, <2>2, <2>3
  <2>. QED  BY <2>1, <2>4
<1>. HIDE DEF H
<1>7. \A j \in 0..n : j \in H
  BY <1>5, <1>6, UpTo
<1>8. n \in H
  BY <1>7
<1>. QED  BY <1>8 DEF H, e, f

\* So a state that continues q after k + n entries continues r after n.
LEMMA ContinuesMoved ==
    ASSUME NEW q \in Seq(Entries), NEW r \in Seq(Entries), NEW k \in Nat, NEW n \in Nat,
           Shifted(q, r, k, n), NEW b \in States, Continues(q, k + n, b)
    PROVE  Continues(r, n, b)
<1>1. CASE n = 0
  <2>1. Replayed(r, b)[0] = b
    BY ReplayedAreStates
  <2>. QED  BY <1>1, <2>1 DEF Continues
<1>2. CASE n # 0 /\ b = After(q[k + n])
  <2>1. r[n] = q[k + n]
    BY <1>2 DEF Shifted
  <2>. QED  BY <1>2, <2>1 DEF Continues
<1>3. CASE \E first \in States : b = Replayed(q, first)[k + n]
  <2>1. PICK first \in States : b = Replayed(q, first)[k + n]
    BY <1>3
  <2>2. PICK second : second = Replayed(q, first)[k]
    OBVIOUS
  <2>3. second \in States
    <3>1. k \in 0..Len(q)
      BY DEF Shifted
    <3>. QED  BY <2>2, <3>1, ReplayedAreStates
  <2>4. Replayed(r, second)[n] = b
    BY <2>1, <2>2, ReplayedMoved
  <2>. QED  BY <2>3, <2>4 DEF Continues
<1>. QED  BY <1>1, <1>2, <1>3 DEF Continues

\* What the program, or recovery, makes of the entries is a state.
LEMMA ContinuesState ==
    ASSUME NEW q \in Seq(Entries), NEW j \in 0..Len(q), NEW b, Continues(q, j, b)
    PROVE  b \in States
<1>1. CASE j > 0 /\ b = After(q[j])
  <2>1. q[j] \in Entries
    BY <1>1
  <2>2. q[j].before \in States
    BY <2>1, EntryParts
  <2>. QED  BY <1>1, <2>1, <2>2, PutBackIs
<1>2. CASE \E first \in States : b = Replayed(q, first)[j]
  BY <1>2, ReplayedAreStates
<1>. QED  BY <1>1, <1>2 DEF Continues

\* A new entry, stored in a state that continues the ones before it, extends the chain; the
\* k oldest ones may be discarded.
LEMMA LinkedMoved ==
    ASSUME NEW q, Linked(q), NEW r \in Seq(Entries), NEW k \in Nat,
           Len(r) = (Len(q) - k) + 1, \A j \in 1..Len(q) - k : r[j] = q[j + k], k <= Len(q),
           Continues(q, Len(q), r[Len(r)].before)
    PROVE  Linked(r)
<1>1. q \in Seq(Entries) /\ Len(q) \in Nat /\ Len(r) \in Nat
  BY DEF Linked
<1>2. ASSUME NEW j \in 1..Len(r) - 1
      PROVE  Continues(r, j, r[j + 1].before)
  <2>1. /\ j \in Nat /\ k + j <= Len(q) /\ j <= Len(r) /\ j <= Len(q) - k
        /\ Shifted(q, r, k, j)
    BY <1>1 DEF Shifted
  <2>2. r[j + 1].before \in States
    <3>1. r[j + 1] \in Entries
      BY <1>1
    <3>. QED  BY <3>1, EntryParts
  <2>3. Continues(q, k + j, r[j + 1].before)
    <3>1. CASE k + j = Len(q)
      <4>1. j + 1 = Len(r)
        <5>1. PICK n \in Nat : n = Len(q)
          BY <1>1
        <5>2. PICK m \in Nat : m = Len(r)
          BY <1>1
        <5>3. m = (n - k) + 1 /\ k + j = n /\ j \in Nat
          BY <2>1, <3>1, <5>1, <5>2
        <5>4. j + 1 = m
          BY <5>3
        <5>. QED  BY <5>2, <5>4
      <4>. QED  BY <3>1, <4>1
    <3>2. CASE k + j # Len(q)
      <4>1. /\ k + j \in 1..Len(q) - 1 /\ j + 1 \in 1..Len(q) - k
            /\ (j + 1) + k = (k + j) + 1
        BY <1>1, <2>1, <3>2
      <4>2. r[j + 1] = q[(k + j) + 1]
        BY <4>1
      <4>3. Continues(q, k + j, q[(k + j) + 1].before)
        BY <4>1 DEF Linked
      <4>. QED  BY <4>2, <4>3
    <3>. QED  BY <3>1, <3>2
  <2>. QED  BY <1>1, <2>1, <2>2, <2>3, ContinuesMoved
<1>. QED  BY <1>2 DEF Linked

-----------------------------------------------------------------------------
\* What the ring tells.

\* Nothing is redone before a start.
LEMMA ZerosAreState == Zeros \in States
  BY DEF Zeros, States

\* An entry, redone on a state that has the accounts in known as the program had them, leaves
\* those that it tells as the program had them after it.
LEMMA RedoneAlike ==
    ASSUME NEW body \in Entries, NEW b \in States, NEW known \in SUBSET Chunks,
           \A c \in known : b[c] = body.before[c]
    PROVE  /\ KnownAfter(known, body) \in SUBSET Chunks
           /\ \A c \in KnownAfter(known, body) : Redo(b, body)[c] = After(body)[c]
<1>1. /\ body.chunk \in Chunks /\ body.before \in States
      /\ body.transactions \in Seq(Transfers)
  BY EntryParts
<1>2. PICK p : p = PutBack(b, body)
  OBVIOUS
<1>3. /\ p \in States /\ p[body.chunk] = body.before[body.chunk]
      /\ \A c \in Chunks : c # body.chunk => p[c] = b[c]
      /\ Redo(b, body) = ApplyAll(p, body.transactions)
  BY <1>2, PutBackIs
<1>4. PICK told \in SUBSET Chunks : told = known \union {body.chunk}
  BY <1>1
<1>5. \A c \in told : p[c] = body.before[c]
  BY <1>3, <1>4
<1>6. KnownAfter(known, body) = Touched(told, body.transactions)[Len(body.transactions)]
  BY <1>4 DEF KnownAfter
<1>. QED  BY <1>1, <1>3, <1>5, <1>6, SameBatch DEF After

\* So it is with all entries, whatever the recovery begins with, and whatever that began with
\* from which a run went on.
LEMMA ChainTells ==
    ASSUME NEW q, Linked(q), NEW told, told[0] = {},
           \A k \in 1..Len(q) : told[k] = KnownAfter(told[k - 1], q[k])
    PROVE  \A j \in 1..Len(q) : /\ told[j] \in SUBSET Chunks
                               /\ \A b \in States, c \in told[j] :
                                     Replayed(q, b)[j][c] = After(q[j])[c]
<1>. DEFINE n == Len(q)
            Told(j) == /\ told[j] \in SUBSET Chunks
                       /\ j > 0 => \A b \in States, c \in told[j] :
                                      Replayed(q, b)[j][c] = After(q[j])[c]
            H == {j \in 0..n : Told(j)}
<1>1. /\ q \in Seq(Entries) /\ n \in Nat /\ \A j \in 1..n : q[j] \in Entries
      /\ \A j \in 1..n - 1 : Continues(q, j, q[j + 1].before)
  BY DEF Linked
<1>2. ASSUME NEW b \in States
      PROVE  /\ \A j \in 0..n : Replayed(q, b)[j] \in States
             /\ \A j \in 1..n : Replayed(q, b)[j] = Redo(Replayed(q, b)[j - 1], q[j])
  BY <1>1, ReplayedAreStates
<1>. HIDE DEF n
<1>3. 0 \in H
  BY <1>1
<1>4. ASSUME NEW j \in 0..n - 1, j \in H PROVE j + 1 \in H
  <2>1. /\ j + 1 \in 1..n /\ (j + 1) - 1 = j /\ j + 1 \in 0..n /\ j \in 0..n
        /\ j + 1 > 0 /\ (j > 0 => j \in 1..n - 1)
    BY <1>1
  <2>2. PICK body \in Entries : body = q[j + 1]
    BY <1>1, <2>1
  <2>3. told[j + 1] = KnownAfter(told[j], body)
    BY <2>1, <2>2 DEF n
  <2>4. Told(j)
    BY <1>4
  <2>5. ASSUME NEW b \in States, NEW c \in told[j] PROVE Replayed(q, b)[j][c] = body.before[c]
    <3>1. j > 0 /\ j \in 1..n - 1
      BY <2>1, <2>5
    <3>2. \A a \in States : Replayed(q, a)[j][c] = After(q[j])[c]
      BY <2>4, <3>1
    <3>3. Continues(q, j, body.before)
      BY <1>1, <2>2, <3>1
    <3>4. CASE body.before = After(q[j])
      BY <3>2, <3>4
    <3>5. CASE \E first \in States : body.before = Replayed(q, first)[j]
      <4>1. PICK first \in States : body.before = Replayed(q, first)[j]
        BY <3>5
      <4>. QED  BY <3>2, <4>1
    <3>. QED  BY <3>3, <3>4, <3>5 DEF Continues
  <2>6. ASSUME NEW b \in States
        PROVE  /\ KnownAfter(told[j], body) \in SUBSET Chunks
               /\ \A c \in KnownAfter(told[j], body) :
                     Replayed(q, b)[j + 1][c] = After(body)[c]
    <3>1. PICK a : a = Replayed(q, b)[j]
      OBVIOUS
    <3>2. a \in States /\ Replayed(q, b)[j + 1] = Redo(a, body)
      BY <1>2, <2>1, <2>2, <3>1
    <3>3. \A c \in told[j] : a[c] = body.before[c]
      BY <2>5, <3>1
    <3>. QED  BY <2>4, <3>2, <3>3, RedoneAlike
  <2>7. KnownAfter(told[j], body) \in SUBSET Chunks
    BY <2>6, ZerosAreState
  <2>8. Told(j + 1)
    BY <2>2, <2>3, <2>6, <2>7
  <2>. QED  BY <2>1, <2>8
<1>. HIDE DEF H
<1>5. \A j \in 0..n : j \in H
  BY <1>1, <1>3, <1>4, UpTo
<1>6. \A j \in 1..n : j \in 0..n /\ j > 0
  BY <1>1
<1>. QED  BY <1>5, <1>6 DEF H, n

-----------------------------------------------------------------------------
\* The entries of the ring.

\* As many as the ring is long.
LEMMA EntriesAre ==
    ASSUME NEW m \in Metas, NEW s
    PROVE  /\ Len(EntriesOf(s, m)) = Length(m) /\ Length(m) \in Nat
           /\ Length(m) <= Capacity - 1
           /\ \A j \in 1..Length(m) :
                 EntriesOf(s, m)[j] = s[(m.tail - ((Length(m) + 1) - j)) % Capacity].body
<1>1. Length(m) \in Nat /\ Length(m) <= Capacity - 1
  BY LengthIs, Room
<1>2. PICK n \in Nat : n = Length(m)
  BY <1>1
<1>. DEFINE f == [j \in 1..n |-> s[(m.tail - ((n + 1) - j)) % Capacity].body]
<1>3. Len(f) = n
  BY LenProperties
<1>4. EntriesOf(s, m) = f
  BY <1>2 DEF EntriesOf
<1>. QED  BY <1>1, <1>2, <1>3, <1>4

\* A ring without entries.
LEMMA NoEntries ==
    ASSUME NEW m \in Metas, NEW s, NEW t, m.count = 0, Holds(s, m)
    PROVE  Length(m) = 0 /\ EntriesOf(t, m) = <<>> /\ Linked(EntriesOf(t, m))
<1>1. Length(m) = 0
  BY Room DEF Holds
<1>2. EntriesOf(t, m) = <<>>
  BY <1>1 DEF EntriesOf
<1>3. Linked(<<>>)
  BY DEF Linked
<1>. QED  BY <1>1, <1>2, <1>3

\* Only the slots of the ring matter.
LEMMA SameEntries ==
    ASSUME NEW m \in Metas, NEW s, NEW t, \A i \in InRing(m) : t[i] = s[i]
    PROVE  EntriesOf(t, m) = EntriesOf(s, m)
<1>1. Length(m) \in Nat
  BY EntriesAre
<1>2. ASSUME NEW j \in 1..Length(m)
      PROVE  t[(m.tail - ((Length(m) + 1) - j)) % Capacity].body
                = s[(m.tail - ((Length(m) + 1) - j)) % Capacity].body
  <2>1. (Length(m) + 1) - j \in 1..Length(m)
    BY <1>1
  <2>2. (m.tail - ((Length(m) + 1) - j)) % Capacity \in InRing(m)
    BY <2>1, RingSlots
  <2>. QED  BY <2>2
<1>. QED  BY <1>2 DEF EntriesOf

\* What matters of the metadata is the place of the ring.
LEMMA EntriesAtPlace ==
    ASSUME NEW m, NEW w, SamePlace(m, w), NEW s
    PROVE  Length(m) = Length(w) /\ EntriesOf(s, m) = EntriesOf(s, w)
  BY DEF SamePlace, Length, EntriesOf

\* The slot behind the tail is none of them.
LEMMA EntriesBehind ==
    ASSUME NEW m \in Metas, NEW s, NEW t, \A i \in 0..Capacity-1 : i # m.tail => t[i] = s[i]
    PROVE  EntriesOf(t, m) = EntriesOf(s, m)
<1>1. Length(m) \in Nat /\ Length(m) <= Capacity - 1 /\ m.tail \in 0..Capacity-1
  BY EntriesAre DEF Metas
<1>2. ASSUME NEW j \in 1..Length(m)
      PROVE  t[(m.tail - ((Length(m) + 1) - j)) % Capacity].body
                = s[(m.tail - ((Length(m) + 1) - j)) % Capacity].body
  <2>1. PICK n \in 1..Capacity-1 : n = (Length(m) + 1) - j
    BY <1>1, Room
  <2>2. n \in 0..Capacity-1
    BY <2>1, Room
  <2>3. (m.tail - n) % Capacity \in 0..Capacity-1 /\ (m.tail - n) % Capacity # m.tail
    BY <1>1, <2>1, <2>2, Before, TailIsFree
  <2>4. t[(m.tail - n) % Capacity] = s[(m.tail - n) % Capacity]
    BY <2>3
  <2>. QED  BY <2>1, <2>4
<1>. QED  BY <1>2 DEF EntriesOf

\* With the tail moved over an entry, the entries are those there were, less the oldest when
\* there is no room for all, and that one.
LEMMA EntriesMoved ==
    ASSUME NEW m \in Metas, NEW s, NEW q, q = EntriesOf(s, m),
           NEW r, r = EntriesOf(s, Stepped(m))
    PROVE  \E k \in 0..1 :
              /\ k <= Len(q) /\ Len(r) = (Len(q) - k) + 1 /\ Len(r) > 0
              /\ \A j \in 1..Len(q) - k : r[j] = q[j + k]
              /\ r[Len(r)] = s[m.tail].body
              /\ Len(r) = Length(Stepped(m))
<1>1. PICK w : w = Stepped(m)
  OBVIOUS
<1>2. /\ w \in Metas
      /\ Length(w) = IF Length(m) = Capacity - 1 THEN Length(m) ELSE Length(m) + 1
      /\ \A n \in 1..Length(w) : (w.tail - n) % Capacity = (m.tail - (n - 1)) % Capacity
  BY <1>1, SteppedIs
<1>3. /\ Len(q) = Length(m) /\ Length(m) \in Nat /\ Length(m) <= Capacity - 1
      /\ \A j \in 1..Length(m) : q[j] = s[(m.tail - ((Length(m) + 1) - j)) % Capacity].body
  BY EntriesAre
<1>4. /\ Len(r) = Length(w)
      /\ \A j \in 1..Length(w) : r[j] = s[(w.tail - ((Length(w) + 1) - j)) % Capacity].body
  BY <1>1, <1>2, EntriesAre
<1>5. PICK k \in 0..1 : k = IF Length(m) = Capacity - 1 THEN 1 ELSE 0
  OBVIOUS
<1>6. k <= Length(m) /\ Length(w) = (Length(m) - k) + 1 /\ Length(w) \in Nat /\ Length(w) > 0
  BY <1>2, <1>3, <1>5, Room
<1>7. ASSUME NEW j \in 1..Length(w)
      PROVE  r[j] = s[(m.tail - (Length(w) - j)) % Capacity].body
  <2>1. PICK n \in 1..Length(w) : n = (Length(w) + 1) - j
    BY <1>6
  <2>2. n - 1 = Length(w) - j
    BY <1>6, <2>1
  <2>3. (w.tail - n) % Capacity = (m.tail - (n - 1)) % Capacity
    BY <1>2
  <2>. QED  BY <1>4, <2>1, <2>2, <2>3
<1>8. ASSUME NEW j \in 1..Length(m) - k PROVE r[j] = q[j + k]
  <2>1. j \in 1..Length(w) /\ j + k \in 1..Length(m)
        /\ (Length(m) + 1) - (j + k) = Length(w) - j
    BY <1>3, <1>6
  <2>. QED  BY <1>3, <1>7, <2>1
<1>9. r[Length(w)] = s[m.tail].body
  <2>1. Length(w) \in 1..Length(w) /\ Length(w) - Length(w) = 0
    BY <1>6
  <2>2. (m.tail - 0) % Capacity = m.tail
    <3>1. m.tail \in 0..Capacity-1
      BY DEF Metas
    <3>. QED  BY <3>1, TailItself
  <2>. QED  BY <1>7, <2>1, <2>2
<1>. QED  BY <1>1, <1>3, <1>4, <1>5, <1>6, <1>8, <1>9

-----------------------------------------------------------------------------
\* The steps, once more.

\* The first start finds no entries.
LEMMA RestoreInit == Init => RestoreInv
<1>. SUFFICES ASSUME Init PROVE Chains /\ StateFollows
  BY DEF RestoreInv
<1>1. fileMeta = NoMeta /\ diskMeta = NoMeta /\ phase = "down" /\ writes = 0
  BY DEF Init
<1>2. Linked(EntriesOf(slots, NoMeta)) /\ Linked(EntriesOf(diskSlots, NoMeta))
  BY EmptyMetas, EmptyHolds, NoEntries
<1>. QED  BY <1>1, <1>2 DEF Chains, StateFollows

\* Recovery begins with the oldest entry.
LEMMA BootRestores ==
    ASSUME Files, InMemory, Chains, StateFollows, Boot
    PROVE  Chains' /\ StateFollows'
<1>1. /\ UNCHANGED <<slots, fileMeta, diskSlots, diskMeta>>
      /\ phase' = IF fileMeta.sig = "zero" THEN "create" ELSE "recover"
      /\ state' = IF fileMeta.sig = "zero" THEN [c \in Chunks |-> InitialBalance] ELSE Zeros
      /\ idx' = meta'.head /\ writes' = 0
      /\ meta' = IF fileMeta.sig = "signed" THEN fileMeta ELSE EmptyRing
  BY DEF Boot, fileVars, diskVars
<1>2. fileMeta \in Metas /\ Linked(EntriesOf(slots, fileMeta))
  BY DEF Files, Chains
<1>3. Chains'
  BY <1>1 DEF Chains, EntriesOf
<1>4. ASSUME phase' = "create" PROVE state' \in States /\ fileMeta'.count = 0
  <2>1. fileMeta.sig = "zero"
    BY <1>1, <1>4
  <2>2. state' \in States
    BY <1>1, <2>1, RingAssumption DEF States
  <2>. QED  BY <1>1, <1>2, <2>1, <2>2 DEF Metas
<1>5. /\ Length(fileMeta) \in 0..Capacity-1
      /\ meta'.head = (fileMeta.tail - Length(fileMeta)) % Capacity
  <2>1. /\ Length(fileMeta) \in 0..Capacity-1
        /\ Length(fileMeta) = IF fileMeta.head <= fileMeta.tail
                                THEN fileMeta.tail - fileMeta.head
                                ELSE fileMeta.tail - fileMeta.head + Capacity
    BY <1>2, LengthIs
  <2>2. meta'.head = fileMeta.head
    BY <1>1, <1>2, EmptyMetas DEF Metas
  <2>3. fileMeta.head \in 0..Capacity-1 /\ fileMeta.tail \in 0..Capacity-1
    BY <1>2 DEF Metas
  <2>4. (fileMeta.tail - Length(fileMeta)) % Capacity
           = IF Length(fileMeta) <= fileMeta.tail
               THEN fileMeta.tail - Length(fileMeta)
               ELSE fileMeta.tail - Length(fileMeta) + Capacity
    BY <2>1, <2>3, Before
  <2>. QED  BY <2>1, <2>2, <2>3, <2>4, Room
<1>6. ASSUME phase' = "recover"
      PROVE  \E left \in 0..Length(fileMeta) :
                /\ idx' = (fileMeta.tail - left) % Capacity
                /\ state' = Replayed(EntriesOf(slots, fileMeta), Zeros)
                                                                [Length(fileMeta) - left]
  <2>1. state' = Zeros
    BY <1>1, <1>6
  <2>2. Replayed(EntriesOf(slots, fileMeta), Zeros)[0] = Zeros
    BY <1>2, ZerosAreState, ReplayedAreStates DEF Linked
  <2>3. PICK left \in 0..Length(fileMeta) : left = Length(fileMeta)
    BY <1>5
  <2>4. Length(fileMeta) - left = 0
    BY <1>5, <2>3
  <2>. QED  BY <1>1, <1>5, <2>1, <2>2, <2>3, <2>4
<1>7. phase' \in {"create", "recover"} /\ writes' \in Nat
  BY <1>1
<1>8. StateFollows'
  <2>1. phase' = "recover" => \E left \in 0..Length(fileMeta)' :
           /\ idx' = ((fileMeta.tail - left) % Capacity)'
           /\ state' = (Replayed(EntriesOf(slots, fileMeta), Zeros)[Length(fileMeta) - left])'
    BY <1>1, <1>6 DEF EntriesOf, Length
  <2>. QED  BY <1>4, <1>7, <2>1 DEF StateFollows
<1>. QED  BY <1>3, <1>8

\* A new ring has no entries: its run has the state the program starts with.
LEMMA CreateRestores ==
    ASSUME Files, InMemory, Chains, StateFollows, CreateRing \/ SyncNewRing
    PROVE  Chains' /\ StateFollows'
<1>1. phase = "create" /\ pc = "read" /\ pc' = "read"
      /\ state \in States /\ fileMeta.count = 0 /\ writes \in Nat
      /\ UNCHANGED <<slots, state, writes>>
  BY DEF CreateRing, SyncNewRing, InMemory, StateFollows, processVars, fileVars
<1>2. fileMeta \in Metas /\ Holds(slots, fileMeta) /\ meta = EmptyRing
  BY <1>1 DEF Files, InMemory
<1>3. CASE CreateRing
  <2>1. /\ fileMeta' = EmptyRing /\ phase' = "create"
        /\ UNCHANGED <<diskSlots, diskMeta>>
    BY <1>1, <1>2, <1>3 DEF CreateRing, processVars, diskVars
  <2>2. EmptyRing \in Metas /\ EmptyRing.count = 0
    BY EmptyMetas
  <2>3. Linked(EntriesOf(slots, EmptyRing))
    BY EmptyMetas, EmptyHolds, NoEntries
  <2>4. Chains'
    BY <1>1, <2>1, <2>3 DEF Chains, EntriesOf
  <2>5. StateFollows'
    BY <1>1, <2>1, <2>2 DEF StateFollows
  <2>. QED  BY <2>4, <2>5
<1>4. CASE SyncNewRing
  <2>1. /\ diskSlots' = slots /\ diskMeta' = fileMeta /\ phase' = "run"
        /\ UNCHANGED fileMeta
    BY <1>4 DEF SyncNewRing, fileVars
  <2>2. Chains'
    BY <1>1, <2>1 DEF Chains, EntriesOf
  <2>3. PICK q : q = EntriesOf(slots, fileMeta)
    OBVIOUS
  <2>4. Length(fileMeta) = 0 /\ q \in Seq(Entries)
    BY <1>1, <1>2, <2>3, NoEntries DEF Chains, Linked
  <2>5. Continues(q, 0, state)
    <3>1. Replayed(q, state)[0] = state
      BY <1>1, <2>4, ReplayedAreStates
    <3>. QED  BY <1>1, <3>1 DEF Continues
  <2>6. Continues(EntriesOf(slots, fileMeta), Length(fileMeta), state)'
    BY <1>1, <2>1, <2>3, <2>4, <2>5 DEF EntriesOf, Length
  <2>7. StateFollows'
    BY <1>1, <2>1, <2>6 DEF StateFollows
  <2>. QED  BY <2>2, <2>7
<1>. QED  BY <1>3, <1>4

\* Recovery redoes one entry after the other.
LEMMA RecoverRestores ==
    ASSUME Files, InMemory, Chains, StateFollows,
           RecoverEntry \/ RecoverTornEntry \/ FinishRecovery
    PROVE  Chains' /\ StateFollows'
<1>1. /\ UNCHANGED <<pc, meta, writes, slots, fileMeta, diskSlots, diskMeta>>
      /\ phase = "recover"
  BY DEF RecoverEntry, RecoverTornEntry, FinishRecovery, fileVars, diskVars
<1>2. /\ meta.tail = fileMeta.tail /\ fileMeta \in Metas /\ Holds(slots, fileMeta)
      /\ fileMeta.tail \in 0..Capacity-1 /\ writes \in Nat /\ pc = "read"
  BY <1>1 DEF InMemory, Files, Metas, StateFollows
<1>3. Chains'
  BY <1>1 DEF Chains, EntriesOf
<1>4. PICK q : q = EntriesOf(slots, fileMeta)
  OBVIOUS
<1>5. PICK L \in 0..Capacity-1 : L = Length(fileMeta)
  BY <1>2, LengthIs
<1>6. /\ q \in Seq(Entries) /\ Len(q) = L
      /\ \A j \in 1..L : q[j] = slots[(fileMeta.tail - ((L + 1) - j)) % Capacity].body
  BY <1>2, <1>4, <1>5, EntriesAre DEF Chains, Linked
<1>7. PICK left \in 0..L : /\ idx = (fileMeta.tail - left) % Capacity
                           /\ state = Replayed(q, Zeros)[L - left]
  BY <1>1, <1>4, <1>5 DEF StateFollows
<1>8. left \in 0..Capacity-1 /\ L \in Nat /\ left \in Nat /\ left <= L /\ L <= Capacity - 1
  BY <1>5, Room
<1>9. /\ \A j \in 0..L : Replayed(q, Zeros)[j] \in States
      /\ \A j \in 1..L : Replayed(q, Zeros)[j] = Redo(Replayed(q, Zeros)[j - 1], q[j])
  BY <1>6, ZerosAreState, ReplayedAreStates
<1>10. CASE RecoverEntry
  <2>1. /\ idx # meta.tail /\ idx' = NextSlot(idx) /\ phase' = "recover"
        /\ state' = IF slots[idx].valid THEN Redo(state, slots[idx].body) ELSE state
    BY <1>1, <1>10 DEF RecoverEntry
  <2>2. left # 0
    <3>1. (fileMeta.tail - 0) % Capacity = fileMeta.tail
      BY <1>2, TailItself
    <3>2. idx # fileMeta.tail
      BY <1>2, <2>1
    <3>3. ASSUME left = 0 PROVE idx = (fileMeta.tail - 0) % Capacity
      BY <1>7, <3>3
    <3>. QED  BY <3>1, <3>2, <3>3
  <2>3. PICK j \in 1..L : j = (L - left) + 1
    <3>1. (L - left) + 1 \in 1..L
      BY <1>8, <2>2
    <3>. QED  BY <3>1
  <2>4. (L + 1) - j = left /\ j - 1 = L - left /\ L - (left - 1) = j
        /\ left - 1 \in 0..L /\ left - 1 \in 0..Capacity-1 /\ left \in 1..L
    BY <1>8, <2>2, <2>3, Room
  <2>5. slots[idx].body = q[j] /\ slots[idx].valid
    <3>1. q[j] = slots[(fileMeta.tail - ((L + 1) - j)) % Capacity].body
      BY <1>6
    <3>2. slots[(fileMeta.tail - left) % Capacity].valid
      BY <1>2, <1>5, <2>4 DEF Holds
    <3>. QED  BY <1>7, <2>4, <3>1, <3>2
  <2>6. state' = Replayed(q, Zeros)[L - (left - 1)]
    BY <1>7, <1>9, <2>1, <2>3, <2>4, <2>5
  <2>7. idx' = (fileMeta.tail - (left - 1)) % Capacity
    <3>1. (fileMeta.tail - left) % Capacity \in 0..Capacity-1
          /\ (fileMeta.tail - left) % Capacity
                = IF left <= fileMeta.tail THEN fileMeta.tail - left
                                           ELSE fileMeta.tail - left + Capacity
      BY <1>2, <1>8, Before
    <3>2. (fileMeta.tail - (left - 1)) % Capacity
             = IF left - 1 <= fileMeta.tail THEN fileMeta.tail - (left - 1)
                                            ELSE fileMeta.tail - (left - 1) + Capacity
      BY <1>2, <2>4, Before
    <3>3. PICK i \in 0..Capacity-1 : i = idx
      BY <1>7, <3>1
    <3>4. idx' = IF i + 1 = Capacity THEN 0 ELSE i + 1
      BY <2>1, <3>3, Following
    <3>. QED  BY <1>2, <1>7, <1>8, <2>4, <3>1, <3>2, <3>3, <3>4, Room
  <2>8. PICK rest \in 0..L : rest = left - 1
    BY <2>4
  <2>9. (\E more \in 0..Length(fileMeta) :
           /\ idx = (fileMeta.tail - more) % Capacity
           /\ state = Replayed(EntriesOf(slots, fileMeta), Zeros)[Length(fileMeta) - more])'
    BY <1>1, <1>4, <1>5, <2>6, <2>7, <2>8 DEF EntriesOf, Length
  <2>10. StateFollows'
    BY <1>1, <1>2, <2>1, <2>9 DEF StateFollows
  <2>. QED  BY <1>3, <2>10
<1>11. CASE RecoverTornEntry
  <2>1. phase' = "undefined"
    BY <1>11 DEF RecoverTornEntry
  <2>. QED  BY <1>1, <1>2, <1>3, <2>1 DEF StateFollows
<1>12. CASE FinishRecovery
  <2>1. idx = meta.tail /\ phase' = "run" /\ UNCHANGED state
    BY <1>12 DEF FinishRecovery
  <2>2. left = 0
    <3>1. left # 0 => left \in 1..Capacity-1
      BY <1>8, Room
    <3>. QED  BY <1>2, <1>7, <2>1, <3>1, TailIsFree
  <2>3. state = Replayed(q, Zeros)[L] /\ state \in States
    <3>1. L - left = L /\ L \in 0..L
      BY <1>5, <2>2
    <3>. QED  BY <1>7, <1>9, <3>1
  <2>4. Continues(q, L, state)
    BY <2>3, ZerosAreState DEF Continues
  <2>5. Continues(EntriesOf(slots, fileMeta), Length(fileMeta), state)'
    BY <1>1, <1>4, <1>5, <2>1, <2>4 DEF EntriesOf, Length
  <2>6. StateFollows'
    BY <1>1, <1>2, <2>1, <2>3, <2>5 DEF StateFollows
  <2>. QED  BY <1>3, <2>6
<1>. QED  BY <1>10, <1>11, <1>12

\* What a run can take from the transaction file.
LEMMA BatchesAre ==
    ASSUME writes \in Nat, writes < TotalBatches, NEW batch \in Batches[writes]
    PROVE  batch \in Seq(Transfers)
<1>1. writes \in 0..TotalBatches-1
  BY RingAssumption
<1>2. Batches \in [0..TotalBatches-1 -> SUBSET Seq(Transfers)]
  BY RingAssumption DEF Transfers
<1>. QED  BY <1>1, <1>2

\* The entry of a batch takes the state the program has.
LEMMA BuildRestores ==
    ASSUME Files, InMemory, Chains, StateFollows, NEW batch \in Seq(Transfers),
           BuildEntry(batch)
    PROVE  Chains' /\ StateFollows'
<1>1. /\ UNCHANGED <<phase, state, slots, fileMeta, diskSlots, diskMeta>>
      /\ phase = "run" /\ pc = "read" /\ pc' = "write" /\ writes' = writes + 1
      /\ entry' = [batch |-> meta.count + 1, chunk |-> writes % NumChunks,
                   transactions |-> batch, before |-> state]
  BY DEF BuildEntry, fileVars, diskVars
<1>2. /\ writes \in Nat /\ state \in States
      /\ Continues(EntriesOf(slots, fileMeta), Length(fileMeta), state)
  BY <1>1 DEF StateFollows
<1>3. writes' \in Nat
  BY <1>1, <1>2
<1>4. entry' \in Entries /\ entry'.before = state
  <2>1. meta.count + 1 \in Nat
    BY <1>1 DEF InMemory, Metas
  <2>2. writes % NumChunks \in Chunks
    BY <1>2, RingAssumption DEF Chunks
  <2>. QED  BY <1>1, <1>2, <2>1, <2>2 DEF Entries
<1>5. Chains'
  BY <1>1 DEF Chains, EntriesOf
<1>6. Continues(EntriesOf(slots, fileMeta), Length(fileMeta), state)'
  BY <1>1, <1>2 DEF EntriesOf, Length
<1>7. StateFollows'
  BY <1>1, <1>2, <1>3, <1>4, <1>6 DEF StateFollows
<1>. QED  BY <1>5, <1>7

\* While it is written the ring in the file is what it was.
LEMMA WriteRestores ==
    ASSUME Files, InMemory, Behind, Chains, StateFollows, BeginWrite \/ EndWrite \/ MarkValid
    PROVE  Chains' /\ StateFollows'
<1>1. /\ phase = "run" /\ UNCHANGED <<phase, state, meta, entry, writes, diskSlots, diskMeta>>
      /\ pc \in Writing /\ pc' \in Writing
      /\ fileMeta' = fileMeta \/ (fileMeta = NoMeta /\ fileMeta' = ZeroMeta)
      /\ \E slot : slots' = [slots EXCEPT ![meta.tail] = slot]
  BY DEF BeginWrite, EndWrite, MarkValid, diskVars, historyVars, Writing
<1>2. fileMeta \in Metas /\ meta.tail = fileMeta.tail /\ IsRing(slots)
  BY <1>1 DEF InMemory, Files
<1>3. \A i \in 0..Capacity-1 : i # fileMeta.tail => slots'[i] = slots[i]
  BY <1>1, <1>2 DEF IsRing
<1>4. EntriesOf(slots', fileMeta) = EntriesOf(slots, fileMeta)
  BY <1>2, <1>3, EntriesBehind
<1>5. SamePlace(fileMeta', fileMeta)
  BY <1>1, EmptyMetas DEF SamePlace
<1>6. /\ Length(fileMeta') = Length(fileMeta)
      /\ EntriesOf(slots', fileMeta') = EntriesOf(slots, fileMeta)
  BY <1>4, <1>5, EntriesAtPlace
<1>7. EntriesOf(slots, fileMeta)' = EntriesOf(slots', fileMeta')
      /\ Length(fileMeta)' = Length(fileMeta')
  BY DEF EntriesOf, Length
<1>8. Chains'
  BY <1>1, <1>6, <1>7 DEF Chains, EntriesOf
<1>9. /\ writes \in Nat /\ state \in States /\ entry \in Entries /\ entry.before = state
      /\ Continues(EntriesOf(slots, fileMeta), Length(fileMeta), state)
  BY <1>1 DEF StateFollows, Writing
<1>10. Continues(EntriesOf(slots, fileMeta)', Length(fileMeta)', state')
  BY <1>1, <1>6, <1>7, <1>9
<1>11. StateFollows'
  BY <1>1, <1>9, <1>10 DEF StateFollows, Writing
<1>. QED  BY <1>8, <1>11

\* The entry that the metadata takes into the ring continues those before it.
LEMMA MetadataRestores ==
    ASSUME Files, InMemory, Ahead, Behind, Chains, StateFollows, WriteMetadata
    PROVE  Chains' /\ StateFollows'
<1>1. /\ phase = "run" /\ pc = "metadata" /\ pc' = "sync"
      /\ UNCHANGED <<phase, state, entry, writes, slots, diskSlots, diskMeta>>
  BY DEF WriteMetadata, diskVars
<1>2. /\ fileMeta' = Stepped(fileMeta) /\ fileMeta \in Metas
      /\ slots[fileMeta.tail].body = entry
  BY MetadataIs
<1>3. PICK q : q = EntriesOf(slots, fileMeta)
  OBVIOUS
<1>4. PICK r : r = EntriesOf(slots, Stepped(fileMeta))
  OBVIOUS
<1>5. PICK k \in 0..1 :
         /\ k <= Len(q) /\ Len(r) = (Len(q) - k) + 1 /\ Len(r) > 0
         /\ \A j \in 1..Len(q) - k : r[j] = q[j + k]
         /\ r[Len(r)] = entry /\ Len(r) = Length(Stepped(fileMeta))
  BY <1>2, <1>3, <1>4, EntriesMoved
<1>6. /\ Linked(q) /\ q \in Seq(Entries) /\ Len(q) = Length(fileMeta)
      /\ writes \in Nat /\ state \in States /\ entry \in Entries /\ entry.before = state
      /\ Continues(q, Len(q), state)
  BY <1>1, <1>2, <1>3, EntriesAre DEF Chains, StateFollows, Linked, Writing
<1>7. r \in Seq(Entries)
  <2>1. PICK n \in Nat : n = Length(Stepped(fileMeta))
    BY <1>2, SteppedIs, EntriesAre
  <2>2. \A j \in 1..n : r[j] \in Entries
    <3>. SUFFICES ASSUME NEW j \in 1..n PROVE r[j] \in Entries
      OBVIOUS
    <3>1. PICK h \in Nat : h = Len(q)
      BY <1>6
    <3>2. n = (h - k) + 1
      BY <1>5, <2>1, <3>1
    <3>3. CASE j = n
      BY <1>5, <1>6, <2>1, <3>3
    <3>4. CASE j # n
      <4>1. j \in 1..h - k /\ j + k \in 1..h
        BY <3>2, <3>4
      <4>2. r[j] = q[j + k]
        BY <1>5, <3>1, <4>1
      <4>. QED  BY <1>6, <3>1, <4>1, <4>2
    <3>. QED  BY <3>3, <3>4
  <2>3. r = [j \in 1..n |-> r[j]]
    BY <1>4, <2>1 DEF EntriesOf
  <2>. QED  BY <2>2, <2>3
<1>8. Linked(r)
  <2>1. k \in Nat
    OBVIOUS
  <2>. QED  BY <1>5, <1>6, <1>7, <2>1, LinkedMoved
<1>9. EntriesOf(slots, fileMeta)' = r /\ Length(fileMeta)' = Len(r)
  BY <1>1, <1>2, <1>4, <1>5 DEF EntriesOf, Length
<1>10. Chains'
  BY <1>1, <1>8, <1>9 DEF Chains, EntriesOf
<1>11. StateFollows'
  BY <1>1, <1>5, <1>6, <1>9 DEF StateFollows, Writing
<1>. QED  BY <1>10, <1>11

\* The device gets what is in the file; then the program has the state after the entry.
LEMMA SyncRestores ==
    ASSUME Files, Chains, StateFollows, SyncMetadata \/ ApplyBatch
    PROVE  Chains' /\ StateFollows'
<1>1. /\ phase = "run" /\ pc \in {"sync", "apply"}
      /\ UNCHANGED <<phase, entry, writes, slots, fileMeta>>
  BY DEF SyncMetadata, ApplyBatch, fileVars
<1>2. /\ writes \in Nat /\ state \in States /\ entry \in Entries /\ entry.before = state
      /\ Length(fileMeta) > 0 /\ EntriesOf(slots, fileMeta)[Length(fileMeta)] = entry
  BY <1>1 DEF StateFollows
<1>3. CASE SyncMetadata
  <2>1. diskSlots' = slots /\ diskMeta' = fileMeta /\ pc' = "apply" /\ UNCHANGED state
    BY <1>3 DEF SyncMetadata
  <2>2. Chains'
    BY <1>1, <2>1 DEF Chains, EntriesOf
  <2>3. (Length(fileMeta) > 0 /\ EntriesOf(slots, fileMeta)[Length(fileMeta)] = entry)'
    BY <1>1, <1>2 DEF EntriesOf, Length
  <2>4. StateFollows'
    BY <1>1, <1>2, <2>1, <2>3 DEF StateFollows, Writing
  <2>. QED  BY <2>2, <2>4
<1>4. CASE ApplyBatch
  <2>1. /\ state' = ApplyAll(state, entry.transactions) /\ pc' = "read"
        /\ UNCHANGED <<diskSlots, diskMeta>>
    BY <1>4 DEF ApplyBatch, diskVars
  <2>2. Chains'
    BY <1>1, <2>1 DEF Chains, EntriesOf
  <2>3. state' = After(entry) /\ state' \in States
    <3>1. state' = After(entry)
      BY <1>2, <2>1 DEF After
    <3>. QED  BY <1>2, <3>1, PutBackIs
  <2>4. Continues(EntriesOf(slots, fileMeta), Length(fileMeta), state')
    BY <1>2, <2>3 DEF Continues
  <2>5. Continues(EntriesOf(slots, fileMeta), Length(fileMeta), state)'
    BY <1>1, <2>4 DEF EntriesOf, Length
  <2>6. StateFollows'
    BY <1>1, <1>2, <2>1, <2>3, <2>5 DEF StateFollows
  <2>. QED  BY <2>2, <2>6
<1>. QED  BY <1>3, <1>4

\* The end of a process leaves the file, and nothing is claimed of its state.
LEMMA KillRestores ==
    ASSUME Chains, Finish \/ Kill
    PROVE  Chains' /\ StateFollows'
<1>1. phase' = "down" /\ writes' = 0 /\ UNCHANGED <<slots, fileMeta, diskSlots, diskMeta>>
  BY DEF Finish, Kill, Reset, fileVars, diskVars
<1>2. Chains'
  BY <1>1 DEF Chains, EntriesOf
<1>. QED  BY <1>1, <1>2 DEF StateFollows

\* After a power loss the entries are those of the file, or those of the device.
LEMMA PowerLossRestores ==
    ASSUME Files, Chains, PowerLoss, ~disordered'
    PROVE  Chains' /\ StateFollows'
<1>1. /\ phase' = "down" /\ writes' = 0 /\ diskSlots' = slots' /\ diskMeta' = fileMeta'
      /\ fileMeta' \in {diskMeta, fileMeta}
  BY DEF PowerLoss, Reset
<1>2. \A i \in InRing(fileMeta') :
          slots'[i] = IF fileMeta' = diskMeta THEN diskSlots[i] ELSE slots[i]
  BY DEF PowerLoss
<1>3. /\ fileMeta \in Metas /\ diskMeta \in Metas
      /\ Linked(EntriesOf(slots, fileMeta)) /\ Linked(EntriesOf(diskSlots, diskMeta))
  BY DEF Files, Chains
<1>4. PICK f : f = fileMeta'
  OBVIOUS
<1>5. PICK s : s = slots'
  OBVIOUS
<1>6. Linked(EntriesOf(s, f))
  <2>1. CASE f = diskMeta
    <3>1. EntriesOf(s, f) = EntriesOf(diskSlots, f)
      BY <1>2, <1>3, <1>4, <1>5, <2>1, SameEntries
    <3>. QED  BY <1>3, <2>1, <3>1
  <2>2. CASE f # diskMeta
    <3>1. f = fileMeta
      BY <1>1, <1>4, <2>2
    <3>2. EntriesOf(s, f) = EntriesOf(slots, f)
      BY <1>2, <1>3, <1>4, <1>5, <2>2, <3>1, SameEntries
    <3>. QED  BY <1>3, <3>1, <3>2
  <2>. QED  BY <2>1, <2>2
<1>7. Chains'
  BY <1>1, <1>4, <1>5, <1>6 DEF Chains, EntriesOf
<1>. QED  BY <1>1, <1>7 DEF StateFollows

\* No step breaks the chain.
LEMMA RestoreStep == RingInv /\ RestoreInv /\ [Next]_vars => RestoreInv'
<1>. SUFFICES ASSUME RingInv, RestoreInv, [Next]_vars, ~disordered', ~cut'
              PROVE  Chains' /\ StateFollows'
  BY DEF RestoreInv
<1>0. ~cut
  BY DEF Next, OpenNext, PersistNext, EndNext, Boot, CreateRing, SyncNewRing, RecoverEntry,
         RecoverTornEntry, StopRecovery, FinishRecovery, BuildEntry, BeginWrite, EndWrite,
         MarkValid, WriteMetadata, SyncMetadata, ApplyBatch, Finish, Kill, PowerLoss, vars,
         historyVars
<1>1. ~disordered
  BY DEF Next, OpenNext, PersistNext, EndNext, Boot, CreateRing, SyncNewRing, RecoverEntry,
         RecoverTornEntry, StopRecovery, FinishRecovery, BuildEntry, BeginWrite, EndWrite,
         MarkValid, WriteMetadata, SyncMetadata, ApplyBatch, Finish, Kill, PowerLoss, vars,
         historyVars
<1>2. Files /\ InMemory /\ Ahead /\ Behind /\ Chains /\ StateFollows
  BY <1>0, <1>1 DEF RingInv, RestoreInv
<1>3. CASE UNCHANGED vars
  BY <1>2, <1>3 DEF vars, processVars, fileVars, diskVars, historyVars, Chains, StateFollows,
                    EntriesOf, Length
<1>4. CASE OpenNext
  BY <1>2, <1>4, BootRestores, CreateRestores, RecoverRestores DEF OpenNext, StopRecovery
<1>5. CASE PersistNext
  <2>1. CASE \E batch \in Batches[writes] : writes < TotalBatches /\ BuildEntry(batch)
    <3>1. PICK batch \in Batches[writes] : writes < TotalBatches /\ BuildEntry(batch)
      BY <2>1
    <3>2. batch \in Seq(Transfers)
      BY <1>2, <3>1, BatchesAre DEF StateFollows
    <3>. QED  BY <1>2, <3>1, <3>2, BuildRestores
  <2>. QED
    BY <1>2, <1>5, <2>1, WriteRestores, MetadataRestores, SyncRestores DEF PersistNext
<1>6. CASE EndNext
  BY <1>2, <1>6, KillRestores, PowerLossRestores DEF EndNext
<1>. QED  BY <1>3, <1>4, <1>5, <1>6 DEF Next

\* The inductive invariant of the entries' contents: every entry in the ring holds the state
\* after the one before it, or one that was recovered from the entries before it.
THEOREM RestoreInvariant == Spec => []RestoreInv
  BY RestoreInit, RestoreStep, RingInvariant, PTL DEF Spec

-----------------------------------------------------------------------------
\* What recovery gives.

\* Every account that the ring tells is recovered as it was after the newest entry, however
\* often the program was stopped while the ring was filled, unless power failed and the
\* device had mixed up the order of writes, or a recovery could not read (KnownIsRestored).
THEOREM RingRestoresKnown == Spec => []KnownIsRestored
<1>1. RingInv /\ RestoreInv => KnownIsRestored
  <2>. SUFFICES ASSUME Files, InMemory, Chains, StateFollows, phase = "recover",
                       idx = meta.tail, fileMeta.count > 0, NEW c \in Known
                PROVE  state[c] = ApplyAll(Stored(1).body.before,
                                           Stored(1).body.transactions)[c]
    BY DEF RingInv, RestoreInv, KnownIsRestored
  <2>1. /\ fileMeta \in Metas /\ meta.tail = fileMeta.tail /\ fileMeta.tail \in 0..Capacity-1
        /\ fileMeta.count \in Nat
    BY DEF Files, InMemory, Metas
  <2>2. PICK L \in 1..Capacity-1 : L = Length(fileMeta)
    BY <2>1, Room DEF Files, Holds
  <2>3. PICK q : q = EntriesOf(slots, fileMeta)
    OBVIOUS
  <2>4. Linked(q)
    BY <2>3 DEF Chains
  <2>5. /\ Len(q) = L
        /\ \A j \in 1..L : q[j] = slots[(fileMeta.tail - ((L + 1) - j)) % Capacity].body
    BY <2>1, <2>2, <2>3, EntriesAre
  <2>6. PICK left \in 0..L : /\ idx = (fileMeta.tail - left) % Capacity
                             /\ state = Replayed(q, Zeros)[L - left]
    BY <2>2, <2>3 DEF StateFollows
  <2>7. left = 0 /\ L - left = L
    <3>1. left # 0 => left \in 1..Capacity-1
      BY <2>2, Room
    <3>2. left = 0
      BY <2>1, <2>6, <3>1, TailIsFree
    <3>. QED  BY <2>2, <3>2
  <2>8. PICK told :
           /\ told[0] = {} /\ Known = told[L]
           /\ \A k \in 1..L : told[k] = KnownAfter(told[k - 1], Stored(L + 1 - k).body)
    <3>1. Length(fileMeta) \in Nat
      BY <2>2
    <3>. QED  BY <2>2, <3>1, KnownIs
  <2>9. \A k \in 1..L : q[k] = Stored(L + 1 - k).body
    BY <2>5 DEF Stored
  <2>10. \A k \in 1..Len(q) : told[k] = KnownAfter(told[k - 1], q[k])
    BY <2>5, <2>8, <2>9
  <2>11. \A b \in States, d \in told[L] : Replayed(q, b)[L][d] = After(q[L])[d]
    <3>1. L \in 1..Len(q)
      BY <2>5
    <3>. QED  BY <2>4, <2>8, <2>10, <3>1, ChainTells
  <2>12. state[c] = After(q[L])[c]
    BY <2>6, <2>7, <2>8, <2>11, ZerosAreState
  <2>13. q[L] = Stored(1).body
    <3>1. L \in 1..L /\ L + 1 - L = 1
      OBVIOUS
    <3>. QED  BY <2>9, <3>1
  <2>. QED  BY <2>12, <2>13 DEF After
<1>. QED  BY <1>1, RingInvariant, RestoreInvariant, PTL
=============================================================================
