------------------------- MODULE BatchPipelineProofs -------------------------
(***************************************************************************)
(* Proofs about the pipeline of reader, main and commit thread, for every  *)
(* size of the ring and of the queues, every number of batches and starts: *)
(* the queues lose no wakeup, every slot belongs to one batch, an orderly  *)
(* end loses nothing, and the log of one run is reconstructed.             *)
(***************************************************************************)
EXTENDS MCGroup, FiniteSetTheorems, SequenceTheorems, TLAPS

\* A job, or the contents of a part of a slot.
Jobs == [run : Nat, batch : Int, txs : Int, value : Int]

\* Whether the commit thread has taken a job, and whether it has begun to write it.
InHand == worker \in Parts \union {"fsync"}
Begun == worker \in {"snapshot", "writes", "fsync"}
OneIf(holds) == IF holds THEN 1 ELSE 0

\* How many batches main has taken from the reader.
Taken == batchNum + OneIf(main = "enqueue")

\* A job is of one batch, and has the state after it.
Matches(j) == j.txs = j.batch /\ j.value = bases[j.run] + j.batch + 1

\* A job of this run.
OfThisRun(j) == j.run = run /\ j.batch \in 0..NumBatches-1 /\ Matches(j)

QueueTypes ==
    /\ txQueue \in Seq(Nat) /\ txCapacity \in Nat \ {0} /\ txDone \in BOOLEAN
    /\ txWaiting \subseteq {"reader", "main"}
    /\ jobQueue \in Seq(Jobs) /\ jobDone \in BOOLEAN /\ jobWaiting \subseteq {"worker"}

Types ==
    /\ phase \in {"down", "run", "overflow"} /\ run \in Nat
    /\ inFile \in Nat /\ nextRead \in Nat /\ batchNum \in Nat /\ committed \in Nat
    /\ state \in Int /\ snapshot \in Int /\ batch \in Int /\ job \in Jobs
    /\ bases \in Seq(Int) /\ Len(bases) = run
    /\ phase = "down" => worker = "exited"
    /\ phase # "down" => run > 0

LogTypes ==
    /\ ioFailed \in BOOLEAN /\ torn \subseteq Slots
    /\ file \in [Slots -> [Parts -> Jobs]] /\ disk \in [Slots -> [Parts -> Jobs]]

\* What the reader has read is on its way, in order, or with main.
Reading ==
    phase # "down" =>
       /\ reader \in {"read", "exited"}
       /\ nextRead <= NumBatches /\ nextRead <= inFile
       /\ txDone <=> reader = "exited"
       /\ reader = "exited" => ~MoreToRead
       /\ nextRead = Taken + Len(txQueue)
       /\ \A i \in 1..Len(txQueue) : txQueue[i] = Taken + i - 1
       /\ main = "enqueue" => batch = batchNum

\* Where main is tells what it has applied and what it has seen of the queues.
Applying ==
    phase # "down" =>
       /\ main \in {"update", "dequeue", "enqueue", "close", "join"}
       /\ batchNum <= NumBatches
       /\ main = "update" => state = bases[run] + batchNum
       /\ main \in {"dequeue", "enqueue"} =>
             /\ batchNum < NumBatches
             /\ state = bases[run] + batchNum + 1 /\ snapshot = state
       /\ main = "close" => txDone /\ txQueue = <<>>
       /\ main = "join" => \/ batchNum = NumBatches
                           \/ txDone /\ txQueue = <<>>
       /\ jobDone <=> main = "join"

\* The jobs are of this run and come one after the other.
Committing ==
    /\ \A i \in 1..Len(jobQueue) : OfThisRun(jobQueue[i])
    /\ phase # "down" =>
       /\ worker \in {"open", "take", "exited"} \/ InHand
       /\ InHand => OfThisRun(job)
       /\ ~ioFailed =>
             /\ batchNum = committed + OneIf(InHand) + Len(jobQueue)
             /\ \A i \in 1..Len(jobQueue) :
                   jobQueue[i].batch = committed + OneIf(InHand) + i - 1
             /\ InHand => job.batch = committed
             /\ worker = "exited" => jobDone /\ jobQueue = <<>>

\* Every header is where it belongs, and none is from the future.
InPlace(h, s, runs) ==
    h = Nothing \/ (h.batch \in 0..NumBatches-1 /\ Slot(h.batch) = s /\ h.run \in 1..runs)

Headers == \A s \in Slots : /\ InPlace(file[s]["header"], s, run)
                             /\ InPlace(disk[s]["header"], s, run)

\* The slot the commit thread is writing to, from the header to the last part.
HalfWritten ==
    IF phase = "run" /\ worker \in {"snapshot", "writes"} THEN {Slot(job.batch)} ELSE {}

Whole(s) == Matches(file[s]["header"]) /\ \A p \in Parts : file[s][p] = file[s]["header"]

SlotsWhole ==
    ~ioFailed => \A s \in ValidSlots \ (torn \union HalfWritten) : Whole(s)

\* What of the job in hand is already in its slot.
PartsWritten ==
    ~ioFailed /\ phase # "down" =>
       /\ Begun => file[Slot(job.batch)]["header"] = job
       /\ worker \in {"writes", "fsync"} => file[Slot(job.batch)]["snapshot"] = job
       /\ worker = "fsync" => file[Slot(job.batch)]["writes"] = job

\* The device has none of the job in hand, the page cache no later one.
DiskBehind ==
    ~ioFailed /\ phase # "down" => \A s \in Slots :
       /\ disk[s]["header"].run = run => disk[s]["header"].batch < committed
       /\ file[s]["header"].run = run => file[s]["header"].batch < committed + OneIf(Begun)

Synced ==
    ~ioFailed => /\ phase # "down" /\ ~Begun /\ committed > 0 => disk = file
                 /\ inFile = 0 => disk = file

\* The last synced batch is whole on the device, and in the page cache as well unless its
\* slot is being written.
LastSynced ==
    ~ioFailed /\ phase # "down" /\ committed > 0 =>
       LET s == Slot(committed - 1)
           j == disk[s]["header"]
       IN  /\ j.run = run /\ j.batch = committed - 1 /\ Matches(j)
           /\ \A p \in Parts : disk[s][p] = j
           /\ file[s] = disk[s] \/ (Begun /\ s = Slot(job.batch))

\* What is left of it when the first run is over.
FirstLeaves ==
    /\ run = 1 => bases[1] = 0
    /\ phase = "down" /\ run = 1 /\ ~ioFailed /\ committed > 0 =>
       LET s == Slot(committed - 1)
       IN  /\ \A t \in ValidSlots : file[t]["header"].batch <= committed
           /\ s \in ValidSlots /\ file[s]["header"].batch >= committed - 1
           /\ Ring > 1 => file[s]["header"].batch = committed - 1
                          /\ file[s]["snapshot"].value = committed

PipelineInv ==
    /\ QueueTypes /\ NoLostWakeup /\ Types /\ LogTypes /\ Reading /\ Applying
    /\ Committing /\ Headers /\ SlotsWhole /\ PartsWritten /\ DiskBehind /\ Synced
    /\ LastSynced /\ FirstLeaves /\ NothingLostAtExit

-----------------------------------------------------------------------------
\* The ring.

\* A batch has its slot.
LEMMA SlotOfBatch == \A b \in Nat : Slot(b) \in Slots
  BY RingAssumption DEF Slot, Slots

\* A ring of more than one slot has room for the next batch beside the last one.
LEMMA NextSlot == \A b \in Nat : Ring > 1 => Slot(b) # Slot(b + 1)
<1>. TAKE b \in Nat
<1>. SUFFICES ASSUME Ring > 1, Slot(b) = Slot(b + 1) PROVE FALSE
  OBVIOUS
<1>1. /\ b = Ring * (b \div Ring) + (b % Ring) /\ (b \div Ring) \in Int
      /\ b + 1 = Ring * ((b + 1) \div Ring) + ((b + 1) % Ring) /\ ((b + 1) \div Ring) \in Int
  BY RingAssumption
<1>2. PICK q \in Int : 1 = Ring * q
  <2>1. 1 = Ring * (((b + 1) \div Ring) - (b \div Ring))
    BY <1>1, RingAssumption DEF Slot
  <2>. QED  BY <1>1, <2>1
<1>3. CASE q <= 0
  BY <1>2, <1>3, RingAssumption
<1>4. CASE q >= 1
  BY <1>2, <1>4, RingAssumption
<1>. QED  BY <1>3, <1>4

\* A valid slot has the number of a batch.
LEMMA ValidHasBatch ==
    ASSUME Headers PROVE \A s \in ValidSlots : /\ s \in Slots
                                               /\ file[s]["header"].batch \in 0..NumBatches-1
                                               /\ Slot(file[s]["header"].batch) = s
                                               /\ file[s]["header"].run \in 1..run
  BY DEF Headers, InPlace, ValidSlots

\* A nonempty set of naturals has a least element: the one with the smallest interval
\* from 0, as inclusion of finite sets is well founded.
LEMMA LeastNatural ==
    ASSUME NEW T \in SUBSET Nat, T # {}
    PROVE  \E n \in T : \A m \in T : n <= m
<1>. DEFINE ordering == StrictSubsetOrdering(Nat)
            intervals == {0..n : n \in T}
<1>1. IsWellFoundedOn(ordering, FiniteSubsetsOf(Nat))
  BY FS_StrictSubsetOrderingWellFounded
<1>2. intervals \subseteq FiniteSubsetsOf(Nat) /\ intervals # {}
  <2>1. \A n \in T : 0..n \in SUBSET Nat /\ IsFiniteSet(0..n)
    BY FS_Interval
  <2>. QED  BY <2>1 DEF FiniteSubsetsOf
<1>. HIDE DEF ordering
<1>3. PICK least \in intervals : \A i \in intervals : ~ (<<i, least>> \in ordering)
  BY <1>1, <1>2, WFMin
<1>4. PICK n \in T : least = 0..n
  BY <1>3
<1>5. \A m \in T : m < n => <<0..m, 0..n>> \in ordering
  <2>1. \A m \in T : m < n => 0..m \subseteq 0..n /\ n \notin 0..m /\ n \in 0..n
    OBVIOUS
  <2>2. \A m \in T : 0..m \in SUBSET Nat
    OBVIOUS
  <2>3. \A m \in T : m < n => 0..m # 0..n
    BY <2>1
  <2>. QED  BY <2>1, <2>2, <2>3 DEF ordering, StrictSubsetOrdering
<1>6. \A m \in T : 0..m \in intervals
  OBVIOUS
<1>. HIDE DEF intervals
<1>7. \A m \in T : ~ (m < n)
  BY <1>3, <1>4, <1>5, <1>6
<1>. QED  BY <1>7

\* The slot recovery takes is valid, and there is no later batch in the log.
LEMMA LatestExists ==
    ASSUME Headers, ValidSlots # {}
    PROVE  /\ LatestSlot \in ValidSlots
           /\ \A t \in ValidSlots : file[t]["header"].batch <= file[LatestSlot]["header"].batch
<1>. DEFINE B(s) == file[s]["header"].batch
            ages == {NumBatches - B(s) : s \in ValidSlots}
<1>1. \A s \in ValidSlots : s \in 0..Ring-1 /\ B(s) \in 0..NumBatches-1
  BY ValidHasBatch DEF Slots
<1>2. ages \in SUBSET Nat /\ ages # {}
  BY <1>1, PipelineAssumption
<1>3. PICK a \in ages : \A x \in ages : a <= x
  BY <1>2, LeastNatural
<1>4. PICK m \in ValidSlots : a = NumBatches - B(m)
  BY <1>3
<1>5. \A s \in ValidSlots : B(s) <= B(m)
  <2>1. \A s \in ValidSlots : NumBatches - B(s) \in ages
    OBVIOUS
  <2>2. \A s \in ValidSlots : a <= NumBatches - B(s)
    BY <1>3, <2>1
  <2>. HIDE DEF B
  <2>. QED  BY <1>1, <1>4, <2>2, PipelineAssumption
<1>. DEFINE rests == {Ring - s : s \in {t \in ValidSlots : B(t) = B(m)}}
<1>6. rests \in SUBSET Nat /\ rests # {}
  BY <1>1, RingAssumption
<1>7. PICK r \in rests : \A x \in rests : r <= x
  BY <1>6, LeastNatural
<1>8. PICK l \in ValidSlots : B(l) = B(m) /\ r = Ring - l
  BY <1>7
<1>9. \A t \in ValidSlots : B(t) = B(m) => t <= l
  BY <1>1, <1>7, <1>8, RingAssumption
<1>10. \A t \in ValidSlots : B(t) < B(l) \/ (B(t) = B(l) /\ t <= l)
  BY <1>1, <1>5, <1>8, <1>9
<1>11. LatestSlot \in ValidSlots
       /\ \A t \in ValidSlots :
             B(t) < B(LatestSlot) \/ (B(t) = B(LatestSlot) /\ t <= LatestSlot)
  BY <1>10 DEF LatestSlot
<1>. QED  BY <1>1, <1>11

\* Recovery ends in some state.
LEMMA ReconstructsInt ==
    ASSUME Headers, file \in [Slots -> [Parts -> Jobs]] PROVE ReconstructedState \in Int
  BY LatestExists, ValidHasBatch DEF ReconstructedState, Parts, Jobs

-----------------------------------------------------------------------------
\* Queues and types.

\* A set with at most one member.
LEMMA OneAtMost == \A set, t : set \subseteq {t} => set = {} \/ set = {t}
<1>. TAKE set, t
<1>1. CASE t \in set
  BY <1>1
<1>2. CASE t \notin set
  <2>1. set \subseteq {t} => set \subseteq {}
    BY <1>2
  <2>. QED  BY <2>1
<1>. QED  BY <1>1, <1>2

\* A signal to at most one thread leaves none asleep.
LEMMA SignalledNone ==
    ASSUME NEW waiting, NEW t, waiting \subseteq {t} PROVE Signalled(waiting) = {{}}
<1>1. CASE waiting = {}
  BY <1>1 DEF Signalled
<1>2. CASE waiting = {t}
  <2>1. {waiting \ {u} : u \in waiting} = {{}}
    BY <1>2
  <2>. QED  BY <1>2, <2>1 DEF Signalled
<1>. QED  BY <1>1, <1>2, OneAtMost

\* An operation that signals finds at most one thread asleep: reader and main cannot be
\* asleep both, as the one that signals is awake.
LEMMA SignalsWake ==
    ASSUME QueueTypes
    PROVE  /\ \A b : EnqueueTransaction(b) => txWaiting' = {}
           /\ DequeueTransaction => txWaiting' = {}
           /\ \A j : EnqueueJob(j) => jobWaiting' = {}
           /\ CloseJobs => jobWaiting' = {}
<1>1. "reader" \notin txWaiting => Signalled(txWaiting) = {{}}
  <2>1. "reader" \notin txWaiting => txWaiting \subseteq {"main"}
    BY DEF QueueTypes
  <2>. QED  BY <2>1, SignalledNone
<1>2. "main" \notin txWaiting => Signalled(txWaiting) = {{}}
  <2>1. "main" \notin txWaiting => txWaiting \subseteq {"reader"}
    BY DEF QueueTypes
  <2>. QED  BY <2>1, SignalledNone
<1>3. Signalled(jobWaiting) = {{}}
  BY SignalledNone DEF QueueTypes
<1>. QED
  BY <1>1, <1>2, <1>3 DEF EnqueueTransaction, DequeueTransaction, EnqueueJob, CloseJobs

\* A process starts with empty queues.
LEMMA QueuesRestart ==
    ASSUME QueueTypes, RestartQueues PROVE QueueTypes' /\ txQueue' = <<>> /\ jobQueue' = <<>>
<1>1. <<>> \in Seq(Nat) /\ <<>> \in Seq(Jobs)
  OBVIOUS
<1>. QED  BY <1>1 DEF QueueTypes, RestartQueues

\* Every operation keeps the queues sequences of batches and of jobs.
LEMMA QueueTypesKept == PipelineInv /\ [Next]_vars => QueueTypes'
<1>. SUFFICES ASSUME PipelineInv, [Next]_vars PROVE QueueTypes'
  OBVIOUS
<1>. USE SignalsWake DEF PipelineInv, QueueTypes
<1>1. CASE Start
  <2>1. RestartQueues
    BY <1>1 DEF Start
  <2>. QED  BY <2>1, QueuesRestart
<1>2. CASE RecoverOnly
  BY <1>2 DEF RecoverOnly, queueVars, txVars, jobVars
<1>3. CASE ReadBatch
  <2>1. UNCHANGED <<txCapacity, txDone, jobQueue, jobDone, jobWaiting>>
    BY <1>3 DEF ReadBatch, EnqueueTransaction, EnqueueTransactionWaits, jobVars
  <2>2. CASE EnqueueTransaction(nextRead)
    <3>1. txQueue' \in Seq(Nat) /\ txWaiting' = {}
      BY <2>2 DEF EnqueueTransaction, Types
    <3>. QED  BY <2>1, <3>1
  <2>3. CASE EnqueueTransactionWaits
    BY <2>1, <2>3 DEF EnqueueTransactionWaits
  <2>. QED  BY <1>3, <2>2, <2>3 DEF ReadBatch
<1>4. CASE FinishReading
  <2>1. UNCHANGED <<txQueue, txCapacity, jobQueue, jobDone, jobWaiting>>
    BY <1>4 DEF FinishReading, CloseTransactions, jobVars
  <2>2. txDone' = TRUE /\ txWaiting' = {}
    BY <1>4 DEF FinishReading, CloseTransactions
  <2>. QED  BY <2>1, <2>2
<1>5. CASE UpdateState
  BY <1>5 DEF UpdateState, queueVars, txVars, jobVars
<1>6. CASE Retrieve
  <2>1. UNCHANGED <<txCapacity, txDone, jobQueue, jobDone, jobWaiting>>
    BY <1>6 DEF Retrieve, DequeueTransaction, DequeueTransactionWaits, DequeueNothing,
                txVars, jobVars
  <2>2. CASE DequeueTransaction
    <3>1. txQueue' \in Seq(Nat) /\ txWaiting' = {}
      BY <2>2 DEF DequeueTransaction
    <3>. QED  BY <2>1, <3>1
  <2>3. CASE DequeueTransactionWaits \/ DequeueNothing
    BY <2>1, <2>3 DEF DequeueTransactionWaits, DequeueNothing, txVars
  <2>. QED  BY <1>6, <2>2, <2>3 DEF Retrieve
<1>7. CASE Submit
  <2>. DEFINE new == [run |-> run, batch |-> batchNum, txs |-> batch, value |-> snapshot]
  <2>1. new \in Jobs
    BY DEF Types, Jobs
  <2>2. UNCHANGED txVars
    BY <1>7 DEF Submit
  <2>3. CASE EnqueueJob(new)
    BY <2>1, <2>2, <2>3 DEF EnqueueJob, txVars
  <2>4. CASE UNCHANGED jobVars
    BY <2>2, <2>4 DEF txVars, jobVars
  <2>. QED  BY <1>7, <2>3, <2>4 DEF Submit
<1>8. CASE CloseCommits
  <2>1. UNCHANGED <<txQueue, txCapacity, txDone, txWaiting, jobQueue>>
    BY <1>8 DEF CloseCommits, CloseJobs, txVars
  <2>2. jobDone' = TRUE /\ jobWaiting' = {}
    BY <1>8 DEF CloseCommits, CloseJobs
  <2>. QED  BY <2>1, <2>2
<1>9. CASE Finish
  BY <1>9 DEF Finish, queueVars, txVars, jobVars
<1>10. CASE OpenLog
  BY <1>10 DEF OpenLog, queueVars, txVars, jobVars
<1>11. CASE TakeJob
  <2>1. UNCHANGED <<txQueue, txCapacity, txDone, txWaiting, jobDone>>
    BY <1>11 DEF TakeJob, JobWaits, DequeueJob, NoMoreJobs, txVars, jobVars
  <2>2. CASE JobWaits
    BY <2>1, <2>2 DEF JobWaits
  <2>3. CASE DequeueJob
    <3>1. jobQueue' \in Seq(Jobs) /\ UNCHANGED jobWaiting
      BY <2>3 DEF DequeueJob
    <3>. QED  BY <2>1, <3>1
  <2>4. CASE NoMoreJobs
    BY <2>1, <2>4 DEF NoMoreJobs, jobVars
  <2>. QED  BY <1>11, <2>2, <2>3, <2>4 DEF TakeJob
<1>12. CASE Write
  BY <1>12 DEF Write, queueVars, txVars, jobVars
<1>13. CASE SyncJob
  BY <1>13 DEF SyncJob, queueVars, txVars, jobVars
<1>14. CASE Wakeup
  <2>1. UNCHANGED <<txQueue, txCapacity, txDone, jobQueue, jobDone>>
    BY <1>14 DEF Wakeup, SpuriousWakeup, txVars, jobVars
  <2>2. txWaiting' \subseteq txWaiting /\ jobWaiting' \subseteq jobWaiting
    BY <1>14 DEF Wakeup, SpuriousWakeup, txVars, jobVars
  <2>. QED  BY <2>1, <2>2
<1>15. CASE Kill \/ PowerLoss
  <2>1. RestartQueues
    BY <1>15 DEF Kill, PowerLoss, MemoryLost
  <2>. QED  BY <2>1, QueuesRestart
<1>16. CASE UNCHANGED vars
  BY <1>16 DEF vars, queueVars, txVars, jobVars
<1>. QED
  BY <1>1, <1>2, <1>3, <1>4, <1>5, <1>6, <1>7, <1>8, <1>9, <1>10, <1>11, <1>12, <1>13,
     <1>14, <1>15, <1>16 DEF Next

\* Whoever makes a condition true for a sleeping thread wakes it, as only one of reader
\* and main can sleep when a signal is sent.
LEMMA WakeupKept == PipelineInv /\ [Next]_vars => NoLostWakeup'
<1>. SUFFICES ASSUME PipelineInv, [Next]_vars PROVE NoLostWakeup'
  OBVIOUS
<1>. USE SignalsWake DEF PipelineInv, QueueTypes, NoLostWakeup
<1>1. CASE Start
  BY <1>1 DEF Start, RestartQueues
<1>2. CASE RecoverOnly
  BY <1>2 DEF RecoverOnly, queueVars, txVars, jobVars
<1>3. CASE ReadBatch
  <2>1. CASE EnqueueTransaction(nextRead)
    BY <1>3, <2>1 DEF ReadBatch, jobVars
  <2>2. CASE EnqueueTransactionWaits
    BY <1>3, <2>2 DEF ReadBatch, EnqueueTransactionWaits, jobVars
  <2>. QED  BY <1>3, <2>1, <2>2 DEF ReadBatch
<1>4. CASE FinishReading
  BY <1>4 DEF FinishReading, CloseTransactions, jobVars
<1>5. CASE UpdateState
  BY <1>5 DEF UpdateState, queueVars, txVars, jobVars
<1>6. CASE Retrieve
  <2>1. CASE DequeueTransaction
    BY <1>6, <2>1 DEF Retrieve, jobVars
  <2>2. CASE DequeueTransactionWaits \/ DequeueNothing
    BY <1>6, <2>2 DEF Retrieve, DequeueTransactionWaits, DequeueNothing, txVars, jobVars
  <2>. QED  BY <1>6, <2>1, <2>2 DEF Retrieve
<1>7. CASE Submit
  <2>. DEFINE new == [run |-> run, batch |-> batchNum, txs |-> batch, value |-> snapshot]
  <2>1. UNCHANGED txVars
    BY <1>7 DEF Submit
  <2>2. CASE EnqueueJob(new)
    BY <2>1, <2>2 DEF txVars
  <2>3. CASE UNCHANGED jobVars
    BY <2>1, <2>3 DEF txVars, jobVars
  <2>. QED  BY <1>7, <2>2, <2>3 DEF Submit
<1>8. CASE CloseCommits
  BY <1>8 DEF CloseCommits, txVars
<1>9. CASE Finish
  BY <1>9 DEF Finish, queueVars, txVars, jobVars
<1>10. CASE OpenLog
  BY <1>10 DEF OpenLog, queueVars, txVars, jobVars
<1>11. CASE TakeJob
  BY <1>11 DEF TakeJob, JobWaits, DequeueJob, NoMoreJobs, txVars, jobVars
<1>12. CASE Write
  BY <1>12 DEF Write, queueVars, txVars, jobVars
<1>13. CASE SyncJob
  BY <1>13 DEF SyncJob, queueVars, txVars, jobVars
<1>14. CASE Wakeup
  BY <1>14 DEF Wakeup, SpuriousWakeup, txVars, jobVars
<1>15. CASE Kill \/ PowerLoss
  BY <1>15 DEF Kill, PowerLoss, MemoryLost, RestartQueues
<1>16. CASE UNCHANGED vars
  BY <1>16 DEF vars, queueVars, txVars, jobVars
<1>. QED
  BY <1>1, <1>2, <1>3, <1>4, <1>5, <1>6, <1>7, <1>8, <1>9, <1>10, <1>11, <1>12, <1>13,
     <1>14, <1>15, <1>16 DEF Next

\* The numbers, the job in hand and the history keep their types.
LEMMA TypesKept == PipelineInv /\ [Next]_vars => Types'
<1>. SUFFICES ASSUME PipelineInv, [Next]_vars PROVE Types'
  OBVIOUS
<1>. USE DEF PipelineInv, Types
<1>1. CASE Start
  <2>1. ReconstructedState \in Int
    BY ReconstructsInt DEF LogTypes
  <2>2. bases' \in Seq(Int) /\ Len(bases') = run + 1
    BY <1>1, <2>1 DEF Start
  <2>. QED  BY <1>1, <2>1, <2>2 DEF Start
<1>2. CASE RecoverOnly
  <2>1. ReconstructedState \in Int
    BY ReconstructsInt DEF LogTypes
  <2>. QED  BY <1>2, <2>1 DEF RecoverOnly, fileVars
<1>3. CASE ReadBatch
  BY <1>3 DEF ReadBatch, mainVars, bootVars
<1>4. CASE FinishReading
  BY <1>4 DEF FinishReading, fileVars, mainVars, bootVars
<1>5. CASE UpdateState
  BY <1>5 DEF UpdateState, fileVars, bootVars
<1>6. CASE Retrieve
  <2>1. batch' \in Int
    BY <1>6 DEF Retrieve, DequeueTransaction, QueueTypes
  <2>. QED  BY <1>6, <2>1 DEF Retrieve, fileVars, bootVars
<1>7. CASE Submit
  BY <1>7 DEF Submit, fileVars
<1>8. CASE CloseCommits
  BY <1>8 DEF CloseCommits, fileVars, mainVars, bootVars
<1>9. CASE Finish
  BY <1>9 DEF Finish, fileVars, mainVars
<1>10. CASE OpenLog
  BY <1>10 DEF OpenLog, fileVars, mainVars, bootVars
<1>11. CASE TakeJob
  <2>1. job' \in Jobs
    BY <1>11 DEF TakeJob, DequeueJob, QueueTypes
  <2>. QED  BY <1>11, <2>1 DEF TakeJob, fileVars, mainVars, bootVars
<1>12. CASE Write
  BY <1>12 DEF Write, fileVars, mainVars, bootVars
<1>13. CASE SyncJob
  <2>1. job' \in Jobs
    BY <1>13 DEF SyncJob, Nothing, Jobs
  <2>. QED  BY <1>13, <2>1 DEF SyncJob, fileVars, mainVars, bootVars
<1>14. CASE Wakeup
  BY <1>14 DEF Wakeup, fileVars, mainVars, bootVars
<1>15. CASE Kill \/ PowerLoss
  <2>1. job' \in Jobs
    BY <1>15 DEF Kill, PowerLoss, MemoryLost, Nothing, Jobs
  <2>. QED  BY <1>15, <2>1 DEF Kill, PowerLoss, MemoryLost
<1>16. CASE UNCHANGED vars
  BY <1>16 DEF vars, fileVars, mainVars, bootVars
<1>. QED
  BY <1>1, <1>2, <1>3, <1>4, <1>5, <1>6, <1>7, <1>8, <1>9, <1>10, <1>11, <1>12, <1>13,
     <1>14, <1>15, <1>16 DEF Next

-----------------------------------------------------------------------------
\* The steps that matter to the log.

\* Nothing of the log, of the job in hand or of the run changes.
LogStill == UNCHANGED <<ringVars, worker, job, committed, phase, run, inFile, bases>>

\* A process that is stopped with its page cache has only the slot in hand half written.
Stopped ==
    /\ phase = "run"
    /\ KeepCache(IF worker \in Parts THEN {Slot(job.batch)} ELSE {})
    /\ UNCHANGED <<run, inFile, bases, committed>>
    /\ \/ phase' = "down" /\ worker' = "exited" /\ job' = Nothing
       \/ phase' = "overflow" /\ UNCHANGED <<worker, job>>

\* The commit thread's other steps.
Takes ==
    /\ phase = "run" /\ UNCHANGED <<ringVars, committed, phase, run, inFile, bases>>
    /\ worker = "take"
    /\ \/ UNCHANGED <<worker, job>>
       \/ DequeueJob /\ job' = Head(jobQueue) /\ worker' = "header"
       \/ NoMoreJobs /\ worker' = "exited" /\ UNCHANGED job

\* The steps as the log sees them.
LEMMA LogSteps ==
    [Next]_vars => \/ LogStill \/ Start \/ Stopped \/ Takes \/ Write
                   \/ SyncJob \/ OpenLog \/ PowerLoss \/ Finish
<1>. SUFFICES ASSUME [Next]_vars
              PROVE  \/ LogStill \/ Start \/ Stopped \/ Takes \/ Write
                     \/ SyncJob \/ OpenLog \/ PowerLoss \/ Finish
  OBVIOUS
<1>1. CASE RecoverOnly \/ ReadBatch \/ FinishReading \/ UpdateState \/ Retrieve
           \/ CloseCommits \/ Wakeup \/ UNCHANGED vars
  BY <1>1 DEF RecoverOnly, ReadBatch, FinishReading, UpdateState, Retrieve, CloseCommits,
              Wakeup, vars, LogStill, fileVars, mainVars, bootVars
<1>2. CASE Submit
  BY <1>2 DEF Submit, LogStill, Stopped, fileVars
<1>3. CASE TakeJob
  BY <1>3 DEF TakeJob, JobWaits, Takes, fileVars, bootVars
<1>4. CASE Kill
  BY <1>4 DEF Kill, MemoryLost, Stopped
<1>. QED  BY <1>1, <1>2, <1>3, <1>4 DEF Next

\* The job in hand is one of this run and has a slot.
LEMMA JobInHand ==
    ASSUME PipelineInv, phase = "run", InHand
    PROVE  /\ job \in Jobs /\ job.batch \in Nat /\ job.run = run /\ Matches(job)
           /\ job.batch \in 0..NumBatches-1
           /\ Slot(job.batch) \in Slots /\ job # Nothing
<1>1. job \in Jobs /\ OfThisRun(job)
  BY DEF PipelineInv, Types, Committing
<1>2. job.batch \in Nat
  BY <1>1, PipelineAssumption DEF OfThisRun
<1>3. run > 0
  BY DEF PipelineInv, Types
<1>. QED  BY <1>1, <1>2, <1>3, SlotOfBatch DEF OfThisRun, Nothing

\* The slots keep their types.
LEMMA LogTypesKept == PipelineInv /\ [Next]_vars => LogTypes'
<1>. SUFFICES ASSUME PipelineInv, [Next]_vars PROVE LogTypes'
  OBVIOUS
<1>. USE DEF PipelineInv, LogTypes
<1>1. CASE LogStill \/ Start \/ Takes \/ OpenLog \/ Finish
  BY <1>1 DEF LogStill, Start, Takes, OpenLog, Finish, ringVars
<1>2. CASE Stopped
  <2>1. worker \in Parts => Slot(job.batch) \in Slots
    BY <1>2, JobInHand DEF Stopped, InHand
  <2>. QED  BY <1>2, <2>1 DEF Stopped, KeepCache
<1>3. CASE Write
  <2>1. job \in Jobs /\ worker \in Parts /\ WritePart(job, worker)
    BY <1>3 DEF Write, Types
  <2>2. file' \in [Slots -> [Parts -> Jobs]]
    BY <2>1 DEF WritePart
  <2>. QED  BY <2>1, <2>2 DEF WritePart
<1>4. CASE SyncJob
  BY <1>4 DEF SyncJob, Fsync
<1>5. CASE PowerLoss
  <2>1. LoseCache
    BY <1>5 DEF PowerLoss
  <2>2. file' \in [Slots -> [Parts -> Jobs]] /\ torn' \subseteq Slots
    BY <2>1 DEF LoseCache
  <2>. QED  BY <2>1, <2>2 DEF LoseCache
<1>. QED  BY <1>1, <1>2, <1>3, <1>4, <1>5, LogSteps

-----------------------------------------------------------------------------
\* From the file to main.

\* What the reader has read is in the queue or with main.
LEMMA ReadingKept == PipelineInv /\ [Next]_vars => Reading'
<1>. SUFFICES ASSUME PipelineInv, [Next]_vars, phase' # "down" PROVE Reading'
  BY DEF Reading
<1>. USE PipelineAssumption DEF Reading, Taken, OneIf, MoreToRead
<1>0. /\ QueueTypes /\ Types /\ (phase # "down" => Reading)
      /\ nextRead \in Nat /\ inFile \in Nat /\ batchNum \in Nat /\ txQueue \in Seq(Nat)
  BY DEF PipelineInv, Types, QueueTypes
<1>1. CASE Start
  <2>1. /\ reader' = "read" /\ nextRead' = 0 /\ batchNum' = 0 /\ main' = "update"
        /\ UNCHANGED inFile /\ txQueue' = <<>> /\ txDone' = FALSE
    BY <1>1 DEF Start, RestartQueues
  <2>. QED  BY <1>0, <2>1
<1>2. CASE RecoverOnly
  BY <1>2 DEF RecoverOnly
<1>3. CASE ReadBatch
  <2>1. UNCHANGED <<inFile, batchNum, batch, main, reader, txDone>> /\ phase = "run"
        /\ reader = "read" /\ MoreToRead
    BY <1>3 DEF ReadBatch, mainVars, EnqueueTransaction, EnqueueTransactionWaits
  <2>2. CASE EnqueueTransaction(nextRead) /\ nextRead' = nextRead + 1
    <3>1. txQueue' = Append(txQueue, nextRead)
      BY <2>2 DEF EnqueueTransaction
    <3>2. /\ Len(txQueue') = Len(txQueue) + 1
          /\ \A i \in 1..Len(txQueue') :
                txQueue'[i] = IF i <= Len(txQueue) THEN txQueue[i] ELSE nextRead
      BY <1>0, <3>1
    <3>3. ASSUME NEW i \in 1..Len(txQueue') PROVE txQueue'[i] = Taken + i - 1
      <4>1. /\ nextRead = Taken + Len(txQueue) /\ Taken \in Nat /\ Len(txQueue) \in Nat
            /\ \A k \in 1..Len(txQueue) : txQueue[k] = Taken + k - 1
        BY <1>0, <2>1
      <4>2. CASE i <= Len(txQueue)
        BY <3>2, <4>1, <4>2
      <4>3. CASE i = Len(txQueue) + 1
        BY <3>2, <4>1, <4>3
      <4>. QED  BY <3>2, <4>1, <4>2, <4>3
    <3>4. /\ Taken' = Taken /\ nextRead' = nextRead + 1 /\ UNCHANGED inFile
          /\ nextRead < NumBatches /\ nextRead < inFile
      BY <2>1, <2>2
    <3>5. nextRead' = Taken' + Len(txQueue')
      BY <1>0, <2>1, <3>2, <3>4
    <3>6. \A i \in 1..Len(txQueue') : txQueue'[i] = Taken' + i - 1
      BY <3>3, <3>4
    <3>. QED  BY <1>0, <2>1, <3>4, <3>5, <3>6
  <2>3. CASE EnqueueTransactionWaits /\ UNCHANGED nextRead
    BY <1>0, <2>1, <2>3 DEF EnqueueTransactionWaits
  <2>. QED  BY <1>3, <2>2, <2>3 DEF ReadBatch
<1>4. CASE FinishReading
  BY <1>0, <1>4 DEF FinishReading, CloseTransactions, fileVars, mainVars
<1>5. CASE UpdateState
  BY <1>0, <1>5 DEF UpdateState, queueVars, txVars, fileVars
<1>6. CASE Retrieve
  <2>1. UNCHANGED <<inFile, nextRead, batchNum, reader, txDone>> /\ phase = "run"
        /\ main = "dequeue"
    BY <1>6 DEF Retrieve, fileVars, DequeueTransaction, DequeueTransactionWaits,
                DequeueNothing, txVars
  <2>2. CASE DequeueTransaction /\ batch' = Head(txQueue) /\ main' = "enqueue"
    <3>1. txQueue # <<>> /\ txQueue' = Tail(txQueue)
      BY <2>2 DEF DequeueTransaction
    <3>2. /\ Len(txQueue) > 0 /\ Len(txQueue') = Len(txQueue) - 1
          /\ \A i \in 1..Len(txQueue') : txQueue'[i] = txQueue[i + 1]
          /\ Head(txQueue) = txQueue[1]
      BY <1>0, <3>1
    <3>3. Len(txQueue) \in Nat
      BY <1>0
    <3>4. batch' = batchNum
      BY <1>0, <2>1, <2>2, <3>2, <3>3
    <3>5. \A i \in 1..Len(txQueue') : txQueue'[i] = batchNum + 1 + i - 1
      BY <1>0, <2>1, <3>2, <3>3
    <3>. QED  BY <1>0, <2>1, <2>2, <3>2, <3>3, <3>4, <3>5
  <2>3. CASE (DequeueTransactionWaits /\ UNCHANGED main)
             \/ (DequeueNothing /\ main' = "close")
    <3>1. UNCHANGED txQueue /\ main' \in {"dequeue", "close"}
      BY <2>1, <2>3 DEF DequeueTransactionWaits, DequeueNothing, txVars
    <3>. QED  BY <1>0, <2>1, <3>1
  <2>. QED  BY <1>6, <2>2, <2>3 DEF Retrieve
<1>7. CASE Submit
  <2>1. /\ UNCHANGED <<inFile, nextRead, reader, batch, txQueue, txDone>>
        /\ main = "enqueue" /\ phase = "run"
    BY <1>7 DEF Submit, txVars, fileVars
  <2>2. CASE batchNum' = batchNum + 1 /\ main' = "update"
    BY <1>0, <2>1, <2>2
  <2>3. CASE UNCHANGED <<batchNum, main>>
    BY <1>0, <2>1, <2>3
  <2>. QED  BY <1>7, <2>2, <2>3 DEF Submit
<1>8. CASE CloseCommits
  BY <1>0, <1>8 DEF CloseCommits, txVars, fileVars, mainVars
<1>9. CASE Finish \/ Kill \/ PowerLoss
  BY <1>9 DEF Finish, Kill, PowerLoss
<1>10. CASE OpenLog \/ TakeJob \/ Write \/ SyncJob \/ UNCHANGED vars
  <2>1. UNCHANGED <<phase, inFile, nextRead, reader, main, batchNum, batch, txQueue, txDone>>
    BY <1>10 DEF OpenLog, TakeJob, Write, SyncJob, vars, queueVars, txVars, fileVars,
                 mainVars, bootVars
  <2>. QED  BY <1>0, <2>1
<1>11. CASE Wakeup
  <2>1. UNCHANGED <<phase, inFile, nextRead, reader, main, batchNum, batch, txQueue, txDone>>
    BY <1>11 DEF Wakeup, SpuriousWakeup, txVars, fileVars, mainVars, bootVars
  <2>. QED  BY <1>0, <2>1
<1>. QED
  BY <1>1, <1>2, <1>3, <1>4, <1>5, <1>6, <1>7, <1>8, <1>9, <1>10, <1>11 DEF Next

\* Main applies one batch after the other, and knows when there is none.
LEMMA ApplyingKept == PipelineInv /\ [Next]_vars => Applying'
<1>. SUFFICES ASSUME PipelineInv, [Next]_vars, phase' # "down" PROVE Applying'
  BY DEF Applying
<1>. USE PipelineAssumption DEF Applying
<1>0. /\ (phase # "down" => Applying)
      /\ state \in Int /\ batchNum \in Nat /\ run \in Nat /\ (phase # "down" => run > 0)
      /\ bases \in Seq(Int) /\ Len(bases) = run /\ jobDone \in BOOLEAN
  BY DEF PipelineInv, Types, QueueTypes
<1>1. CASE Start
  <2>1. ReconstructedState \in Int
    BY ReconstructsInt DEF PipelineInv, LogTypes
  <2>2. bases'[run'] = ReconstructedState
    BY <1>0, <1>1, <2>1 DEF Start
  <2>3. /\ state' = ReconstructedState /\ batchNum' = 0 /\ main' = "update"
        /\ jobDone' = FALSE
    BY <1>1 DEF Start, RestartQueues
  <2>. QED  BY <2>1, <2>2, <2>3
<1>2. CASE RecoverOnly
  BY <1>2 DEF RecoverOnly
<1>3. CASE ReadBatch
  <2>1. UNCHANGED <<run, bases, state, batchNum, snapshot, main, jobDone, txDone>>
        /\ phase = "run"
    BY <1>3 DEF ReadBatch, mainVars, bootVars, jobVars, EnqueueTransaction,
                EnqueueTransactionWaits
  <2>2. ~txDone
    BY <1>3, <2>1 DEF ReadBatch, PipelineInv, Reading
  <2>. QED  BY <1>0, <2>1, <2>2
<1>4. CASE FinishReading
  BY <1>0, <1>4 DEF FinishReading, CloseTransactions, jobVars, mainVars, bootVars
<1>5. CASE UpdateState
  <2>1. /\ main = "update" /\ batchNum < NumBatches /\ main' = "dequeue"
        /\ state' = state + 1 /\ snapshot' = state + 1 /\ phase = "run"
        /\ UNCHANGED <<run, bases, batchNum, jobDone, txDone, txQueue>>
    BY <1>5 DEF UpdateState, queueVars, txVars, jobVars, bootVars
  <2>2. bases[run] \in Int
    BY <1>0, <2>1
  <2>. QED  BY <1>0, <2>1, <2>2
<1>6. CASE Retrieve
  <2>1. /\ UNCHANGED <<state, batchNum, snapshot, run, bases, jobDone, txDone>>
        /\ main = "dequeue" /\ phase = "run"
    BY <1>6 DEF Retrieve, jobVars, bootVars, DequeueTransactionWaits, DequeueTransaction,
                DequeueNothing, txVars
  <2>2. main' \in {"dequeue", "enqueue"} \/ (main' = "close" /\ DequeueNothing)
    BY <1>6, <2>1 DEF Retrieve
  <2>3. DequeueNothing => txDone /\ txQueue' = <<>>
    BY DEF DequeueNothing, txVars
  <2>. QED  BY <1>0, <2>1, <2>2, <2>3
<1>7. CASE Submit
  <2>1. /\ UNCHANGED <<state, snapshot, run, bases, txDone, txQueue, jobDone>>
        /\ main = "enqueue" /\ phase = "run"
    BY <1>7 DEF Submit, EnqueueJob, jobVars, txVars
  <2>2. bases[run] \in Int
    BY <1>0, <2>1
  <2>3. (batchNum' = batchNum + 1 /\ main' = "update") \/ UNCHANGED <<batchNum, main>>
    BY <1>7 DEF Submit
  <2>. QED  BY <1>0, <2>1, <2>2, <2>3
<1>8. CASE CloseCommits
  <2>1. /\ UNCHANGED <<state, batchNum, txDone, txQueue>>
        /\ main' = "join" /\ jobDone' = TRUE /\ phase = "run"
        /\ main = "close" \/ batchNum = NumBatches
    BY <1>8 DEF CloseCommits, CloseJobs, txVars, mainVars
  <2>. QED  BY <1>0, <2>1
<1>9. CASE Finish \/ Kill \/ PowerLoss
  BY <1>9 DEF Finish, Kill, PowerLoss
<1>10. CASE OpenLog \/ TakeJob \/ Write \/ SyncJob \/ UNCHANGED vars
  <2>1. UNCHANGED <<phase, run, bases, state, batchNum, snapshot, main, txQueue, txDone,
                    jobDone>>
    BY <1>10 DEF OpenLog, TakeJob, Write, SyncJob, vars, queueVars, txVars, jobVars,
                 mainVars, bootVars, JobWaits, DequeueJob, NoMoreJobs
  <2>. QED  BY <1>0, <2>1
<1>11. CASE Wakeup
  <2>1. UNCHANGED <<phase, run, bases, state, batchNum, snapshot, main, txQueue, txDone,
                    jobDone>>
    BY <1>11 DEF Wakeup, SpuriousWakeup, txVars, jobVars, mainVars, bootVars
  <2>. QED  BY <1>0, <2>1
<1>. QED
  BY <1>1, <1>2, <1>3, <1>4, <1>5, <1>6, <1>7, <1>8, <1>9, <1>10, <1>11 DEF Next

-----------------------------------------------------------------------------
\* From main to the commit thread.

\* The jobs in the queue and the one in hand continue what is committed.
LEMMA CommittingKept == PipelineInv /\ [Next]_vars => Committing'
<1>. SUFFICES ASSUME PipelineInv, [Next]_vars PROVE Committing'
  OBVIOUS
<1>. USE PipelineAssumption DEF Committing, InHand, Parts, OneIf
<1>0. /\ Committing /\ batchNum \in Nat /\ committed \in Nat
      /\ ioFailed \in BOOLEAN /\ jobDone \in BOOLEAN
      /\ jobQueue \in Seq(Jobs) /\ Len(jobQueue) \in Nat
  BY DEF PipelineInv, Types, LogTypes, QueueTypes
<1>1. CASE Start
  <2>1. /\ worker' = "open" /\ jobQueue' = <<>> /\ batchNum' = 0 /\ committed' = 0
    BY <1>1 DEF Start, RestartQueues
  <2>. QED  BY <2>1
<1>2. CASE RecoverOnly \/ Finish
  <2>1. UNCHANGED <<run, bases, jobQueue>> /\ phase' = "down"
    BY <1>2 DEF RecoverOnly, Finish, queueVars, jobVars
  <2>. QED  BY <1>0, <2>1 DEF OfThisRun, Matches
<1>3. CASE ReadBatch \/ FinishReading \/ UpdateState \/ Retrieve \/ UNCHANGED vars
  <2>1. UNCHANGED <<phase, run, bases, batchNum, committed, worker, job, jobQueue, jobDone,
                    ioFailed>>
    BY <1>3 DEF ReadBatch, FinishReading, UpdateState, Retrieve, vars, queueVars, jobVars,
                ringVars, mainVars, bootVars
  <2>. QED  BY <1>0, <2>1 DEF OfThisRun, Matches
<1>4. CASE Wakeup
  <2>1. UNCHANGED <<phase, run, bases, batchNum, committed, worker, job, jobQueue, jobDone,
                    ioFailed>>
    BY <1>4 DEF Wakeup, SpuriousWakeup, jobVars, ringVars, mainVars, bootVars
  <2>. QED  BY <1>0, <2>1 DEF OfThisRun, Matches
<1>5. CASE Submit
  <2>. DEFINE new == [run |-> run, batch |-> batchNum, txs |-> batch, value |-> snapshot]
  <2>1. phase = "run" /\ main = "enqueue"
        /\ UNCHANGED <<run, bases, committed, worker, job, ioFailed>>
    BY <1>5 DEF Submit, KeepCache, ringVars
  <2>2. OfThisRun(new) /\ new.batch = batchNum
    BY <2>1 DEF PipelineInv, Applying, Reading, OfThisRun, Matches, Types
  <2>3. ~jobDone
    BY <2>1 DEF PipelineInv, Applying
  <2>4. CASE EnqueueJob(new) /\ batchNum' = batchNum + 1
    <3>1. jobQueue' = Append(jobQueue, new) /\ UNCHANGED jobDone
      BY <2>4 DEF EnqueueJob
    <3>2. new \in Jobs
      BY DEF PipelineInv, Types, Jobs
    <3>. HIDE DEF new
    <3>3. /\ Len(jobQueue') = Len(jobQueue) + 1
          /\ \A i \in 1..Len(jobQueue') :
                jobQueue'[i] = IF i <= Len(jobQueue) THEN jobQueue[i] ELSE new
      BY <1>0, <3>1, <3>2
    <3>4. \A i \in 1..Len(jobQueue') : OfThisRun(jobQueue'[i])
      BY <1>0, <2>1, <2>2, <3>3
    <3>5. ASSUME ~ioFailed
          PROVE  /\ batchNum' = committed + OneIf(InHand) + Len(jobQueue')
                 /\ \A i \in 1..Len(jobQueue') :
                       jobQueue'[i].batch = committed + OneIf(InHand) + i - 1
      <4>. DEFINE d == committed + OneIf(InHand)
      <4>1. d \in Nat /\ batchNum = d + Len(jobQueue)
        BY <1>0, <2>1, <3>5
      <4>2. \A i \in 1..Len(jobQueue) : jobQueue[i].batch = d + i - 1
        BY <1>0, <2>1, <3>5
      <4>. HIDE DEF d
      <4>3. batchNum' = d + Len(jobQueue')
        BY <1>0, <2>4, <3>3, <4>1
      <4>4. \A i \in 1..Len(jobQueue') : jobQueue'[i].batch = d + i - 1
        BY <1>0, <2>2, <3>3, <4>1, <4>2
      <4>. QED  BY <4>3, <4>4 DEF d
    <3>6. \A j : OfThisRun(j)' <=> OfThisRun(j)
      BY <2>1 DEF OfThisRun, Matches
    <3>. QED  BY <1>0, <2>1, <2>3, <3>1, <3>4, <3>5, <3>6
  <2>5. CASE UNCHANGED <<jobVars, batchNum>>
    BY <1>0, <2>1, <2>5 DEF jobVars, OfThisRun, Matches
  <2>. QED  BY <1>5, <2>4, <2>5 DEF Submit
<1>6. CASE CloseCommits
  <2>1. /\ UNCHANGED <<run, bases, batchNum, committed, worker, job, jobQueue, ioFailed>>
        /\ jobDone' = TRUE /\ phase = "run"
    BY <1>6 DEF CloseCommits, CloseJobs, ringVars, mainVars, bootVars
  <2>. QED  BY <1>0, <2>1 DEF OfThisRun, Matches
<1>7. CASE Kill \/ PowerLoss
  BY <1>7 DEF Kill, PowerLoss, MemoryLost, RestartQueues
<1>8. CASE OpenLog
  <2>1. /\ UNCHANGED <<run, bases, batchNum, committed, job, jobQueue, jobDone>>
        /\ phase = "run" /\ worker = "open"
        /\ \/ worker' = "take" /\ UNCHANGED ioFailed
           \/ worker' = "exited" /\ ioFailed'
    BY <1>8 DEF OpenLog, queueVars, jobVars, mainVars, bootVars
  <2>. QED  BY <1>0, <2>1 DEF OfThisRun, Matches
<1>9. CASE TakeJob
  <2>1. /\ UNCHANGED <<run, bases, batchNum, committed, ioFailed, jobDone>>
        /\ phase = "run" /\ worker = "take"
    BY <1>9 DEF TakeJob, ringVars, mainVars, bootVars, JobWaits, DequeueJob, NoMoreJobs,
                jobVars
  <2>2. \A j : OfThisRun(j)' <=> OfThisRun(j)
    BY <2>1 DEF OfThisRun, Matches
  <2>3. CASE DequeueJob /\ job' = Head(jobQueue) /\ worker' = "header"
    <3>1. jobQueue # <<>> /\ jobQueue' = Tail(jobQueue)
      BY <2>3 DEF DequeueJob
    <3>2. /\ Len(jobQueue) > 0 /\ Len(jobQueue') = Len(jobQueue) - 1
          /\ \A i \in 1..Len(jobQueue') : jobQueue'[i] = jobQueue[i + 1]
          /\ job' = jobQueue[1]
      BY <1>0, <2>3, <3>1
    <3>3. OfThisRun(job') /\ \A i \in 1..Len(jobQueue') : OfThisRun(jobQueue'[i])
      BY <1>0, <2>1, <3>2
    <3>4. ASSUME ~ioFailed
          PROVE  /\ batchNum = committed + 1 + Len(jobQueue')
                 /\ \A i \in 1..Len(jobQueue') : jobQueue'[i].batch = committed + 1 + i - 1
                 /\ job'.batch = committed
      <4>1. batchNum = committed + Len(jobQueue)
        BY <1>0, <2>1, <3>4
      <4>2. \A i \in 1..Len(jobQueue) : jobQueue[i].batch = committed + i - 1
        BY <1>0, <2>1, <3>4
      <4>3. \A i \in 1..Len(jobQueue') : jobQueue'[i].batch = committed + 1 + i - 1
        BY <1>0, <3>2, <4>2
      <4>4. job'.batch = committed
        BY <1>0, <3>2, <4>2
      <4>. QED  BY <1>0, <3>2, <4>1, <4>3, <4>4
    <3>. QED  BY <2>1, <2>2, <2>3, <3>3, <3>4
  <2>4. CASE NoMoreJobs /\ worker' = "exited" /\ UNCHANGED job
    BY <1>0, <2>1, <2>2, <2>4 DEF NoMoreJobs, jobVars
  <2>5. CASE JobWaits /\ UNCHANGED <<worker, job>>
    BY <1>0, <2>1, <2>2, <2>5 DEF JobWaits
  <2>. QED  BY <1>9, <2>3, <2>4, <2>5 DEF TakeJob
<1>10. CASE Write
  <2>1. /\ UNCHANGED <<run, bases, batchNum, committed, job, jobQueue, jobDone>>
        /\ phase = "run" /\ worker \in Parts /\ (~ioFailed' => ~ioFailed)
    BY <1>0, <1>10 DEF Write, WritePart, queueVars, jobVars, mainVars, bootVars
  <2>2. worker' \in {"snapshot", "writes", "fsync"}
    BY <1>10, <2>1 DEF Write, AfterPart
  <2>. QED  BY <1>0, <2>1, <2>2 DEF OfThisRun, Matches
<1>11. CASE SyncJob
  <2>1. /\ UNCHANGED <<run, bases, batchNum, jobQueue, jobDone>>
        /\ phase = "run" /\ worker = "fsync" /\ worker' = "take"
        /\ (~ioFailed' => ~ioFailed /\ committed' = committed + 1)
    BY <1>0, <1>11 DEF SyncJob, Fsync, queueVars, jobVars, mainVars, bootVars
  <2>. QED  BY <1>0, <2>1 DEF OfThisRun, Matches
<1>. QED
  BY <1>1, <1>2, <1>3, <1>4, <1>5, <1>6, <1>7, <1>8, <1>9, <1>10, <1>11 DEF Next

-----------------------------------------------------------------------------
\* The slots.

\* A start counts the runs on and leaves the history of the earlier ones.
LEMMA RunsGrow ==
    ASSUME PipelineInv, [Next]_vars
    PROVE  /\ run' \in Nat /\ run' >= run
           /\ \A r \in 1..run : bases'[r] = bases[r]
           /\ \A j \in Jobs : j.run \in 1..run => (Matches(j)' <=> Matches(j))
<1>. USE DEF PipelineInv, Types
<1>1. CASE UNCHANGED <<run, bases>>
  BY <1>1 DEF Matches
<1>2. CASE ~Start
  BY <1>1, <1>2, LogSteps DEF LogStill, Stopped, Takes, Write, SyncJob, OpenLog, PowerLoss,
                              Finish, bootVars
<1>3. CASE Start
  <2>1. ReconstructedState \in Int
    BY ReconstructsInt DEF LogTypes
  <2>2. run' = run + 1 /\ \A r \in 1..run : bases'[r] = bases[r]
    BY <1>3, <2>1 DEF Start
  <2>. QED  BY <2>2 DEF Matches
<1>. QED  BY <1>2, <1>3

\* The parts a step may leave in a slot: what was in the page cache or on the device, or
\* the job in hand.
LEMMA PartsComeFrom ==
    ASSUME PipelineInv, [Next]_vars, NEW s \in Slots, NEW p \in Parts
    PROVE  /\ \/ file'[s][p] \in {file[s][p], disk[s][p]}
              \/ phase = "run" /\ worker \in Parts /\ s = Slot(job.batch) /\ file'[s][p] = job
           /\ disk'[s][p] \in {file[s][p], disk[s][p]}
<1>. USE DEF PipelineInv, LogTypes
<1>1. CASE LogStill \/ Start \/ Stopped \/ Takes \/ OpenLog \/ Finish
  BY <1>1 DEF LogStill, Start, Stopped, Takes, OpenLog, Finish, KeepCache, ringVars
<1>2. CASE Write
  BY <1>2 DEF Write, WritePart
<1>3. CASE SyncJob
  BY <1>3 DEF SyncJob, Fsync
<1>4. CASE PowerLoss
  BY <1>4 DEF PowerLoss, LoseCache
<1>. QED  BY <1>1, <1>2, <1>3, <1>4, LogSteps

\* A header is in the slot of its batch and of a run so far.
LEMMA HeadersKept == PipelineInv /\ [Next]_vars => Headers'
<1>. SUFFICES ASSUME PipelineInv, [Next]_vars, NEW s \in Slots
              PROVE  /\ InPlace(file'[s]["header"], s, run')
                     /\ InPlace(disk'[s]["header"], s, run')
  BY DEF Headers
<1>1. ASSUME NEW h, InPlace(h, s, run) PROVE InPlace(h, s, run')
  BY <1>1, RunsGrow DEF InPlace, PipelineInv, Types
<1>2. InPlace(file[s]["header"], s, run) /\ InPlace(disk[s]["header"], s, run)
  BY DEF PipelineInv, Headers
<1>3. ASSUME phase = "run", worker \in Parts, s = Slot(job.batch) PROVE InPlace(job, s, run)
  BY <1>3, JobInHand DEF InHand, InPlace, PipelineInv, Types
<1>4. "header" \in Parts
  BY DEF Parts
<1>. DEFINE f == file'[s]["header"]
            d == disk'[s]["header"]
<1>5. InPlace(f, s, run) /\ InPlace(d, s, run)
  BY <1>2, <1>3, <1>4, PartsComeFrom
<1>. QED  BY <1>1, <1>5

\* What is written of the job in hand stays until it is synced.
LEMMA PartsWrittenKept == PipelineInv /\ [Next]_vars => PartsWritten'
<1>. SUFFICES ASSUME PipelineInv, [Next]_vars, ~ioFailed', phase' # "down"
              PROVE  PartsWritten'
  BY DEF PartsWritten
<1>. USE DEF PartsWritten, Begun
<1>1. CASE LogStill
  BY <1>1 DEF LogStill, ringVars, PipelineInv
<1>2. CASE Start \/ Takes \/ OpenLog \/ SyncJob
  <2>1. worker' \in {"open", "take", "header", "exited"} \/ (Takes /\ UNCHANGED worker)
    BY <1>2 DEF Start, Takes, OpenLog, SyncJob
  <2>2. worker' \notin {"snapshot", "writes", "fsync"}
    BY <2>1 DEF Takes
  <2>. QED  BY <2>2
<1>3. CASE Stopped
  BY <1>3 DEF Stopped, KeepCache, PipelineInv
<1>4. CASE Write
  <2>1. /\ phase = "run" /\ worker \in Parts /\ ~ioFailed /\ UNCHANGED job
        /\ file' = [file EXCEPT ![Slot(job.batch)][worker] = job]
        /\ worker' = AfterPart(worker)
    BY <1>4 DEF Write, WritePart, PipelineInv, LogTypes
  <2>2. Slot(job.batch) \in Slots
    BY <2>1, JobInHand DEF InHand
  <2>3. \A p \in Parts : file'[Slot(job.batch)][p]
                           = IF p = worker THEN job ELSE file[Slot(job.batch)][p]
    BY <2>1, <2>2 DEF PipelineInv, LogTypes
  <2>4. PartsWritten
    BY DEF PipelineInv
  <2>5. CASE worker = "header"
    BY <2>1, <2>3, <2>5 DEF Parts, AfterPart
  <2>6. CASE worker = "snapshot"
    BY <2>1, <2>3, <2>4, <2>6 DEF Parts, AfterPart
  <2>7. CASE worker = "writes"
    BY <2>1, <2>3, <2>4, <2>7 DEF Parts, AfterPart
  <2>. QED  BY <2>1, <2>5, <2>6, <2>7 DEF Parts
<1>5. CASE PowerLoss \/ Finish
  BY <1>5 DEF PowerLoss, Finish
<1>. QED  BY <1>1, <1>2, <1>3, <1>4, <1>5, LogSteps

\* A slot is whole unless it is in hand or a crash has torn it.
LEMMA SlotsWholeKept == PipelineInv /\ [Next]_vars => SlotsWhole'
<1>. SUFFICES ASSUME PipelineInv, [Next]_vars, ~ioFailed',
                     NEW s \in ValidSlots', s \notin torn', s \notin HalfWritten'
              PROVE  Whole(s)'
  BY DEF SlotsWhole
<1>. DEFINE h == file[s]["header"]
<1>0. s \in Slots /\ file'[s]["header"] # Nothing
  BY DEF ValidSlots
<1>1. h \in Jobs /\ "header" \in Parts /\ (h # Nothing => h.run \in 1..run)
  BY <1>0 DEF PipelineInv, LogTypes, Headers, InPlace, Parts
<1>2. ~ioFailed /\ file' = file /\ s \notin torn /\ s \notin HalfWritten => Whole(s)'
  <2>1. SUFFICES ASSUME ~ioFailed, file' = file, s \notin torn, s \notin HalfWritten
                 PROVE  Whole(s)'
    OBVIOUS
  <2>2. h # Nothing /\ Whole(s)
    BY <1>0, <2>1 DEF PipelineInv, SlotsWhole, ValidSlots
  <2>3. Matches(h)' <=> Matches(h)
    BY <1>1, <2>2, RunsGrow, <2>1 DEF Matches
  <2>. QED  BY <2>1, <2>2, <2>3 DEF Whole, Matches
<1>3. CASE LogStill
  BY <1>2, <1>3 DEF LogStill, ringVars, HalfWritten
<1>4. CASE Start \/ Takes \/ OpenLog \/ Finish
  <2>1. UNCHANGED <<file, torn>> /\ (~ioFailed' => ~ioFailed)
    BY <1>4 DEF Start, Takes, OpenLog, Finish, ringVars, PipelineInv, LogTypes
  <2>2. HalfWritten = {}
    BY <1>4 DEF Start, Takes, OpenLog, Finish, HalfWritten
  <2>. QED  BY <1>2, <2>1, <2>2
<1>5. CASE Stopped
  BY <1>2, <1>5 DEF Stopped, KeepCache, HalfWritten, Parts
<1>6. CASE Write
  <2>1. /\ phase = "run" /\ worker \in Parts /\ ~ioFailed
        /\ UNCHANGED <<phase, run, bases, job>>
        /\ file' = [file EXCEPT ![Slot(job.batch)][worker] = job]
        /\ torn' = (IF worker = "writes" THEN torn \ {Slot(job.batch)} ELSE torn)
        /\ worker' = AfterPart(worker)
    BY <1>6 DEF Write, WritePart, PipelineInv, LogTypes, bootVars
  <2>2. Slot(job.batch) \in Slots /\ Matches(job)
    BY <2>1, JobInHand DEF InHand
  <2>3. CASE s = Slot(job.batch)
    <3>1. worker' \notin {"snapshot", "writes"}
      BY <2>1, <2>3 DEF HalfWritten
    <3>2. worker = "writes"
      BY <2>1, <3>1 DEF Parts, AfterPart
    <3>3. \A p \in Parts : file'[s][p] = job
      BY <2>1, <2>2, <2>3, <3>2
      DEF PipelineInv, LogTypes, PartsWritten, Begun, Parts
    <3>. QED  BY <2>1, <2>2, <3>3 DEF Whole, Matches, Parts
  <2>4. CASE s # Slot(job.batch)
    <3>1. file'[s] = file[s]
      BY <1>0, <2>1, <2>2, <2>4 DEF PipelineInv, LogTypes
    <3>2. s \notin torn /\ s \notin HalfWritten
      BY <2>1, <2>4 DEF HalfWritten
    <3>3. Whole(s)
      BY <1>0, <2>1, <3>1, <3>2 DEF PipelineInv, SlotsWhole, ValidSlots
    <3>. QED  BY <2>1, <3>1, <3>3 DEF Whole, Matches
  <2>. QED  BY <2>3, <2>4
<1>7. CASE SyncJob
  BY <1>2, <1>7 DEF SyncJob, Fsync, HalfWritten
<1>8. CASE PowerLoss
  <2>1. phase = "run" /\ LoseCache /\ ~ioFailed
    BY <1>8 DEF PowerLoss, LoseCache
  <2>2. s \notin torn /\ \A p \in Parts : file[s][p] = disk[s][p]
    <3>. DEFINE unsynced == {sp \in Slots \X Parts : file[sp[1]][sp[2]] # disk[sp[1]][sp[2]]}
    <3>1. torn' = torn \union {sp[1] : sp \in unsynced}
      BY <2>1 DEF LoseCache
    <3>2. \A p \in Parts : file[s][p] # disk[s][p] => <<s, p>> \in unsynced
      BY <1>0
    <3>3. \A sp \in unsynced : sp[1] \in torn'
      BY <3>1
    <3>. HIDE DEF unsynced
    <3>4. \A p \in Parts : <<s, p>> \in unsynced => s \in torn'
      BY <3>3
    <3>. QED  BY <3>1, <3>2, <3>4
  <2>3. \A p \in Parts : file'[s][p] = file[s][p]
    BY <1>0, <2>2, PartsComeFrom, <1>8, <2>1 DEF LoseCache
  <2>4. s \notin HalfWritten
    <3>1. SUFFICES ASSUME worker \in {"snapshot", "writes"}, s = Slot(job.batch) PROVE FALSE
      BY <2>1 DEF HalfWritten
    <3>2. file[s]["header"] = job
      BY <2>1, <3>1 DEF PipelineInv, PartsWritten, Begun
    <3>3. job.run = run /\ job.batch = committed /\ committed \in Nat
      BY <2>1, <3>1, JobInHand DEF InHand, Parts, PipelineInv, Committing, Types
    <3>4. disk[s]["header"].batch < committed
      BY <1>0, <1>1, <2>1, <2>2, <3>2, <3>3 DEF PipelineInv, DiskBehind
    <3>. QED  BY <1>1, <2>2, <3>2, <3>3, <3>4
  <2>5. Whole(s) /\ h # Nothing
    BY <1>0, <1>1, <2>1, <2>2, <2>3, <2>4 DEF PipelineInv, SlotsWhole, ValidSlots
  <2>6. UNCHANGED bases
    BY <1>8 DEF PowerLoss
  <2>. QED  BY <1>1, <2>3, <2>5, <2>6 DEF Whole, Matches
<1>. QED  BY <1>3, <1>4, <1>5, <1>6, <1>7, <1>8, LogSteps

\* A commit is on the device only when it is synced.
LEMMA DiskBehindKept == PipelineInv /\ [Next]_vars => DiskBehind'
<1>. SUFFICES ASSUME PipelineInv, [Next]_vars, ~ioFailed', phase' # "down",
                     NEW s \in Slots
              PROVE  /\ disk'[s]["header"].run = run' => disk'[s]["header"].batch < committed'
                     /\ file'[s]["header"].run = run'
                          => file'[s]["header"].batch < committed' + OneIf(Begun')
  BY DEF DiskBehind, OneIf
<1>. USE DEF OneIf
<1>0. committed \in Nat /\ run \in Nat /\ file[s]["header"] \in Jobs
      /\ disk[s]["header"] \in Jobs
  BY DEF PipelineInv, Types, LogTypes, Parts
<1>1. ~ioFailed /\ phase # "down" =>
         /\ disk[s]["header"].run = run => disk[s]["header"].batch < committed
         /\ file[s]["header"].run = run => file[s]["header"].batch < committed + OneIf(Begun)
  BY DEF PipelineInv, DiskBehind, OneIf
<1>2. CASE LogStill
  BY <1>1, <1>2 DEF LogStill, ringVars, Begun
<1>3. CASE Start
  <2>1. /\ run' = run + 1 /\ UNCHANGED <<file, disk>>
    BY <1>3 DEF Start, ringVars
  <2>2. /\ file[s]["header"].run = 0 \/ file[s]["header"].run \in 1..run
        /\ disk[s]["header"].run = 0 \/ disk[s]["header"].run \in 1..run
    BY DEF PipelineInv, Headers, InPlace, Nothing
  <2>3. file[s]["header"].run # run + 1 /\ disk[s]["header"].run # run + 1
    BY <1>0, <2>2
  <2>. QED  BY <2>1, <2>3
<1>4. CASE Takes \/ OpenLog \/ Stopped
  <2>1. UNCHANGED <<file, disk, run, committed>> /\ phase = "run" /\ ~ioFailed
    BY <1>4 DEF Takes, OpenLog, Stopped, KeepCache, ringVars, bootVars, PipelineInv, LogTypes
  <2>2. Begun' <=> Begun
    BY <1>4 DEF Takes, OpenLog, Stopped, Begun
  <2>. QED  BY <1>1, <2>1, <2>2
<1>5. CASE Write
  <2>1. /\ phase = "run" /\ worker \in Parts /\ ~ioFailed
        /\ UNCHANGED <<disk, run, committed>>
        /\ file' = [file EXCEPT ![Slot(job.batch)][worker] = job]
        /\ worker' = AfterPart(worker)
    BY <1>5 DEF Write, WritePart, PipelineInv, LogTypes, bootVars
  <2>2. OneIf(Begun') = 1 /\ OneIf(Begun) \in {0, 1}
    BY <2>1 DEF AfterPart, Begun, Parts
  <2>3. job.batch = committed
    BY <2>1 DEF PipelineInv, Committing, InHand
  <2>4. \/ file'[s]["header"] = file[s]["header"]
        \/ worker = "header" /\ file'[s]["header"] = job
    BY <2>1 DEF PipelineInv, LogTypes, Parts
  <2>. HIDE DEF OneIf
  <2>5. file'[s]["header"].run = run => file'[s]["header"].batch < committed + 1
    <3>1. file[s]["header"].run = run => file[s]["header"].batch < committed + 1
      <4>1. file[s]["header"].batch \in Int
        BY <1>0 DEF Jobs
      <4>. QED  BY <1>0, <1>1, <2>1, <2>2, <4>1
    <3>. QED  BY <1>0, <2>3, <2>4, <3>1
  <2>. QED  BY <1>1, <2>1, <2>2, <2>5
<1>6. CASE SyncJob
  <2>1. /\ phase = "run" /\ worker = "fsync" /\ ~ioFailed /\ worker' = "take"
        /\ UNCHANGED <<file, run>> /\ disk' = file /\ committed' = committed + 1
    BY <1>6 DEF SyncJob, Fsync, bootVars
  <2>. QED  BY <1>0, <1>1, <2>1 DEF Begun
<1>7. CASE PowerLoss \/ Finish
  BY <1>7 DEF PowerLoss, Finish
<1>. QED  BY <1>2, <1>3, <1>4, <1>5, <1>6, <1>7, LogSteps

\* Between commits the device has what the page cache has.
LEMMA SyncedKept == PipelineInv /\ [Next]_vars => Synced'
<1>. SUFFICES ASSUME PipelineInv, [Next]_vars, ~ioFailed' PROVE Synced'
  BY DEF Synced
<1>. USE DEF Synced, Begun
<1>1. CASE LogStill
  BY <1>1 DEF LogStill, ringVars, PipelineInv
<1>2. CASE Start \/ Takes \/ OpenLog \/ Stopped \/ Finish
  <2>1. UNCHANGED <<file, disk, inFile>> /\ ~ioFailed
    BY <1>2 DEF Start, Takes, OpenLog, Stopped, Finish, KeepCache, ringVars, fileVars,
                PipelineInv, LogTypes
  <2>2. \/ committed' = 0 \/ phase' = "down"
        \/ phase = "run" /\ UNCHANGED committed /\ (Begun => Begun')
    BY <1>2 DEF Start, Takes, OpenLog, Stopped, Finish
  <2>. QED  BY <2>1, <2>2 DEF PipelineInv
<1>3. CASE Write
  <2>1. phase = "run" /\ worker \in Parts /\ ~ioFailed /\ UNCHANGED inFile
        /\ worker' = AfterPart(worker)
    BY <1>3 DEF Write, WritePart, PipelineInv, LogTypes, fileVars
  <2>2. Begun'
    BY <2>1 DEF AfterPart, Parts
  <2>3. inFile # 0
    <3>1. /\ batchNum = committed + 1 + Len(jobQueue) /\ committed \in Nat
          /\ Len(jobQueue) \in Nat /\ batchNum \in Nat /\ inFile \in Nat
      BY <2>1 DEF PipelineInv, Committing, InHand, OneIf, Types, QueueTypes
    <3>2. nextRead = Taken + Len(txQueue) /\ nextRead <= inFile /\ Len(txQueue) \in Nat
      BY <2>1 DEF PipelineInv, Reading, QueueTypes
    <3>3. Taken >= batchNum /\ Taken \in Nat
      BY <3>1 DEF Taken, OneIf
    <3>. QED  BY <3>1, <3>2, <3>3
  <2>. QED  BY <2>1, <2>2, <2>3
<1>4. CASE SyncJob
  BY <1>4 DEF SyncJob, Fsync
<1>5. CASE PowerLoss
  BY <1>5 DEF PowerLoss, LoseCache
<1>. QED  BY <1>1, <1>2, <1>3, <1>4, <1>5, LogSteps

\* The last synced batch stays where it is until the next but Ring - 1 takes its slot.
LEMMA LastSyncedKept == PipelineInv /\ [Next]_vars => LastSynced'
<1>. SUFFICES ASSUME PipelineInv, [Next]_vars, ~ioFailed', phase' # "down", committed' > 0
              PROVE  LastSynced'
  BY DEF LastSynced
<1>0. committed \in Nat /\ run \in Nat
  BY DEF PipelineInv, Types
<1>1. CASE LogStill
  <2>1. UNCHANGED <<file, disk, ioFailed, worker, job, committed, phase, run, bases>>
    BY <1>1 DEF LogStill, ringVars
  <2>. QED  BY <2>1 DEF PipelineInv, LastSynced, Begun, Matches
<1>2. CASE Start \/ PowerLoss \/ Finish
  <2>1. committed' = 0 \/ phase' = "down"
    BY <1>2 DEF Start, PowerLoss, Finish
  <2>. QED  BY <2>1
<1>3. CASE Takes \/ OpenLog \/ Stopped
  <2>1. UNCHANGED <<file, disk, run, bases, committed>> /\ phase = "run" /\ ~ioFailed
    BY <1>3 DEF Takes, OpenLog, Stopped, KeepCache, ringVars, bootVars, PipelineInv, LogTypes
  <2>2. (Begun' <=> Begun) /\ (Begun => UNCHANGED job)
    BY <1>3 DEF Takes, OpenLog, Stopped, Begun
  <2>. QED  BY <2>1, <2>2 DEF PipelineInv, LastSynced, Matches
<1>. DEFINE s == Slot(committed - 1)
<1>4. CASE Write
  <2>1. /\ phase = "run" /\ worker \in Parts /\ ~ioFailed
        /\ UNCHANGED <<disk, run, bases, committed, job>>
        /\ file' = [file EXCEPT ![Slot(job.batch)][worker] = job]
        /\ worker' = AfterPart(worker)
    BY <1>4 DEF Write, WritePart, PipelineInv, LogTypes, bootVars
  <2>2. Begun'
    BY <2>1 DEF AfterPart, Begun, Parts
  <2>3. s \in Slots
    BY <1>0, <2>1, SlotOfBatch
  <2>4. s = Slot(job.batch) \/ file'[s] = file[s]
    BY <2>1, <2>3 DEF PipelineInv, LogTypes
  <2>. QED  BY <2>1, <2>2, <2>4 DEF PipelineInv, LastSynced, Matches
<1>5. CASE SyncJob
  <2>1. /\ phase = "run" /\ worker = "fsync" /\ ~ioFailed
        /\ UNCHANGED <<file, run, bases>> /\ disk' = file /\ committed' = committed + 1
    BY <1>5 DEF SyncJob, Fsync, bootVars
  <2>2. job.run = run /\ job.batch = committed /\ Matches(job)
    BY <2>1, JobInHand DEF InHand, PipelineInv, Committing
  <2>3. \A p \in Parts : file[Slot(job.batch)][p] = job
    BY <2>1 DEF PipelineInv, PartsWritten, Begun, Parts
  <2>4. committed' - 1 = committed
    BY <1>0, <2>1
  <2>5. "header" \in Parts
    BY DEF Parts
  <2>. QED  BY <2>1, <2>2, <2>3, <2>4, <2>5 DEF LastSynced, Matches
<1>. QED  BY <1>1, <1>2, <1>3, <1>4, <1>5, LogSteps

\* A slot after the first run, if each of its parts is what the page cache or the device
\* had: the last synced batch is there, or the one that was in hand.
LEMMA FirstRunLeaves ==
    ASSUME PipelineInv, phase = "run", run = 1, ~ioFailed, committed > 0,
           NEW f \in [Slots -> [Parts -> Jobs]],
           \A t \in Slots, p \in Parts : f[t][p] \in {file[t][p], disk[t][p]}
    PROVE  LET s == Slot(committed - 1)
           IN  /\ \A t \in Slots : f[t]["header"] = Nothing
                                   \/ f[t]["header"].batch <= committed
               /\ s \in Slots /\ f[s]["header"] # Nothing
               /\ f[s]["header"].batch >= committed - 1
               /\ Ring > 1 => f[s]["header"].batch = committed - 1
                              /\ f[s]["snapshot"].value = committed
<1>. DEFINE s == Slot(committed - 1)
            j == disk[s]["header"]
<1>0. /\ committed \in Nat /\ committed - 1 \in Nat /\ s \in Slots
      /\ "header" \in Parts /\ "snapshot" \in Parts
  BY SlotOfBatch DEF PipelineInv, Types, Parts
<1>1. ASSUME NEW t \in Slots PROVE f[t]["header"] = Nothing \/ f[t]["header"].batch <= committed
  <2>1. f[t]["header"] \in {file[t]["header"], disk[t]["header"]}
    BY <1>0
  <2>2. f[t]["header"] # Nothing => f[t]["header"].run = run
    BY <2>1 DEF PipelineInv, Headers, InPlace
  <2>3. f[t]["header"].batch \in Int
    BY <1>0 DEF Jobs
  <2>4. /\ disk[t]["header"].run = run => disk[t]["header"].batch < committed
        /\ file[t]["header"].run = run => file[t]["header"].batch < committed + 1
    <3>1. file[t]["header"].batch \in Int
      BY <1>0 DEF PipelineInv, LogTypes, Jobs
    <3>2. OneIf(Begun) \in {0, 1}
      BY DEF OneIf
    <3>. QED  BY <1>0, <3>1, <3>2 DEF PipelineInv, DiskBehind
  <2>. QED  BY <1>0, <2>1, <2>2, <2>3, <2>4
<1>2. /\ j.run = run /\ j.batch = committed - 1 /\ j.value = committed
      /\ \A p \in Parts : disk[s][p] = j
      /\ file[s] = disk[s] \/ (Begun /\ s = Slot(job.batch))
  <2>1. bases[1] = 0
    BY DEF PipelineInv, FirstLeaves
  <2>. QED  BY <1>0, <2>1 DEF PipelineInv, LastSynced, Matches
<1>3. ASSUME file[s] # disk[s]
      PROVE  /\ s = Slot(job.batch) /\ job.batch = committed
             /\ file[s]["header"] = job
  BY <1>2, <1>3 DEF PipelineInv, PartsWritten, Committing, Begun, InHand, Parts
<1>4. /\ f[s]["header"].batch \in {committed - 1, committed}
      /\ f[s]["header"] # Nothing
  <2>1. f[s]["header"] \in {file[s]["header"], j}
    BY <1>0
  <2>. QED  BY <1>0, <1>2, <1>3, <2>1 DEF Nothing
<1>5. ASSUME Ring > 1
      PROVE  f[s]["header"].batch = committed - 1 /\ f[s]["snapshot"].value = committed
  <2>1. s # Slot(committed - 1 + 1)
    BY <1>0, <1>5, NextSlot
  <2>2. file[s] = disk[s]
    BY <1>0, <1>3, <2>1
  <2>. QED  BY <1>0, <1>2, <2>2
<1>. QED  BY <1>0, <1>1, <1>4, <1>5

\* What the first run leaves stays until the next start.
LEMMA FirstLeavesKept == PipelineInv /\ [Next]_vars => FirstLeaves'
<1>. SUFFICES ASSUME PipelineInv, [Next]_vars PROVE FirstLeaves'
  OBVIOUS
<1>1. run' = 1 => bases'[1] = 0
  <2>1. CASE Start
    <3>1. run' = run + 1 /\ bases' = Append(bases, ReconstructedState)
      BY <2>1 DEF Start
    <3>2. SUFFICES ASSUME run = 0 PROVE bases'[1] = 0
      BY <3>1 DEF PipelineInv, Types
    <3>3. ReconstructedState = 0
      BY <3>2 DEF PipelineInv, Headers, InPlace, ReconstructedState, ValidSlots
    <3>. QED  BY <3>1, <3>2, <3>3 DEF PipelineInv, Types
  <2>2. CASE ~Start
    <3>1. UNCHANGED <<run, bases>>
      BY <2>2, LogSteps DEF LogStill, Stopped, Takes, Write, SyncJob, OpenLog, PowerLoss,
                            Finish, bootVars
    <3>. QED  BY <3>1 DEF PipelineInv, FirstLeaves
  <2>. QED  BY <2>1, <2>2
<1>2. ASSUME phase = "run", phase' = "down", run' = 1, ~ioFailed', committed' > 0
      PROVE  FirstLeaves'
  <2>1. Stopped \/ PowerLoss \/ Finish
    BY <1>2, LogSteps DEF LogStill, Start, Takes, Write, SyncJob, OpenLog, bootVars
  <2>2. UNCHANGED <<run, committed, ioFailed>>
    BY <2>1 DEF Stopped, PowerLoss, Finish, KeepCache, LoseCache, ringVars
  <2>3. PICK f : f = file'
    OBVIOUS
  <2>4. f \in [Slots -> [Parts -> Jobs]]
    BY <2>3, LogTypesKept DEF LogTypes
  <2>5. \A t \in Slots, p \in Parts : f[t][p] \in {file[t][p], disk[t][p]}
    <3>1. CASE Stopped \/ Finish
      BY <2>3, <3>1 DEF Stopped, Finish, KeepCache, ringVars
    <3>2. CASE PowerLoss
      <4>1. LoseCache
        BY <3>2 DEF PowerLoss
      <4>2. \A t \in Slots, p \in Parts : file'[t][p] \in {file[t][p], disk[t][p]}
        BY <4>1 DEF LoseCache
      <4>. QED  BY <2>3, <4>2
    <3>. QED  BY <2>1, <3>1, <3>2
  <2>. QED  BY <1>1, <1>2, <2>2, <2>3, <2>4, <2>5, FirstRunLeaves
            DEF FirstLeaves, ValidSlots
<1>3. CASE phase = "down" /\ phase' = "down"
  <2>1. LogStill
    BY <1>3, LogSteps DEF Start, Stopped, Takes, Write, SyncJob, OpenLog, PowerLoss, Finish,
                          bootVars
  <2>. QED  BY <1>1, <2>1 DEF LogStill, ringVars, PipelineInv, FirstLeaves, ValidSlots
<1>4. phase = "overflow" => phase' = "overflow"
  BY LogSteps DEF LogStill, Start, Stopped, Takes, Write, SyncJob, OpenLog, PowerLoss, Finish,
                  bootVars
<1>. QED  BY <1>1, <1>2, <1>3, <1>4 DEF PipelineInv, Types, FirstLeaves

-----------------------------------------------------------------------------
\* The end, and the theorems.

\* The smaller of two numbers.
LEMMA MinOfTwo == \A a, b \in Int : Min({a, b}) = IF a <= b THEN a ELSE b
<1>. TAKE a, b \in Int
<1>. DEFINE least == IF a <= b THEN a ELSE b
<1>1. least \in {a, b} /\ \A n \in {a, b} : least <= n
  OBVIOUS
<1>2. \A m \in {a, b} : (\A n \in {a, b} : m <= n) => m = least
  BY <1>1
<1>. HIDE DEF least
<1>3. Min({a, b}) = least
  BY <1>1, <1>2 DEF Min
<1>. QED  BY <1>3 DEF least

\* When main has joined both threads, all that could be read is in the log.
LEMMA AllRead ==
    ASSUME PipelineInv, phase = "run", main = "join", reader = "exited", worker = "exited",
           ~ioFailed
    PROVE  /\ committed = Min({NumBatches, inFile})
           /\ jobQueue = <<>> /\ disk = file
<1>1. NumBatches \in Nat /\ NumBatches > 0
  BY PipelineAssumption
<1>2. batchNum \in Nat /\ committed \in Nat /\ nextRead \in Nat /\ inFile \in Nat
  BY DEF PipelineInv, Types
<1>3. Len(txQueue) \in Nat /\ (txQueue = <<>> => Len(txQueue) = 0)
  <2>1. txQueue \in Seq(Nat)
    BY DEF PipelineInv, QueueTypes
  <2>. QED  BY <2>1
<1>4. ~InHand /\ ~Begun
  BY DEF InHand, Begun, Parts
<1>5. jobQueue = <<>> /\ batchNum = committed + Len(jobQueue)
  <2>1. jobQueue = <<>> /\ batchNum = committed + OneIf(InHand) + Len(jobQueue)
    BY DEF PipelineInv, Committing
  <2>2. OneIf(InHand) = 0
    BY <1>4 DEF OneIf
  <2>. QED  BY <1>2, <2>1, <2>2
<1>6. batchNum = committed
  <2>1. Len(jobQueue) = 0
    BY <1>5
  <2>. QED  BY <1>2, <1>5, <2>1
<1>7. /\ nextRead <= NumBatches /\ nextRead <= inFile /\ ~MoreToRead
      /\ nextRead = Taken + Len(txQueue)
  BY DEF PipelineInv, Reading
<1>8. Taken = batchNum
  BY <1>2 DEF Taken, OneIf
<1>9. batchNum <= NumBatches /\ (batchNum = NumBatches \/ txQueue = <<>>)
  BY DEF PipelineInv, Applying
<1>10. committed = IF NumBatches <= inFile THEN NumBatches ELSE inFile
  <2>1. ~(nextRead < NumBatches /\ nextRead < inFile)
    BY <1>7 DEF MoreToRead
  <2>2. nextRead = committed + Len(txQueue)
    BY <1>6, <1>7, <1>8
  <2>3. CASE committed = NumBatches
    BY <1>1, <1>2, <1>3, <1>7, <2>2, <2>3
  <2>4. CASE Len(txQueue) = 0
    BY <1>1, <1>2, <1>7, <2>1, <2>2, <2>4
  <2>. QED  BY <1>3, <1>6, <1>9, <2>3, <2>4
<1>11. disk = file
  <2>1. committed > 0 \/ inFile = 0
    BY <1>1, <1>2, <1>10
  <2>. QED  BY <1>4, <2>1 DEF PipelineInv, Synced
<1>12. Min({NumBatches, inFile}) = IF NumBatches <= inFile THEN NumBatches ELSE inFile
  BY <1>1, <1>2, MinOfTwo
<1>. QED  BY <1>5, <1>10, <1>11, <1>12

\* No step ends a run in order with less.
LEMMA ExitKept == PipelineInv /\ [Next]_vars => NothingLostAtExit'
<1>. SUFFICES ASSUME PipelineInv, [Next]_vars,
                     phase' = "down", ended' = "in order", ~ioFailed'
              PROVE  /\ committed' = Min({NumBatches, inFile'})
                     /\ jobQueue' = <<>> /\ disk' = file'
  BY DEF NothingLostAtExit
<1>1. CASE Finish
  <2>1. /\ phase = "run" /\ main = "join" /\ reader = "exited" /\ worker = "exited"
        /\ ~ioFailed /\ UNCHANGED <<committed, inFile, jobQueue, disk, file>>
    BY <1>1 DEF Finish, queueVars, jobVars, ringVars, fileVars
  <2>2. committed = Min({NumBatches, inFile}) /\ jobQueue = <<>> /\ disk = file
    BY <2>1, AllRead
  <2>. QED  BY <2>1, <2>2
<1>2. CASE phase = "down"
  <2>1. UNCHANGED <<ended, ioFailed, committed, inFile, jobQueue, disk, file>>
    <3>1. RecoverOnly \/ UNCHANGED vars
      BY <1>2 DEF Next, Start, ReadBatch, FinishReading, UpdateState, Retrieve, Submit,
                  CloseCommits, Finish, OpenLog, TakeJob, Write, SyncJob, Wakeup, Kill,
                  PowerLoss
    <3>. QED  BY <3>1 DEF RecoverOnly, vars, queueVars, jobVars, ringVars, fileVars, bootVars
  <2>. QED  BY <1>2, <2>1 DEF PipelineInv, NothingLostAtExit
<1>3. CASE phase # "down" /\ ~Finish
  <2>1. Stopped \/ PowerLoss
    BY <1>3, LogSteps DEF LogStill, Start, Takes, Write, SyncJob, OpenLog, bootVars
  <2>2. Kill \/ PowerLoss
    BY <1>3 DEF Next, Start, RecoverOnly, ReadBatch, FinishReading, UpdateState, Retrieve,
                Submit, CloseCommits, OpenLog, TakeJob, Write, SyncJob, Wakeup, vars, bootVars
  <2>. QED  BY <2>2 DEF Kill, PowerLoss
<1>. QED  BY <1>1, <1>2, <1>3

\* Nothing has happened yet.
LEMMA PipelineInit == Init => PipelineInv
<1>. SUFFICES ASSUME Init PROVE PipelineInv
  OBVIOUS
<1>1. /\ txQueue = <<>> /\ txDone = FALSE /\ txWaiting = {} /\ txCapacity \in Capacities
      /\ jobQueue = <<>> /\ jobDone = FALSE /\ jobWaiting = {}
  BY DEF Init, InitQueues
<1>2. /\ phase = "down" /\ worker = "exited" /\ run = 0 /\ nextRead = 0 /\ batchNum = 0
      /\ committed = 0 /\ ended = "never ran"
  BY DEF Init
<1>3. /\ inFile \in 0..MaxBatches /\ state = 0 /\ snapshot = 0 /\ batch = -1
       /\ job = Nothing
  BY DEF Init
<1>4. bases = <<>>
  BY DEF Init
<1>5. /\ file = [s \in Slots |-> EmptySlot] /\ disk = file
      /\ torn = {} /\ ioFailed = FALSE
  BY DEF Init, InitRing
<1>6. Nothing \in Jobs
  BY DEF Nothing, Jobs
<1>7. QueueTypes /\ NoLostWakeup
  <2>1. txCapacity \in Nat \ {0}
    BY <1>1, PipelineAssumption
  <2>2. txQueue \in Seq(Nat) /\ jobQueue \in Seq(Jobs)
    BY <1>1, EmptySeq
  <2>. QED  BY <1>1, <2>1, <2>2 DEF QueueTypes, NoLostWakeup
<1>8. Types
  <2>1. bases \in Seq(Int) /\ Len(bases) = 0
    BY <1>4, EmptySeq
  <2>2. inFile \in Nat
    BY <1>3, PipelineAssumption
  <2>3. phase \in {"down", "run", "overflow"} /\ run \in Nat
    BY <1>2
  <2>4. nextRead \in Nat /\ batchNum \in Nat /\ committed \in Nat
    BY <1>2
  <2>5. state \in Int /\ snapshot \in Int /\ batch \in Int /\ job \in Jobs
    BY <1>6, <1>3
  <2>6. Len(bases) = run
    BY <1>2, <2>1
  <2>. QED  BY <1>2, <2>1, <2>2, <2>3, <2>4, <2>5, <2>6 DEF Types
<1>9. LogTypes
  BY <1>5, <1>6 DEF LogTypes, EmptySlot
<1>10. Reading /\ Applying /\ Committing
  <2>1. DOMAIN jobQueue = {} /\ Len(jobQueue) = 0
    BY <1>1, EmptySeq
  <2>2. \A i \in 1..Len(jobQueue) : FALSE
    BY <2>1
  <2>. QED  BY <1>2, <2>2 DEF Reading, Applying, Committing
<1>11. \A s \in Slots : file[s]["header"] = Nothing /\ disk[s]["header"] = Nothing
  BY <1>5 DEF EmptySlot, Parts
<1>12. Headers /\ ValidSlots = {}
  BY <1>11 DEF Headers, InPlace, ValidSlots
<1>13. SlotsWhole /\ PartsWritten /\ DiskBehind /\ Synced /\ LastSynced
  BY <1>2, <1>5, <1>12 DEF SlotsWhole, PartsWritten, DiskBehind, Synced, LastSynced
<1>14. FirstLeaves /\ NothingLostAtExit
  <2>1. run # 1
    <3>1. run = 0
      BY <1>2
    <3>. QED  BY <3>1
  <2>2. ended # "in order"
    BY <1>2
  <2>. QED  BY <2>1, <2>2 DEF FirstLeaves, NothingLostAtExit
<1>. QED  BY <1>7, <1>8, <1>9, <1>10, <1>12, <1>13, <1>14 DEF PipelineInv

\* No step breaks the invariant.
LEMMA PipelineStep == PipelineInv /\ [Next]_vars => PipelineInv'
  BY QueueTypesKept, WakeupKept, TypesKept, LogTypesKept, ReadingKept, ApplyingKept,
     CommittingKept, HeadersKept, SlotsWholeKept, PartsWrittenKept, DiskBehindKept,
     SyncedKept, LastSyncedKept, FirstLeavesKept, ExitKept DEF PipelineInv

\* The inductive invariant of the pipeline: where the batches are, between the file and
\* the log, and what the slots hold in the page cache and on the device.
THEOREM PipelineInvariant == Spec => []PipelineInv
  BY PipelineInit, PipelineStep, PTL DEF Spec

\* No thread sleeps while there is something for it to do (NoLostWakeup).
THEOREM WakeupsArrive == Spec => []NoLostWakeup
<1>1. PipelineInv => NoLostWakeup
  BY DEF PipelineInv
<1>. QED  BY <1>1, PipelineInvariant, PTL

\* A job and a slot are of one batch, with its number, its transactions and the state
\* after it (OneBatchPerSlot).
THEOREM SlotsOfOneBatch == Spec => []OneBatchPerSlot
<1>1. PipelineInv => OneBatchPerSlot
  <2>. SUFFICES ASSUME PipelineInv PROVE OneBatchPerSlot
    OBVIOUS
  <2>1. \A i \in DOMAIN jobQueue : /\ jobQueue[i].txs = jobQueue[i].batch
                                   /\ jobQueue[i].value = bases[jobQueue[i].run]
                                                            + jobQueue[i].batch + 1
    BY DEF PipelineInv, QueueTypes, Committing, OfThisRun, Matches
  <2>. DEFINE Busy == IF phase = "run" /\ worker \in Parts THEN {Slot(job.batch)} ELSE {}
  <2>2. HalfWritten \subseteq Busy
    BY DEF HalfWritten, Parts
  <2>3. ASSUME ~ioFailed, NEW s \in ValidSlots \ (torn \union Busy)
        PROVE  Whole(s) /\ Slot(file[s]["header"].batch) = s
    BY <2>2, <2>3, ValidHasBatch DEF PipelineInv, SlotsWhole
  <2>. QED  BY <2>1, <2>3 DEF OneBatchPerSlot, Whole, Matches
<1>. QED  BY <1>1, PipelineInvariant, PTL

\* An orderly end leaves every batch that was read in the log, on the device
\* (NothingLostAtExit).
THEOREM OrderlyEndLosesNothing == Spec => []NothingLostAtExit
<1>1. PipelineInv => NothingLostAtExit
  BY DEF PipelineInv
<1>. QED  BY <1>1, PipelineInvariant, PTL

\* A ring of more than one slot is reconstructed, after one run, to the last synced batch
\* or the one in hand, and exactly unless that one was half written (ReconstructsNewest).
\* With one slot the batch in hand destroys the synced one.
THEOREM NewestIsReconstructed == Ring > 1 => (Spec => []ReconstructsNewest)
<1>. SUFFICES ASSUME Ring > 1 PROVE Spec => []ReconstructsNewest
  OBVIOUS
<1>1. PipelineInv => ReconstructsNewest
  <2>. SUFFICES ASSUME PipelineInv, phase = "down", run = 1, ~ioFailed,
                       committed > 0
                PROVE  /\ ReconstructedBatch \in {committed - 1, committed}
                       /\ LatestSlot \notin torn \/ ReconstructedBatch < committed
                            => ReconstructedState = ReconstructedBatch + 1
    BY DEF ReconstructsNewest
  <2>. DEFINE s == Slot(committed - 1)
              latest == file[LatestSlot]["header"]
  <2>1. committed \in Nat /\ Headers
    BY DEF PipelineInv, Types
  <2>2. /\ \A t \in ValidSlots : file[t]["header"].batch <= committed
        /\ s \in ValidSlots /\ file[s]["header"].batch = committed - 1
        /\ file[s]["snapshot"].value = committed
    BY DEF PipelineInv, FirstLeaves
  <2>3. /\ LatestSlot \in ValidSlots
        /\ \A t \in ValidSlots : file[t]["header"].batch <= latest.batch
    BY <2>1, <2>2, LatestExists
  <2>4. latest.batch \in Nat /\ Slot(latest.batch) = LatestSlot /\ latest.run = 1
    BY <2>1, <2>3, ValidHasBatch, PipelineAssumption
  <2>5. ReconstructedBatch = latest.batch /\ latest.batch \in {committed - 1, committed}
    BY <2>1, <2>2, <2>3, <2>4 DEF ReconstructedBatch
  <2>6. ReconstructedState = file[LatestSlot]["snapshot"].value
    BY <2>3 DEF ReconstructedState
  <2>7. CASE ReconstructedBatch < committed
    <3>1. LatestSlot = s
      BY <2>1, <2>4, <2>5, <2>7
    <3>. QED  BY <2>1, <2>2, <2>5, <2>6, <2>7, <3>1
  <2>8. CASE LatestSlot \notin torn
    <3>1. Whole(LatestSlot) /\ bases[1] = 0
      BY <2>3, <2>8 DEF PipelineInv, SlotsWhole, HalfWritten, FirstLeaves
    <3>2. file[LatestSlot]["snapshot"].value = latest.batch + 1
      BY <2>4, <3>1 DEF Whole, Matches, Parts
    <3>. QED  BY <2>5, <2>6, <3>2
  <2>. QED  BY <2>5, <2>7, <2>8
<1>. QED  BY <1>1, PipelineInvariant, PTL
-----------------------------------------------------------------------------
\* The version that reads groups of batches.

IsSequence(q) == \E S : q \in Seq(S)

\* The groups that main has not taken: those in the queue, and the one the reader has.
Waiting == IF reader = "enqueue" THEN Append(txQueue, group) ELSE txQueue

\* A group of consecutive batches.
Consecutive(g) == g \in Seq(Nat) /\ g # <<>> /\ \A i \in 1..Len(g) : g[i] = g[1] + i - 1

\* The batch after a group.
Behind(g) == g[1] + Len(g)

GroupTypes ==
    /\ inFile \in Nat /\ batchCount \in Nat /\ processed \in Nat /\ current \in Seq(Nat)
    /\ reader \in {"fill", "enqueue", "exited"}
    /\ worker \in {"open", "take", "commit", "exited"}
    /\ txQueue \in Seq(Seq(Nat)) /\ group \in Seq(Nat)
    /\ IsSequence(jobQueue) /\ IsSequence(committed)

\* The batches of a group in main's hands are the next ones, those of each group that
\* waits are the next after the group before it, and the reader has read no others.
GroupsFollow ==
    /\ main # "process" => current = <<>>
    /\ \A i \in 1..Len(current) : current[i] = processed + i - 1
    /\ processed + Len(current) <= batchCount /\ batchCount <= inFile
    /\ \A j \in 1..Len(Waiting) :
          /\ Consecutive(Waiting[j]) /\ Behind(Waiting[j]) <= batchCount
          /\ Waiting[j][1] = IF j = 1 THEN processed + Len(current) ELSE Behind(Waiting[j - 1])
    /\ batchCount = IF Waiting = <<>> THEN processed + Len(current)
                                      ELSE Behind(Waiting[Len(Waiting)])

Of(j, b) == j.batch = b /\ j.txs = b

\* How many jobs the commit thread has taken from the queue.
JobsTaken == Len(committed) + (IF worker = "commit" THEN 1 ELSE 0)

\* The jobs that main has made are in the log, in hand and in the queue, in their order.
JobsInOrder ==
    /\ processed = JobsTaken + Len(jobQueue)
    /\ \A i \in 1..Len(committed) : Of(committed[i].job, i - 1)
    /\ worker = "commit" => Of(job, Len(committed))
    /\ \A i \in 1..Len(jobQueue) : Of(jobQueue[i], JobsTaken + i - 1)

GroupInv == GroupTypes /\ GroupsFollow /\ JobsInOrder

\* Any sequence, with an element more, or without its first one.
LEMMA AnySequence ==
    ASSUME NEW q, IsSequence(q), NEW e
    PROVE  /\ IsSequence(Append(q, e)) /\ Len(q) \in Nat
           /\ Len(Append(q, e)) = Len(q) + 1
           /\ \A i \in 1..Len(q) : Append(q, e)[i] = q[i]
           /\ Append(q, e)[Len(q) + 1] = e
           /\ q # <<>> => /\ IsSequence(Tail(q)) /\ Len(Tail(q)) = Len(q) - 1
                          /\ Len(q) > 0 /\ Head(q) = q[1]
                          /\ \A i \in 1..Len(q) - 1 : Tail(q)[i] = q[i + 1]
<1>1. PICK S : q \in Seq(S)
  BY DEF IsSequence
<1>2. q \in Seq(S \union {e}) /\ e \in S \union {e}
  BY <1>1
<1>3. Append(q, e) \in Seq(S \union {e}) /\ IsSequence(Append(q, e))
  BY <1>2 DEF IsSequence
<1>4. q # <<>> => Tail(q) \in Seq(S)
  BY <1>1
<1>5. q # <<>> => IsSequence(Tail(q))
  BY <1>4 DEF IsSequence
<1>. QED  BY <1>2, <1>3, <1>5

\* The smaller of two numbers.
LEMMA SmallerOf == \A a, b \in Int : Group!Min({a, b}) = IF a <= b THEN a ELSE b
  BY DEF Group!Min

\* Nothing has been read.
LEMMA GroupInitInv == Group!GroupAssumption /\ Group!Init => GroupInv
<1>. SUFFICES ASSUME Group!GroupAssumption, Group!Init PROVE GroupInv
  OBVIOUS
<1>1. /\ txQueue = <<>> /\ jobQueue = <<>> /\ committed = <<>> /\ group = <<>>
      /\ current = <<>> /\ processed = 0 /\ batchCount = 0 /\ inFile \in 0..MaxBatches
      /\ reader = "fill" /\ main = "dequeue" /\ worker = "open" /\ MaxBatches \in Nat
  BY DEF Group!Init, Group!InitQueues, Group!GroupAssumption
<1>2. IsSequence(<<>>)
  BY DEF IsSequence
<1>. QED  BY <1>1, <1>2 DEF GroupInv, GroupTypes, GroupsFollow, JobsInOrder, JobsTaken, Waiting

\* The reader fills a group from the file and puts it into the queue.
LEMMA ReaderKeeps ==
    ASSUME Group!GroupAssumption, GroupInv,
           Group!FillGroup \/ Group!EnqueueGroup \/ Group!FinishReading
    PROVE  GroupInv'
<1>. USE DEF GroupInv
<1>1. /\ UNCHANGED <<inFile, processed, current, main, worker, job, committed, jobQueue>>
      /\ reader' \in {"fill", "enqueue", "exited"}
  BY DEF Group!FillGroup, Group!EnqueueGroup, Group!FinishReading, Group!queueVars,
         Group!mainVars, Group!workerVars, Group!jobVars, GroupTypes
<1>2. JobsInOrder'
  BY <1>1 DEF JobsInOrder, JobsTaken, Of
<1>3. CASE Group!FillGroup
  <2>1. PICK got \in Int : /\ got > 0 /\ got <= inFile - batchCount
                           /\ group' = [i \in 1..got |-> batchCount + i - 1]
                           /\ batchCount' = batchCount + got
    <3>1. NumBatches \in Nat /\ GroupSize \in Nat /\ inFile \in Nat /\ batchCount \in Nat
      BY DEF Group!GroupAssumption, GroupTypes
    <3>. DEFINE planned == Group!Min({NumBatches - batchCount, GroupSize})
                filled == Group!Min({planned, inFile - batchCount})
    <3>2. /\ filled > 0 /\ group' = [i \in 1..filled |-> batchCount + i - 1]
          /\ batchCount' = batchCount + filled
      BY <1>3 DEF Group!FillGroup
    <3>3. planned \in Int
      BY <3>1, SmallerOf
    <3>4. filled \in Int /\ filled <= inFile - batchCount
      BY <3>1, <3>3, SmallerOf
    <3>. QED  BY <3>2, <3>4
  <2>2. reader = "fill" /\ reader' = "enqueue" /\ txQueue' = txQueue
    BY <1>3 DEF Group!FillGroup, Group!queueVars, Group!txVars
  <2>3. batchCount \in Nat /\ group' \in Seq(Nat) /\ Len(group') = got /\ group'[1] = batchCount
    BY <2>1 DEF GroupTypes
  <2>4. Consecutive(group') /\ Behind(group') = batchCount'
    BY <2>1, <2>3 DEF Consecutive, Behind
  <2>5. txQueue \in Seq(Seq(Nat)) /\ Waiting = txQueue /\ Waiting' = Append(txQueue, group')
    BY <2>2 DEF Waiting, GroupTypes
  <2>6. /\ Len(Waiting') = Len(txQueue) + 1 /\ Waiting'[Len(txQueue) + 1] = group'
        /\ \A j \in 1..Len(txQueue) : Waiting'[j] = txQueue[j]
    BY <2>3, <2>5
  <2>7. GroupTypes'
    BY <1>1, <2>1, <2>2, <2>3 DEF GroupTypes
  <2>8. GroupsFollow'
    <3>1. /\ \A j \in 1..Len(txQueue) :
                /\ Consecutive(txQueue[j]) /\ Behind(txQueue[j]) <= batchCount
                /\ txQueue[j][1] = IF j = 1 THEN processed + Len(current)
                                            ELSE Behind(txQueue[j - 1])
          /\ batchCount = IF txQueue = <<>> THEN processed + Len(current)
                                            ELSE Behind(txQueue[Len(txQueue)])
          /\ Len(txQueue) \in Nat /\ (txQueue = <<>> <=> Len(txQueue) = 0)
      BY <2>5 DEF GroupsFollow
    <3>2. \A j \in 1..Len(txQueue) : Behind(txQueue[j]) \in Nat
      BY <3>1, <2>5 DEF Behind, Consecutive
    <3>3. ASSUME NEW j \in 1..Len(Waiting')
          PROVE  /\ Consecutive(Waiting'[j]) /\ Behind(Waiting'[j]) <= batchCount'
                 /\ Waiting'[j][1] = IF j = 1 THEN processed + Len(current)
                                              ELSE Behind(Waiting'[j - 1])
      <4>1. CASE j \in 1..Len(txQueue)
        <5>1. j # 1 => j - 1 \in 1..Len(txQueue)
          BY <4>1
        <5>2. Behind(txQueue[j]) <= batchCount'
          BY <2>1, <2>3, <3>1, <3>2, <4>1
        <5>. QED  BY <2>6, <3>1, <4>1, <5>1, <5>2
      <4>2. CASE j = Len(txQueue) + 1
        <5>1. j # 1 => txQueue # <<>> /\ j - 1 \in 1..Len(txQueue) /\ j - 1 = Len(txQueue)
          BY <3>1, <4>2
        <5>2. j = 1 => txQueue = <<>>
          BY <3>1, <4>2
        <5>3. batchCount' \in Nat
          BY <2>1, <2>3
        <5>. QED  BY <2>3, <2>4, <2>6, <3>1, <4>2, <5>1, <5>2, <5>3
      <4>. QED  BY <2>6, <3>1, <4>1, <4>2
    <3>4. Waiting' # <<>> /\ batchCount' = Behind(Waiting'[Len(Waiting')])
      BY <2>4, <2>5, <2>6, <3>1
    <3>5. processed + Len(current) <= batchCount' /\ batchCount' <= inFile
      <4>1. /\ processed + Len(current) <= batchCount /\ batchCount \in Nat /\ inFile \in Nat
            /\ processed \in Nat /\ current \in Seq(Nat)
        BY DEF GroupsFollow, GroupTypes
      <4>2. Len(current) \in Nat
        BY <4>1
      <4>. QED  BY <2>1, <2>3, <4>1, <4>2
    <3>. QED  BY <1>1, <3>3, <3>4, <3>5 DEF GroupsFollow, Behind, Consecutive
  <2>. QED  BY <1>2, <2>7, <2>8
<1>4. CASE Group!EnqueueGroup
  <2>1. /\ reader = "enqueue" /\ batchCount' = batchCount
        /\ \/ txQueue' = Append(txQueue, group) /\ reader' = "fill" /\ group' = <<>>
           \/ txQueue' = txQueue /\ reader' = reader /\ group' = group
    BY <1>4 DEF Group!EnqueueGroup, Group!EnqueueTransaction, Group!EnqueueTransactionWaits
  <2>2. Waiting' = Waiting
    BY <2>1 DEF Waiting
  <2>3. GroupTypes'
    <3>1. group \in Seq(Nat) /\ txQueue \in Seq(Seq(Nat)) /\ <<>> \in Seq(Nat)
      BY DEF GroupTypes
    <3>2. Append(txQueue, group) \in Seq(Seq(Nat))
      BY <3>1
    <3>3. txQueue' \in Seq(Seq(Nat)) /\ group' \in Seq(Nat)
      BY <2>1, <3>1, <3>2
    <3>. QED  BY <1>1, <2>1, <3>3 DEF GroupTypes
  <2>4. GroupsFollow'
    BY <1>1, <2>1, <2>2 DEF GroupsFollow, Behind, Consecutive
  <2>. QED  BY <1>2, <2>3, <2>4
<1>5. CASE Group!FinishReading
  <2>1. /\ reader = "fill" /\ reader' = "exited" /\ UNCHANGED <<batchCount, group, txQueue>>
    BY <1>5 DEF Group!FinishReading, Group!CloseTransactions
  <2>2. Waiting' = Waiting
    BY <2>1 DEF Waiting
  <2>3. GroupTypes'
    BY <1>1, <2>1 DEF GroupTypes
  <2>4. GroupsFollow'
    BY <1>1, <2>1, <2>2 DEF GroupsFollow, Behind, Consecutive
  <2>. QED  BY <1>2, <2>3, <2>4
<1>. QED  BY <1>3, <1>4, <1>5

\* Main takes a group.
LEMMA RetrieveKeeps ==
    ASSUME GroupInv, Group!RetrieveGroup
    PROVE  GroupInv'
<1>. USE DEF GroupInv
<1>1. /\ UNCHANGED <<inFile, reader, batchCount, group, processed, worker, job, committed,
                     jobQueue>>
      /\ main = "dequeue" /\ current = <<>> /\ Len(current) = 0
  BY DEF Group!RetrieveGroup, Group!jobVars, Group!readerVars, Group!workerVars, GroupsFollow
<1>2. JobsInOrder'
  BY <1>1 DEF JobsInOrder, JobsTaken, Of
<1>3. CASE txQueue' = txQueue /\ current' = current
  <2>1. Waiting' = Waiting
    BY <1>1, <1>3 DEF Waiting
  <2>2. GroupTypes'
    BY <1>1, <1>3 DEF GroupTypes
  <2>3. GroupsFollow'
    BY <1>1, <1>3, <2>1 DEF GroupsFollow, Behind, Consecutive
  <2>. QED  BY <1>2, <2>2, <2>3
<1>4. CASE txQueue # <<>> /\ txQueue' = Tail(txQueue) /\ current' = Head(txQueue)
           /\ main' = "process"
  <2>1. /\ txQueue \in Seq(Seq(Nat)) /\ Tail(txQueue) \in Seq(Seq(Nat)) /\ group \in Seq(Nat)
        /\ Head(txQueue) \in Seq(Nat) /\ Head(txQueue) = txQueue[1] /\ Len(txQueue) > 0
    BY <1>4 DEF GroupTypes
  <2>2. PICK w, v : w = Waiting /\ v = Waiting'
    OBVIOUS
  <2>3. /\ w \in Seq(Seq(Nat)) /\ Len(w) > 0 /\ w[1] = txQueue[1] /\ w # <<>>
        /\ v \in Seq(Seq(Nat)) /\ Len(v) = Len(w) - 1
        /\ \A j \in 1..Len(v) : v[j] = w[j + 1]
    <3>1. CASE reader = "enqueue"
      <4>1. v = Append(Tail(txQueue), group) /\ w = Append(txQueue, group)
        BY <1>1, <1>4, <2>2, <3>1 DEF Waiting
      <4>2. v \in Seq(Seq(Nat)) /\ w \in Seq(Seq(Nat))
        BY <2>1, <4>1
      <4>. QED  BY <2>1, <4>1, <4>2
    <3>2. CASE reader # "enqueue"
      <4>1. v = Tail(txQueue) /\ w = txQueue
        BY <1>1, <1>4, <2>2, <3>2 DEF Waiting
      <4>. QED  BY <1>4, <2>1, <4>1
    <3>. QED  BY <3>1, <3>2
  <2>4. /\ \A j \in 1..Len(w) :
              /\ Consecutive(w[j]) /\ Behind(w[j]) <= batchCount
              /\ w[j][1] = IF j = 1 THEN processed + Len(current) ELSE Behind(w[j - 1])
        /\ batchCount = Behind(w[Len(w)]) /\ batchCount <= inFile
        /\ processed \in Nat
    BY <2>2, <2>3 DEF GroupsFollow, GroupTypes
  <2>5. /\ current' = w[1] /\ current' \in Seq(Nat) /\ Consecutive(current')
        /\ current'[1] = processed /\ Behind(current') = processed + Len(current')
        /\ Behind(current') <= batchCount
    <3>1. current' = w[1] /\ current' \in Seq(Nat) /\ 1 \in 1..Len(w)
      BY <1>4, <2>1, <2>3
    <3>2. /\ Consecutive(current') /\ Behind(current') <= batchCount
          /\ w[1][1] = processed + Len(current)
      BY <2>4, <3>1
    <3>3. current'[1] = processed
      BY <1>1, <2>4, <3>1, <3>2
    <3>. QED  BY <3>1, <3>2, <3>3 DEF Behind
  <2>6. \A i \in 1..Len(current') : current'[i] = processed + i - 1
    BY <2>5 DEF Consecutive
  <2>7. ASSUME NEW j \in 1..Len(v)
        PROVE  /\ Consecutive(v[j]) /\ Behind(v[j]) <= batchCount
               /\ v[j][1] = IF j = 1 THEN processed + Len(current') ELSE Behind(v[j - 1])
    <3>1. j + 1 \in 1..Len(w) /\ j + 1 # 1 /\ (j + 1) - 1 = j /\ j \in 1..Len(w)
      BY <2>3
    <3>2. w[j + 1][1] = Behind(w[j]) /\ Consecutive(w[j + 1]) /\ Behind(w[j + 1]) <= batchCount
      BY <2>4, <3>1
    <3>3. j # 1 => v[j - 1] = w[(j - 1) + 1] /\ (j - 1) + 1 = j
      <4>1. j # 1 => j - 1 \in 1..Len(v)
        BY <2>3
      <4>. QED  BY <2>3, <4>1
    <3>4. v[j] = w[j + 1]
      BY <2>3
    <3>. QED  BY <2>5, <3>2, <3>3, <3>4
  <2>8. batchCount = IF v = <<>> THEN processed + Len(current') ELSE Behind(v[Len(v)])
    <3>1. CASE v = <<>>
      <4>1. Len(w) = 1
        BY <2>3, <3>1
      <4>. QED  BY <2>4, <2>5, <3>1, <4>1
    <3>2. CASE v # <<>>
      <4>1. Len(v) \in 1..Len(v) /\ v[Len(v)] = w[Len(w)]
        <5>1. Len(v) \in 1..Len(v) /\ Len(v) + 1 = Len(w)
          BY <2>3, <3>2
        <5>. QED  BY <2>3, <5>1
      <4>. QED  BY <2>4, <3>2, <4>1
    <3>. QED  BY <3>1, <3>2
  <2>9. GroupTypes'
    BY <1>1, <1>4, <2>1 DEF GroupTypes
  <2>10. GroupsFollow'
    <3>1. /\ processed' = processed /\ batchCount' = batchCount /\ inFile' = inFile
          /\ main' = "process"
      BY <1>1, <1>4
    <3>2. processed + Len(current') <= batchCount
      BY <2>5
    <3>. QED  BY <2>2, <2>4, <2>6, <2>7, <2>8, <3>1, <3>2 DEF GroupsFollow, Behind, Consecutive
  <2>. QED  BY <1>2, <2>9, <2>10
<1>. QED  BY <1>3, <1>4 DEF Group!RetrieveGroup, Group!DequeueTransactionWaits,
             Group!DequeueTransaction, Group!DequeueNothing, Group!txVars

\* Main applies a batch of its group and hands over the job.
LEMMA ProcessKeeps ==
    ASSUME GroupInv, Group!ProcessBatch
    PROVE  GroupInv'
<1>. USE DEF GroupInv
<1>1. /\ UNCHANGED <<inFile, reader, batchCount, group, main, worker, job, committed, txQueue>>
      /\ main = "process" /\ current # <<>> /\ current' = Tail(current)
      /\ processed' = processed + 1
  BY DEF Group!ProcessBatch, Group!txVars, Group!readerVars, Group!workerVars
<1>2. PICK new : jobQueue' = Append(jobQueue, new) /\ Of(new, processed)
  <2>1. PICK writes, value :
           jobQueue' = Append(jobQueue, [batch |-> processed, txs |-> Head(current),
                                         writes |-> writes, value |-> value])
    BY DEF Group!ProcessBatch, Group!EnqueueJob
  <2>2. Head(current) = processed
    <3>1. current \in Seq(Nat) /\ processed \in Nat
      BY DEF GroupTypes
    <3>2. 1 \in 1..Len(current) /\ Head(current) = current[1]
      BY <1>1, <3>1
    <3>3. current[1] = processed + 1 - 1
      BY <3>2 DEF GroupsFollow
    <3>. QED  BY <3>1, <3>2, <3>3
  <2>. QED  BY <2>1, <2>2 DEF Of
<1>3. /\ current \in Seq(Nat) /\ current' \in Seq(Nat) /\ Len(current') = Len(current) - 1
      /\ processed \in Nat /\ Len(current) > 0
      /\ \A i \in 1..Len(current') : current'[i] = current[i + 1]
  BY <1>1 DEF GroupTypes
<1>4. Waiting' = Waiting
  BY <1>1 DEF Waiting
<1>5. GroupTypes'
  BY <1>1, <1>2, <1>3, AnySequence DEF GroupTypes
<1>6. GroupsFollow'
  <2>1. \A i \in 1..Len(current') : current'[i] = processed' + i - 1
    BY <1>1, <1>3 DEF GroupsFollow
  <2>2. processed' + Len(current') = processed + Len(current)
    BY <1>1, <1>3
  <2>. QED  BY <1>1, <1>4, <2>1, <2>2 DEF GroupsFollow, Behind, Consecutive
<1>7. JobsInOrder'
  <2>1. /\ Len(jobQueue') = Len(jobQueue) + 1 /\ Len(jobQueue) \in Nat
        /\ \A i \in 1..Len(jobQueue) : jobQueue'[i] = jobQueue[i]
        /\ jobQueue'[Len(jobQueue) + 1] = new
    BY <1>2, AnySequence DEF GroupTypes
  <2>2. JobsTaken' = JobsTaken /\ JobsTaken \in Nat /\ processed = JobsTaken + Len(jobQueue)
    BY <1>1, AnySequence DEF JobsTaken, JobsInOrder, GroupTypes
  <2>3. \A i \in 1..Len(jobQueue') : Of(jobQueue'[i], JobsTaken' + i - 1)
    BY <1>2, <2>1, <2>2 DEF JobsInOrder
  <2>. QED  BY <1>1, <2>1, <2>2, <2>3 DEF JobsInOrder, Of
<1>. QED  BY <1>5, <1>6, <1>7

\* The commit thread takes a job and logs it.
LEMMA WorkerKeeps ==
    ASSUME GroupInv, Group!OpenLog \/ Group!TakeJob \/ Group!CommitJob
    PROVE  GroupInv'
<1>. USE DEF GroupInv
<1>1. /\ UNCHANGED <<inFile, reader, batchCount, group, main, current, processed, txQueue>>
  BY DEF Group!OpenLog, Group!TakeJob, Group!CommitJob, Group!txVars, Group!readerVars,
         Group!mainVars,
         Group!queueVars
<1>2. Waiting' = Waiting
  BY <1>1 DEF Waiting
<1>3. GroupsFollow'
  BY <1>1, <1>2 DEF GroupsFollow, Behind, Consecutive
<1>4. /\ IsSequence(jobQueue) /\ IsSequence(committed)
      /\ Len(jobQueue) \in Nat /\ Len(committed) \in Nat
  BY AnySequence DEF GroupTypes
<1>5. CASE Group!TakeJob
  <2>1. committed' = committed /\ worker = "take"
    BY <1>5 DEF Group!TakeJob
  <2>2. CASE jobQueue' = jobQueue /\ worker' \in {"take", "exited"}
    <3>1. GroupTypes'
      BY <1>1, <2>1, <2>2 DEF GroupTypes
    <3>2. JobsInOrder'
      BY <1>1, <2>1, <2>2 DEF JobsInOrder, JobsTaken, Of
    <3>. QED  BY <1>3, <3>1, <3>2
  <2>3. CASE /\ jobQueue # <<>> /\ jobQueue' = Tail(jobQueue) /\ job' = Head(jobQueue)
             /\ worker' = "commit"
    <3>1. /\ IsSequence(jobQueue') /\ Len(jobQueue') = Len(jobQueue) - 1 /\ Len(jobQueue) > 0
          /\ job' = jobQueue[1] /\ \A i \in 1..Len(jobQueue') : jobQueue'[i] = jobQueue[i + 1]
      BY <1>4, <2>3, AnySequence
    <3>2. GroupTypes'
      BY <1>1, <2>1, <2>3, <3>1 DEF GroupTypes
    <3>3. JobsTaken = Len(committed) /\ JobsTaken' = Len(committed) + 1
      BY <1>4, <2>1, <2>3 DEF JobsTaken
    <3>4. JobsInOrder'
      BY <1>1, <1>4, <2>1, <2>3, <3>1, <3>3 DEF JobsInOrder, Of
    <3>. QED  BY <1>3, <3>2, <3>4
  <2>. QED  BY <1>5, <2>1, <2>2, <2>3 DEF Group!TakeJob, Group!JobWaits, Group!DequeueJob,
               Group!NoMoreJobs, Group!jobVars
<1>6. CASE Group!CommitJob
  <2>1. PICK whole \in BOOLEAN :
          /\ worker = "commit" /\ worker' = "take" /\ jobQueue' = jobQueue
          /\ committed' = Append(committed, [job |-> job, whole |-> whole])
    BY <1>6 DEF Group!CommitJob, Group!queueVars, Group!jobVars
  <2>2. /\ IsSequence(committed') /\ Len(committed') = Len(committed) + 1
        /\ committed'[Len(committed) + 1].job = job
        /\ \A i \in 1..Len(committed) : committed'[i] = committed[i]
    BY <1>4, <2>1, AnySequence
  <2>3. GroupTypes'
    BY <1>1, <2>1, <2>2 DEF GroupTypes
  <2>4. JobsTaken' = JobsTaken
    BY <1>4, <2>1, <2>2 DEF JobsTaken
  <2>5. JobsInOrder'
    BY <1>1, <1>4, <2>1, <2>2, <2>4 DEF JobsInOrder, Of
  <2>. QED  BY <1>3, <2>3, <2>5
<1>7. CASE Group!OpenLog
  <2>1. /\ worker' \in {"take", "exited"} /\ worker = "open"
        /\ UNCHANGED <<committed, jobQueue>>
    BY <1>7 DEF Group!OpenLog, Group!queueVars, Group!jobVars
  <2>2. GroupTypes'
    BY <1>1, <2>1 DEF GroupTypes
  <2>3. JobsInOrder'
    BY <1>1, <2>1 DEF JobsInOrder, JobsTaken, Of
  <2>. QED  BY <1>3, <2>2, <2>3
<1>. QED  BY <1>5, <1>6, <1>7

\* The other steps move no batch.
LEMMA QuietKeeps ==
    ASSUME GroupInv,
           \/ Group!FinishGroup \/ Group!CloseCommits \/ Group!Finish \/ Group!Wakeup
           \/ UNCHANGED Group!vars
    PROVE  GroupInv'
<1>1. /\ UNCHANGED <<inFile, reader, batchCount, group, current, processed, worker, job,
                     committed, txQueue, jobQueue>>
      /\ main' # main => current = <<>> \/ main # "process"
      /\ main' = "process" => main = "process"
  BY DEF Group!FinishGroup, Group!CloseCommits, Group!Finish, Group!Wakeup, Group!vars,
         Group!queueVars, Group!txVars, Group!jobVars, Group!readerVars, Group!mainVars,
         Group!workerVars, Group!CloseJobs, Group!SpuriousWakeup
<1>2. Waiting' = Waiting
  BY <1>1 DEF Waiting
<1>3. GroupTypes'
  BY <1>1 DEF GroupInv, GroupTypes
<1>4. GroupsFollow'
  BY <1>1, <1>2 DEF GroupInv, GroupsFollow, Behind, Consecutive
<1>5. JobsInOrder'
  BY <1>1 DEF GroupInv, JobsInOrder, JobsTaken, Of
<1>. QED  BY <1>3, <1>4, <1>5 DEF GroupInv

\* The version with groups: whatever their size and the length of the file, the batches of
\* the file are logged one by one in their order (CommitsFileInOrder).
THEOREM GroupCommitsInOrder == Group!Spec => []CommitsFileInOrder
<1>1. Group!Init => GroupInv
  BY GroupInitInv, GroupConstants
<1>2. GroupInv /\ [Group!Next]_Group!vars => GroupInv'
  BY GroupConstants, ReaderKeeps, RetrieveKeeps, ProcessKeeps, WorkerKeeps, QuietKeeps
  DEF Group!Next
<1>3. GroupInv => CommitsFileInOrder
  <2>. SUFFICES ASSUME GroupInv PROVE CommitsFileInOrder
    OBVIOUS
  <2>1. /\ Len(jobQueue) \in Nat /\ Len(committed) \in Nat
        /\ DOMAIN committed = 1..Len(committed) /\ Len(current) \in Nat
        /\ processed \in Nat /\ batchCount \in Nat /\ inFile \in Nat
    BY AnySequence DEF GroupInv, GroupTypes, IsSequence
  <2>2. Len(committed) <= processed /\ processed <= batchCount /\ batchCount <= inFile
    BY <2>1 DEF GroupInv, JobsInOrder, JobsTaken, GroupsFollow
  <2>. QED  BY <2>1, <2>2 DEF GroupInv, JobsInOrder, Of, CommitsFileInOrder,
            Group!CommitsFileInOrder
<1>. QED  BY <1>1, <1>2, <1>3, PTL DEF Group!Spec
=============================================================================
