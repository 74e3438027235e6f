--------------------------- MODULE SnapshotRings ----------------------------
(***************************************************************************)
(* Seven variants that log snapshots and write sets to a ring of slots:    *)
(*                                                                         *)
(*   glaze     glaze/state_management.c                                    *)
(*   memset    breaking_glaze/breaking_glaze_with_memset_unlimited.c       *)
(*   opcode    opcode_glaze/state_management.c                             *)
(*   fixing    s_fixing_glaze/state_management.c                           *)
(*   server    glaze_server_testing/state_management.c                     *)
(*   breaking  breaking_glaze/state_management.c                           *)
(*   async     Report_testing/dealing_with_memset/glaze_with_memset.c      *)
(*                                                                         *)
(* The first four rewrite the whole ring in one pass, slot k holding chunk *)
(* k of the state; the others write one slot for a batch, always with the  *)
(* first chunk.  async commits in a second thread, to which main hands one *)
(* checkpoint at a time; opcode has a thread that calls msync.             *)
(***************************************************************************)
EXTENDS SlotFile

CONSTANTS
    Programs,   \* the variants to consider, of the seven
    Totals,     \* values of NUMBER_OF_BATCHES to consider, for each of Programs
    Transfers,  \* what a batch may do: the accounts it writes, in their order
    RangeSets,  \* the same, for the variants that know range sets
    Capacity,   \* MAX_WRITE_SET_COUNT
    MaxRuns,    \* bound: starts of the program, for each of Programs
    Empty       \* no checkpoint, no hash

\* What a commit is given: the number of the batch, the state, the write sets.
WriteSets == [Slots -> [entries : Seq(Accounts \X Nat), count : Nat]]
Jobs == [batch : Int, state : [Accounts -> Nat], accum : WriteSets]

\* The write set of a batch of transfers has WRITE_SET_COUNT entries.
ASSUME InputsAssumption ==
    /\ Programs \subseteq {"glaze", "memset", "opcode", "fixing", "server", "breaking", "async"}
    /\ Totals \in [Programs -> SUBSET Nat]
    /\ Transfers \subseteq Seq(Accounts) /\ RangeSets \subseteq Seq(Accounts)
    /\ \A t, u \in Transfers : Len(t) = Len(u)
    /\ Capacity \in Nat
    /\ Empty \notin Jobs

VARIABLES
    program, total,
    main,      \* place in main, or "down"
    worker,    \* place in checkpoint_thread_function or in msync_thread_func
    asleep,    \* the threads inside pthread_cond_wait
    batch,     \* batch_num: batches read in this run
    state,     \* state
    accum,     \* ws_accum and ws_count, or write_set, by slot
    box,       \* g_checkpoint_slot, Empty unless g_slot_is_full
    error,     \* g_async_error_occurred
    terminate, \* g_terminate_checkpoint_thread, or the msync thread's not running
    job,       \* the data of the commit under way, or of the last one
    todo,      \* the steps that are left of it
    hash,      \* state_hash.dat
    runs,      \* history: starts
    writes,    \* history: writes of balances
    after,     \* history: the states of this run, the first before any batch
    passed,    \* history: the state that the last finished commit logged
    failedAt,  \* history: the first batch that was dropped or whose commit failed, or -1
    cut,       \* history: how the last run ended
    owed       \* history: an earlier run has left steps of a commit to be synced

config == <<program, total>>
shared == <<asleep, box, error, terminate>>
memory == <<main, worker, shared, batch, state, accum, todo>>
history == <<runs, writes, after, passed, failedAt, cut, owed>>
vars == <<file, disk, config, memory, job, hash, history>>

Sequential == program # "async"
WholeState == program \in {"glaze", "memset", "opcode", "fixing"}
Mapped == program \in {"opcode", "fixing"}

ZeroState == [a \in Accounts |-> 0]
NoWrites == [s \in Slots |-> [entries |-> <<>>, count |-> 0]]

-----------------------------------------------------------------------------
\* Commit plans: the steps in which each variant writes a checkpoint.

Steps(s, parts) == [i \in 1..Len(parts) |-> [slot |-> s, part |-> parts[i]]]

\* The first slots of the ring, each in its three parts; all of them.
PassOf(slots, parts) ==
    [i \in 1..3 * slots |-> [slot |-> (i - 1) \div 3, part |-> parts[((i - 1) % 3) + 1]]]
Pass(parts) == PassOf(Ring, parts)

Sync == <<[slot |-> 0, part |-> "sync"]>>

\* Fault: the pass leaves the last slot out.
ShortPlan == PassOf(Ring - 1, <<"chunk", "writes", "header">>) \o Sync

GlazePlan == Pass(<<"chunk", "writes", "header">>) \o Sync
FixingPlan == Pass(<<"chunk", "writes", "header">>)

\* One memcpy for a slot, from its start to its end; a kill may stop it anywhere.
OpcodePlan == Pass(<<"header", "chunk", "writes">>)
ServerPlan(b) == Steps(b % Ring, <<"header", "chunk", "writes">>) \o Sync
BreakingPlan(b) == Steps(b % Ring, <<"header", "chunk", "writes">>) \o Sync
AsyncPlan(b) == Steps(b % Ring, <<"chunk", "writes", "header">>) \o Sync

Plan(b) ==
    CASE program \in {"glaze", "memset"} -> GlazePlan
      [] program = "fixing" -> FixingPlan
      [] program = "opcode" -> OpcodePlan
      [] program = "server" -> ServerPlan(b)
      [] program = "breaking" -> BreakingPlan(b)
      [] program = "async" -> AsyncPlan(b)

\* glaze checkpoints when it has read as many batches as there are slots.
CommitDue == program \in {"glaze", "memset"} => (batch + 1) % Ring = 0

\* What a step writes.
Content(s) ==
    [header |-> [batch |-> job.batch, count |-> job.accum[s].count],
     chunk |-> ChunkAt(job.state, IF WholeState THEN s * PerChunk ELSE 0),
     writes |-> job.accum[s].entries]

-----------------------------------------------------------------------------
\* apply: every write to an account is entered into the write set of its chunk, or
\* of the batch.

BatchSlot == batch % Ring

Entries(accounts) == [i \in DOMAIN accounts |-> <<accounts[i], writes + i>>]

SlotOf(entry) == IF WholeState THEN entry[1] \div PerChunk ELSE BatchSlot

\* The entries at some of the places of a sequence, in their order.
Nth(places, j) == CHOOSE i \in places : Cardinality({k \in places : k <= i}) = j
Pick(seq, places) == [j \in 1..Cardinality(places) |-> seq[Nth(places, j)]]

\* ws_accum is used again from its start after a commit; write_set is a new one.
Accumulated(accounts) ==
    [s \in Slots |->
       LET old == IF WholeState THEN accum[s] ELSE NoWrites[s]
           places == {i \in DOMAIN accounts : SlotOf(Entries(accounts)[i]) = s}
           new == SubSeq(old.entries, 1, old.count) \o Pick(Entries(accounts), places)
       IN  [entries |-> Over(new, old.entries), count |-> Len(new)]]

Overflows(accounts) == \E s \in Slots : Accumulated(accounts)[s].count > Capacity

Prefix(seq, n) == SubSeq(seq, 1, Min({Len(seq), n}))

\* memset: what does not fit is applied and not entered.
Clipped(sets) ==
    [s \in Slots |-> [entries |-> Prefix(sets[s].entries, Capacity),
                      count |-> Min({sets[s].count, Capacity})]]

\* async: what does not fit is neither applied nor entered.
Fitting(accounts) ==
    IF program = "async" THEN Prefix(accounts, Capacity) ELSE accounts

StateAfter(accounts) ==
    [a \in Accounts |->
       LET hits == {i \in DOMAIN accounts : accounts[i] = a}
       IN  IF hits = {} THEN state[a] ELSE writes + Max(hits)]

Inputs == IF program \in {"glaze", "server", "breaking"} THEN Transfers
                                                        ELSE Transfers \union RangeSets

Sets(accounts) ==
    IF program = "memset" THEN Clipped(Accumulated(accounts)) ELSE Accumulated(accounts)

\* The counts after a commit, and what stays behind in the buffers.
ResetCounts(sets) == [s \in Slots |-> [sets[s] EXCEPT !.count = 0]]

\* Reads and applies a batch, all but its write set.  What happens when glaze or
\* opcode write past the end of ws_accum is not followed; fixing looks, and exits.
Apply(accounts) ==
    /\ program \in {"glaze", "opcode", "fixing"} => ~Overflows(accounts)
    /\ state' = StateAfter(accounts)
    /\ writes' = writes + Len(accounts)
    /\ batch' = batch + 1
    /\ after' = Append(after, state')

-----------------------------------------------------------------------------
\* Start and end.

Init ==
    /\ InitFile
    /\ program \in Programs /\ total \in Totals[program]
    /\ main = "down" /\ worker = "down" /\ asleep = {}
    /\ batch = 0 /\ state = ZeroState /\ accum = NoWrites
    /\ box = Empty /\ error = FALSE /\ terminate = FALSE
    /\ job = [batch |-> -1, state |-> ZeroState, accum |-> NoWrites] /\ todo = <<>>
    /\ hash = Empty
    /\ runs = 0 /\ writes = 0 /\ after = <<ZeroState>> /\ passed = ZeroState
    /\ failedAt = -1 /\ cut = "clean" /\ owed = FALSE

Reconstruct ==
    CASE program \in {"glaze", "memset"} -> CopyChunks
      [] Mapped -> CopyAndRedo
      [] program = "server" -> SortedReplayFirst
      [] program = "breaking" -> LatestChunk
      [] program = "async" -> SortedReplayAll

\* History: the file is not all on the device, or has a slot without its header.
Unfinished == file # disk \/ \E s \in Slots \ ValidSlots : file[s] # EmptySlot

\* The batches are numbered from 0 again, and the file is read from its start.
Boot ==
    /\ main = "down" /\ runs < MaxRuns[program]
    /\ state' = Reconstruct.state
    /\ main' = IF Sequential THEN "apply" ELSE "top"
    /\ worker' = IF program \in {"async", "opcode"} THEN "run" ELSE "down"
    /\ batch' = 0 /\ accum' = NoWrites
    /\ box' = Empty /\ error' = FALSE /\ terminate' = FALSE /\ asleep' = {} /\ todo' = <<>>
    /\ runs' = runs + 1
    /\ after' = <<state'>> /\ passed' = state' /\ cut' = "clean" /\ owed' = Unfinished
    /\ UNCHANGED <<file, disk, config, job, hash, writes, failedAt>>

\* The part of the state the variant makes a hash of.
Hashed(st) == IF WholeState THEN st ELSE ChunkAt(st, 0)

MemoryGone ==
    /\ main' = "down" /\ worker' = "down" /\ asleep' = {} /\ todo' = <<>>
    /\ batch' = 0 /\ state' = ZeroState /\ accum' = NoWrites
    /\ box' = Empty /\ error' = FALSE /\ terminate' = FALSE

\* Only the opcode variant and async have a thread to join.
Finish ==
    /\ main = "finish" /\ worker = "down"
    /\ hash' = Hashed(state)
    /\ MemoryGone
    /\ UNCHANGED <<file, disk, config, job, history>>

\* A commit is cut between two slots, or inside one.
CutOpen ==
    IF todo = <<>> THEN "clean"
    ELSE IF todo = Plan(job.batch) \/ Head(todo).part = Head(Plan(job.batch)).part
            \/ Head(todo).part = "sync"
      THEN "between" ELSE "inside"

Kill ==
    /\ main # "down"
    /\ cut' = CutOpen
    /\ MemoryGone
    /\ UNCHANGED <<file, disk, config, job, hash, runs, writes, after, passed, failedAt,
                   owed>>

\* The machine stops.  opcode and fixing never wait for the device: what it holds of
\* their mapping is anybody's guess, and this is not followed.
PowerLoss ==
    /\ main # "down" /\ ~Mapped
    /\ LoseCache
    /\ cut' = IF file = disk THEN CutOpen ELSE "power"
    /\ MemoryGone
    /\ UNCHANGED <<config, job, hash, runs, writes, after, passed, failedAt, owed>>

-----------------------------------------------------------------------------
\* Commit steps, in main or in the checkpoint thread.

\* The process writes to its mapping, or with pwrite.
StepSucceeds ==
    LET step == Head(todo)
    IN  /\ IF step.part = "sync" THEN disk' = file /\ UNCHANGED file
             ELSE WriteSlot(step.slot, step.part, Content(step.slot)) /\ UNCHANGED disk
        /\ todo' = Tail(todo)
        /\ passed' = IF todo' = <<>> THEN job.state ELSE passed
        /\ owed' = (owed /\ step.part # "sync")
        /\ UNCHANGED failedAt

\* What a failed pwrite has written is not taken back.  Bound: one failure.
StepFails ==
    LET step == Head(todo)
    IN  /\ ~Mapped /\ failedAt = -1
        /\ \/ UNCHANGED file
           \/ step.part # "sync" /\ WriteSlot(step.slot, step.part, Content(step.slot))
        /\ failedAt' = job.batch
        /\ UNCHANGED <<disk, passed, owed>>

\* Main commits: in the loop ("commit") or after it ("flush").  Failures are printed,
\* if that, and ignored.
CommitStep ==
    /\ Sequential /\ main \in {"commit", "flush"}
    /\ StepSucceeds \/ (StepFails /\ todo' = Tail(todo))
    /\ main' = CASE todo' # <<>> -> main
                 [] todo' = <<>> /\ main = "commit" -> "apply"
                 [] OTHER -> "finish"
    /\ UNCHANGED <<config, worker, shared, batch, state, accum, job, hash, runs, writes,
                   after, cut>>

ApplyBatch ==
    /\ Sequential /\ main = "apply" /\ batch < total
    /\ \E accounts \in Inputs :
         /\ Apply(accounts)
         /\ IF CommitDue
              THEN /\ job' = [batch |-> batch, state |-> state', accum |-> Sets(accounts)]
                   /\ accum' = ResetCounts(Sets(accounts))
                   /\ todo' = Plan(batch) /\ main' = "commit"
              ELSE accum' = Sets(accounts) /\ UNCHANGED <<job, todo, main>>
    /\ UNCHANGED <<file, disk, config, worker, shared, hash, runs, passed,
                   failedAt, cut, owed>>

\* Write-set overflow ends the fixed version before it has logged the batch.
OverflowExit ==
    /\ program = "fixing" /\ main = "apply" /\ batch < total
    /\ \E input \in Inputs : Overflows(input)
    /\ MemoryGone /\ cut' = "clean"
    /\ UNCHANGED <<file, disk, config, job, hash, runs, writes, after, passed, failedAt,
                   owed>>

\* Fault: the flush is forgotten.
LeaveUnflushed ==
    /\ Sequential /\ main = "apply"
    /\ main' = "finish" /\ UNCHANGED <<job, todo>>
    /\ terminate' = (program = "opcode")
    /\ UNCHANGED <<file, disk, config, worker, asleep, box, error, batch, state, accum,
                   hash, history>>

\* All batches read, or the file ends, maybe in a batch, which is then dropped.  glaze
\* writes all slots once more unless NUMBER_OF_BATCHES is a multiple of their number.
LeaveLoop ==
    /\ Sequential /\ main = "apply"
    /\ IF program \in {"glaze", "memset"} /\ total % Ring # 0
         THEN /\ job' = [batch |-> total - 1, state |-> state,
                         accum |-> [s \in Slots |->
                            [entries |-> [i \in 1..Capacity |-> <<0, 0>>], count |-> 0]]]
              /\ todo' = GlazePlan /\ main' = "flush"
         ELSE main' = "finish" /\ UNCHANGED <<job, todo>>
    /\ terminate' = (program = "opcode")
    /\ UNCHANGED <<file, disk, config, worker, asleep, box, error, batch, state, accum,
                   hash, history>>

\* The msync thread.  MS_ASYNC changes nothing that another process can see.
Msync ==
    /\ program = "opcode" /\ worker = "run"
    /\ \/ worker' = IF terminate THEN "down" ELSE "run"
       \/ ~terminate /\ UNCHANGED worker
    /\ UNCHANGED <<file, disk, config, main, shared, batch, state, accum, todo, job, hash,
                   history>>
-----------------------------------------------------------------------------
\* async: main, the checkpoint thread and the box between them.

\* pthread_cond_signal; each condition variable has one thread that may wait on it.
Signal(threads) == asleep' = asleep \ threads

\* The flag is read without the mutex.
CheckError ==
    /\ main = "top"
    /\ main' = IF error \/ batch = total THEN "drain" ELSE "read"
    /\ UNCHANGED <<file, disk, config, worker, shared, batch, state, accum, todo, job,
                   hash, history>>

ReadBatch ==
    /\ main = "read"
    /\ \E input \in Inputs :
         Apply(Fitting(input)) /\ accum' = Accumulated(Fitting(input))
    /\ main' = "submit"
    /\ UNCHANGED <<file, disk, config, worker, shared, todo, job, hash, runs, passed,
                   failedAt, cut, owed>>

\* There is no memory for a copy of the state or of the write set: the batch is applied and
\* not handed over, and the loop ends like at the end of the file.
DropBatch ==
    /\ main = "read" /\ failedAt = -1
    /\ \E input \in Inputs :
         Apply(Fitting(input)) /\ accum' = Accumulated(Fitting(input))
    /\ failedAt' = batch
    /\ terminate' = TRUE /\ error' = TRUE
    /\ Signal({"worker"})
    /\ main' = "drain"
    /\ UNCHANGED <<file, disk, config, worker, box, todo, job, hash, runs, passed, cut, owed>>

\* A short read: main ends the thread and counts it as an error.
EndOfFile ==
    /\ main = "read"
    /\ terminate' = TRUE /\ error' = TRUE
    /\ Signal({"worker"})
    /\ main' = "drain"
    /\ UNCHANGED <<file, disk, config, worker, box, batch, state, accum, todo, job, hash,
                   history>>

MainSleeps == asleep' = asleep \union {"main"} /\ UNCHANGED <<main, box, terminate>>

Checkpoint == [batch |-> batch - 1, state |-> state, accum |-> accum]

PutCheckpoint ==
    /\ box' = Checkpoint
    /\ Signal({"worker"})
    /\ main' = "top"
    /\ UNCHANGED terminate

\* Fault: after its wait main does not look at the error flag again.
SubmitBlindly ==
    /\ main = "submit" /\ "main" \notin asleep
    /\ \/ box # Empty /\ ~error /\ MainSleeps
       \/ ~(box # Empty /\ ~error) /\ PutCheckpoint
    /\ UNCHANGED <<file, disk, config, worker, error, batch, state, accum, todo, job,
                   hash, history>>

Submit ==
    /\ main = "submit" /\ "main" \notin asleep
    /\ \/ box # Empty /\ ~error /\ MainSleeps
       \/ error /\ main' = "drain" /\ UNCHANGED <<box, asleep, terminate>>
       \/ box = Empty /\ ~error /\ PutCheckpoint
    /\ UNCHANGED <<file, disk, config, worker, error, batch, state, accum, todo, job,
                   hash, history>>

\* Fault: main ends the thread without a signal.
DrainSilently ==
    /\ main = "drain" /\ "main" \notin asleep
    /\ \/ box # Empty /\ ~error /\ MainSleeps
       \/ /\ box = Empty \/ error
          /\ terminate' = TRUE /\ main' = "finish" /\ UNCHANGED <<box, asleep>>
    /\ UNCHANGED <<file, disk, config, worker, error, batch, state, accum, todo, job,
                   hash, history>>

\* Main waits until the box is empty, or not after an error, and ends the thread.
Drain ==
    /\ main = "drain" /\ "main" \notin asleep
    /\ \/ box # Empty /\ ~error /\ MainSleeps
       \/ /\ box = Empty \/ error
          /\ terminate' = TRUE /\ Signal({"worker", "main"}) /\ main' = "finish"
          /\ UNCHANGED box
    /\ UNCHANGED <<file, disk, config, worker, error, batch, state, accum, todo, job,
                   hash, history>>

\* Fault: the thread ends although there is a checkpoint in the box.
TakeOrLeave ==
    /\ program = "async" /\ worker = "run" /\ "worker" \notin asleep
    /\ \/ /\ box = Empty /\ ~terminate
          /\ asleep' = asleep \union {"worker"}
          /\ UNCHANGED <<worker, box, job, todo>>
       \/ terminate /\ worker' = "down" /\ UNCHANGED <<asleep, box, job, todo>>
       \/ /\ box # Empty /\ ~terminate
          /\ job' = box /\ box' = Empty /\ todo' = Plan(box.batch)
          /\ Signal({"main"})
          /\ worker' = "commit"
    /\ UNCHANGED <<file, disk, config, main, error, terminate, batch, state, accum, hash,
                   history>>

\* The thread waits for a checkpoint and takes it, or ends when there is none.
TakeCheckpoint ==
    /\ program = "async" /\ worker = "run" /\ "worker" \notin asleep
    /\ \/ /\ box = Empty /\ ~terminate
          /\ asleep' = asleep \union {"worker"}
          /\ UNCHANGED <<worker, box, job, todo>>
       \/ /\ box = Empty /\ terminate
          /\ worker' = "down"
          /\ UNCHANGED <<asleep, box, job, todo>>
       \/ /\ box # Empty
          /\ job' = box /\ box' = Empty /\ todo' = Plan(box.batch)
          /\ Signal({"main"})
          /\ worker' = "commit"
    /\ UNCHANGED <<file, disk, config, main, error, terminate, batch, state, accum, hash,
                   history>>

\* The first failure ends the commit of the slot.
WorkerStep ==
    /\ program = "async" /\ worker = "commit"
    /\ \/ StepSucceeds /\ worker' = IF todo' = <<>> THEN "run" ELSE "commit"
       \/ StepFails /\ todo' = <<>> /\ worker' = "report"
    /\ UNCHANGED <<config, main, shared, batch, state, accum, job, hash, runs, writes,
                   after, cut>>

ReportError ==
    /\ worker = "report"
    /\ error' = TRUE /\ Signal({"main"})
    /\ worker' = "run"
    /\ UNCHANGED <<file, disk, config, main, box, terminate, batch, state, accum, todo,
                   job, hash, history>>

\* pthread_cond_wait may return for no reason.
SpuriousWakeup ==
    /\ \E t \in asleep : Signal({t})
    /\ UNCHANGED <<file, disk, config, main, worker, box, error, terminate, batch, state,
                   accum, todo, job, hash, history>>

-----------------------------------------------------------------------------
MainNext ==
    \/ ApplyBatch \/ CommitStep \/ OverflowExit \/ LeaveLoop \/ Finish
    \/ CheckError \/ ReadBatch \/ DropBatch \/ EndOfFile \/ Submit \/ Drain

WorkerNext == Msync \/ TakeCheckpoint \/ WorkerStep \/ ReportError

Next == Boot \/ MainNext \/ WorkerNext \/ SpuriousWakeup \/ Kill \/ PowerLoss

\* Both threads are scheduled again and again.
Spec == Init /\ [][Next]_vars /\ WF_vars(MainNext) /\ WF_vars(WorkerNext)

-----------------------------------------------------------------------------
\* The process is inside a commit, or the last one ended there.
Committing == todo # <<>> \/ (main = "down" /\ cut # "clean")

\* The process is stopped inside a slot that has to be whole for its write set to fit
\* its chunk; or the machine stops when what this run started from was not synced.
Spoilt ==
    \/ Mapped /\ (IF main = "down" THEN cut ELSE CutOpen) = "inside"
    \/ cut = "power" /\ owed

\* Variants that log the whole state in a pass, reconstruct at any time, after any
\* number of starts, kills and power losses: a state that the last finished pass has
\* logged; inside a pass each balance is of that pass or of the one before.
ReconstructsPass ==
    WholeState /\ failedAt = -1 /\ ~Spoilt =>
        IF Committing
          THEN \A a \in Accounts : Reconstruct.state[a] \in {passed[a], job.state[a]}
          ELSE Reconstruct.state = passed

\* The state of this run after batch b; before it the zeros of a new log.
Version(b) == IF b < 0 THEN ZeroState ELSE after[b + 2]

\* Variants that log the first chunk with every batch, on the log of one run: the
\* chunk is that of the last batch committed, with its number.  A kill or a power loss
\* inside a commit mixes it with the batch under way, or with the batch that had the
\* slot before: these are the balances that may be wrong, and no others.  (async after
\* a kill only: it syncs once for a slot, so that power loss may leave its header alone.)
ReconstructsBatch ==
    ~WholeState /\ failedAt = -1 /\ runs = 1 /\ ~(program = "async" /\ cut = "power") =>
        LET b == job.batch
        IN  IF Committing
              THEN \A a \in FirstChunk : Reconstruct.state[a] \in
                      {Version(b)[a], Version(b - 1)[a]}
                        \union (IF program = "async" THEN {} ELSE {Version(b - Ring)[a]})
              ELSE /\ Reconstruct.batch = b
                   /\ ChunkAt(Reconstruct.state, 0) = ChunkAt(Version(b), 0)

\* An orderly end of async, whether by the number of batches or by the end of the
\* file, leaves no batch in the box: all that was applied is in the log, and synced.
DrainedAtEnd ==
    program = "async" /\ main = "finish" /\ worker = "down" /\ failedAt = -1 =>
        box = Empty /\ todo = <<>> /\ (batch > 0 => disk = file /\ job.batch = batch - 1)

\* After the first commit that fails, or batch that is dropped, async logs at most one
\* batch more: the one in the box.  The gap in the numbers is never longer.
ErrorBoundsGap ==
    program = "async" /\ failedAt # -1 /\ runs = 1 => job.batch <= failedAt + 1

\* The hash that a run leaves is that of what the next one reconstructs, except that
\* glaze does not log the rest of a file that ends early.
HashVerifies ==
    LET logged == program \in {"glaze", "memset"} =>
                      total % Ring # 0 \/ (Len(after) - 1) % Ring = 0
    IN  main = "finish" /\ worker = "down" /\ failedAt = -1 /\ logged
            /\ (WholeState \/ runs = 1) =>
            Hashed(Reconstruct.state) = Hashed(state)

\* The program ends, or is ended.
Ends == main # "down" ~> main = "down"
=============================================================================
