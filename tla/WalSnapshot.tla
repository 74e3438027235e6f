----------------------------- MODULE WalSnapshot -----------------------------
(***************************************************************************)
(* The baseline with a transaction log and full snapshots: log_optim       *)
(* (state_management.c) takes them in a second thread,                     *)
(* log_direct_addressing (state_management.c) in the main thread.          *)
(*                                                                         *)
(* The state is identified with the sequence of batches applied to it      *)
(* since the initial balances, and a file with what it contains.  A batch  *)
(* is numbered by its place in the state main applied it to.               *)
(***************************************************************************)
EXTENDS Naturals, Sequences, SequencesExt

CONSTANTS
    TotalBatches,  \* TOTAL_BATCHES
    MaxLogBatches, \* MAX_LOG_BATCHES
    Async,         \* of TRUE (log_optim) and FALSE (log_direct_addressing)
    MaxRuns,       \* bound: starts of the program
    FlushFails,    \* whether an fflush of the log may fail
    NoFile,        \* a file that does not exist
    Incomplete,    \* a snapshot that is not whole
    Part           \* part of a batch

ASSUME WalAssumption ==
    /\ TotalBatches \in Nat /\ MaxLogBatches \in Nat \ {0} /\ MaxRuns \in Nat \ {0}
    /\ Async \subseteq BOOLEAN /\ FlushFails \in BOOLEAN

ASSUME FileAssumption ==
    NoFile \notin Seq(Nat) /\ Incomplete \notin Seq(Nat) \union {NoFile} /\ Part \notin Nat

VARIABLES
    async,     \* which of the two programs it is
    phase,     \* "down", "run", or stopped by an incomplete snapshot: "refused"
    main,      \* the main thread
    worker,    \* the snapshot thread, or the main thread in its place
    state,     \* g_state
    copy,      \* task->snapshot_state
    inProgress,\* g_snapshot_in_progress
    processed, \* g_processed_batches
    log,       \* the file with the name of the log, or NoFile
    torn,      \* it has in addition part of the batch that main is appending
    logOpen,   \* log_fp: "closed", to that file ("linked"), or to a removed one
    snapshot,  \* the snapshot file: NoFile, Incomplete or a state
    runs,      \* history: starts
    synced,    \* history: the last batch reported as safely on disk
    orphan,    \* history: the last batch a removed log holds
    damaged    \* history: the process ended in a vulnerable state, or while it was
               \* appending; or what it appended was cut without its notice

historyVars == <<runs, synced, orphan, damaged>>
vars == <<async, phase, main, worker, state, copy, inProgress, processed, log, torn,
          logOpen, snapshot, historyVars>>

\* The state after the first m batches.
Batches(m) == [i \in 1..m |-> i]

LogContents == IF log = NoFile THEN <<>> ELSE log

Rest == IF torn THEN <<Part>> ELSE <<>>

\* The snapshot, or else the initial balances, with the log replayed on it.  (Behind
\* part of a batch, what follows is read as if the part ended with a transaction.)
Recovered ==
    (IF snapshot \in {NoFile, Incomplete} THEN <<>> ELSE snapshot) \o LogContents \o Rest

\* The log has batches that a whole snapshot holds, too.
Repeats ==
    /\ snapshot \notin {NoFile, Incomplete}
    /\ \E i \in DOMAIN LogContents : LogContents[i] <= Len(snapshot)

\* History: a kill now damages what recovery finds.  The snapshot is not whole; or
\* the log repeats it; or a batch it lacks went with a removed log.
Vulnerable ==
    \/ snapshot = Incomplete
    \/ Repeats
    \/ snapshot # NoFile /\ orphan > Len(snapshot)

Init ==
    /\ async \in Async
    /\ phase = "down" /\ main = "exited" /\ worker = "idle"
    /\ state = <<>> /\ copy = <<>> /\ inProgress = FALSE /\ processed = 0
    /\ log = NoFile /\ torn = FALSE /\ snapshot = NoFile /\ logOpen = "closed"
    /\ runs = 0 /\ synced = 0 /\ orphan = 0 /\ damaged = FALSE

\* log_optim exits on an incomplete snapshot.  log_direct_addressing does not look
\* and goes on with what malloc returned: it is not followed there either.
Start ==
    /\ phase = "down" /\ runs < MaxRuns
    /\ runs' = runs + 1
    /\ IF snapshot = Incomplete
         THEN /\ phase' = "refused"
              /\ UNCHANGED <<main, state, log, torn, logOpen>>
         ELSE /\ phase' = "run" /\ main' = "apply"
              /\ state' = Recovered
              /\ log' = LogContents \o Rest /\ torn' = FALSE
              /\ logOpen' = "linked"
    /\ processed' = 0
    /\ UNCHANGED <<async, worker, copy, inProgress, snapshot, synced, orphan, damaged>>

-----------------------------------------------------------------------------
\* The main thread.

ApplyBatch ==
    /\ phase = "run" /\ main = "apply" /\ processed < TotalBatches
    /\ state' = Append(state, Len(state) + 1)
    /\ main' = "append"
    /\ UNCHANGED <<async, phase, worker, copy, inProgress, processed, log, torn, logOpen,
                   snapshot, historyVars>>

\* fwrite and fflush, to a file that may have lost its name.  A short write is an error
\* exit, that is Kill, and leaves what was written.
AppendPart ==
    /\ phase = "run" /\ main = "append"
    /\ torn' = (logOpen = "linked")
    /\ main' = "complete"
    /\ UNCHANGED <<async, phase, worker, state, copy, inProgress, processed, log, logOpen,
                   snapshot, historyVars>>

\* Nobody looks at what fflush returns: if it fails the file keeps the part.  It does so
\* once here: what a damaged log holds is of no further interest.
AppendToLog ==
    /\ phase = "run" /\ main = "complete"
    /\ IF logOpen = "linked"
         THEN \/ log' = Append(log, Last(state)) /\ UNCHANGED <<orphan, damaged>>
              \/ /\ FlushFails /\ ~damaged
                 /\ log' = Append(log, Part) /\ damaged' = TRUE /\ UNCHANGED orphan
         ELSE orphan' = Last(state) /\ UNCHANGED <<log, damaged>>
    /\ torn' = FALSE
    /\ main' = "fsync"
    /\ UNCHANGED <<async, phase, worker, state, copy, inProgress, processed, logOpen,
                   snapshot, runs, synced>>

\* A failing fsync ends log_optim: that is Kill.  log_direct_addressing does not look
\* at it; no file loses here what was written to it.
FsyncLog ==
    /\ phase = "run" /\ main = "fsync"
    /\ synced' = Last(state) /\ processed' = processed + 1
    /\ main' = IF processed' % MaxLogBatches = 0 THEN "close" ELSE "apply"
    /\ UNCHANGED <<async, phase, worker, state, copy, inProgress, log, torn, logOpen,
                   snapshot, runs, orphan, damaged>>

\* log_direct_addressing keeps the log open until it replaces it.
CloseLog ==
    /\ phase = "run" /\ main = "close"
    /\ logOpen' = IF async THEN "closed" ELSE logOpen
    /\ main' = "create"
    /\ UNCHANGED <<async, phase, worker, state, copy, inProgress, processed, log, torn,
                   snapshot, historyVars>>

\* Fault: main waits until the flag is reset, not until the thread has ended.
FlagReset == ~inProgress

\* wait_for_snapshot_if_needed: there is none, or its thread has ended.
SnapshotOver == inProgress => worker = "idle"

\* Main waits for the previous snapshot, copies the state and starts the next.  If
\* it gets no memory or no thread it goes on without.
StartSnapshot ==
    /\ phase = "run" /\ main = "create" /\ SnapshotOver
    /\ \/ copy' = state /\ inProgress' = TRUE /\ worker' = "open"
       \/ async /\ inProgress' = FALSE /\ UNCHANGED <<copy, worker>>
    /\ main' = "reopen"
    /\ UNCHANGED <<async, phase, state, processed, log, torn, logOpen, snapshot,
                   historyVars>>

\* Fault: opened for writing, which truncates it.
ReopenTruncated ==
    /\ phase = "run" /\ main = "reopen"
    /\ async \/ worker = "idle"
    /\ log' = <<>>
    /\ logOpen' = "linked"
    /\ main' = "apply"
    /\ UNCHANGED <<async, phase, worker, state, copy, inProgress, processed, torn, snapshot,
                   historyVars>>

ReopenLog ==
    /\ phase = "run" /\ main = "reopen"
    /\ async \/ worker = "idle"
    /\ log' = LogContents
    /\ logOpen' = "linked"
    /\ main' = "apply"
    /\ UNCHANGED <<async, phase, worker, state, copy, inProgress, processed, torn, snapshot,
                   historyVars>>

\* The process is gone; the files keep what was written to them.
End ==
    /\ phase' = "down" /\ main' = "exited" /\ worker' = "idle" /\ logOpen' = "closed"
    /\ state' = <<>> /\ copy' = <<>> /\ inProgress' = FALSE
    /\ damaged' = (damaged \/ Vulnerable \/ torn)
    /\ UNCHANGED <<async, processed, log, torn, snapshot, runs, synced, orphan>>

Finish ==
    /\ phase = "run" /\ main = "apply" /\ processed = TotalBatches
    /\ SnapshotOver
    /\ End

\* The process is killed, or exits on an error.
Kill == phase = "run" /\ End

-----------------------------------------------------------------------------
\* The snapshot thread.

\* fopen with "wb" truncates the snapshot there was.  If it fails the thread ends
\* and leaves the flag set; log_direct_addressing exits: that is Kill.
OpenSnapshot ==
    /\ phase = "run" /\ worker = "open"
    /\ \/ worker' = "write" /\ snapshot' = Incomplete
       \/ async /\ worker' = "idle" /\ UNCHANGED snapshot
    /\ UNCHANGED <<async, phase, main, state, copy, inProgress, processed, log, torn, logOpen,
                   historyVars>>

\* Fault: the thread writes the state itself, which main goes on with.
WriteByReference ==
    /\ phase = "run" /\ worker = "write"
    /\ snapshot' = state \/ UNCHANGED snapshot
    /\ worker' = "remove"
    /\ UNCHANGED <<async, phase, main, state, copy, inProgress, processed, log, torn, logOpen,
                   historyVars>>

\* After a short write log_optim goes on and log_direct_addressing exits; if it is fflush
\* that fails, both go on.
WriteSnapshot ==
    /\ phase = "run" /\ worker = "write"
    /\ snapshot' = copy \/ UNCHANGED snapshot
    /\ worker' = "remove"
    /\ UNCHANGED <<async, phase, main, state, copy, inProgress, processed, log, torn, logOpen,
                   historyVars>>

\* The log goes, whatever has been appended to it since the copy was taken.  If it cannot
\* be removed log_optim goes on with it; log_direct_addressing exits.
RemoveLog ==
    /\ phase = "run" /\ worker = "remove"
    /\ \/ /\ log' = NoFile /\ torn' = FALSE
          /\ logOpen' = IF logOpen = "linked" THEN "removed" ELSE logOpen
          /\ orphan' = IF LogContents = <<>> THEN orphan ELSE Last(log)
       \/ async /\ UNCHANGED <<log, torn, logOpen, orphan>>
    /\ worker' = "done"
    /\ UNCHANGED <<async, phase, main, state, copy, inProgress, processed, snapshot,
                   runs, synced, damaged>>

SnapshotDone ==
    /\ phase = "run" /\ worker = "done"
    /\ worker' = "idle" /\ inProgress' = FALSE /\ copy' = <<>>
    /\ UNCHANGED <<async, phase, main, state, processed, log, torn, logOpen, snapshot,
                   historyVars>>

-----------------------------------------------------------------------------
MainNext ==
    \/ ApplyBatch \/ AppendPart \/ AppendToLog \/ FsyncLog
    \/ CloseLog \/ StartSnapshot \/ ReopenLog \/ Finish

WorkerNext == OpenSnapshot \/ WriteSnapshot \/ RemoveLog \/ SnapshotDone

Next == Start \/ MainNext \/ WorkerNext \/ Kill

\* Both threads are scheduled again and again; nobody has to start the program.
Spec == Init /\ [][Next]_vars /\ WF_vars(MainNext) /\ WF_vars(WorkerNext)

-----------------------------------------------------------------------------
\* Types; the flag is set while there is a snapshot thread, and main is in its last
\* steps with it only if the program has one.
WalTypeOK ==
    /\ async \in BOOLEAN /\ phase \in {"down", "run", "refused"}
    /\ main \in {"exited", "apply", "append", "complete", "fsync", "close", "create", "reopen"}
    /\ worker \in {"idle", "open", "write", "remove", "done"}
    /\ worker # "idle" => phase = "run" /\ inProgress /\ (~async => main = "reopen")
    /\ inProgress \in BOOLEAN /\ damaged \in BOOLEAN /\ torn \in BOOLEAN
    /\ processed \in 0..TotalBatches
    /\ main \in {"append", "complete", "fsync"} => processed < TotalBatches
    /\ phase = "run" /\ main \in {"apply", "append", "complete", "fsync"} =>
          logOpen # "closed"
    /\ logOpen \in {"closed", "linked", "removed"}
    /\ runs \in Nat /\ (phase = "run" => runs > 0)

\* The last batch in a log, be it the one with the name or a removed one.
Logged == orphan + Len(LogContents)

\* The log goes on where the removed ones end, whoever has removed them; it ends with
\* part of a batch only while main is appending.
LogFollows ==
    /\ logOpen = "linked" => log # NoFile
    /\ logOpen = "removed" => log = NoFile
    /\ torn => phase = "run" /\ main = "complete"
    /\ LogContents \in Seq(Nat) /\ orphan \in Nat /\ synced \in Nat
    /\ \A i \in 1..Len(LogContents) : LogContents[i] = orphan + i

\* The batches main has applied: those in the logs, and the one it has still to log.
Progress == Logged + (IF main \in {"append", "complete"} THEN 1 ELSE 0)

\* Nothing reported is missing in the logs, and of the rest a run has one batch only.
StateLogged ==
    /\ synced <= Logged /\ Logged <= synced + runs
    /\ phase = "run" =>
          /\ state = Batches(Progress)
          /\ main \in {"append", "complete", "fsync"} => Progress <= synced + runs
          /\ main \notin {"append", "complete", "fsync"} => Progress + 1 <= synced + runs
          /\ main \in {"close", "create"} => synced = Progress
          /\ main = "fsync" => Logged > 0

\* A whole snapshot is of synced batches, and where the process may start, of those of
\* the removed logs.
SnapshotFits ==
    /\ snapshot \in Seq(Nat) \union {NoFile, Incomplete}
    /\ snapshot \notin {NoFile, Incomplete} =>
          snapshot = Batches(Len(snapshot)) /\ Len(snapshot) <= synced
    /\ snapshot = NoFile => orphan = 0 /\ logOpen # "removed"
    /\ phase = "down" => ~Vulnerable

\* What the thread writes is a state whose batches are synced.
CopySynced ==
    /\ worker \in {"open", "write", "remove"} =>
          /\ copy \in Seq(Nat) /\ copy = Batches(Len(copy)) /\ Len(copy) <= synced
    /\ worker = "write" => snapshot = Incomplete
    /\ worker = "remove" => snapshot \in {Incomplete, copy}

WalInv ==
    /\ WalTypeOK
    /\ ~damaged => LogFollows /\ StateLogged /\ SnapshotFits /\ CopySynced

\* Whatever is killed when, and whatever step fails: as long as no process has ended in
\* one of the three vulnerable states or while it appended, and nothing it appended was
\* cut, what is on disk gives every batch reported as safe, in order and each once, and
\* of those not reported at most the last one of each run, or part of it.
RecoversSynced ==
    ~damaged /\ ~Vulnerable =>
        \E m \in synced .. synced + runs : Recovered = Batches(m) \o Rest

\* The snapshot runs behind the log: it never holds a batch that was not safely in
\* the log when it was taken, although main goes on while it is written.
SnapshotBehindLog ==
    ~damaged /\ snapshot \notin {NoFile, Incomplete} =>
        \E m \in 0..synced : snapshot = Batches(m)

\* main is not left waiting for a snapshot, also not for one that failed.
Terminates == phase = "run" ~> phase # "run"

\* "ALWAYS FSync here to ensure this batch is safely on disk": recovery from a whole
\* snapshot, or from none, misses no batch reported as safe.
SyncedBatchesSafe ==
    phase = "down" /\ snapshot # Incomplete => Len(Recovered) >= synced
=============================================================================
