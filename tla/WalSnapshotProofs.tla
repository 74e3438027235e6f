-------------------------- MODULE WalSnapshotProofs --------------------------
(***************************************************************************)
(* Proofs about the log and its snapshots, for every number of batches, of *)
(* batches to a snapshot and of starts: WalSnapshot first, and WalAccounts *)
(* from AccountTypes on, for every number of accounts, too.                *)
(***************************************************************************)
EXTENDS MCWal, FiniteSetTheorems, SequenceTheorems, WellFoundedInduction, TLAPS

\* Applying the next batch to the state after m batches gives that after m + 1.
LEMMA BatchesAppend ==
    ASSUME NEW m \in Nat
    PROVE  /\ Batches(m) \in Seq(Nat) /\ Len(Batches(m)) = m
           /\ Append(Batches(m), m + 1) = Batches(m + 1)
  BY DEF Batches

\* A log that begins after m batches, replayed on the state after them, gives the state
\* after its last batch.
LEMMA BatchesReplay ==
    ASSUME NEW m \in Nat, NEW l \in Seq(Nat), \A i \in 1..Len(l) : l[i] = m + i
    PROVE  Batches(m) \o l = Batches(m + Len(l))
<1>1. Batches(m) \in Seq(Nat) /\ Len(Batches(m)) = m
  BY BatchesAppend
<1>2. Len(Batches(m) \o l) = m + Len(l) /\ Batches(m) \o l \in Seq(Nat)
  BY <1>1
<1>3. \A i \in 1..(m + Len(l)) : (Batches(m) \o l)[i] = i
  BY <1>1 DEF Batches
<1>. QED  BY <1>2, <1>3 DEF Batches

\* The program starts with no files and has reported nothing.
LEMMA WalInitInv == Init => WalInv
<1>. SUFFICES ASSUME Init PROVE WalInv
  OBVIOUS
<1>1. WalTypeOK
  <2>1. async \in BOOLEAN /\ 0 \in 0..TotalBatches
    BY WalAssumption DEF Init
  <2>. QED  BY <2>1 DEF Init, WalTypeOK
<1>2. LogContents = <<>> /\ Logged = 0 /\ ~Vulnerable
  BY FileAssumption DEF Init, LogContents, Logged, Vulnerable, Repeats
<1>3. LogFollows /\ StateLogged /\ SnapshotFits /\ CopySynced
  BY <1>2, FileAssumption DEF Init, LogFollows, StateLogged, SnapshotFits, CopySynced
<1>. QED  BY <1>1, <1>3 DEF WalInv

\* Where a kill damages nothing, what is on disk is the state after the last batch that was
\* logged, and perhaps part of the next.
LEMMA RecoveredIsLogged ==
    ASSUME WalInv, ~damaged, ~Vulnerable
    PROVE  Recovered = Batches(Logged) \o Rest
<1>. USE DEF WalInv, WalTypeOK
<1>. DEFINE base == IF snapshot \in {NoFile, Incomplete} THEN <<>> ELSE snapshot
<1>1. LogContents \in Seq(Nat) /\ orphan \in Nat
      /\ \A i \in 1..Len(LogContents) : LogContents[i] = orphan + i
  BY DEF LogFollows
<1>2. base = Batches(orphan)
  <2>1. CASE snapshot = NoFile
    BY <2>1 DEF SnapshotFits, Batches
  <2>2. CASE snapshot # NoFile
    <3>1. snapshot \notin {NoFile, Incomplete} /\ ~(orphan > Len(snapshot)) /\ ~Repeats
      BY <2>2 DEF Vulnerable
    <3>2. snapshot = Batches(Len(snapshot)) /\ Len(snapshot) \in Nat
          /\ Len(snapshot) <= orphan + Len(LogContents)
      BY <1>1, <3>1 DEF SnapshotFits, StateLogged, LogFollows, Logged
    <3>3. CASE LogContents = <<>>
      BY <1>1, <2>2, <3>1, <3>2, <3>3
    <3>4. CASE LogContents # <<>>
      <4>1. 1 \in DOMAIN LogContents /\ LogContents[1] = orphan + 1
        BY <1>1, <3>4
      <4>2. orphan + 1 > Len(snapshot)
        BY <1>1, <3>1, <3>2, <4>1 DEF Repeats
      <4>3. Len(snapshot) = orphan
        BY <1>1, <3>1, <3>2, <4>2
      <4>. QED  BY <3>1, <3>2, <4>3
    <3>. QED  BY <3>3, <3>4
  <2>. QED  BY <2>1, <2>2
<1>3. base \o LogContents = Batches(orphan + Len(LogContents))
  BY <1>1, <1>2, BatchesReplay
<1>. QED  BY <1>3 DEF Recovered, Logged

\* Types are kept, whatever the files hold.
LEMMA WalTypeNext == WalTypeOK /\ [Next]_vars => WalTypeOK'
<1>. SUFFICES ASSUME WalTypeOK, [Next]_vars PROVE WalTypeOK'
  OBVIOUS
<1>. USE WalAssumption DEF WalTypeOK
<1>1. CASE Start
  <2>1. CASE snapshot = Incomplete
    BY <1>1, <2>1 DEF Start
  <2>2. CASE snapshot # Incomplete
    <3>1. /\ phase' = "run" /\ main' = "apply" /\ logOpen' = "linked"
          /\ phase = "down" /\ runs' = runs + 1 /\ processed' = 0
          /\ UNCHANGED <<async, worker, inProgress, damaged>>
      BY <1>1, <2>2 DEF Start
    <3>2. torn' \in BOOLEAN
      BY <1>1, <2>2, Zenon DEF Start
    <3>. QED  BY <3>1, <3>2
  <2>. QED  BY <2>1, <2>2
<1>2. CASE ApplyBatch
  BY <1>2 DEF ApplyBatch, historyVars
<1>14. CASE AppendPart
  BY <1>14 DEF AppendPart, historyVars
<1>3. CASE AppendToLog
  BY <1>3 DEF AppendToLog
<1>4. CASE FsyncLog
  BY <1>4 DEF FsyncLog
<1>5. CASE CloseLog
  BY <1>5 DEF CloseLog, historyVars
<1>6. CASE StartSnapshot
  BY <1>6 DEF StartSnapshot, SnapshotOver, historyVars
<1>7. CASE ReopenLog
  BY <1>7 DEF ReopenLog, historyVars
<1>8. CASE Finish \/ Kill
  BY <1>8 DEF Finish, Kill, End, Vulnerable
<1>9. CASE OpenSnapshot
  BY <1>9 DEF OpenSnapshot, historyVars
<1>10. CASE WriteSnapshot
  BY <1>10 DEF WriteSnapshot, historyVars
<1>11. CASE RemoveLog
  BY <1>11 DEF RemoveLog
<1>12. CASE SnapshotDone
  BY <1>12 DEF SnapshotDone, historyVars
<1>13. CASE UNCHANGED vars
  BY <1>13 DEF vars, historyVars
<1>. QED
  BY <1>1, <1>2, <1>3, <1>4, <1>5, <1>6, <1>7, <1>8, <1>9, <1>10, <1>11, <1>12, <1>13,
     <1>14
  DEF Next, MainNext, WorkerNext

\* Every step keeps what the files have to do with each other, as long as the process
\* does not end at a bad moment.
LEMMA WalNextInv == WalInv /\ [Next]_vars => WalInv'
<1>. DEFINE Fit == LogFollows /\ StateLogged /\ SnapshotFits /\ CopySynced
<1>. SUFFICES ASSUME WalInv, [Next]_vars, ~damaged' PROVE Fit'
  BY WalTypeNext DEF WalInv
<1>0. WalTypeOK /\ WalTypeOK' /\ ~damaged /\ Fit /\ Logged \in Nat
  <2>1. ~damaged
    BY DEF Next, MainNext, WorkerNext, vars, historyVars, Start, ApplyBatch, AppendPart,
           AppendToLog, FsyncLog, CloseLog, StartSnapshot, ReopenLog, Finish, Kill, End,
           OpenSnapshot, WriteSnapshot, RemoveLog, SnapshotDone
  <2>2. Logged \in Nat
    BY <2>1 DEF WalInv, Logged, LogFollows
  <2>. QED  BY <2>1, <2>2, WalTypeNext DEF WalInv
<1>1. CASE Start
  <2>1. snapshot # Incomplete /\ phase = "down" /\ worker = "idle"
    BY <1>0, <1>1 DEF Start, SnapshotFits, Vulnerable, WalTypeOK
  <2>2. /\ state' = Batches(Logged) /\ main' = "apply" /\ logOpen' = "linked"
        /\ log' = LogContents /\ runs' = runs + 1 /\ phase' = "run" /\ torn' = FALSE
        /\ UNCHANGED <<worker, copy, snapshot, synced, orphan>>
    <3>1. ~Vulnerable /\ Rest = <<>>
      BY <1>0, <2>1 DEF SnapshotFits, LogFollows, Rest
    <3>2. LogContents \in Seq(Nat) /\ Batches(Logged) \in Seq(Nat)
      BY <1>0, BatchesAppend DEF LogFollows
    <3>3. Recovered = Batches(Logged) /\ LogContents \o Rest = LogContents
      BY <1>0, <3>1, <3>2, RecoveredIsLogged DEF WalInv
    <3>. QED  BY <1>1, <2>1, <3>3 DEF Start
  <2>3. LogContents' = LogContents /\ Logged' = Logged /\ Logged \in Nat /\ log' # NoFile
    BY <1>0, <2>2, FileAssumption DEF LogContents, Logged, LogFollows
  <2>4. LogFollows'
    BY <1>0, <2>2, <2>3 DEF LogFollows
  <2>5. StateLogged'
    BY <1>0, <2>2, <2>3 DEF StateLogged, Progress, LogFollows, WalTypeOK
  <2>6. SnapshotFits' /\ CopySynced'
    BY <1>0, <2>1, <2>2 DEF SnapshotFits, CopySynced
  <2>. QED  BY <2>4, <2>5, <2>6
<1>2. CASE ApplyBatch
  <2>1. /\ phase = "run" /\ phase' = "run" /\ main = "apply" /\ main' = "append"
        /\ state' = Append(state, Len(state) + 1)
        /\ UNCHANGED <<worker, copy, log, torn, logOpen, snapshot, runs, synced, orphan>>
    BY <1>2 DEF ApplyBatch, historyVars
  <2>2. LogContents' = LogContents /\ Logged' = Logged
    BY <2>1 DEF LogContents, Logged
  <2>3. LogFollows' /\ SnapshotFits' /\ CopySynced'
    BY <1>0, <2>1, <2>2 DEF LogFollows, SnapshotFits, CopySynced
  <2>4. StateLogged'
    <3>1. Progress = Logged /\ Progress' = Logged + 1
      BY <1>0, <2>1, <2>2 DEF Progress
    <3>2. state = Batches(Logged) /\ Len(state) = Logged
      BY <1>0, <2>1, <3>1, BatchesAppend DEF StateLogged
    <3>3. state' = Batches(Logged + 1)
      BY <1>0, <2>1, <3>2, BatchesAppend
    <3>. QED  BY <1>0, <2>1, <2>2, <3>1, <3>3 DEF StateLogged
  <2>. QED  BY <2>3, <2>4
<1>14. CASE AppendPart
  <2>1. /\ phase = "run" /\ phase' = "run" /\ main = "append" /\ main' = "complete"
        /\ UNCHANGED <<worker, state, copy, log, logOpen, snapshot, runs, synced, orphan>>
    BY <1>14 DEF AppendPart, historyVars
  <2>2. LogContents' = LogContents /\ Logged' = Logged /\ Progress' = Progress
    BY <2>1 DEF LogContents, Logged, Progress
  <2>. QED
    BY <1>0, <2>1, <2>2 DEF LogFollows, StateLogged, SnapshotFits, CopySynced
<1>3. CASE AppendToLog
  <2>1. /\ phase = "run" /\ phase' = "run" /\ main = "complete" /\ main' = "fsync"
        /\ torn' = FALSE
        /\ UNCHANGED <<worker, state, copy, logOpen, snapshot, runs, synced>>
    BY <1>3 DEF AppendToLog
  <2>2. Progress = Logged + 1 /\ state = Batches(Logged + 1) /\ Logged + 1 <= synced + runs
    BY <1>0, <2>1 DEF StateLogged, Progress
  <2>3. Last(state) = Logged + 1
    <3>1. Len(Batches(Logged + 1)) = Logged + 1
      BY <1>0, BatchesAppend
    <3>. QED  BY <1>0, <2>2, <3>1 DEF Last, Batches
  <2>4. LogFollows' /\ Logged' = Logged + 1 /\ orphan <= orphan' /\ orphan' \in Nat
    <3>1. CASE logOpen = "linked"
      <4>1. /\ log \in Seq(Nat) /\ log # NoFile /\ LogContents = log
            /\ log' = Append(log, Logged + 1) /\ orphan' = orphan
        BY <1>0, <1>3, <2>3, <3>1 DEF LogFollows, LogContents, AppendToLog
      <4>2. log' \in Seq(Nat) /\ Len(log') = Len(log) + 1
        BY <1>0, <4>1
      <4>3. log' # NoFile /\ LogContents' = log'
        BY <4>2, FileAssumption DEF LogContents
      <4>4. \A i \in 1..Len(log') : log'[i] = orphan + i
        <5>1. Logged = orphan + Len(log) /\ \A i \in 1..Len(log) : log[i] = orphan + i
          BY <1>0, <4>1 DEF LogFollows, Logged
        <5>2. ASSUME NEW i \in 1..Len(log') PROVE log'[i] = orphan + i
          <6>1. CASE i = Len(log) + 1
            <7>1. log'[i] = Logged + 1
              BY <4>1, <6>1
            <7>2. orphan \in Nat /\ Len(log) \in Nat
              BY <1>0, <4>1 DEF LogFollows
            <7>. QED  BY <5>1, <6>1, <7>1, <7>2
          <6>2. CASE i # Len(log) + 1
            <7>1. i \in 1..Len(log)
              BY <4>1, <4>2, <5>2, <6>2
            <7>2. log'[i] = log[i]
              BY <4>1, <7>1
            <7>. QED  BY <5>1, <7>1, <7>2
          <6>. QED  BY <6>1, <6>2
        <5>. QED  BY <5>2
      <4>5. Logged' = Logged + 1
        BY <1>0, <4>1, <4>2, <4>3 DEF Logged, LogFollows
      <4>6. LogContents' \in Seq(Nat) /\ \A i \in 1..Len(LogContents') : LogContents'[i] = orphan' + i
        BY <4>1, <4>2, <4>3, <4>4
      <4>7. orphan \in Nat /\ synced \in Nat
        BY <1>0 DEF LogFollows
      <4>8. orphan' \in Nat /\ orphan <= orphan'
        BY <4>1, <4>7
      <4>9. LogFollows'
        BY <2>1, <3>1, <4>3, <4>6, <4>7, <4>8 DEF LogFollows
      <4>. QED  BY <4>5, <4>8, <4>9
    <3>2. CASE logOpen # "linked"
      <4>1. orphan' = Logged + 1 /\ log' = log /\ logOpen = "removed" /\ log = NoFile
        BY <1>0, <1>3, <2>1, <2>3, <3>2 DEF AppendToLog, WalTypeOK, LogFollows
      <4>2. LogContents = <<>> /\ LogContents' = <<>>
        BY <4>1 DEF LogContents
      <4>. QED  BY <1>0, <2>1, <4>1, <4>2 DEF LogFollows, Logged
    <3>. QED  BY <3>1, <3>2
  <2>5. StateLogged'
    <3>1. Progress' = Logged + 1
      BY <1>0, <2>1, <2>4 DEF Progress
    <3>. QED  BY <1>0, <2>1, <2>2, <2>4, <3>1 DEF StateLogged, LogFollows, WalTypeOK
  <2>6. SnapshotFits' /\ CopySynced'
    <3>1. snapshot \notin {NoFile, Incomplete} => Len(snapshot) \in Nat
      BY <1>0 DEF SnapshotFits
    <3>2. snapshot = NoFile => orphan' = 0
      BY <1>0, <1>3, <2>1 DEF SnapshotFits, AppendToLog, WalTypeOK
    <3>. QED  BY <1>0, <2>1, <2>4, <3>1, <3>2 DEF SnapshotFits, CopySynced, LogFollows
  <2>. QED  BY <2>4, <2>5, <2>6
<1>4. CASE FsyncLog
  <2>1. /\ phase = "run" /\ phase' = "run" /\ main = "fsync"
        /\ main' \in {"close", "apply"} /\ synced' = Last(state)
        /\ UNCHANGED <<worker, state, copy, log, torn, logOpen, snapshot, runs, orphan>>
    BY <1>4 DEF FsyncLog
  <2>2. LogContents' = LogContents /\ Logged' = Logged /\ Progress = Logged
        /\ Progress' = Logged
    BY <1>0, <2>1 DEF LogContents, Logged, Progress
  <2>3. state = Batches(Logged) /\ synced' = Logged /\ synced <= synced'
    <3>1. state = Batches(Logged) /\ synced <= Logged /\ Logged > 0
      BY <1>0, <2>1, <2>2 DEF StateLogged
    <3>2. Len(Batches(Logged)) = Logged
      BY <1>0, BatchesAppend
    <3>. QED  BY <1>0, <2>1, <3>1, <3>2 DEF Last, Batches
  <2>4. LogFollows'
    BY <1>0, <2>1, <2>2, <2>3 DEF LogFollows
  <2>5. StateLogged'
    <3>1. runs \in Nat /\ runs > 0 /\ Logged \in Nat
      BY <1>0, <2>1 DEF WalTypeOK
    <3>. QED  BY <2>1, <2>2, <2>3, <3>1 DEF StateLogged
  <2>6. SnapshotFits' /\ CopySynced'
    <3>1. snapshot \notin {NoFile, Incomplete} => Len(snapshot) <= synced'
      BY <1>0, <2>3 DEF SnapshotFits, LogFollows
    <3>2. worker \in {"open", "write", "remove"} => Len(copy) <= synced'
      BY <1>0, <2>3 DEF CopySynced, LogFollows
    <3>. QED  BY <1>0, <2>1, <3>1, <3>2 DEF SnapshotFits, CopySynced
  <2>. QED  BY <2>4, <2>5, <2>6
<1>5. CASE CloseLog
  <2>1. /\ phase = "run" /\ phase' = "run" /\ main = "close" /\ main' = "create"
        /\ logOpen' \in {"closed", logOpen}
        /\ UNCHANGED <<worker, state, copy, log, torn, snapshot, runs, synced, orphan>>
    BY <1>5 DEF CloseLog, historyVars
  <2>2. LogContents' = LogContents /\ Logged' = Logged /\ Progress' = Progress
    BY <2>1 DEF LogContents, Logged, Progress
  <2>. QED
    BY <1>0, <2>1, <2>2 DEF LogFollows, StateLogged, SnapshotFits, CopySynced
<1>6. CASE StartSnapshot
  <2>1. /\ phase = "run" /\ phase' = "run" /\ main = "create" /\ main' = "reopen"
        /\ worker = "idle"
        /\ \/ worker' = "open" /\ copy' = state
           \/ worker' = worker /\ copy' = copy
        /\ UNCHANGED <<state, log, torn, logOpen, snapshot, runs, synced, orphan>>
    BY <1>0, <1>6 DEF StartSnapshot, SnapshotOver, historyVars, WalTypeOK
  <2>2. LogContents' = LogContents /\ Logged' = Logged /\ Progress' = Logged
        /\ Progress = Logged
    BY <1>0, <2>1 DEF LogContents, Logged, Progress
  <2>3. state = Batches(Logged) /\ synced = Logged
    BY <1>0, <2>1, <2>2 DEF StateLogged
  <2>4. Len(state) = Logged /\ state \in Seq(Nat)
    BY <1>0, <2>3, BatchesAppend
  <2>5. LogFollows' /\ StateLogged'
    BY <1>0, <2>1, <2>2 DEF LogFollows, StateLogged
  <2>6. SnapshotFits' /\ CopySynced'
    BY <1>0, <2>1, <2>3, <2>4 DEF SnapshotFits, CopySynced
  <2>. QED  BY <2>5, <2>6
<1>7. CASE ReopenLog
  <2>1. /\ phase = "run" /\ phase' = "run" /\ main = "reopen" /\ main' = "apply"
        /\ log' = LogContents /\ logOpen' = "linked"
        /\ UNCHANGED <<worker, state, copy, torn, snapshot, runs, synced, orphan>>
    BY <1>7 DEF ReopenLog, historyVars
  <2>2. LogContents' = LogContents /\ log' # NoFile
    BY <1>0, <2>1, FileAssumption DEF LogContents, LogFollows
  <2>3. Logged' = Logged /\ Progress' = Progress
    BY <2>1, <2>2 DEF Logged, Progress
  <2>. QED
    BY <1>0, <2>1, <2>2, <2>3 DEF LogFollows, StateLogged, SnapshotFits, CopySynced
<1>8. CASE Finish \/ Kill
  <2>1. /\ phase = "run" /\ phase' = "down" /\ main' = "exited" /\ worker' = "idle"
        /\ logOpen' = "closed" /\ ~Vulnerable /\ ~torn
        /\ UNCHANGED <<log, torn, snapshot, runs, synced, orphan>>
    BY <1>8 DEF Finish, Kill, End
  <2>2. LogContents' = LogContents /\ Logged' = Logged
    BY <2>1 DEF LogContents, Logged
  <2>3. LogFollows' /\ StateLogged' /\ CopySynced'
    BY <1>0, <2>1, <2>2 DEF LogFollows, StateLogged, CopySynced
  <2>4. SnapshotFits'
    <3>1. ~Vulnerable'
      BY <2>1, <2>2 DEF Vulnerable, Repeats
    <3>. QED  BY <1>0, <2>1, <3>1 DEF SnapshotFits
  <2>. QED  BY <2>3, <2>4
<1>9. CASE OpenSnapshot
  <2>1. /\ phase = "run" /\ worker = "open"
        /\ \/ worker' = "write" /\ snapshot' = Incomplete
           \/ worker' = "idle" /\ snapshot' = snapshot
        /\ UNCHANGED <<phase, main, state, copy, log, torn, logOpen, runs, synced, orphan>>
    BY <1>9 DEF OpenSnapshot, historyVars
  <2>2. LogContents' = LogContents /\ Logged' = Logged /\ Progress' = Progress
    BY <2>1 DEF LogContents, Logged, Progress
  <2>3. LogFollows' /\ StateLogged'
    BY <1>0, <2>1, <2>2 DEF LogFollows, StateLogged
  <2>4. SnapshotFits' /\ CopySynced'
    BY <1>0, <2>1, FileAssumption DEF SnapshotFits, CopySynced
  <2>. QED  BY <2>3, <2>4
<1>10. CASE WriteSnapshot
  <2>1. /\ phase = "run" /\ worker = "write" /\ worker' = "remove"
        /\ snapshot' \in {copy, snapshot}
        /\ UNCHANGED <<phase, main, state, copy, log, torn, logOpen, runs, synced, orphan>>
    BY <1>10 DEF WriteSnapshot, historyVars
  <2>2. LogContents' = LogContents /\ Logged' = Logged /\ Progress' = Progress
    BY <2>1 DEF LogContents, Logged, Progress
  <2>3. LogFollows' /\ StateLogged'
    BY <1>0, <2>1, <2>2 DEF LogFollows, StateLogged
  <2>4. snapshot = Incomplete /\ copy \in Seq(Nat) /\ copy = Batches(Len(copy))
        /\ Len(copy) <= synced /\ copy # NoFile
    BY <1>0, <2>1, FileAssumption DEF CopySynced
  <2>5. SnapshotFits' /\ CopySynced'
    BY <1>0, <2>1, <2>4, FileAssumption DEF SnapshotFits, CopySynced
  <2>. QED  BY <2>3, <2>5
<1>11. CASE RemoveLog /\ torn' = FALSE /\ log' = NoFile
            /\ orphan' = (IF LogContents = <<>> THEN orphan ELSE Last(log))
            /\ logOpen' = (IF logOpen = "linked" THEN "removed" ELSE logOpen)
  <2>1. /\ phase = "run" /\ worker = "remove" /\ worker' = "done" /\ log' = NoFile /\ torn' = FALSE
        /\ logOpen' = IF logOpen = "linked" THEN "removed" ELSE logOpen
        /\ orphan' = IF LogContents = <<>> THEN orphan ELSE Last(log)
        /\ UNCHANGED <<phase, main, state, copy, snapshot, runs, synced>>
    BY <1>11 DEF RemoveLog
  <2>2. LogContents' = <<>>
    BY <2>1 DEF LogContents
  <2>3. orphan' = Logged
    <3>1. CASE LogContents = <<>>
      BY <1>0, <2>1, <3>1 DEF Logged, LogFollows
    <3>2. CASE LogContents # <<>>
      <4>1. LogContents = log /\ log \in Seq(Nat) /\ Len(log) \in Nat \ {0}
        BY <1>0, <3>2 DEF LogContents, LogFollows
      <4>. QED  BY <1>0, <2>1, <3>2, <4>1 DEF Logged, LogFollows, Last
    <3>. QED  BY <3>1, <3>2
  <2>4. Logged' = Logged /\ Progress' = Progress
    BY <1>0, <2>1, <2>2, <2>3 DEF Logged, Progress
  <2>5. LogFollows' /\ StateLogged'
    BY <1>0, <2>1, <2>2, <2>3, <2>4 DEF LogFollows, StateLogged, WalTypeOK
  <2>6. SnapshotFits' /\ CopySynced'
    <3>1. snapshot \in {Incomplete, copy} /\ snapshot # NoFile
      BY <1>0, <2>1, FileAssumption DEF CopySynced
    <3>. QED  BY <1>0, <2>1, <3>1 DEF SnapshotFits, CopySynced
  <2>. QED  BY <2>5, <2>6
<1>15. CASE RemoveLog /\ UNCHANGED <<log, torn, logOpen, orphan>>
  <2>1. /\ phase = "run" /\ worker = "remove" /\ worker' = "done"
        /\ UNCHANGED <<phase, main, state, copy, log, torn, logOpen, snapshot, runs, synced,
                       orphan>>
    BY <1>15 DEF RemoveLog
  <2>2. LogContents' = LogContents /\ Logged' = Logged /\ Progress' = Progress
    BY <2>1 DEF LogContents, Logged, Progress
  <2>. QED
    BY <1>0, <2>1, <2>2 DEF LogFollows, StateLogged, SnapshotFits, CopySynced
<1>12. CASE SnapshotDone
  <2>1. /\ phase = "run" /\ worker = "done" /\ worker' = "idle"
        /\ UNCHANGED <<phase, main, state, log, torn, logOpen, snapshot, runs, synced, orphan>>
    BY <1>12 DEF SnapshotDone, historyVars
  <2>2. LogContents' = LogContents /\ Logged' = Logged /\ Progress' = Progress
    BY <2>1 DEF LogContents, Logged, Progress
  <2>. QED
    BY <1>0, <2>1, <2>2 DEF LogFollows, StateLogged, SnapshotFits, CopySynced
<1>13. CASE UNCHANGED vars
  <2>1. UNCHANGED <<phase, main, worker, state, copy, log, torn, logOpen, snapshot, runs, synced,
                    orphan>>
    BY <1>13 DEF vars, historyVars
  <2>2. LogContents' = LogContents /\ Logged' = Logged /\ Progress' = Progress
    BY <2>1 DEF LogContents, Logged, Progress
  <2>3. Vulnerable' = Vulnerable
    BY <2>1, <2>2 DEF Vulnerable, Repeats
  <2>. QED
    BY <1>0, <2>1, <2>2, <2>3 DEF LogFollows, StateLogged, SnapshotFits, CopySynced
<1>. QED
  BY <1>1, <1>2, <1>3, <1>4, <1>5, <1>6, <1>7, <1>8, <1>9, <1>10, <1>11, <1>12, <1>13,
     <1>14, <1>15
  DEF Next, MainNext, WorkerNext, RemoveLog

\* The inductive invariant: as long as no run has ended at a bad moment, the logs hold
\* the state's batches one after the other, and the snapshot no more than they do.
THEOREM WalInvariant == Spec => []WalInv
<1>. QED  BY WalInitInv, WalNextInv, PTL DEF Spec

\* A whole snapshot holds synced batches only, however far main is ahead of its writer.
THEOREM SnapshotsSynced == Spec => []SnapshotBehindLog
<1>1. WalInv => SnapshotBehindLog
  <2>. SUFFICES ASSUME WalInv, ~damaged, snapshot \notin {NoFile, Incomplete}
                PROVE  \E m \in 0..synced : snapshot = Batches(m)
    BY DEF SnapshotBehindLog
  <2>1. snapshot = Batches(Len(snapshot)) /\ Len(snapshot) \in 0..synced
    BY DEF WalInv, SnapshotFits, LogFollows
  <2>. QED  BY <2>1
<1>. QED  BY <1>1, WalInvariant, PTL

\* Recovery misses no synced batch, and adds at most one unsynced batch for each run.
THEOREM RecoveryComplete == Spec => []RecoversSynced
<1>1. WalInv => RecoversSynced
  <2>. SUFFICES ASSUME WalInv, ~damaged, ~Vulnerable
                PROVE  \E m \in synced .. synced + runs : Recovered = Batches(m) \o Rest
    BY DEF RecoversSynced
  <2>1. Recovered = Batches(Logged) \o Rest
    BY RecoveredIsLogged
  <2>2. Logged \in synced .. synced + runs
    BY DEF WalInv, WalTypeOK, StateLogged, LogFollows, Logged
  <2>. QED  BY <2>1, <2>2
<1>. QED  BY <1>1, WalInvariant, PTL

-----------------------------------------------------------------------------
\* The baseline with accounts (WalAccounts).

BalancesOf(z) == [1..z -> Int]
Log == Accounts!WalContents

\* The batch that main is about to append is not yet part of what the log must give.
Current == IF at = "append" THEN safe ELSE newest
CurrentNumber == IF at = "append" THEN applied - 1 ELSE applied

\* s lies on the way of a log to cur: its first part has led to s, and the rest leads on.
WayOn(s, z, txs, cur) ==
    \E before \in BalancesOf(z), first, rest \in Seq(Accounts!Transactions) :
        /\ txs = first \o rest
        /\ s = Accounts!ApplyAll(before, first)
        /\ Accounts!ApplyAll(s, rest) = cur

OnTheWay(s) == WayOn(s, count, Log, Current)

\* Some balances from which a log leads to cur.
Leads(z, txs, cur) == \E before \in BalancesOf(z) : Accounts!ApplyAll(before, txs) = cur

AccountTypes ==
    /\ up \in {"down", "run"}
    /\ at \in {"apply", "append", "fsync", "close", "create", "reopen"}
    /\ thread \in {"idle", "open", "write", "remove", "done"}
    /\ count \in Nat /\ (up = "run" => count \in Counts)
    /\ batch \in Seq(Accounts!Transactions)
    /\ walFile \in Seq(Accounts!Transactions) \union {Nothing}
    /\ snapFile \in Seq(Int) \union {Nothing}
    /\ applied \in Nat /\ inLog \in Nat /\ orphanBatch \in Nat /\ inSnapshot \in Nat
    /\ whole \in BOOLEAN /\ repeats \in BOOLEAN
    /\ up = "run" => /\ balances \in BalancesOf(count)
                     /\ safe \in BalancesOf(count) /\ newest \in BalancesOf(count)
    /\ up = "down" => thread = "idle" /\ at = "apply"

\* The main thread: how far it is, and the file its handle is of.
MainPlace ==
    up = "run" =>
        /\ balances = newest
        /\ at \notin {"append", "fsync"} => safe = newest
        /\ at = "append" => newest = Accounts!ApplyAll(safe, batch) /\ applied > 0
        /\ handle \in {"linked", "closed", "removed"}
        /\ handle = "linked" => walFile # Nothing
        /\ handle = "removed" => walFile = Nothing
        /\ handle = "closed" => at \in {"create", "reopen"}

\* Every batch has been appended to the log, or to one that was removed later.
BatchesAppended ==
    up = "run" =>
        /\ inLog <= CurrentNumber /\ orphanBatch <= CurrentNumber /\ inSnapshot <= CurrentNumber
        /\ CurrentNumber \in {inLog, orphanBatch}
        /\ Log # <<>> => orphanBatch <= inLog

\* The snapshot thread: the balances it has, and how many of them are in the file.
TaskHeld ==
    up = "run" /\ thread \in {"open", "write", "remove"} =>
        /\ busy
        /\ task.balances \in BalancesOf(count)
        /\ task.last \in Nat /\ task.last <= CurrentNumber
        /\ task.last = CurrentNumber => task.balances = Current
        /\ thread = "write" => /\ ~whole /\ snapFile # Nothing /\ Len(snapFile) < count
                               /\ \A i \in 1..Len(snapFile) : snapFile[i] = task.balances[i]
        /\ thread = "remove" /\ whole => snapFile = task.balances /\ inSnapshot = task.last

\* Whatever it begins with, the log leads to the current balances.
LogLeads ==
    up = "run" => Leads(count, Log, Current)

\* If no batch is lost since, the snapshot that is being made lies on the way of the log,
TaskFits ==
    up = "run" /\ thread \in {"open", "write"} /\ orphanBatch <= task.last =>
        OnTheWay(task.balances)

\* and the one in the file, too, or is where the log begins.
FileFits ==
    up = "run" /\ whole /\ orphanBatch <= inSnapshot =>
        IF repeats THEN OnTheWay(Accounts!Loaded(count))
                   ELSE Accounts!ApplyAll(Accounts!Loaded(count), Log) = Current

AccountInv ==
    /\ AccountTypes /\ MainPlace /\ BatchesAppended /\ TaskHeld /\ LogLeads /\ TaskFits
    /\ FileFits

\* Balances that add up to what z accounts began with, none of them overdrawn.
Sound(s, z) == s \in [1..z -> Nat] /\ Accounts!Total(s) = z * Initial

\* Only kinds of transactions that were counted are in the log and on their way to it.
KindsCounted ==
    /\ \A i \in DOMAIN Log : Accounts!Kind(Log[i]) \in kinds
    /\ \A i \in DOMAIN batch : Accounts!Kind(batch[i]) \in kinds

\* Runs with z accounts, and transfers, leave sound balances, or a snapshot that is too
\* short for a run to begin with.
SoundBalances ==
    \A z \in Counts : counts = {z} /\ kinds \subseteq {"transfer"} =>
        /\ up = "run" => Sound(balances, z)
        /\ up = "run" /\ thread \in {"open", "write"} => Sound(task.balances, z)
        /\ snapFile # Nothing /\ Len(snapFile) >= z => Sound(snapFile, z)

CountsUsed ==
    /\ counts \subseteq Counts
    /\ up = "run" => count \in counts
    /\ counts = {} => snapFile = Nothing

MoneyInv == KindsCounted /\ SoundBalances /\ CountsUsed

-----------------------------------------------------------------------------
\* What the loops compute.

\* A nonempty set of naturals has a least element.
LEMMA LeastOf ==
    ASSUME NEW M \in SUBSET Nat, M # {}
    PROVE  \E n \in M : \A m \in M : n <= m
<1>. DEFINE ordering == StrictSubsetOrdering(Nat)
            intervals == {0..n : n \in M}
<1>1. IsWellFoundedOn(ordering, FiniteSubsetsOf(Nat))
  BY FS_StrictSubsetOrderingWellFounded
<1>2. intervals \subseteq FiniteSubsetsOf(Nat) /\ intervals # {}
  <2>1. \A n \in M : 0..n \in SUBSET Nat /\ IsFiniteSet(0..n)
    BY FS_Interval
  <2>. QED  BY <2>1 DEF FiniteSubsetsOf
<1>. HIDE DEF ordering
<1>3. PICK least \in intervals : \A i \in intervals : ~ (<<i, least>> \in ordering)
  BY <1>1, <1>2, WFMin
<1>4. PICK n \in M : least = 0..n
  BY <1>3
<1>5. \A m \in M : m < n => <<0..m, 0..n>> \in ordering
  <2>1. \A m \in M : m < n => 0..m \subseteq 0..n /\ n \notin 0..m /\ n \in 0..n
    OBVIOUS
  <2>2. \A m \in M : 0..m \in SUBSET Nat
    OBVIOUS
  <2>3. \A m \in M : m < n => 0..m # 0..n
    BY <2>1
  <2>. QED  BY <2>1, <2>2, <2>3 DEF ordering, StrictSubsetOrdering
<1>6. \A m \in M : 0..m \in intervals
  OBVIOUS
<1>. HIDE DEF intervals
<1>7. \A m \in M : ~ (m < n)
  BY <1>3, <1>4, <1>5, <1>6
<1>. QED  BY <1>7

\* Induction: what holds of 0, and of the next number with each, holds up to n.
LEMMA UpTo ==
    ASSUME NEW n \in Nat, NEW H, 0 \in H, \A i \in 0..n - 1 : i \in H => i + 1 \in H
    PROVE  \A i \in 0..n : i \in H
<1>. SUFFICES ASSUME NEW j \in 0..n, j \notin H PROVE FALSE
  OBVIOUS
<1>. DEFINE M == {i \in 0..n : i \notin H}
<1>1. PICK least \in M : \A i \in M : least <= i
  <2>1. M \in SUBSET Nat /\ M # {}
    OBVIOUS
  <2>. QED  BY <2>1, LeastOf
<1>2. least # 0 /\ least - 1 \in 0..n - 1
  BY <1>1
<1>3. least - 1 \in H
  BY <1>1, <1>2
<1>. QED  BY <1>1, <1>2, <1>3

\* The loop over the transactions of a batch, or of the log.
LEMMA AppliedEachIs ==
    ASSUME NEW s, NEW txs, Len(txs) \in Nat
    PROVE  LET e == Accounts!AppliedEach(s, txs)
           IN  /\ e[0] = s
               /\ \A i \in 1..Len(txs) : e[i] = Accounts!Applied(e[i - 1], txs[i])
<1>. DEFINE Is(f, n) == f = [i \in 0..n |-> IF i = 0 THEN s
                                          ELSE Accounts!Applied(f[i - 1], txs[i])]
            H == {n \in 0..Len(txs) : \E f : Is(f, n)}
<1>. HIDE DEF Is
<1>1. 0 \in H
  <2>1. Is([i \in 0..0 |-> s], 0)
    BY DEF Is
  <2>. QED  BY <2>1
<1>2. ASSUME NEW n \in 0..Len(txs) - 1, n \in H PROVE n + 1 \in H
  <2>1. PICK f : Is(f, n)
    BY <1>2
  <2>. DEFINE g == [i \in 0..n + 1 |-> IF i <= n THEN f[i]
                                    ELSE Accounts!Applied(f[n], txs[n + 1])]
  <2>2. ASSUME NEW i \in 0..n + 1
        PROVE  g[i] = IF i = 0 THEN s ELSE Accounts!Applied(g[i - 1], txs[i])
    <3>1. CASE i = 0
      BY <2>1, <3>1 DEF Is
    <3>2. CASE i \in 1..n
      BY <2>1, <3>2 DEF Is
    <3>3. CASE i = n + 1
      BY <3>3
    <3>. QED  BY <3>1, <3>2, <3>3
  <2>3. Is(g, n + 1)
    BY <2>2 DEF Is
  <2>. HIDE DEF g
  <2>. QED  BY <2>3
<1>3. Len(txs) \in H
  <2>. HIDE DEF H
  <2>1. \A i \in 0..Len(txs) : i \in H
    BY <1>1, <1>2, UpTo
  <2>. QED  BY <2>1
<1>4. Is(Accounts!AppliedEach(s, txs), Len(txs))
  BY <1>3 DEF Is, Accounts!AppliedEach
<1>. QED  BY <1>4 DEF Is

\* And the sum of balances.
LEMMA SumsAre ==
    ASSUME NEW s, Len(s) \in Nat
    PROVE  LET e == Accounts!Sums(s)
           IN  /\ e[0] = 0
               /\ \A i \in 1..Len(s) : e[i] = e[i - 1] + s[i]
<1>. DEFINE Is(f, n) == f = [i \in 0..n |-> IF i = 0 THEN 0
                                          ELSE f[i - 1] + s[i]]
            H == {n \in 0..Len(s) : \E f : Is(f, n)}
<1>. HIDE DEF Is
<1>1. 0 \in H
  <2>1. Is([i \in 0..0 |-> 0], 0)
    BY DEF Is
  <2>. QED  BY <2>1
<1>2. ASSUME NEW n \in 0..Len(s) - 1, n \in H PROVE n + 1 \in H
  <2>1. PICK f : Is(f, n)
    BY <1>2
  <2>. DEFINE g == [i \in 0..n + 1 |-> IF i <= n THEN f[i]
                                    ELSE f[n] + s[n + 1]]
  <2>2. ASSUME NEW i \in 0..n + 1
        PROVE  g[i] = IF i = 0 THEN 0 ELSE g[i - 1] + s[i]
    <3>1. CASE i = 0
      BY <2>1, <3>1 DEF Is
    <3>2. CASE i \in 1..n
      BY <2>1, <3>2 DEF Is
    <3>3. CASE i = n + 1
      BY <3>3
    <3>. QED  BY <3>1, <3>2, <3>3
  <2>3. Is(g, n + 1)
    BY <2>2 DEF Is
  <2>. HIDE DEF g
  <2>. QED  BY <2>3
<1>3. Len(s) \in H
  <2>. HIDE DEF H
  <2>1. \A i \in 0..Len(s) : i \in H
    BY <1>1, <1>2, UpTo
  <2>. QED  BY <2>1
<1>4. Is(Accounts!Sums(s), Len(s))
  BY <1>3 DEF Is, Accounts!Sums
<1>. QED  BY <1>4 DEF Is

\* What a transfer adds to the receiver, be it the sender.
LEMMA ReceivedTyped ==
    ASSUME NEW tx \in Accounts!Transactions
    PROVE  Accounts!Received(tx) \in Int
<1>1. PICK a \in Int, g \in -1..1 : a = tx.amount /\ g = SelfGain
  BY AccountConstants DEF Accounts!AccountAssumption, Accounts!Transactions
<1>2. (1 + g) * a \in Int
  <2>. g = -1 \/ g = 0 \/ g = 1
    OBVIOUS
  <2>. QED  OBVIOUS
<1>. QED  BY <1>1, <1>2 DEF Accounts!Received

\* Balances of z accounts remain balances of z accounts.
LEMMA AppliedTyped ==
    ASSUME NEW z \in Nat, NEW s \in BalancesOf(z), NEW tx \in Accounts!Transactions
    PROVE  Accounts!Applied(s, tx) \in BalancesOf(z)
<1>1. Len(s) = z /\ DOMAIN s = 1..z
  BY DEF BalancesOf
<1>2. /\ tx.amount \in Int /\ tx.from \in Nat /\ tx.to \in Nat
      /\ Accounts!Received(tx) \in Int
  BY ReceivedTyped DEF Accounts!Transactions
<1>3. CASE /\ tx.func = "transfer" /\ tx.from < Len(s) /\ tx.to < Len(s)
           /\ s[tx.from + 1] >= tx.amount
  <2>1. Accounts!Applied(s, tx) =
          [[s EXCEPT ![tx.from + 1] = @ - tx.amount]
             EXCEPT ![tx.to + 1] = @ + Accounts!Received(tx)]
    BY <1>3 DEF Accounts!Applied
  <2>2. PICK from \in 1..z, to \in 1..z : from = tx.from + 1 /\ to = tx.to + 1
    BY <1>1, <1>2, <1>3
  <2>3. PICK mid : mid = [s EXCEPT ![from] = @ - tx.amount]
    OBVIOUS
  <2>4. mid \in BalancesOf(z)
    BY <1>2, <2>2, <2>3 DEF BalancesOf
  <2>5. [mid EXCEPT ![to] = @ + Accounts!Received(tx)] \in BalancesOf(z)
    BY <1>2, <2>2, <2>4 DEF BalancesOf
  <2>. QED  BY <2>1, <2>2, <2>3, <2>5
<1>4. CASE /\ ~(/\ tx.func = "transfer" /\ tx.from < Len(s) /\ tx.to < Len(s)
                /\ s[tx.from + 1] >= tx.amount)
           /\ tx.func = "range"
  <2>1. Accounts!Applied(s, tx) =
          [i \in DOMAIN s |-> IF i > tx.from /\ i <= tx.from + tx.to THEN tx.amount ELSE s[i]]
    BY <1>4 DEF Accounts!Applied
  <2>. QED  BY <1>1, <1>2, <2>1 DEF BalancesOf
<1>5. CASE /\ ~(/\ tx.func = "transfer" /\ tx.from < Len(s) /\ tx.to < Len(s)
                /\ s[tx.from + 1] >= tx.amount)
           /\ tx.func # "range"
  BY <1>5 DEF Accounts!Applied
<1>. QED  BY <1>3, <1>4, <1>5

\* So they do after any number of transactions.
LEMMA ApplyTyped ==
    ASSUME NEW z \in Nat, NEW s \in BalancesOf(z), NEW txs \in Seq(Accounts!Transactions)
    PROVE  /\ \A i \in 0..Len(txs) : Accounts!AppliedEach(s, txs)[i] \in BalancesOf(z)
           /\ Accounts!ApplyAll(s, txs) \in BalancesOf(z)
<1>0. Len(txs) \in Nat /\ \A i \in 1..Len(txs) : txs[i] \in Accounts!Transactions
  OBVIOUS
<1>1. PICK e : /\ e = Accounts!AppliedEach(s, txs)
               /\ e[0] = s
               /\ \A i \in 1..Len(txs) : e[i] = Accounts!Applied(e[i - 1], txs[i])
  BY <1>0, AppliedEachIs
<1>. DEFINE H == {i \in 0..Len(txs) : e[i] \in BalancesOf(z)}
<1>2. 0 \in H
  BY <1>0, <1>1
<1>3. ASSUME NEW i \in 0..Len(txs) - 1, i \in H PROVE i + 1 \in H
  <2>1. i + 1 \in 1..Len(txs) /\ (i + 1) - 1 = i
    BY <1>0
  <2>2. e[i + 1] = Accounts!Applied(e[i], txs[i + 1])
    BY <1>1, <2>1
  <2>3. e[i + 1] \in BalancesOf(z)
    BY <1>0, <1>3, <2>1, <2>2, AppliedTyped
  <2>. QED  BY <1>0, <2>1, <2>3
<1>4. \A i \in 0..Len(txs) : i \in H
  <2>. HIDE DEF H
  <2>. QED  BY <1>0, <1>2, <1>3, UpTo
<1>. QED  BY <1>0, <1>1, <1>4 DEF Accounts!ApplyAll

\* Nothing to apply.
LEMMA ApplyNone == \A s : Accounts!ApplyAll(s, <<>>) = s
  BY AppliedEachIs DEF Accounts!ApplyAll

\* Applying one sequence after the other.
LEMMA ApplyJoin ==
    ASSUME NEW s, NEW p \in Seq(Accounts!Transactions), NEW q \in Seq(Accounts!Transactions)
    PROVE  Accounts!ApplyAll(s, p \o q) = Accounts!ApplyAll(Accounts!ApplyAll(s, p), q)
<1>0. PICK pq : pq = p \o q
  OBVIOUS
<1>1. PICK m \in Nat : m = Len(p)
  OBVIOUS
<1>2. PICK n \in Nat : n = Len(q)
  OBVIOUS
<1>3. /\ Len(pq) = m + n
      /\ \A i \in 1..m : pq[i] = p[i]
      /\ \A i \in 1..n : pq[m + i] = q[i]
  BY <1>0, <1>1, <1>2
<1>4. PICK e : /\ e = Accounts!AppliedEach(s, pq) /\ e[0] = s
               /\ \A i \in 1..m + n : e[i] = Accounts!Applied(e[i - 1], pq[i])
  <2>1. m + n \in Nat /\ Len(pq) = m + n
    BY <1>3
  <2>2. LET e == Accounts!AppliedEach(s, pq)
        IN  /\ e[0] = s
            /\ \A i \in 1..Len(pq) : e[i] = Accounts!Applied(e[i - 1], pq[i])
    BY <2>1, AppliedEachIs
  <2>. QED  BY <2>1, <2>2
<1>5. PICK f : /\ f = Accounts!AppliedEach(s, p) /\ f[0] = s
               /\ \A i \in 1..m : f[i] = Accounts!Applied(f[i - 1], p[i])
  BY <1>1, AppliedEachIs
<1>6. PICK g : /\ g = Accounts!AppliedEach(f[m], q) /\ g[0] = f[m]
               /\ \A i \in 1..n : g[i] = Accounts!Applied(g[i - 1], q[i])
  BY <1>2, AppliedEachIs
<1>. DEFINE F == {i \in 0..m : e[i] = f[i]}
            G == {i \in 0..n : e[m + i] = g[i]}
<1>7. e[m] = f[m]
  <2>1. 0 \in F
    BY <1>4, <1>5
  <2>2. ASSUME NEW i \in 0..m - 1, i \in F PROVE i + 1 \in F
    <3>1. i + 1 \in 1..m /\ (i + 1) - 1 = i /\ i + 1 \in 1..m + n /\ i + 1 \in 0..m
      OBVIOUS
    <3>2. e[i + 1] = Accounts!Applied(e[i], p[i + 1])
      BY <1>3, <1>4, <3>1
    <3>3. f[i + 1] = Accounts!Applied(f[i], p[i + 1])
      BY <1>5, <3>1
    <3>. QED  BY <2>2, <3>1, <3>2, <3>3
  <2>3. \A i \in 0..m : i \in F
    <3>. HIDE DEF F
    <3>. QED  BY <2>1, <2>2, UpTo
  <2>. QED  BY <2>3
<1>8. e[m + n] = g[n]
  <2>1. 0 \in G
    BY <1>6, <1>7
  <2>2. ASSUME NEW i \in 0..n - 1, i \in G PROVE i + 1 \in G
    <3>1. /\ i + 1 \in 1..n /\ (i + 1) - 1 = i /\ i + 1 \in 0..n
          /\ m + (i + 1) \in 1..m + n /\ m + (i + 1) - 1 = m + i
      OBVIOUS
    <3>2. e[m + (i + 1)] = Accounts!Applied(e[m + i], q[i + 1])
      <4>1. e[m + (i + 1)] = Accounts!Applied(e[(m + (i + 1)) - 1], pq[m + (i + 1)])
        BY <1>4, <3>1
      <4>2. (m + (i + 1)) - 1 = m + i
        OBVIOUS
      <4>. QED  BY <1>3, <3>1, <4>1, <4>2
    <3>3. g[i + 1] = Accounts!Applied(g[i], q[i + 1])
      BY <1>6, <3>1
    <3>4. e[m + i] = g[i]
      BY <2>2
    <3>5. e[m + (i + 1)] = g[i + 1]
      BY <3>2, <3>3, <3>4
    <3>. QED  BY <3>1, <3>5
  <2>3. \A i \in 0..n : i \in G
    <3>. HIDE DEF G
    <3>. QED  BY <2>1, <2>2, UpTo
  <2>. QED  BY <2>3
<1>. QED  BY <1>0, <1>1, <1>2, <1>3, <1>4, <1>5, <1>6, <1>8 DEF Accounts!ApplyAll

\* Whether a run with z accounts carries a transfer out.
Moves(s, z, tx) ==
    /\ tx.func = "transfer" /\ tx.from < z /\ tx.to < z
    /\ s[tx.from + 1] >= tx.amount

\* A transaction, account by account.
LEMMA AppliedAt ==
    ASSUME NEW z \in Nat, NEW s \in BalancesOf(z), NEW tx \in Accounts!Transactions
    PROVE  \A i \in 1..z : Accounts!Applied(s, tx)[i] =
              IF Moves(s, z, tx)
                THEN s[i] - (IF i = tx.from + 1 THEN tx.amount ELSE 0)
                          + (IF i = tx.to + 1 THEN Accounts!Received(tx) ELSE 0)
                ELSE IF tx.func = "range" /\ i > tx.from /\ i <= tx.from + tx.to
                       THEN tx.amount ELSE s[i]
<1>1. Len(s) = z /\ DOMAIN s = 1..z /\ \A i \in 1..z : s[i] \in Int
  BY DEF BalancesOf
<1>2. /\ tx.amount \in Int /\ tx.from \in Nat /\ tx.to \in Nat
      /\ Accounts!Received(tx) \in Int
  BY ReceivedTyped DEF Accounts!Transactions
<1>3. CASE Moves(s, z, tx)
  <2>1. Accounts!Applied(s, tx) =
          [[s EXCEPT ![tx.from + 1] = @ - tx.amount]
             EXCEPT ![tx.to + 1] = @ + Accounts!Received(tx)]
    BY <1>1, <1>3 DEF Accounts!Applied, Moves
  <2>2. PICK from \in 1..z, to \in 1..z : from = tx.from + 1 /\ to = tx.to + 1
    BY <1>1, <1>2, <1>3 DEF Moves
  <2>3. PICK mid : mid = [s EXCEPT ![from] = @ - tx.amount]
    OBVIOUS
  <2>4. /\ mid \in BalancesOf(z)
        /\ \A i \in 1..z : mid[i] = s[i] - (IF i = from THEN tx.amount ELSE 0)
    <3>. tx.amount \in Int
      BY <1>2
    <3>. QED  BY <1>1, <2>2, <2>3 DEF BalancesOf
  <2>5. Accounts!Applied(s, tx) = [mid EXCEPT ![to] = @ + Accounts!Received(tx)]
    BY <2>1, <2>2, <2>3
  <2>6. \A i \in 1..z : Accounts!Applied(s, tx)[i] =
                           mid[i] + (IF i = to THEN Accounts!Received(tx) ELSE 0)
    <3>1. DOMAIN mid = 1..z /\ \A i \in 1..z : mid[i] \in Int
      BY <2>4 DEF BalancesOf
    <3>2. PICK t : t = [mid EXCEPT ![to] = @ + Accounts!Received(tx)]
      OBVIOUS
    <3>3. ASSUME NEW i \in 1..z
          PROVE  t[i] = mid[i] + (IF i = to THEN Accounts!Received(tx) ELSE 0)
      <4>1. CASE i = to
        BY <3>1, <3>2, <4>1
      <4>2. CASE i # to
        BY <3>1, <3>2, <4>2
      <4>. QED  BY <4>1, <4>2
    <3>. QED  BY <2>5, <3>2, <3>3
  <2>7. ASSUME NEW i \in 1..z
        PROVE  Accounts!Applied(s, tx)[i] =
                 s[i] - (IF i = tx.from + 1 THEN tx.amount ELSE 0)
                      + (IF i = tx.to + 1 THEN Accounts!Received(tx) ELSE 0)
    <3>1. mid[i] = s[i] - (IF i = tx.from + 1 THEN tx.amount ELSE 0)
      BY <2>2, <2>4
    <3>2. Accounts!Applied(s, tx)[i] =
            mid[i] + (IF i = tx.to + 1 THEN Accounts!Received(tx) ELSE 0)
      BY <2>2, <2>6
    <3>. QED  BY <3>1, <3>2
  <2>. QED  BY <1>3, <2>7
<1>4. CASE ~Moves(s, z, tx) /\ tx.func = "range"
  <2>1. Accounts!Applied(s, tx) =
          [i \in DOMAIN s |-> IF i > tx.from /\ i <= tx.from + tx.to THEN tx.amount ELSE s[i]]
    BY <1>1, <1>4 DEF Accounts!Applied, Moves
  <2>. QED  BY <1>1, <1>4, <2>1
<1>5. CASE ~Moves(s, z, tx) /\ tx.func # "range"
  BY <1>1, <1>5 DEF Accounts!Applied, Moves
<1>. QED  BY <1>3, <1>4, <1>5

\* The first z accounts.
Cut(s, z) == [i \in 1..z |-> s[i]]

\* A transaction that is no transfer across account z does to the first z accounts the
\* same in a run that has no others.
LEMMA CutApplied ==
    ASSUME NEW c \in Nat, NEW z \in Nat, z <= c, NEW s \in BalancesOf(c),
           NEW tx \in Accounts!Transactions,
           tx.func = "transfer" => (tx.from < z <=> tx.to < z)
    PROVE  Cut(Accounts!Applied(s, tx), z) = Accounts!Applied(Cut(s, z), tx)
<1>1. PICK t : t = Cut(s, z)
  OBVIOUS
<1>2. t \in BalancesOf(z) /\ \A i \in 1..z : t[i] = s[i] /\ i \in 1..c
  BY <1>1 DEF Cut, BalancesOf
<1>3. /\ tx.amount \in Int /\ tx.from \in Nat /\ tx.to \in Nat
      /\ Accounts!Received(tx) \in Int
  BY ReceivedTyped DEF Accounts!Transactions
<1>4. ASSUME NEW i \in 1..z PROVE Accounts!Applied(s, tx)[i] = Accounts!Applied(t, tx)[i]
  <2>1. Accounts!Applied(s, tx)[i] =
              IF Moves(s, c, tx)
                THEN s[i] - (IF i = tx.from + 1 THEN tx.amount ELSE 0)
                          + (IF i = tx.to + 1 THEN Accounts!Received(tx) ELSE 0)
                ELSE IF tx.func = "range" /\ i > tx.from /\ i <= tx.from + tx.to
                       THEN tx.amount ELSE s[i]
    BY <1>2, AppliedAt
  <2>2. Accounts!Applied(t, tx)[i] =
              IF Moves(t, z, tx)
                THEN t[i] - (IF i = tx.from + 1 THEN tx.amount ELSE 0)
                          + (IF i = tx.to + 1 THEN Accounts!Received(tx) ELSE 0)
                ELSE IF tx.func = "range" /\ i > tx.from /\ i <= tx.from + tx.to
                       THEN tx.amount ELSE t[i]
    BY <1>2, AppliedAt
  <2>3. tx.func # "transfer" => ~Moves(s, c, tx) /\ ~Moves(t, z, tx)
    BY DEF Moves
  <2>4. CASE tx.func = "transfer" /\ tx.from < z /\ tx.to < z
    <3>1. tx.from < c /\ tx.to < c /\ t[tx.from + 1] = s[tx.from + 1]
      BY <1>2, <1>3, <2>4
    <3>2. Moves(s, c, tx) <=> Moves(t, z, tx)
      BY <2>4, <3>1 DEF Moves
    <3>. QED  BY <1>2, <2>1, <2>2, <3>2
  <2>5. CASE tx.func = "transfer" /\ ~(tx.from < z) /\ ~(tx.to < z)
    <3>1. ~Moves(t, z, tx) /\ i # tx.from + 1 /\ i # tx.to + 1 /\ tx.func # "range"
      BY <1>3, <2>5 DEF Moves
    <3>2. s[i] \in Int
      BY <1>2 DEF BalancesOf
    <3>. QED  BY <1>2, <2>1, <2>2, <3>1, <3>2
  <2>. QED  BY <1>2, <2>1, <2>2, <2>3, <2>4, <2>5
<1>5. /\ Accounts!Applied(t, tx) \in BalancesOf(z)
      /\ Accounts!Applied(s, tx) \in BalancesOf(c)
  BY <1>2, AppliedTyped
<1>. QED  BY <1>1, <1>4, <1>5 DEF Cut, BalancesOf

\* And so does the replay of a log without such a transfer.
LEMMA CutApply ==
    ASSUME NEW c \in Nat, NEW z \in Nat, z <= c, NEW s \in BalancesOf(c),
           NEW txs \in Seq(Accounts!Transactions),
           \A i \in 1..Len(txs) :
              txs[i].func = "transfer" => (txs[i].from < z <=> txs[i].to < z)
    PROVE  Cut(Accounts!ApplyAll(s, txs), z) = Accounts!ApplyAll(Cut(s, z), txs)
<1>0. Len(txs) \in Nat /\ \A i \in 1..Len(txs) : txs[i] \in Accounts!Transactions
  OBVIOUS
<1>1. PICK e : /\ e = Accounts!AppliedEach(s, txs) /\ e[0] = s
               /\ \A i \in 1..Len(txs) : e[i] = Accounts!Applied(e[i - 1], txs[i])
  BY <1>0, AppliedEachIs
<1>2. PICK t : t = Cut(s, z)
  OBVIOUS
<1>3. PICK f : /\ f = Accounts!AppliedEach(t, txs) /\ f[0] = t
               /\ \A i \in 1..Len(txs) : f[i] = Accounts!Applied(f[i - 1], txs[i])
  BY <1>0, AppliedEachIs
<1>4. \A i \in 0..Len(txs) : e[i] \in BalancesOf(c)
  BY <1>1, ApplyTyped
<1>. DEFINE H == {i \in 0..Len(txs) : Cut(e[i], z) = f[i]}
<1>5. 0 \in H
  BY <1>0, <1>1, <1>2, <1>3
<1>6. ASSUME NEW i \in 0..Len(txs) - 1, i \in H PROVE i + 1 \in H
  <2>1. i + 1 \in 1..Len(txs) /\ (i + 1) - 1 = i /\ i \in 0..Len(txs) /\ i + 1 \in 0..Len(txs)
    BY <1>0
  <2>2. e[i + 1] = Accounts!Applied(e[i], txs[i + 1])
    BY <1>1, <2>1
  <2>3. f[i + 1] = Accounts!Applied(f[i], txs[i + 1])
    BY <1>3, <2>1
  <2>4. PICK tx, u : tx = txs[i + 1] /\ u = e[i]
    OBVIOUS
  <2>5. /\ tx \in Accounts!Transactions /\ u \in BalancesOf(c)
        /\ tx.func = "transfer" => (tx.from < z <=> tx.to < z)
    BY <1>0, <1>4, <2>1, <2>4
  <2>6. Cut(Accounts!Applied(u, tx), z) = Accounts!Applied(Cut(u, z), tx)
    BY <2>5, CutApplied
  <2>7. Cut(u, z) = f[i]
    BY <1>6, <2>4
  <2>. QED  BY <2>1, <2>2, <2>3, <2>4, <2>6, <2>7
<1>7. \A i \in 0..Len(txs) : i \in H
  <2>. HIDE DEF H
  <2>. QED  BY <1>0, <1>5, <1>6, UpTo
<1>. QED  BY <1>0, <1>1, <1>2, <1>3, <1>7 DEF Accounts!ApplyAll

\* Account i after transactions that are no transfers: as before them, or what the last
\* range set has made of it.
Fixed(i, z, txs, n) ==
    \/ \A s \in BalancesOf(z) : Accounts!AppliedEach(s, txs)[n][i] = s[i]
    \/ \E v : \A s \in BalancesOf(z) : Accounts!AppliedEach(s, txs)[n][i] = v

\* Range sets leave nothing of what they cover, and the rest as it is.
LEMMA RangesFix ==
    ASSUME NEW z \in Nat, NEW txs \in Seq(Accounts!Transactions), NEW i \in 1..z,
           \A n \in 1..Len(txs) : txs[n].func # "transfer"
    PROVE  Fixed(i, z, txs, Len(txs))
<1>0. Len(txs) \in Nat /\ \A n \in 1..Len(txs) : txs[n] \in Accounts!Transactions
  OBVIOUS
<1>. DEFINE H == {n \in 0..Len(txs) : Fixed(i, z, txs, n)}
<1>1. 0 \in H
  <2>1. \A s : Accounts!AppliedEach(s, txs)[0] = s
    BY <1>0, AppliedEachIs
  <2>. QED  BY <1>0, <2>1 DEF Fixed
<1>2. ASSUME NEW n \in 0..Len(txs) - 1, n \in H PROVE n + 1 \in H
  <2>1. n + 1 \in 1..Len(txs) /\ (n + 1) - 1 = n /\ n \in 0..Len(txs) /\ n + 1 \in 0..Len(txs)
    BY <1>0
  <2>2. PICK tx : tx = txs[n + 1]
    OBVIOUS
  <2>3. tx \in Accounts!Transactions /\ tx.func # "transfer"
    BY <1>0, <2>1, <2>2
  <2>4. ASSUME NEW s \in BalancesOf(z)
        PROVE  Accounts!AppliedEach(s, txs)[n + 1][i] =
                  IF tx.func = "range" /\ i > tx.from /\ i <= tx.from + tx.to
                    THEN tx.amount ELSE Accounts!AppliedEach(s, txs)[n][i]
    <3>1. PICK e : /\ e = Accounts!AppliedEach(s, txs) /\ e[0] = s
                   /\ \A k \in 1..Len(txs) : e[k] = Accounts!Applied(e[k - 1], txs[k])
      BY <1>0, AppliedEachIs
    <3>2. e[n + 1] = Accounts!Applied(e[n], tx)
      BY <2>1, <2>2, <3>1
    <3>3. e[n] \in BalancesOf(z)
      BY <2>1, <3>1, ApplyTyped
    <3>4. ~Moves(e[n], z, tx)
      BY <2>3 DEF Moves
    <3>5. Accounts!Applied(e[n], tx)[i] =
            IF tx.func = "range" /\ i > tx.from /\ i <= tx.from + tx.to
              THEN tx.amount ELSE e[n][i]
      BY <2>3, <3>3, <3>4, AppliedAt
    <3>. QED  BY <3>1, <3>2, <3>5
  <2>5. CASE tx.func = "range" /\ i > tx.from /\ i <= tx.from + tx.to
    BY <2>1, <2>4, <2>5 DEF Fixed
  <2>6. CASE ~(tx.func = "range" /\ i > tx.from /\ i <= tx.from + tx.to)
    <3>1. \A s \in BalancesOf(z) : Accounts!AppliedEach(s, txs)[n + 1][i] =
                                      Accounts!AppliedEach(s, txs)[n][i]
      BY <2>4, <2>6
    <3>2. Fixed(i, z, txs, n)
      BY <1>2
    <3>3. Fixed(i, z, txs, n + 1)
      BY <3>1, <3>2 DEF Fixed
    <3>. QED  BY <2>1, <3>3
  <2>. QED  BY <2>5, <2>6
<1>3. \A n \in 0..Len(txs) : n \in H
  <2>. HIDE DEF H
  <2>. QED  BY <1>0, <1>1, <1>2, UpTo
<1>. QED  BY <1>0, <1>3

\* Range sets that are applied twice do what they do once.
LEMMA RangesTwice ==
    ASSUME NEW z \in Nat, NEW s \in BalancesOf(z), NEW txs \in Seq(Accounts!Transactions),
           \A n \in 1..Len(txs) : txs[n].func # "transfer"
    PROVE  Accounts!ApplyAll(Accounts!ApplyAll(s, txs), txs) = Accounts!ApplyAll(s, txs)
<1>1. PICK t : t = Accounts!ApplyAll(s, txs)
  OBVIOUS
<1>2. t \in BalancesOf(z)
  BY <1>1, ApplyTyped
<1>3. PICK u : u = Accounts!ApplyAll(t, txs)
  OBVIOUS
<1>4. u \in BalancesOf(z)
  BY <1>2, <1>3, ApplyTyped
<1>5. ASSUME NEW i \in 1..z PROVE u[i] = t[i]
  <2>1. Fixed(i, z, txs, Len(txs))
    BY RangesFix
  <2>. QED  BY <1>1, <1>2, <1>3, <2>1 DEF Fixed, Accounts!ApplyAll
<1>6. u = t
  BY <1>2, <1>4, <1>5 DEF BalancesOf
<1>. QED  BY <1>1, <1>3, <1>6

-----------------------------------------------------------------------------
\* What a restart recovers.

\* The command lines.
LEMMA AccountSizes ==
    /\ \A z \in Counts : z \in Nat /\ z > 0
    /\ Inputs \subseteq Seq(Accounts!Transactions)
    /\ Nothing \notin Seq(Accounts!Transactions) /\ Nothing \notin Seq(Int)
    /\ Initial \in Nat /\ SnapshotEach \in Nat \ {0}
  BY AccountConstants DEF Accounts!AccountAssumption

\* The snapshot is read account by account.
LEMMA LoadedTyped ==
    ASSUME NEW z \in Nat, snapFile \in Seq(Int) \union {Nothing}
    PROVE  Accounts!Loaded(z) \in BalancesOf(z)
<1>1. ASSUME NEW i \in 1..z
      PROVE  (IF snapFile = Nothing THEN Initial
              ELSE IF i \in DOMAIN snapFile THEN snapFile[i] ELSE 0) \in Int
  <2>1. CASE snapFile = Nothing
    BY <2>1, AccountSizes
  <2>2. CASE snapFile # Nothing
    BY <2>2
  <2>. QED  BY <2>1, <2>2
<1>. QED  BY <1>1 DEF Accounts!Loaded, BalancesOf

\* The log, if there is one.
LEMMA LogTyped ==
    walFile \in Seq(Accounts!Transactions) \union {Nothing} =>
        Log \in Seq(Accounts!Transactions)
  BY DEF Log, Accounts!WalContents

\* A log of range sets may have led to the snapshot already.
LEMMA RepeatsHarmless ==
    ASSUME NEW z \in Nat, NEW s, NEW cur, NEW before \in BalancesOf(z),
           NEW first \in Seq(Accounts!Transactions), NEW rest \in Seq(Accounts!Transactions),
           s = Accounts!ApplyAll(before, first), Accounts!ApplyAll(s, rest) = cur,
           \A i \in 1..Len(first \o rest) : (first \o rest)[i].func # "transfer"
    PROVE  Accounts!ApplyAll(s, first \o rest) = cur
<1>1. ASSUME NEW i \in 1..Len(first) PROVE first[i].func # "transfer"
  <2>1. i \in 1..Len(first \o rest) /\ (first \o rest)[i] = first[i]
    OBVIOUS
  <2>. QED  BY <2>1
<1>2. Accounts!ApplyAll(s, first) = s
  BY <1>1, RangesTwice
<1>. QED  BY <1>2, ApplyJoin

\* The invariant says what a restart recovers.
LEMMA AccountsRecover == AccountInv => RecoversPrefix
<1>. SUFFICES ASSUME AccountInv, up = "run", Accounts!Unharmed,
                     NEW z \in Counts, z <= count, z < count => ~Accounts!Crosses(z)
              PROVE  Accounts!Recovered(z) \in {SubSeq(safe, 1, z), SubSeq(newest, 1, z)}
  BY DEF RecoversPrefix, Accounts!RecoversPrefix
<1>1. z \in Nat /\ count \in Nat
  BY AccountSizes DEF AccountInv, AccountTypes
<1>2. PICK q : q = Log
  OBVIOUS
<1>3. q \in Seq(Accounts!Transactions) /\ q = Accounts!WalContents
  BY <1>2, LogTyped DEF AccountInv, AccountTypes, Log
<1>4. PICK s : s = Accounts!Loaded(count)
  OBVIOUS
<1>5. s \in BalancesOf(count)
  BY <1>1, <1>4, LoadedTyped DEF AccountInv, AccountTypes
<1>6. whole /\ orphanBatch <= inSnapshot /\ (repeats => Accounts!Transfers = {})
  BY DEF Accounts!Unharmed
<1>7. Accounts!ApplyAll(s, q) = Current
  <2>1. CASE ~repeats
    BY <1>2, <1>4, <1>6, <2>1 DEF AccountInv, FileFits
  <2>2. CASE repeats
    <3>1. OnTheWay(s)
      BY <1>4, <1>6, <2>2 DEF AccountInv, FileFits
    <3>2. PICK before \in BalancesOf(count), first \in Seq(Accounts!Transactions),
               rest \in Seq(Accounts!Transactions) :
             /\ q = first \o rest
             /\ s = Accounts!ApplyAll(before, first)
             /\ Accounts!ApplyAll(s, rest) = Current
      BY <1>2, <3>1 DEF OnTheWay, WayOn
    <3>3. \A i \in 1..Len(q) : q[i].func # "transfer"
      BY <1>3, <1>6, <2>2 DEF Accounts!Transfers
    <3>. QED  BY <1>1, <3>2, <3>3, RepeatsHarmless
  <2>. QED  BY <2>1, <2>2
<1>8. Accounts!Loaded(z) = Cut(s, z)
  <2>1. \A i \in 1..z : i \in 1..count
    BY <1>1
  <2>. QED  BY <1>4, <2>1 DEF Accounts!Loaded, Cut
<1>9. Accounts!Recovered(z) = Cut(Current, z)
  <2>1. Accounts!Recovered(z) = Accounts!ApplyAll(Cut(s, z), q)
    BY <1>3, <1>8 DEF Accounts!Recovered
  <2>2. CASE z = count
    <3>1. Cut(s, z) = s
      BY <1>5, <2>2 DEF Cut, BalancesOf
    <3>2. Current \in BalancesOf(count)
      BY DEF AccountInv, AccountTypes, Current
    <3>3. Cut(Current, z) = Current
      BY <2>2, <3>2 DEF Cut, BalancesOf
    <3>. QED  BY <1>7, <2>1, <3>1, <3>3
  <2>3. CASE z < count
    <3>1. \A i \in 1..Len(q) : q[i].func = "transfer" => (q[i].from < z <=> q[i].to < z)
      <4>1. ~Accounts!Crosses(z) /\ DOMAIN q = 1..Len(q)
        BY <1>3, <2>3
      <4>2. ASSUME NEW i \in 1..Len(q), q[i].func = "transfer"
            PROVE  (q[i].from < z) = (q[i].to < z)
        BY <1>3, <4>1, <4>2 DEF Accounts!Crosses, Accounts!Transfers
      <4>. QED  BY <4>2
    <3>2. Cut(Accounts!ApplyAll(s, q), z) = Accounts!ApplyAll(Cut(s, z), q)
      BY <1>1, <1>3, <1>5, <2>3, <3>1, CutApply
    <3>. QED  BY <1>7, <2>1, <3>2
  <2>. QED  BY <1>1, <2>2, <2>3
<1>10. \A t \in BalancesOf(count) : Cut(t, z) = SubSeq(t, 1, z)
  <2>1. ASSUME NEW t \in BalancesOf(count) PROVE Cut(t, z) = SubSeq(t, 1, z)
    <3>1. t \in Seq(Int) /\ Len(t) = count
      BY <1>1 DEF BalancesOf
    <3>2. /\ SubSeq(t, 1, z) \in Seq(Int) /\ Len(SubSeq(t, 1, z)) = z
          /\ \A i \in 1..z : SubSeq(t, 1, z)[i] = t[i]
      BY <1>1, <3>1
    <3>. QED  BY <1>1, <3>2 DEF Cut
  <2>. QED  BY <2>1
<1>11. /\ safe \in BalancesOf(count) /\ newest \in BalancesOf(count)
       /\ Current \in {safe, newest}
  BY DEF AccountInv, AccountTypes, Current
<1>. QED  BY <1>9, <1>10, <1>11

\* A log that goes on by a batch, or has gone all the way already.
LEMMA WayExtends ==
    ASSUME NEW z \in Nat, NEW s, NEW txs, NEW cur, NEW b \in Seq(Accounts!Transactions),
           WayOn(s, z, txs, cur)
    PROVE  WayOn(s, z, txs \o b, Accounts!ApplyAll(cur, b))
<1>1. PICK before \in BalancesOf(z), first \in Seq(Accounts!Transactions),
           rest \in Seq(Accounts!Transactions) :
             /\ txs = first \o rest
             /\ s = Accounts!ApplyAll(before, first)
             /\ Accounts!ApplyAll(s, rest) = cur
  BY DEF WayOn
<1>2. PICK more : more = rest \o b
  OBVIOUS
<1>3. more \in Seq(Accounts!Transactions) /\ txs \o b = first \o more
  BY <1>1, <1>2
<1>4. Accounts!ApplyAll(s, more) = Accounts!ApplyAll(cur, b)
  BY <1>1, <1>2, ApplyJoin
<1>. QED  BY <1>1, <1>3, <1>4 DEF WayOn

\* The end of the way.
LEMMA WayEnds ==
    ASSUME NEW z \in Nat, NEW txs \in Seq(Accounts!Transactions), NEW cur,
           Leads(z, txs, cur)
    PROVE  WayOn(cur, z, txs, cur)
<1>1. PICK before \in BalancesOf(z) : Accounts!ApplyAll(before, txs) = cur
  BY DEF Leads
<1>2. <<>> \in Seq(Accounts!Transactions) /\ txs = txs \o <<>>
  OBVIOUS
<1>3. Accounts!ApplyAll(cur, <<>>) = cur
  BY ApplyNone
<1>. QED  BY <1>1, <1>2, <1>3 DEF WayOn

\* An empty log leads nowhere else.
LEMMA EmptyWay ==
    ASSUME NEW z, NEW s, NEW cur, WayOn(s, z, <<>>, cur)
    PROVE  s = cur
<1>1. PICK before \in BalancesOf(z), first \in Seq(Accounts!Transactions),
           rest \in Seq(Accounts!Transactions) :
             /\ <<>> = first \o rest
             /\ Accounts!ApplyAll(s, rest) = cur
  BY DEF WayOn
<1>2. rest = <<>>
  <2>1. Len(first \o rest) = Len(first) + Len(rest)
    OBVIOUS
  <2>2. Len(<<>>) = 0 /\ Len(first) \in Nat /\ Len(rest) \in Nat
    OBVIOUS
  <2>3. PICK both : both = first \o rest
    OBVIOUS
  <2>4. Len(both) = 0
    BY <1>1, <2>2, <2>3
  <2>5. Len(rest) = 0
    BY <2>1, <2>2, <2>3, <2>4
  <2>. QED  BY <2>5
<1>. QED  BY <1>1, <1>2, ApplyNone

\* Any balances and the empty log.
LEMMA LeadsNowhere ==
    ASSUME NEW z, NEW cur \in BalancesOf(z)
    PROVE  Leads(z, <<>>, cur)
  BY ApplyNone DEF Leads

\* And one more batch.
LEMMA LeadsOn ==
    ASSUME NEW z, NEW txs \in Seq(Accounts!Transactions), NEW cur,
           NEW b \in Seq(Accounts!Transactions), Leads(z, txs, cur)
    PROVE  Leads(z, txs \o b, Accounts!ApplyAll(cur, b))
<1>1. PICK before \in BalancesOf(z) : Accounts!ApplyAll(before, txs) = cur
  BY DEF Leads
<1>2. Accounts!ApplyAll(before, txs \o b) = Accounts!ApplyAll(cur, b)
  BY <1>1, ApplyJoin
<1>. QED  BY <1>1, <1>2 DEF Leads

-----------------------------------------------------------------------------
\* The steps of the program, one by one.

\* Nothing runs at first.
LEMMA AccountInitInv == Accounts!AccountInit => AccountInv
<1>. SUFFICES ASSUME Accounts!AccountInit PROVE AccountInv
  OBVIOUS
<1>1. up = "down" /\ up # "run"
  BY DEF Accounts!AccountInit
<1>2. AccountTypes
  <2>1. <<>> \in Seq(Accounts!Transactions)
    OBVIOUS
  <2>. QED  BY <1>1, <2>1 DEF Accounts!AccountInit, AccountTypes
<1>. QED
  BY <1>1, <1>2
  DEF AccountInv, MainPlace, BatchesAppended, TaskHeld, LogLeads, TaskFits, FileFits

\* When the program is gone, nothing has to be said but what kind of files it leaves.
LEMMA GoneKeeps == AccountInv /\ Accounts!Gone => AccountInv'
<1>. SUFFICES ASSUME AccountInv, Accounts!Gone PROVE AccountInv'
  OBVIOUS
<1>1. up' = "down" /\ up' # "run"
  BY DEF Accounts!Gone
<1>2. AccountTypes'
  BY <1>1 DEF Accounts!Gone, Accounts!marks, AccountInv, AccountTypes
<1>. QED
  BY <1>1, <1>2
  DEF AccountInv, MainPlace, BatchesAppended, TaskHeld, LogLeads, TaskFits, FileFits

\* A run begins with what it has recovered.
LEMMA StartKeeps == AccountInv /\ Accounts!Start => AccountInv'
<1>. SUFFICES ASSUME AccountInv, Accounts!Start PROVE AccountInv'
  OBVIOUS
<1>0. /\ up = "down" /\ thread = "idle" /\ at = "apply" /\ up # "run"
      /\ thread' = thread /\ at' = at /\ batch' = batch /\ snapFile' = snapFile
  BY DEF Accounts!Start, AccountInv, AccountTypes
<1>1. CASE UNCHANGED <<up, count, counts, balances, safe, newest, walFile, handle,
                       Accounts!marks>>
  <2>1. up' # "run"
    BY <1>0, <1>1
  <2>2. AccountTypes'
    BY <1>0, <1>1 DEF Accounts!marks, AccountInv, AccountTypes
  <2>. QED
    BY <2>1, <2>2
    DEF AccountInv, MainPlace, BatchesAppended, TaskHeld, LogLeads, TaskFits, FileFits
<1>2. CASE ~UNCHANGED <<up, count, counts, balances, safe, newest, walFile, handle,
                        Accounts!marks>>
  <2>1. PICK z \in Counts :
          /\ up' = "run" /\ count' = z
          /\ balances' = Accounts!Recovered(z) /\ safe' = balances' /\ newest' = balances'
          /\ walFile' = Accounts!WalContents /\ handle' = "linked"
          /\ applied' = 0 /\ inLog' = 0 /\ orphanBatch' = 0 /\ inSnapshot' = 0
          /\ whole' = TRUE /\ repeats' = FALSE
    BY <1>2 DEF Accounts!Start
  <2>2. PICK q \in Seq(Accounts!Transactions) : q = Log
    BY LogTyped DEF AccountInv, AccountTypes
  <2>3. walFile' = q /\ Log' = q /\ q # Nothing
    BY <2>1, <2>2, AccountSizes DEF Log, Accounts!WalContents
  <2>4. PICK s : s = Accounts!Loaded(z)
    OBVIOUS
  <2>5. z \in Nat /\ s \in BalancesOf(z)
    BY <2>4, AccountSizes, LoadedTyped DEF AccountInv, AccountTypes
  <2>6. Accounts!Loaded(z)' = s
    BY <1>0, <2>4 DEF Accounts!Loaded
  <2>7. balances' = Accounts!ApplyAll(s, q)
    BY <2>1, <2>2, <2>4 DEF Accounts!Recovered, Log
  <2>8. balances' \in BalancesOf(z)
    BY <2>5, <2>7, ApplyTyped
  <2>9. Current' = balances' /\ CurrentNumber' = 0
    BY <1>0, <2>1 DEF Current, CurrentNumber
  <2>10. AccountTypes'
    BY <1>0, <2>1, <2>3, <2>5, <2>8 DEF AccountInv, AccountTypes
  <2>11. MainPlace' /\ BatchesAppended'
    BY <1>0, <2>1, <2>3, <2>9 DEF MainPlace, BatchesAppended
  <2>12. TaskHeld' /\ TaskFits'
    BY <1>0 DEF TaskHeld, TaskFits
  <2>13. LogLeads'
    BY <2>1, <2>3, <2>5, <2>7, <2>9 DEF LogLeads, Leads
  <2>14. FileFits'
    <3>1. Accounts!Loaded(count)' = s
      BY <1>0, <2>1, <2>4 DEF Accounts!Loaded
    <3>. QED  BY <2>1, <2>3, <2>7, <2>9, <3>1 DEF FileFits
  <2>. QED  BY <2>10, <2>11, <2>12, <2>13, <2>14 DEF AccountInv
<1>. QED  BY <1>1, <1>2

\* The next batch.
LEMMA ReadKeeps == AccountInv /\ Accounts!ReadAndApply => AccountInv'
<1>. SUFFICES ASSUME AccountInv, Accounts!ReadAndApply PROVE AccountInv'
  OBVIOUS
<1>1. PICK txs \in Inputs : batch' = txs /\ balances' = Accounts!ApplyAll(balances, txs)
  BY DEF Accounts!ReadAndApply
<1>2. /\ up = "run" /\ up' = "run" /\ at = "apply" /\ at' = "append"
      /\ newest' = balances' /\ applied' = applied + 1
      /\ UNCHANGED <<thread, count, task, busy, walFile, handle, snapFile, safe, inLog,
                     orphanBatch, inSnapshot, whole, repeats>>
  BY DEF Accounts!ReadAndApply
<1>3. txs \in Seq(Accounts!Transactions) /\ count \in Nat
  BY AccountSizes DEF AccountInv, AccountTypes
<1>4. balances = newest /\ safe = newest /\ balances \in BalancesOf(count)
  BY <1>2 DEF AccountInv, MainPlace, AccountTypes
<1>5. balances' \in BalancesOf(count)
  BY <1>1, <1>3, <1>4, ApplyTyped
<1>6. Current' = Current /\ CurrentNumber' = CurrentNumber /\ Log' = Log
  BY <1>2, <1>4 DEF Current, CurrentNumber, Log, Accounts!WalContents, AccountInv, AccountTypes
<1>7. AccountTypes'
  BY <1>1, <1>2, <1>3, <1>5 DEF AccountInv, AccountTypes
<1>8. MainPlace'
  BY <1>1, <1>2, <1>4 DEF AccountInv, AccountTypes, MainPlace
<1>9. BatchesAppended' /\ TaskHeld'
  BY <1>2, <1>6 DEF AccountInv, BatchesAppended, TaskHeld
<1>10. LogLeads' /\ TaskFits'
  BY <1>2, <1>6 DEF AccountInv, LogLeads, TaskFits, OnTheWay
<1>11. FileFits'
  <2>1. Accounts!Loaded(count)' = Accounts!Loaded(count)
    BY <1>2 DEF Accounts!Loaded
  <2>. QED  BY <1>2, <1>6, <2>1 DEF AccountInv, FileFits, OnTheWay
<1>. QED  BY <1>7, <1>8, <1>9, <1>10, <1>11 DEF AccountInv

\* A batch that goes to the log makes it lead to the balances after the batch; one that
\* goes to a removed file is behind neither snapshot.
LEMMA AppendKeeps == AccountInv /\ Accounts!AppendToLog => AccountInv'
<1>. SUFFICES ASSUME AccountInv, Accounts!AppendToLog PROVE AccountInv'
  OBVIOUS
<1>1. /\ up = "run" /\ up' = "run" /\ at = "append" /\ at' = "fsync"
      /\ UNCHANGED <<thread, count, balances, batch, task, busy, handle, snapFile,
                     safe, newest, applied, inSnapshot, whole, repeats>>
  BY DEF Accounts!AppendToLog
<1>2. /\ newest = Accounts!ApplyAll(safe, batch) /\ balances = newest
      /\ batch \in Seq(Accounts!Transactions) /\ count \in Nat
      /\ applied \in Nat /\ applied > 0 /\ handle \in {"linked", "removed"}
  BY <1>1 DEF AccountInv, MainPlace, AccountTypes
<1>3. /\ Current = safe /\ Current' = newest /\ newest \in BalancesOf(count)
      /\ CurrentNumber = applied - 1 /\ CurrentNumber' = applied
  BY <1>1 DEF Current, CurrentNumber, AccountInv, AccountTypes
<1>4. PICK q \in Seq(Accounts!Transactions) : q = Log
  BY LogTyped DEF AccountInv, AccountTypes
<1>5. Accounts!Loaded(count)' = Accounts!Loaded(count)
  BY <1>1 DEF Accounts!Loaded
<1>6. inSnapshot <= applied - 1 /\ inLog <= applied - 1 /\ orphanBatch <= applied - 1
  BY <1>1, <1>3 DEF AccountInv, BatchesAppended
<1>7. /\ inLog \in Nat /\ orphanBatch \in Nat /\ inSnapshot \in Nat
  BY DEF AccountInv, AccountTypes
<1>8. thread \in {"open", "write", "remove"} => task.last \in Nat /\ task.last <= applied - 1
  BY <1>1, <1>3 DEF AccountInv, TaskHeld
<1>9. TaskHeld'
  BY <1>1, <1>2, <1>3, <1>8 DEF AccountInv, TaskHeld
<1>10. CASE handle = "linked"
  <2>1. /\ walFile' = walFile \o batch /\ inLog' = applied /\ orphanBatch' = orphanBatch
        /\ walFile = q
    BY <1>1, <1>4, <1>10
    DEF Accounts!AppendToLog, AccountInv, MainPlace, Log, Accounts!WalContents
  <2>2. PICK p \in Seq(Accounts!Transactions) : p = q \o batch
    <3>1. PICK b \in Seq(Accounts!Transactions) : b = batch
      BY <1>2
    <3>2. q \o b \in Seq(Accounts!Transactions)
      OBVIOUS
    <3>. QED  BY <3>1, <3>2
  <2>3. walFile' = p /\ p # Nothing /\ Log' = p
    BY <2>1, <2>2, AccountSizes DEF Log, Accounts!WalContents
  <2>4. AccountTypes'
    BY <1>1, <1>2, <2>1, <2>3 DEF AccountInv, AccountTypes
  <2>5. MainPlace'
    BY <1>1, <1>2, <1>10, <2>3 DEF MainPlace
  <2>6. BatchesAppended'
    BY <1>1, <1>2, <1>3, <1>6, <1>7, <2>1 DEF BatchesAppended
  <2>7. LogLeads'
    <3>1. Leads(count, q, safe)
      BY <1>1, <1>3, <1>4 DEF AccountInv, LogLeads
    <3>2. Leads(count, p, newest)
      BY <1>2, <2>2, <3>1, LeadsOn
    <3>. QED  BY <1>1, <1>3, <2>3, <3>2 DEF LogLeads
  <2>8. ASSUME NEW s, OnTheWay(s) PROVE WayOn(s, count, p, newest)
    <3>1. WayOn(s, count, q, safe)
      BY <1>3, <1>4, <2>8 DEF OnTheWay
    <3>. QED  BY <1>2, <2>2, <3>1, WayExtends
  <2>9. TaskFits'
    <3>. SUFFICES ASSUME thread \in {"open", "write"}, orphanBatch <= task.last
                  PROVE  WayOn(task.balances, count, p, newest)
      BY <1>1, <1>3, <2>1, <2>3 DEF TaskFits, OnTheWay
    <3>. QED  BY <1>1, <2>8 DEF AccountInv, TaskFits
  <2>10. FileFits'
    <3>. SUFFICES ASSUME whole, orphanBatch <= inSnapshot
                  PROVE  IF repeats THEN WayOn(Accounts!Loaded(count), count, p, newest)
                         ELSE Accounts!ApplyAll(Accounts!Loaded(count), p) = newest
      BY <1>1, <1>3, <1>5, <2>1, <2>3 DEF FileFits, OnTheWay
    <3>1. CASE repeats
      BY <1>1, <2>8, <3>1 DEF AccountInv, FileFits
    <3>2. CASE ~repeats
      <4>1. Accounts!ApplyAll(Accounts!Loaded(count), q) = safe
        BY <1>1, <1>3, <1>4, <3>2 DEF AccountInv, FileFits
      <4>2. PICK s : s = Accounts!Loaded(count)
        OBVIOUS
      <4>. QED  BY <1>2, <2>2, <3>2, <4>1, <4>2, ApplyJoin
    <3>. QED  BY <3>1, <3>2
  <2>. QED  BY <1>9, <2>4, <2>5, <2>6, <2>7, <2>9, <2>10 DEF AccountInv
<1>11. CASE handle = "removed"
  <2>1. /\ orphanBatch' = applied /\ walFile' = walFile /\ inLog' = inLog
        /\ walFile = Nothing /\ Log = <<>> /\ Log' = <<>>
    BY <1>1, <1>11
    DEF Accounts!AppendToLog, AccountInv, MainPlace, Log, Accounts!WalContents
  <2>2. AccountTypes'
    BY <1>1, <1>2, <2>1 DEF AccountInv, AccountTypes
  <2>3. MainPlace'
    BY <1>1, <1>2, <1>11, <2>1 DEF MainPlace
  <2>4. BatchesAppended'
    BY <1>1, <1>2, <1>3, <1>6, <1>7, <2>1 DEF BatchesAppended
  <2>5. LogLeads'
    <3>1. Leads(count, <<>>, newest)
      BY <1>3, LeadsNowhere
    <3>. QED  BY <1>1, <1>3, <2>1, <3>1 DEF LogLeads
  <2>6. TaskFits'
    BY <1>1, <1>2, <1>8, <2>1 DEF TaskFits
  <2>7. FileFits'
    BY <1>1, <1>2, <1>6, <1>7, <2>1 DEF FileFits
  <2>. QED  BY <1>9, <2>2, <2>3, <2>4, <2>5, <2>6, <2>7 DEF AccountInv
<1>. QED  BY <1>2, <1>10, <1>11

\* The files and their numbers are as they were, and so is what must be recovered.
LEMMA FilesSame ==
    ASSUME AccountInv, up = "run", up' = "run",
           Current' = Current, CurrentNumber' = CurrentNumber, Log' = Log,
           UNCHANGED <<count, snapFile, inLog, orphanBatch, inSnapshot, whole, repeats>>
    PROVE  BatchesAppended' /\ LogLeads' /\ FileFits'
<1>1. BatchesAppended' /\ LogLeads'
  BY DEF AccountInv, BatchesAppended, LogLeads
<1>2. Accounts!Loaded(count)' = Accounts!Loaded(count)
  BY DEF Accounts!Loaded
<1>3. FileFits'
  BY <1>2 DEF AccountInv, FileFits, OnTheWay
<1>. QED  BY <1>1, <1>3

\* The snapshot thread is where it was.
LEMMA TaskSame ==
    ASSUME AccountInv, up = "run", up' = "run",
           Current' = Current, CurrentNumber' = CurrentNumber, Log' = Log,
           UNCHANGED <<count, snapFile, orphanBatch, inSnapshot, whole, thread, task, busy>>
    PROVE  TaskHeld' /\ TaskFits'
  BY DEF AccountInv, TaskHeld, TaskFits, OnTheWay

\* Closing, syncing and opening the log again.
LEMMA MainKeeps ==
    AccountInv /\ (Accounts!FsyncLog \/ Accounts!CloseLog \/ Accounts!ReopenLog) => AccountInv'
<1>. SUFFICES ASSUME AccountInv, Accounts!FsyncLog \/ Accounts!CloseLog \/ Accounts!ReopenLog
              PROVE  AccountInv'
  OBVIOUS
<1>1. /\ up = "run" /\ up' = "run" /\ at # "append" /\ at' # "append"
      /\ UNCHANGED <<count, balances, batch, task, busy, thread, snapFile, newest, applied,
                     inLog, orphanBatch, inSnapshot, whole, repeats>>
  BY DEF Accounts!FsyncLog, Accounts!CloseLog, Accounts!ReopenLog, Accounts!marks
<1>2. walFile' = walFile \/ walFile' = Accounts!WalContents
  BY DEF Accounts!FsyncLog, Accounts!CloseLog, Accounts!ReopenLog
<1>3. Accounts!WalContents \in Seq(Accounts!Transactions)
  BY LogTyped DEF AccountInv, AccountTypes, Log
<1>4. Log' = Log
  BY <1>2, <1>3, AccountSizes DEF Log, Accounts!WalContents
<1>5. Current' = Current /\ CurrentNumber' = CurrentNumber
  BY <1>1 DEF Current, CurrentNumber
<1>6. safe' = safe \/ safe' = newest
  BY DEF Accounts!FsyncLog, Accounts!CloseLog, Accounts!ReopenLog
<1>7. AccountTypes'
  <2>1. at' \in {"apply", "append", "fsync", "close", "create", "reopen"}
    BY DEF Accounts!FsyncLog, Accounts!CloseLog, Accounts!ReopenLog
  <2>. QED  BY <1>1, <1>2, <1>3, <1>6, <2>1 DEF AccountInv, AccountTypes
<1>8. MainPlace'
  <2>1. CASE Accounts!FsyncLog
    BY <1>1, <2>1 DEF Accounts!FsyncLog, AccountInv, MainPlace
  <2>2. CASE Accounts!CloseLog
    BY <1>1, <2>2 DEF Accounts!CloseLog, AccountInv, MainPlace
  <2>3. CASE Accounts!ReopenLog
    BY <1>1, <1>3, <2>3, AccountSizes DEF Accounts!ReopenLog, AccountInv, MainPlace
  <2>. QED  BY <2>1, <2>2, <2>3
<1>9. BatchesAppended' /\ LogLeads' /\ FileFits'
  BY <1>1, <1>4, <1>5, FilesSame
<1>10. TaskHeld' /\ TaskFits'
  BY <1>1, <1>4, <1>5, TaskSame
<1>. QED  BY <1>7, <1>8, <1>9, <1>10 DEF AccountInv

\* A snapshot is started with the current balances, where the log has led.
LEMMA SnapshotStarts == AccountInv /\ Accounts!StartSnapshot => AccountInv'
<1>. SUFFICES ASSUME AccountInv, Accounts!StartSnapshot PROVE AccountInv'
  OBVIOUS
<1>1. /\ up = "run" /\ up' = "run" /\ at = "create" /\ at' = "reopen"
      /\ busy => thread = "idle"
      /\ UNCHANGED <<count, balances, batch, walFile, handle, snapFile, safe, newest, applied,
                     inLog, orphanBatch, inSnapshot, whole, repeats>>
  BY DEF Accounts!StartSnapshot, Accounts!marks
<1>2. /\ Log' = Log /\ Current' = Current /\ CurrentNumber' = CurrentNumber
      /\ Current = newest /\ CurrentNumber = applied
  BY <1>1 DEF Log, Accounts!WalContents, Current, CurrentNumber
<1>3. thread \notin {"open", "write", "remove"}
  BY <1>1 DEF AccountInv, TaskHeld
<1>4. /\ balances = newest /\ balances \in BalancesOf(count) /\ applied \in Nat
      /\ count \in Nat
  BY <1>1 DEF AccountInv, MainPlace, AccountTypes
<1>5. \/ /\ task' = [balances |-> balances, last |-> applied] /\ busy' = TRUE
         /\ thread' = "open"
      \/ task' = task /\ thread' = thread
  BY DEF Accounts!StartSnapshot
<1>6. AccountTypes'
  BY <1>1, <1>5 DEF AccountInv, AccountTypes
<1>7. MainPlace'
  BY <1>1 DEF AccountInv, MainPlace
<1>8. BatchesAppended' /\ LogLeads' /\ FileFits'
  BY <1>1, <1>2, FilesSame
<1>9. TaskHeld'
  BY <1>1, <1>2, <1>3, <1>4, <1>5 DEF TaskHeld
<1>10. TaskFits'
  <2>1. CASE thread' \notin {"open", "write"}
    BY <2>1 DEF TaskFits
  <2>2. CASE thread' \in {"open", "write"}
    <3>1. task'.balances = newest
      BY <1>3, <1>4, <1>5, <2>2
    <3>2. Leads(count, Log, newest) /\ Log \in Seq(Accounts!Transactions)
      BY <1>1, <1>2, LogTyped DEF AccountInv, LogLeads, AccountTypes
    <3>3. WayOn(newest, count, Log, newest)
      BY <1>4, <3>2, WayEnds
    <3>. QED  BY <1>1, <1>2, <3>1, <3>3 DEF TaskFits, OnTheWay
  <2>. QED  BY <2>1, <2>2
<1>. QED  BY <1>6, <1>7, <1>8, <1>9, <1>10 DEF AccountInv

\* The old snapshot is truncated.
LEMMA SnapshotOpened == AccountInv /\ Accounts!OpenSnapshot => AccountInv'
<1>. SUFFICES ASSUME AccountInv, Accounts!OpenSnapshot PROVE AccountInv'
  OBVIOUS
<1>1. /\ up = "run" /\ up' = "run" /\ thread = "open"
      /\ UNCHANGED <<at, count, balances, batch, task, busy, walFile, handle, safe, newest,
                     applied, inLog, orphanBatch, inSnapshot, repeats>>
  BY DEF Accounts!OpenSnapshot
<1>2. Log' = Log /\ Current' = Current /\ CurrentNumber' = CurrentNumber
  BY <1>1 DEF Log, Accounts!WalContents, Current, CurrentNumber
<1>3. CASE thread' = "idle" /\ UNCHANGED <<snapFile, whole>>
  <2>1. AccountTypes' /\ MainPlace'
    BY <1>1, <1>3 DEF AccountInv, AccountTypes, MainPlace
  <2>2. BatchesAppended' /\ LogLeads' /\ FileFits'
    BY <1>1, <1>2, <1>3, FilesSame
  <2>3. TaskHeld' /\ TaskFits'
    BY <1>3 DEF TaskHeld, TaskFits
  <2>. QED  BY <2>1, <2>2, <2>3 DEF AccountInv
<1>4. CASE thread' = "write" /\ snapFile' = <<>> /\ whole' = FALSE
  <2>1. <<>> \in Seq(Int) /\ Len(<<>>) = 0 /\ count \in Nat /\ count > 0 /\ <<>> # Nothing
    <3>1. <<>> \in Seq(Int) /\ Len(<<>>) = 0
      OBVIOUS
    <3>2. count \in Nat /\ count > 0
      BY <1>1, AccountSizes DEF AccountInv, AccountTypes
    <3>. QED  BY <3>1, <3>2, AccountSizes
  <2>2. AccountTypes' /\ MainPlace'
    BY <1>1, <1>4, <2>1 DEF AccountInv, AccountTypes, MainPlace
  <2>3. BatchesAppended' /\ LogLeads' /\ FileFits'
    BY <1>1, <1>2, <1>4 DEF AccountInv, BatchesAppended, LogLeads, FileFits
  <2>4. TaskHeld' /\ TaskFits'
    BY <1>1, <1>2, <1>4, <2>1 DEF AccountInv, TaskHeld, TaskFits, OnTheWay
  <2>. QED  BY <2>2, <2>3, <2>4 DEF AccountInv
<1>. QED  BY <1>3, <1>4 DEF Accounts!OpenSnapshot

\* One account more; with the last one the file holds the balances of the task.
LEMMA AccountWritten == AccountInv /\ Accounts!WriteAccount => AccountInv'
<1>. SUFFICES ASSUME AccountInv, Accounts!WriteAccount PROVE AccountInv'
  OBVIOUS
<1>1. /\ up = "run" /\ up' = "run" /\ thread = "write"
      /\ UNCHANGED <<at, count, balances, batch, task, busy, walFile, handle, safe, newest,
                     applied, inLog, orphanBatch>>
  BY DEF Accounts!WriteAccount
<1>2. Log' = Log /\ Current' = Current /\ CurrentNumber' = CurrentNumber
  BY <1>1 DEF Log, Accounts!WalContents, Current, CurrentNumber
<1>3. PICK file \in Seq(Int) : file = snapFile
  BY <1>1 DEF AccountInv, AccountTypes, TaskHeld
<1>4. PICK held : held = task.balances
  OBVIOUS
<1>5. /\ held \in BalancesOf(count) /\ ~whole /\ Len(file) < count /\ busy
      /\ \A i \in 1..Len(file) : file[i] = held[i]
      /\ count \in Nat /\ count > 0 /\ task.last \in Nat /\ task.last <= CurrentNumber
      /\ task.last = CurrentNumber => task.balances = Current
  BY <1>1, <1>3, <1>4, AccountSizes DEF AccountInv, AccountTypes, TaskHeld
<1>6. CASE thread' = "remove" /\ UNCHANGED <<snapFile, whole, inSnapshot, repeats>>
  <2>1. AccountTypes' /\ MainPlace'
    BY <1>1, <1>6 DEF AccountInv, AccountTypes, MainPlace
  <2>2. BatchesAppended' /\ LogLeads' /\ FileFits'
    BY <1>1, <1>2, <1>6, FilesSame
  <2>3. TaskHeld' /\ TaskFits'
    BY <1>1, <1>2, <1>5, <1>6 DEF AccountInv, TaskHeld, TaskFits
  <2>. QED  BY <2>1, <2>2, <2>3 DEF AccountInv
<1>7. CASE snapFile' = Append(snapFile, task.balances[Len(snapFile) + 1])
           /\ whole' = (Len(snapFile') = count)
           /\ IF whole' THEN thread' = "remove" /\ inSnapshot' = task.last /\ repeats' = TRUE
                        ELSE UNCHANGED <<thread, inSnapshot, repeats>>
  <2>1. PICK longer : longer = Append(file, held[Len(file) + 1])
    OBVIOUS
  <2>2. /\ longer \in Seq(Int) /\ Len(longer) = Len(file) + 1 /\ Len(file) \in Nat
        /\ \A i \in 1..Len(longer) : longer[i] = held[i]
    <3>1. Len(file) + 1 \in 1..count /\ Len(file) \in Nat
      BY <1>5
    <3>2. held[Len(file) + 1] \in Int
      BY <1>5, <3>1 DEF BalancesOf
    <3>3. PICK b \in Int : b = held[Len(file) + 1]
      BY <3>2
    <3>4. longer = Append(file, b)
      BY <2>1, <3>3
    <3>. QED  BY <1>5, <3>1, <3>3, <3>4
  <2>3. snapFile' = longer /\ longer # Nothing
    BY <1>3, <1>4, <1>7, <2>1, <2>2, AccountSizes
  <2>4. CASE Len(longer) = count
    <3>1. whole' = TRUE /\ thread' = "remove" /\ inSnapshot' = task.last /\ repeats' = TRUE
      BY <1>7, <2>3, <2>4
    <3>2. longer = held
      BY <1>5, <2>2, <2>4 DEF BalancesOf
    <3>3. Accounts!Loaded(count)' = held
      <4>1. \A i \in 1..count : i \in DOMAIN longer
        BY <2>2, <2>4
      <4>2. Accounts!Loaded(count)' = [i \in 1..count |-> longer[i]]
        BY <1>1, <2>3, <4>1 DEF Accounts!Loaded
      <4>. QED  BY <1>5, <3>2, <4>2 DEF BalancesOf
    <3>4. AccountTypes' /\ MainPlace'
      BY <1>1, <1>5, <2>2, <2>3, <3>1 DEF AccountInv, AccountTypes, MainPlace
    <3>5. BatchesAppended' /\ LogLeads'
      BY <1>1, <1>2, <1>5, <3>1 DEF AccountInv, BatchesAppended, LogLeads
    <3>6. TaskHeld' /\ TaskFits'
      BY <1>1, <1>2, <1>4, <1>5, <2>3, <3>1, <3>2 DEF TaskHeld, TaskFits
    <3>7. FileFits'
      BY <1>1, <1>2, <1>4, <3>1, <3>3 DEF AccountInv, FileFits, TaskFits, OnTheWay
    <3>. QED  BY <3>4, <3>5, <3>6, <3>7 DEF AccountInv
  <2>5. CASE Len(longer) # count
    <3>1. whole' = FALSE /\ UNCHANGED <<thread, inSnapshot, repeats>>
      BY <1>7, <2>3, <2>5
    <3>2. Len(longer) < count
      BY <1>5, <2>2, <2>5
    <3>3. AccountTypes' /\ MainPlace'
      BY <1>1, <2>2, <2>3, <3>1 DEF AccountInv, AccountTypes, MainPlace
    <3>4. BatchesAppended' /\ LogLeads' /\ FileFits'
      BY <1>1, <1>2, <3>1 DEF AccountInv, BatchesAppended, LogLeads, FileFits
    <3>5. TaskHeld'
      BY <1>1, <1>2, <1>4, <1>5, <2>2, <2>3, <3>1, <3>2 DEF TaskHeld
    <3>6. TaskFits'
      BY <1>1, <1>2, <3>1 DEF AccountInv, TaskFits, OnTheWay
    <3>. QED  BY <3>3, <3>4, <3>5, <3>6 DEF AccountInv
  <2>. QED  BY <2>4, <2>5
<1>. QED  BY <1>6, <1>7 DEF Accounts!WriteAccount

\* The log goes.  If the snapshot has its last batch, the snapshot is all there is.
LEMMA LogRemoved == AccountInv /\ Accounts!RemoveLog => AccountInv'
<1>. SUFFICES ASSUME AccountInv, Accounts!RemoveLog PROVE AccountInv'
  OBVIOUS
<1>1. /\ up = "run" /\ up' = "run" /\ thread = "remove" /\ thread' = "done"
      /\ UNCHANGED <<at, count, balances, batch, task, busy, snapFile, safe, newest,
                     applied, inLog, inSnapshot, whole>>
  BY DEF Accounts!RemoveLog
<1>2. Current' = Current /\ CurrentNumber' = CurrentNumber
  BY <1>1 DEF Current, CurrentNumber
<1>3. TaskHeld' /\ TaskFits'
  BY <1>1 DEF TaskHeld, TaskFits
<1>4. CASE UNCHANGED <<walFile, repeats, handle, orphanBatch>>
  <2>1. AccountTypes' /\ MainPlace' /\ Log' = Log
    BY <1>1, <1>4 DEF AccountInv, AccountTypes, MainPlace, Log, Accounts!WalContents
  <2>2. BatchesAppended' /\ LogLeads' /\ FileFits'
    BY <1>1, <1>2, <1>4, <2>1, FilesSame
  <2>. QED  BY <1>3, <2>1, <2>2 DEF AccountInv
<1>5. CASE /\ walFile' = Nothing /\ repeats' = FALSE
           /\ handle' = IF handle = "linked" THEN "removed" ELSE handle
           /\ orphanBatch' = IF Accounts!WalContents = <<>> THEN orphanBatch ELSE inLog
  <2>1. Log' = <<>>
    BY <1>5 DEF Log, Accounts!WalContents
  <2>2. /\ inLog \in Nat /\ orphanBatch \in Nat /\ inSnapshot \in Nat /\ CurrentNumber \in Int
        /\ inLog <= CurrentNumber /\ orphanBatch <= CurrentNumber
        /\ inSnapshot <= CurrentNumber /\ CurrentNumber \in {inLog, orphanBatch}
        /\ Log # <<>> => orphanBatch <= inLog
    BY <1>1 DEF AccountInv, AccountTypes, BatchesAppended, CurrentNumber
  <2>3. /\ Log = <<>> => orphanBatch' = orphanBatch
        /\ Log # <<>> => orphanBatch' = inLog
    BY <1>5 DEF Log
  <2>4. AccountTypes'
    BY <1>1, <1>5, <2>2, <2>3 DEF AccountInv, AccountTypes
  <2>5. MainPlace'
    BY <1>1, <1>5 DEF AccountInv, MainPlace
  <2>6. BatchesAppended'
    BY <1>1, <1>2, <2>1, <2>2, <2>3 DEF BatchesAppended
  <2>7. Current \in BalancesOf(count) /\ count \in Nat
    BY <1>1 DEF AccountInv, AccountTypes, Current
  <2>8. LogLeads'
    BY <1>1, <1>2, <2>1, <2>7, LeadsNowhere DEF LogLeads
  <2>9. PICK s : s = Accounts!Loaded(count)
    OBVIOUS
  <2>10. Accounts!Loaded(count)' = s
    BY <1>1, <2>9 DEF Accounts!Loaded
  <2>11. ASSUME whole, orphanBatch' <= inSnapshot PROVE s = Current
    <3>1. CASE Log = <<>>
      <4>1. orphanBatch <= inSnapshot
        BY <2>3, <2>11, <3>1
      <4>2. CASE repeats
        <5>1. WayOn(s, count, <<>>, Current)
          BY <1>1, <2>9, <2>11, <3>1, <4>1, <4>2 DEF AccountInv, FileFits, OnTheWay
        <5>. QED  BY <5>1, EmptyWay
      <4>3. CASE ~repeats
        <5>1. Accounts!ApplyAll(s, <<>>) = Current
          BY <1>1, <2>9, <2>11, <3>1, <4>1, <4>3 DEF AccountInv, FileFits
        <5>. QED  BY <5>1, ApplyNone
      <4>. QED  BY <4>2, <4>3
    <3>2. CASE Log # <<>>
      <4>1. inSnapshot = CurrentNumber
        BY <2>2, <2>3, <2>11, <3>2
      <4>2. snapFile = task.balances /\ inSnapshot = task.last /\ task.balances = Current
        BY <1>1, <2>11, <4>1 DEF AccountInv, TaskHeld
      <4>3. snapFile \in BalancesOf(count) /\ snapFile # Nothing
        <5>1. snapFile \in Seq(Int)
          BY <2>7, <4>2 DEF BalancesOf
        <5>. QED  BY <2>7, <4>2, <5>1, AccountSizes
      <4>4. s = [i \in 1..count |-> snapFile[i]]
        BY <2>9, <4>3 DEF Accounts!Loaded, BalancesOf
      <4>. QED  BY <4>2, <4>3, <4>4 DEF BalancesOf
    <3>. QED  BY <3>1, <3>2
  <2>12. FileFits'
    <3>1. Accounts!ApplyAll(s, <<>>) = s
      BY ApplyNone
    <3>. QED  BY <1>1, <1>2, <1>5, <2>1, <2>10, <2>11, <3>1 DEF FileFits
  <2>. QED  BY <1>3, <2>4, <2>5, <2>6, <2>8, <2>12 DEF AccountInv
<1>. QED  BY <1>4, <1>5 DEF Accounts!RemoveLog

\* The thread ends, or nothing happens.
LEMMA AccountsQuiet ==
    AccountInv /\ (Accounts!SnapshotDone \/ UNCHANGED Accounts!accountVars) => AccountInv'
<1>. SUFFICES ASSUME AccountInv, Accounts!SnapshotDone \/ UNCHANGED Accounts!accountVars
              PROVE  AccountInv'
  OBVIOUS
<1>1. UNCHANGED <<up, at, count, balances, batch, walFile, handle, snapFile, safe, newest,
                  applied, inLog, orphanBatch, inSnapshot, whole, repeats>>
  BY DEF Accounts!SnapshotDone, Accounts!marks, Accounts!accountVars, Accounts!process
<1>2. \/ thread' = "idle" /\ up = "run"
      \/ UNCHANGED <<thread, task, busy>>
  BY DEF Accounts!SnapshotDone, Accounts!accountVars, Accounts!process
<1>3. /\ Log' = Log /\ Current' = Current /\ CurrentNumber' = CurrentNumber
  BY <1>1 DEF Log, Accounts!WalContents, Current, CurrentNumber
<1>4. AccountTypes' /\ MainPlace'
  BY <1>1, <1>2 DEF AccountInv, AccountTypes, MainPlace
<1>5. CASE up # "run"
  BY <1>1, <1>4, <1>5 DEF AccountInv, BatchesAppended, TaskHeld, LogLeads, TaskFits, FileFits
<1>6. CASE up = "run"
  <2>1. BatchesAppended' /\ LogLeads' /\ FileFits'
    BY <1>1, <1>3, <1>6, FilesSame
  <2>2. TaskHeld' /\ TaskFits'
    BY <1>1, <1>2, <1>3, <1>6, TaskSame DEF TaskHeld, TaskFits
  <2>. QED  BY <1>4, <2>1, <2>2 DEF AccountInv
<1>. QED  BY <1>5, <1>6

\* Every step.
LEMMA AccountInductive ==
    AccountInv /\ [Accounts!AccountNext]_(Accounts!accountVars) => AccountInv'
  BY StartKeeps, ReadKeeps, AppendKeeps, MainKeeps, SnapshotStarts, GoneKeeps, SnapshotOpened,
     AccountWritten, LogRemoved, AccountsQuiet
  DEF Accounts!AccountNext, Accounts!Finish, Accounts!Kill

\* The invariant holds in every state.
THEOREM AccountInvariant == Accounts!AccountSpec => []AccountInv
  BY AccountInitInv, AccountInductive, PTL DEF Accounts!AccountSpec

\* A kill outside of the windows in which a batch is in a removed log only, or the
\* snapshot is not whole, loses nothing, for every number of accounts and batches
\* (RecoversPrefix).
THEOREM AccountsRecoverPrefix == Accounts!AccountSpec => []RecoversPrefix
  BY AccountInvariant, AccountsRecover, PTL

-----------------------------------------------------------------------------
\* No money is made or lost.

\* The sum up to one account, when the balance of another has changed.
LEMMA SumChanged ==
    ASSUME NEW z \in Nat, NEW s \in BalancesOf(z), NEW t \in BalancesOf(z),
           NEW k \in 1..z, NEW d \in Int,
           \A i \in 1..z : t[i] = IF i = k THEN s[i] + d ELSE s[i]
    PROVE  Accounts!Total(t) = Accounts!Total(s) + d
<1>1. Len(s) = z /\ Len(t) = z
  BY DEF BalancesOf
<1>2. PICK e : e = Accounts!Sums(s) /\ e[0] = 0 /\ \A i \in 1..z : e[i] = e[i - 1] + s[i]
  BY <1>1, SumsAre
<1>3. PICK f : f = Accounts!Sums(t) /\ f[0] = 0 /\ \A i \in 1..z : f[i] = f[i - 1] + t[i]
  BY <1>1, SumsAre
<1>4. \A i \in 1..z : s[i] \in Int /\ t[i] = IF i = k THEN s[i] + d ELSE s[i]
  BY DEF BalancesOf
<1>. DEFINE H == {i \in 0..z : e[i] \in Int /\ f[i] = e[i] + (IF i < k THEN 0 ELSE d)}
<1>5. 0 \in H
  BY <1>2, <1>3
<1>6. ASSUME NEW i \in 0..z - 1, i \in H PROVE i + 1 \in H
  <2>1. i + 1 \in 1..z /\ (i + 1) - 1 = i /\ i + 1 \in 0..z
    OBVIOUS
  <2>2. e[i + 1] = e[i] + s[i + 1] /\ f[i + 1] = f[i] + t[i + 1]
    BY <1>2, <1>3, <2>1
  <2>3. /\ s[i + 1] \in Int
        /\ t[i + 1] = IF i + 1 = k THEN s[i + 1] + d ELSE s[i + 1]
    BY <1>4, <2>1
  <2>4. e[i] \in Int /\ f[i] = e[i] + (IF i < k THEN 0 ELSE d)
    BY <1>6
  <2>5. e[i + 1] \in Int /\ f[i + 1] = e[i + 1] + (IF i + 1 < k THEN 0 ELSE d)
    BY <2>1, <2>2, <2>3, <2>4
  <2>. QED  BY <2>1, <2>5
<1>7. z \in H
  <2>1. \A i \in 0..z : i \in H
    <3>. HIDE DEF H
    <3>. QED  BY <1>5, <1>6, UpTo
  <2>. HIDE DEF H
  <2>. QED  BY <2>1
<1>. QED  BY <1>1, <1>2, <1>3, <1>7 DEF Accounts!Total

\* What no file has been written for.
LEMMA FreshSound ==
    ASSUME NEW z \in Nat
    PROVE  Sound([i \in 1..z |-> Initial], z)
<1>1. PICK s : s = [i \in 1..z |-> Initial]
  OBVIOUS
<1>2. Len(s) = z /\ Initial \in Nat
  BY <1>1, AccountSizes
<1>3. PICK e : e = Accounts!Sums(s) /\ e[0] = 0 /\ \A i \in 1..z : e[i] = e[i - 1] + s[i]
  BY <1>2, SumsAre
<1>. DEFINE H == {i \in 0..z : e[i] = i * Initial}
<1>4. 0 \in H
  BY <1>2, <1>3
<1>5. ASSUME NEW i \in 0..z - 1, i \in H PROVE i + 1 \in H
  <2>1. i + 1 \in 1..z /\ (i + 1) - 1 = i /\ i + 1 \in 0..z
    OBVIOUS
  <2>2. e[i + 1] = e[i] + Initial
    BY <1>1, <1>3, <2>1
  <2>3. (i + 1) * Initial = i * Initial + Initial
    BY <1>2
  <2>. QED  BY <1>5, <2>1, <2>2, <2>3
<1>6. z \in H
  <2>1. \A i \in 0..z : i \in H
    <3>. HIDE DEF H
    <3>. QED  BY <1>4, <1>5, UpTo
  <2>. HIDE DEF H
  <2>. QED  BY <2>1
<1>. QED  BY <1>1, <1>2, <1>3, <1>6 DEF Accounts!Total, Sound

\* A transfer to another account, of no negative amount, keeps the sum and overdraws
\* nothing.
LEMMA TransferSound ==
    ASSUME NEW z \in Nat, NEW s, Sound(s, z), NEW tx \in Accounts!Transactions,
           Accounts!Kind(tx) = "transfer"
    PROVE  Sound(Accounts!Applied(s, tx), z)
<1>1. /\ s \in BalancesOf(z) /\ s \in [1..z -> Nat] /\ Len(s) = z
      /\ Accounts!Total(s) = z * Initial
  BY DEF Sound, BalancesOf
<1>2. /\ tx.amount \in Nat /\ tx.from \in Nat /\ tx.to \in Nat
      /\ Accounts!Received(tx) = tx.amount /\ tx.func = "transfer"
  <2>1. tx.amount \in Int /\ tx.from \in Nat /\ tx.to \in Nat
    BY DEF Accounts!Transactions
  <2>2. ~(tx.amount < 0) /\ tx.from # tx.to /\ tx.func = "transfer"
    BY DEF Accounts!Kind
  <2>. QED  BY <2>1, <2>2 DEF Accounts!Received
<1>3. CASE Moves(s, z, tx)
  <2>1. Accounts!Applied(s, tx) =
          [[s EXCEPT ![tx.from + 1] = @ - tx.amount] EXCEPT ![tx.to + 1] = @ + tx.amount]
    BY <1>1, <1>2, <1>3 DEF Accounts!Applied, Moves
  <2>2. PICK from \in 1..z, to \in 1..z : from = tx.from + 1 /\ to = tx.to + 1
    BY <1>2, <1>3 DEF Moves
  <2>3. PICK mid : mid = [s EXCEPT ![from] = @ + (-tx.amount)]
    OBVIOUS
  <2>4. mid \in [1..z -> Nat] /\ mid = [s EXCEPT ![from] = @ - tx.amount]
    <3>1. s[from] \in Nat /\ s[from] >= tx.amount
      BY <1>1, <1>3, <2>2 DEF Moves
    <3>2. s[from] + (-tx.amount) = s[from] - tx.amount /\ s[from] - tx.amount \in Nat
      BY <1>2, <3>1
    <3>. QED  BY <1>1, <2>2, <2>3, <3>2
  <2>5. PICK t : t = [mid EXCEPT ![to] = @ + tx.amount]
    OBVIOUS
  <2>6. t \in [1..z -> Nat] /\ Accounts!Applied(s, tx) = t
    <3>1. tx.amount \in Nat
      BY <1>2
    <3>2. mid[to] + tx.amount \in Nat
      BY <2>2, <2>4, <3>1
    <3>. QED  BY <2>1, <2>2, <2>4, <2>5, <3>2
  <2>7. mid \in BalancesOf(z) /\ t \in BalancesOf(z) /\ -tx.amount \in Int
    BY <1>2, <2>4, <2>6 DEF BalancesOf
  <2>8. Accounts!Total(mid) = Accounts!Total(s) + (-tx.amount)
    <3>1. PICK d \in Int : d = -tx.amount
      BY <2>7
    <3>2. \A i \in 1..z : mid[i] = IF i = from THEN s[i] + d ELSE s[i]
      BY <1>1, <2>2, <2>3, <3>1
    <3>3. Accounts!Total(mid) = Accounts!Total(s) + d
      BY <1>1, <2>2, <2>7, <3>1, <3>2, SumChanged
    <3>. QED  BY <3>1, <3>3
  <2>9. Accounts!Total(t) = Accounts!Total(mid) + tx.amount
    <3>1. PICK d \in Int : d = tx.amount
      BY <1>2
    <3>2. \A i \in 1..z : t[i] = IF i = to THEN mid[i] + d ELSE mid[i]
      BY <2>4, <2>5, <3>1
    <3>. QED  BY <2>7, <3>1, <3>2, SumChanged
  <2>10. Accounts!Total(t) = z * Initial
    <3>1. PICK all \in Int : all = z * Initial
      BY AccountSizes
    <3>. QED  BY <1>1, <1>2, <2>8, <2>9, <3>1
  <2>. QED  BY <2>6, <2>10 DEF Sound
<1>4. CASE ~Moves(s, z, tx)
  BY <1>1, <1>2, <1>4 DEF Accounts!Applied, Moves
<1>. QED  BY <1>3, <1>4

\* And so do all of them.
LEMMA TransfersSound ==
    ASSUME NEW z \in Nat, NEW s, Sound(s, z), NEW txs \in Seq(Accounts!Transactions),
           \A i \in DOMAIN txs : Accounts!Kind(txs[i]) = "transfer"
    PROVE  Sound(Accounts!ApplyAll(s, txs), z)
<1>0. /\ Len(txs) \in Nat /\ DOMAIN txs = 1..Len(txs)
      /\ \A i \in 1..Len(txs) : txs[i] \in Accounts!Transactions
  OBVIOUS
<1>1. PICK e : /\ e = Accounts!AppliedEach(s, txs) /\ e[0] = s
               /\ \A i \in 1..Len(txs) : e[i] = Accounts!Applied(e[i - 1], txs[i])
  BY <1>0, AppliedEachIs
<1>. DEFINE H == {i \in 0..Len(txs) : Sound(e[i], z)}
<1>2. 0 \in H
  BY <1>0, <1>1
<1>3. ASSUME NEW i \in 0..Len(txs) - 1, i \in H PROVE i + 1 \in H
  <2>1. i + 1 \in 1..Len(txs) /\ (i + 1) - 1 = i /\ i + 1 \in 0..Len(txs)
    BY <1>0
  <2>2. e[i + 1] = Accounts!Applied(e[i], txs[i + 1])
    BY <1>1, <2>1
  <2>3. txs[i + 1] \in Accounts!Transactions /\ Accounts!Kind(txs[i + 1]) = "transfer"
    BY <1>0, <2>1
  <2>4. Sound(e[i + 1], z)
    BY <1>3, <2>2, <2>3, TransferSound
  <2>. QED  BY <2>1, <2>4
<1>4. \A i \in 0..Len(txs) : i \in H
  <2>. HIDE DEF H
  <2>. QED  BY <1>0, <1>2, <1>3, UpTo
<1>. QED  BY <1>0, <1>1, <1>4 DEF Accounts!ApplyAll

\* Nothing has been used at first.
LEMMA MoneyInitInv == Accounts!AccountInit => MoneyInv
<1>. SUFFICES ASSUME Accounts!AccountInit PROVE MoneyInv
  OBVIOUS
<1>1. Log = <<>> /\ batch = <<>> /\ counts = {} /\ up # "run" /\ snapFile = Nothing
  BY DEF Accounts!AccountInit, Log, Accounts!WalContents
<1>2. DOMAIN <<>> = {}
  OBVIOUS
<1>. QED  BY <1>1, <1>2 DEF MoneyInv, KindsCounted, SoundBalances, CountsUsed

\* A run begins with sound balances, if it begins.
LEMMA MoneyStart == AccountInv /\ MoneyInv /\ Accounts!Start => MoneyInv'
<1>. SUFFICES ASSUME AccountInv, MoneyInv, Accounts!Start PROVE MoneyInv'
  OBVIOUS
<1>1. UNCHANGED <<thread, task, batch, kinds, snapFile>> /\ thread = "idle" /\ up = "down"
  BY DEF Accounts!Start, AccountInv, AccountTypes
<1>2. walFile' = walFile \/ walFile' = Accounts!WalContents
  BY DEF Accounts!Start
<1>3. Accounts!WalContents \in Seq(Accounts!Transactions)
  BY LogTyped DEF AccountInv, AccountTypes, Log
<1>4. Log' = Log
  BY <1>2, <1>3, AccountSizes DEF Log, Accounts!WalContents
<1>5. KindsCounted'
  BY <1>1, <1>4 DEF MoneyInv, KindsCounted
<1>6. PICK z \in Counts :
        \/ ~Accounts!Loads(z) /\ UNCHANGED <<up, count, counts, balances>>
        \/ /\ Accounts!Loads(z) /\ up' = "run" /\ count' = z /\ counts' = counts \union {z}
           /\ balances' = Accounts!Recovered(z)
  BY DEF Accounts!Start
<1>7. CASE ~Accounts!Loads(z) /\ UNCHANGED <<up, count, counts, balances>>
  BY <1>1, <1>5, <1>7 DEF MoneyInv, SoundBalances, CountsUsed
<1>8. CASE /\ Accounts!Loads(z) /\ up' = "run" /\ count' = z /\ counts' = counts \union {z}
           /\ balances' = Accounts!Recovered(z)
  <2>1. CountsUsed'
    BY <1>8 DEF MoneyInv, CountsUsed
  <2>2. ASSUME NEW y \in Counts, counts' = {y}, kinds' \subseteq {"transfer"}
        PROVE  /\ Sound(balances', y)
               /\ snapFile' # Nothing /\ Len(snapFile') >= y => Sound(snapFile', y)
    <3>1. y = z /\ (counts = {} \/ counts = {z}) /\ z \in Nat
      BY <1>8, <2>2, AccountSizes
    <3>2. CASE snapFile = Nothing
      <4>1. Accounts!Loaded(z) = [i \in 1..z |-> Initial]
        BY <3>2 DEF Accounts!Loaded
      <4>2. Sound(Accounts!Loaded(z), z)
        BY <3>1, <4>1, FreshSound
      <4>3. \A i \in DOMAIN Log : Accounts!Kind(Log[i]) = "transfer"
        BY <1>1, <2>2 DEF MoneyInv, KindsCounted
      <4>. QED
        BY <1>1, <1>3, <1>8, <3>1, <3>2, <4>2, <4>3, TransfersSound
        DEF Accounts!Recovered, Log
    <3>3. CASE snapFile # Nothing
      <4>1. counts = {z} /\ Len(snapFile) >= z
        BY <1>8, <3>1, <3>3 DEF MoneyInv, CountsUsed, Accounts!Loads
      <4>2. Sound(snapFile, z)
        BY <1>1, <2>2, <3>3, <4>1 DEF MoneyInv, SoundBalances
      <4>3. Accounts!Loaded(z) = snapFile
        BY <3>3, <4>2 DEF Sound, Accounts!Loaded
      <4>4. \A i \in DOMAIN Log : Accounts!Kind(Log[i]) = "transfer"
        BY <1>1, <2>2 DEF MoneyInv, KindsCounted
      <4>. QED
        BY <1>1, <1>3, <1>8, <3>1, <4>2, <4>3, <4>4, TransfersSound
        DEF Accounts!Recovered, Log
    <3>. QED  BY <3>2, <3>3
  <2>3. SoundBalances'
    BY <1>1, <2>2 DEF SoundBalances
  <2>. QED  BY <1>5, <2>1, <2>3 DEF MoneyInv
<1>. QED  BY <1>6, <1>7, <1>8

\* Transfers leave sound balances.
LEMMA MoneyRead == AccountInv /\ MoneyInv /\ Accounts!ReadAndApply => MoneyInv'
<1>. SUFFICES ASSUME AccountInv, MoneyInv, Accounts!ReadAndApply PROVE MoneyInv'
  OBVIOUS
<1>1. PICK txs \in Inputs :
        /\ batch' = txs /\ balances' = Accounts!ApplyAll(balances, txs)
        /\ kinds' = kinds \union {Accounts!Kind(txs[i]) : i \in DOMAIN txs}
  BY DEF Accounts!ReadAndApply
<1>2. /\ up = "run" /\ up' = "run"
      /\ UNCHANGED <<thread, count, counts, task, walFile, snapFile>>
  BY DEF Accounts!ReadAndApply
<1>3. txs \in Seq(Accounts!Transactions)
  BY AccountSizes
<1>4. KindsCounted'
  BY <1>1, <1>2 DEF MoneyInv, KindsCounted, Log, Accounts!WalContents
<1>5. CountsUsed'
  BY <1>2 DEF MoneyInv, CountsUsed
<1>6. ASSUME NEW z \in Counts, counts' = {z}, kinds' \subseteq {"transfer"}
      PROVE  Sound(balances', z)
  <2>1. \A i \in DOMAIN txs : Accounts!Kind(txs[i]) = "transfer"
    BY <1>1, <1>6
  <2>2. Sound(balances, z) /\ z \in Nat
    BY <1>1, <1>2, <1>6, AccountSizes DEF MoneyInv, SoundBalances
  <2>. QED  BY <1>1, <1>3, <2>1, <2>2, TransfersSound
<1>7. kinds \subseteq kinds'
  BY <1>1
<1>8. SoundBalances'
  BY <1>2, <1>6, <1>7 DEF MoneyInv, SoundBalances
<1>. QED  BY <1>4, <1>5, <1>8 DEF MoneyInv

\* Only transactions of the batch go to the log.
LEMMA MoneyAppend == AccountInv /\ MoneyInv /\ Accounts!AppendToLog => MoneyInv'
<1>. SUFFICES ASSUME AccountInv, MoneyInv, Accounts!AppendToLog PROVE MoneyInv'
  OBVIOUS
<1>1. /\ up = "run" /\ up' = "run" /\ at = "append"
      /\ UNCHANGED <<thread, count, counts, kinds, batch, balances, task, snapFile>>
  BY DEF Accounts!AppendToLog
<1>2. CountsUsed' /\ SoundBalances'
  BY <1>1 DEF MoneyInv, CountsUsed, SoundBalances
<1>3. CASE handle = "linked"
  <2>1. PICK q \in Seq(Accounts!Transactions), b \in Seq(Accounts!Transactions) :
          q = walFile /\ b = batch /\ q = Log
    BY <1>1, <1>3, LogTyped
    DEF AccountInv, AccountTypes, MainPlace, Log, Accounts!WalContents
  <2>2. PICK p : p = q \o b
    OBVIOUS
  <2>3. /\ p \in Seq(Accounts!Transactions)
        /\ \A i \in DOMAIN p : \/ \E j \in DOMAIN q : p[i] = q[j]
                               \/ \E j \in DOMAIN b : p[i] = b[j]
    <3>1. /\ p \in Seq(Accounts!Transactions) /\ Len(p) = Len(q) + Len(b)
          /\ Len(q) \in Nat /\ Len(b) \in Nat
      BY <2>2
    <3>2. PICK m \in Nat, n \in Nat : m = Len(q) /\ n = Len(b)
      BY <3>1
    <3>3. /\ Len(p) = m + n
          /\ \A i \in 1..m : p[i] = q[i]
          /\ \A i \in 1..n : p[m + i] = b[i]
      BY <2>2, <3>1, <3>2
    <3>4. DOMAIN p = 1..m + n /\ DOMAIN q = 1..m /\ DOMAIN b = 1..n
      BY <3>1, <3>2, <3>3
    <3>5. ASSUME NEW i \in 1..m + n, i > m PROVE \E j \in 1..n : p[i] = b[j]
      <4>1. PICK j \in Int : j = i - m
        OBVIOUS
      <4>2. j \in 1..n /\ i = m + j
        BY <3>5, <4>1
      <4>. QED  BY <3>3, <4>2
    <3>6. \A i \in 1..m + n : i <= m => i \in 1..m
      OBVIOUS
    <3>7. \A i \in 1..m + n : i <= m \/ i > m
      OBVIOUS
    <3>. QED  BY <3>1, <3>3, <3>4, <3>5, <3>6, <3>7
  <2>4. Log' = p
    BY <1>3, <2>1, <2>2, <2>3, AccountSizes
    DEF Accounts!AppendToLog, Log, Accounts!WalContents
  <2>. QED  BY <1>1, <1>2, <2>1, <2>3, <2>4 DEF MoneyInv, KindsCounted
<1>4. CASE handle # "linked"
  BY <1>1, <1>2, <1>4
  DEF MoneyInv, KindsCounted, Accounts!AppendToLog, Log, Accounts!WalContents
<1>. QED  BY <1>3, <1>4

\* The snapshot holds the balances of the task, or too few of them.
LEMMA MoneyWrite ==
    AccountInv /\ MoneyInv /\ (Accounts!OpenSnapshot \/ Accounts!WriteAccount) => MoneyInv'
<1>. SUFFICES ASSUME AccountInv, MoneyInv, Accounts!OpenSnapshot \/ Accounts!WriteAccount
              PROVE  MoneyInv'
  OBVIOUS
<1>1. /\ up = "run" /\ up' = "run" /\ thread \in {"open", "write"}
      /\ UNCHANGED <<count, counts, kinds, batch, balances, task, walFile>>
  BY DEF Accounts!OpenSnapshot, Accounts!WriteAccount
<1>2. KindsCounted' /\ count \in Nat /\ count > 0
  BY <1>1, AccountSizes
  DEF MoneyInv, KindsCounted, Log, Accounts!WalContents, AccountInv, AccountTypes
<1>3. CountsUsed'
  BY <1>1 DEF MoneyInv, CountsUsed
<1>4. snapFile' = snapFile \/ snapFile' = <<>> \/ Len(snapFile') < count
        \/ snapFile' = task.balances
  <2>1. CASE Accounts!OpenSnapshot
    BY <2>1 DEF Accounts!OpenSnapshot
  <2>2. CASE Accounts!WriteAccount
    <3>1. PICK file \in Seq(Int), all \in BalancesOf(count) : 
            /\ file = snapFile /\ all = task.balances
            /\ Len(file) < count /\ \A i \in 1..Len(file) : file[i] = all[i]
      BY <1>1, <2>2 DEF Accounts!WriteAccount, AccountInv, AccountTypes, TaskHeld
    <3>2. CASE snapFile' = Append(file, all[Len(file) + 1])
      <4>1. Len(file) + 1 \in 1..count /\ Len(file) \in Nat
        BY <1>2, <3>1
      <4>2. PICK b \in Int : b = all[Len(file) + 1]
        BY <4>1 DEF BalancesOf
      <4>3. PICK longer : longer = Append(file, b)
        OBVIOUS
      <4>4. /\ longer \in Seq(Int) /\ Len(longer) = Len(file) + 1
            /\ \A i \in 1..Len(longer) : longer[i] = all[i]
        BY <3>1, <4>1, <4>2, <4>3
      <4>5. CASE Len(longer) = count
        <5>1. longer = all
          BY <4>4, <4>5 DEF BalancesOf
        <5>. QED  BY <3>1, <3>2, <4>2, <4>3, <5>1
      <4>6. CASE Len(longer) < count
        BY <3>2, <4>2, <4>3, <4>6
      <4>. QED  BY <1>2, <4>1, <4>4, <4>5, <4>6
    <3>. QED  BY <2>2, <3>1, <3>2 DEF Accounts!WriteAccount
  <2>. QED  BY <2>1, <2>2
<1>5. Len(<<>>) = 0
  OBVIOUS
<1>6. ASSUME NEW z \in Counts, counts' = {z}, kinds' \subseteq {"transfer"}
      PROVE  /\ Sound(balances', z)
             /\ Sound(task.balances', z)
             /\ snapFile' # Nothing /\ Len(snapFile') >= z => Sound(snapFile', z)
  <2>1. z = count
    BY <1>1, <1>6 DEF MoneyInv, CountsUsed
  <2>2. /\ Sound(balances, z) /\ Sound(task.balances, z)
        /\ snapFile # Nothing /\ Len(snapFile) >= z => Sound(snapFile, z)
    BY <1>1, <1>6 DEF MoneyInv, SoundBalances
  <2>3. ~(0 >= z)
    BY <1>2, <2>1
  <2>4. CASE Len(snapFile') < count
    <3>1. Len(snapFile') \in Int => ~(Len(snapFile') >= z)
      BY <1>2, <2>1, <2>4
    <3>2. AccountTypes' /\ snapFile' # Nothing => Len(snapFile') \in Int
      BY DEF AccountTypes
    <3>3. AccountInv'
      BY SnapshotOpened, AccountWritten
    <3>. QED  BY <1>1, <2>2, <3>1, <3>2, <3>3 DEF AccountInv
  <2>5. CASE snapFile' = snapFile \/ snapFile' = <<>> \/ snapFile' = task.balances
    BY <1>1, <1>5, <2>2, <2>3, <2>5
  <2>. QED  BY <1>4, <2>4, <2>5
<1>7. SoundBalances'
  BY <1>6 DEF SoundBalances
<1>. QED  BY <1>2, <1>3, <1>7 DEF MoneyInv

\* The other steps move no money.
LEMMA MoneyQuiet ==
    AccountInv /\ MoneyInv /\ (\/ Accounts!FsyncLog \/ Accounts!CloseLog \/ Accounts!ReopenLog
                               \/ Accounts!RemoveLog \/ Accounts!SnapshotDone \/ Accounts!Gone
                               \/ UNCHANGED Accounts!accountVars)
       => MoneyInv'
<1>. SUFFICES ASSUME AccountInv, MoneyInv,
                     \/ Accounts!FsyncLog \/ Accounts!CloseLog \/ Accounts!ReopenLog
                     \/ Accounts!RemoveLog \/ Accounts!SnapshotDone \/ Accounts!Gone
                     \/ UNCHANGED Accounts!accountVars
              PROVE  MoneyInv'
  OBVIOUS
<1>1. UNCHANGED <<counts, kinds, snapFile>>
  BY DEF Accounts!FsyncLog, Accounts!CloseLog, Accounts!ReopenLog, Accounts!RemoveLog,
         Accounts!SnapshotDone, Accounts!Gone, Accounts!accountVars
<1>2. \/ up' = "down"
      \/ up' = up /\ UNCHANGED <<count, balances>>
  BY DEF Accounts!FsyncLog, Accounts!CloseLog, Accounts!ReopenLog, Accounts!RemoveLog,
         Accounts!SnapshotDone, Accounts!Gone, Accounts!accountVars, Accounts!process
<1>3. up' # "run" \/ thread' \notin {"open", "write"} \/ UNCHANGED <<thread, task>>
  BY DEF Accounts!FsyncLog, Accounts!CloseLog, Accounts!ReopenLog, Accounts!RemoveLog,
         Accounts!SnapshotDone, Accounts!Gone, Accounts!accountVars, Accounts!process
<1>4. /\ batch' = batch \/ batch' = <<>>
      /\ walFile' = walFile \/ walFile' = Nothing \/ walFile' = Accounts!WalContents
  BY DEF Accounts!FsyncLog, Accounts!CloseLog, Accounts!ReopenLog, Accounts!RemoveLog,
         Accounts!SnapshotDone, Accounts!Gone, Accounts!accountVars, Accounts!process
<1>5. DOMAIN <<>> = {}
  OBVIOUS
<1>6. Accounts!WalContents \in Seq(Accounts!Transactions)
  BY LogTyped DEF AccountInv, AccountTypes, Log
<1>7. Log' = Log \/ Log' = <<>>
  BY <1>4, <1>6, AccountSizes DEF Log, Accounts!WalContents
<1>8. KindsCounted'
  BY <1>1, <1>4, <1>5, <1>7 DEF MoneyInv, KindsCounted
<1>9. CountsUsed' /\ SoundBalances'
  BY <1>1, <1>2, <1>3 DEF MoneyInv, CountsUsed, SoundBalances
<1>. QED  BY <1>8, <1>9 DEF MoneyInv

\* Starting a snapshot copies the balances.
LEMMA MoneyTask == AccountInv /\ MoneyInv /\ Accounts!StartSnapshot => MoneyInv'
<1>. SUFFICES ASSUME AccountInv, MoneyInv, Accounts!StartSnapshot PROVE MoneyInv'
  OBVIOUS
<1>1. /\ up = "run" /\ up' = "run"
      /\ UNCHANGED <<count, counts, kinds, batch, balances, walFile, snapFile>>
  BY DEF Accounts!StartSnapshot
<1>2. \/ task' = [balances |-> balances, last |-> applied] /\ thread' = "open"
      \/ task' = task /\ thread' = thread
  BY DEF Accounts!StartSnapshot
<1>3. \/ task'.balances = balances
      \/ task' = task /\ thread' = thread
  BY <1>2
<1>4. KindsCounted' /\ CountsUsed'
  BY <1>1 DEF MoneyInv, KindsCounted, CountsUsed, Log, Accounts!WalContents
<1>5. SoundBalances'
  BY <1>1, <1>3 DEF MoneyInv, SoundBalances
<1>. QED  BY <1>4, <1>5 DEF MoneyInv

\* Every step.
LEMMA MoneyInductive ==
    AccountInv /\ MoneyInv /\ [Accounts!AccountNext]_(Accounts!accountVars) => MoneyInv'
  BY MoneyStart, MoneyRead, MoneyAppend, MoneyWrite, MoneyQuiet, MoneyTask
  DEF Accounts!AccountNext, Accounts!Finish, Accounts!Kill

\* Whatever batches a kill loses or a start replays twice, as long as there are only
\* transfers between two accounts, of no negative amount, and every run has as many
\* accounts, no money is made or lost and no account is overdrawn (MoneyKept).
THEOREM MoneyIsKept == Accounts!AccountSpec => []MoneyKept
<1>1. Accounts!AccountSpec => []MoneyInv
  BY AccountInvariant, MoneyInitInv, MoneyInductive, PTL DEF Accounts!AccountSpec
<1>2. MoneyInv /\ AccountInv => MoneyKept
  <2>. SUFFICES ASSUME MoneyInv, AccountInv, up = "run", kinds \subseteq {"transfer"},
                       NEW z \in Counts, counts = {z}
                PROVE  /\ Accounts!Total(balances) = count * Initial
                       /\ \A i \in DOMAIN balances : balances[i] >= 0
    BY DEF MoneyKept, Accounts!MoneyKept
  <2>1. count = z
    BY DEF MoneyInv, CountsUsed
  <2>2. Sound(balances, z)
    BY DEF MoneyInv, SoundBalances
  <2>. QED  BY <2>1, <2>2 DEF Sound
<1>. QED  BY <1>1, <1>2, AccountInvariant, PTL
=============================================================================
