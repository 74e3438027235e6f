------------------------- MODULE RememberGlazeProofs -------------------------
(***************************************************************************)
(* Proofs about Remember Glaze.  The handshake of its two threads: no      *)
(* batch is lost, repeated or taken out of order, and no wakeup is missed. *)
(* The whole program, for every number of chunks, batches and starts: what *)
(* the worker commits belongs together, recovery from the log of one run   *)
(* is exact, what was reported survives, and the verdict on the hash is    *)
(* right.                                                                  *)
(***************************************************************************)
EXTENDS RememberGlaze, RingLogProofs

-----------------------------------------------------------------------------
\* The handshake of the two threads alone, for every number of batches.

\* The initial state satisfies the inductive invariant.
LEMMA HandoffInitInv == HandoffInit => HandoffInv
<1> SUFFICES ASSUME HandoffInit PROVE HandoffInv
  OBVIOUS
<1>1. HandoffTypeOK
  <2>1. /\ 0 \in 0..MaxBatches
        /\ NoBatch \in 0..MaxBatches
    BY MaxBatchesAssumption DEF NoBatch
  <2>2. <<>> \in Seq(0..MaxBatches)
    OBVIOUS
  <2> QED
    BY <2>1, <2>2 DEF HandoffInit, HandoffTypeOK, MainPcs, WorkerPcs
<1>2. CommittedInOrder
  BY DEF HandoffInit, CommittedInOrder
<1>3. NoLostWakeup /\ OneInFlight /\ MainKnows
  BY DEF HandoffInit, NoLostWakeup, OneInFlight, MainKnows
<1> QED
  BY <1>1, <1>2, <1>3 DEF HandoffInv

\* Every step of either thread preserves the inductive invariant.
LEMMA HandoffNextInv == HandoffInv /\ [HandoffNext]_handoffVars => HandoffInv'
<1> SUFFICES ASSUME HandoffInv, [HandoffNext]_handoffVars PROVE HandoffInv'
  OBVIOUS
<1> USE MaxBatchesAssumption
    DEF HandoffInv, HandoffTypeOK, CommittedInOrder, NoLostWakeup, OneInFlight,
        MainKnows, MainPcs, WorkerPcs, mainVars, workerVars, flagVars
<1>1. CASE SetupSucceeds
  BY <1>1 DEF SetupSucceeds
<1>2. CASE SetupFails
  BY <1>2 DEF SetupFails, SignalDataReady
<1>3. CASE ReadAndApply
  BY <1>3 DEF ReadAndApply
<1>4. CASE ReadEndOfFile
  BY <1>4 DEF ReadEndOfFile
<1>5. CASE WaitForPrevious
  BY <1>5 DEF WaitForPrevious
<1>6. CASE Dispatch
  BY <1>6 DEF Dispatch, SignalDataReady
<1>7. CASE Finish
  BY <1>7 DEF Finish
<1>8. CASE WaitForLast
  <2>1. CASE inProgress
    BY <1>8, <2>1 DEF WaitForLast
  <2>2. CASE ~inProgress
    <3>1. workerPc' \in {"check", "exited"}
      BY <1>8, <2>2 DEF WaitForLast, SignalDataReady
    <3>2. /\ shouldExit' /\ dataReady' /\ ~inProgress' /\ mainPc' = "join"
          /\ UNCHANGED <<inProgress, args, batch, lastShort, local, committed>>
          /\ mainPc = "waitLast"
      BY <1>8, <2>2 DEF WaitForLast
    <3>3. dataReady' \in BOOLEAN /\ shouldExit' \in BOOLEAN
      BY <1>8, <2>2 DEF WaitForLast
    <3>4. workerPc = "exited" => shouldExit
      OBVIOUS
    <3> QED
      BY <3>1, <3>2, <3>3, <3>4, <2>2
  <2> QED
    BY <2>1, <2>2
<1>9. CASE Join
  BY <1>9 DEF Join
<1>10. CASE MainSpuriousWakeup
  BY <1>10 DEF MainSpuriousWakeup, SignalCommitDone
<1>11. CASE WorkerSleep
  BY <1>11 DEF WorkerSleep
<1>12. CASE WorkerExit
  BY <1>12 DEF WorkerExit
<1>13. CASE WorkerTake
  BY <1>13 DEF WorkerTake
<1>14. CASE WorkerCommit
  BY <1>14 DEF WorkerCommit
<1>15. CASE WorkerReport
  <2>1. /\ workerPc = "report" /\ workerPc' = "check"
        /\ inProgress /\ ~inProgress' /\ local = batch - 1
        /\ UNCHANGED <<local, dataReady, shouldExit, args, batch, lastShort>>
    BY <1>15 DEF WorkerReport
  <2>2. /\ committed' = Append(committed, local)
        /\ Len(committed) = batch - 1
    BY <1>15, <2>1 DEF WorkerReport
  <2>3. mainPc' = CASE mainPc = "sleepPrev" -> "waitPrev"
                    [] mainPc = "sleepLast" -> "waitLast"
                    [] OTHER -> mainPc
    BY <1>15 DEF WorkerReport, SignalCommitDone
  <2>4. /\ committed' \in Seq(0..MaxBatches)
        /\ Len(committed') = batch
        /\ \A i \in DOMAIN committed' : committed'[i] = i - 1
    BY <2>1, <2>2
  <2>5. inProgress' \in BOOLEAN
    BY <1>15 DEF WorkerReport
  <2> QED
    BY <2>1, <2>2, <2>3, <2>4, <2>5
<1>16. CASE WorkerSpuriousWakeup
  BY <1>16 DEF WorkerSpuriousWakeup
<1>17. CASE UNCHANGED handoffVars
  BY <1>17 DEF handoffVars
<1> QED
  BY <1>1, <1>2, <1>3, <1>4, <1>5, <1>6, <1>7, <1>8, <1>9, <1>10, <1>11,
     <1>12, <1>13, <1>14, <1>15, <1>16, <1>17
     DEF HandoffNext, MainStep, WorkerStep

\* The inductive invariant holds throughout every execution.
THEOREM HandoffInvariant == HandoffSpec => []HandoffInv
<1> QED
  BY HandoffInitInv, HandoffNextInv, PTL DEF HandoffSpec

\* Batches are committed in file order, none twice, none skipped.
THEOREM CommitOrder == HandoffSpec => []CommittedInOrder
<1>1. HandoffInv => CommittedInOrder
  BY DEF HandoffInv
<1> QED
  BY <1>1, HandoffInvariant, PTL

\* No signal is lost between a test and the wait that follows it.
THEOREM NoWakeupLost == HandoffSpec => []NoLostWakeup
<1>1. HandoffInv => NoLostWakeup
  BY DEF HandoffInv
<1> QED
  BY <1>1, HandoffInvariant, PTL

\* When main() returns, every dispatched batch has been committed.
THEOREM ExitLosesNothing == HandoffSpec => []NothingLostAtExit
<1>1. HandoffInv => NothingLostAtExit
  BY DEF HandoffInv, OneInFlight, MainKnows, NothingLostAtExit
<1> QED
  BY <1>1, HandoffInvariant, PTL

\* The argument block is refilled only after its last contents are in the log.
THEOREM ArgsConsumed == HandoffSpec => ArgsOverwrittenWhenConsumed
<1> DEFINE Consumed == /\ ~dataReady /\ ~inProgress
                       /\ workerPc \in {"check", "sleep"}
                       /\ Len(committed) = batch
<1>1. HandoffInv /\ [HandoffNext]_handoffVars => (args' # args => Consumed)
  <2> SUFFICES ASSUME HandoffInv, [HandoffNext]_handoffVars, args' # args
               PROVE Consumed
    OBVIOUS
  <2>1. Dispatch
    BY DEF HandoffNext, MainStep, WorkerStep, SetupSucceeds, SetupFails,
           ReadAndApply, ReadEndOfFile, WaitForPrevious, Finish, WaitForLast,
           Join, MainSpuriousWakeup, WorkerSleep, WorkerExit, WorkerTake,
           WorkerCommit, WorkerReport, WorkerSpuriousWakeup,
           handoffVars, mainVars, workerVars, flagVars
  <2> QED
    BY <2>1 DEF Dispatch, HandoffInv, OneInFlight, MainKnows
<1>2. HandoffInv /\ [HandoffNext]_handoffVars
        => [args' # args => Consumed]_handoffVars
  BY <1>1
<1> QED
  BY <1>2, HandoffInvariant, PTL DEF HandoffSpec, ArgsOverwrittenWhenConsumed

\* Refinement: the handshake implements the abstract ordered commit.
THEOREM Refinement == HandoffSpec => ImplementsOrderedCommit
<1>1. HandoffInit => OC!OCInit
  BY DEF HandoffInit, OC!OCInit, Applied
<1>2. HandoffInv /\ [HandoffNext]_handoffVars => [OC!OCNext]_(OC!ocVars)
  <2> SUFFICES ASSUME HandoffInv, [HandoffNext]_handoffVars
               PROVE [OC!OCNext]_(OC!ocVars)
    OBVIOUS
  <2> USE MaxBatchesAssumption
      DEF HandoffInv, HandoffTypeOK, OneInFlight, MainKnows, Applied,
          mainVars, workerVars, flagVars, OC!ocVars, OC!OCNext
  <2>1. CASE ReadAndApply
    BY <2>1 DEF ReadAndApply, OC!ApplyNext
  <2>2. CASE WorkerReport
    BY <2>2 DEF WorkerReport, SignalCommitDone, OC!CommitNext
  <2>3. CASE Join
    BY <2>3 DEF Join, OC!Stop
  <2>4. CASE Dispatch
    BY <2>4 DEF Dispatch, SignalDataReady
  <2>5. CASE \/ SetupSucceeds \/ SetupFails \/ ReadEndOfFile \/ WaitForPrevious
             \/ Finish \/ WaitForLast \/ MainSpuriousWakeup
    BY <2>5 DEF SetupSucceeds, SetupFails, ReadEndOfFile, WaitForPrevious,
                Finish, WaitForLast, MainSpuriousWakeup, SignalCommitDone
  <2>6. CASE \/ WorkerSleep \/ WorkerExit \/ WorkerTake \/ WorkerCommit
             \/ WorkerSpuriousWakeup \/ UNCHANGED handoffVars
    BY <2>6 DEF WorkerSleep, WorkerExit, WorkerTake, WorkerCommit,
                WorkerSpuriousWakeup, handoffVars
  <2> QED
    BY <2>1, <2>2, <2>3, <2>4, <2>5, <2>6 DEF HandoffNext, MainStep, WorkerStep
<1> QED
  BY <1>1, <1>2, HandoffInvariant, PTL
     DEF HandoffSpec, ImplementsOrderedCommit, OC!OCSpec

-----------------------------------------------------------------------------
\* The inductive invariant of the whole program.

\* The worker is between the copy of the snapshot and the end of msync.
InFlight == commitPc \in {"transactions", "sync"}

\* How many batches this run has begun to write.
Written == Len(committed) + (IF InFlight \/ workerPc = "report" THEN 1 ELSE 0)

\* The log was written by one run at most and has not lost what was not synced.
OneRun == writers <= 1 /\ ~damaged

\* The run over a new log.
FirstRun == phase = "run" /\ base = 0 /\ ~damaged

\* Types, and where the threads are: none when the program is not in its loop.
Control ==
    /\ phase \in {"down", "replay", "run"}
    /\ commitPc \in {"idle", "snapshot", "transactions", "sync"}
    /\ commitPc # "idle" <=> workerPc = "commit"
    /\ phase # "run" => HandoffInit
    /\ fileLength \in 0..MaxBatches
    /\ base \in Nat /\ (phase = "replay" => base = logMax)

History ==
    /\ syncFailed \in BOOLEAN /\ damaged \in BOOLEAN /\ (damaged => syncFailed)
    /\ logMax \in Nat /\ writers \in Nat /\ reported \in Nat
    /\ (logMax = 0 <=> writers = 0) /\ reported <= logMax

\* The snapshot and the transactions of batch b of this run.
Carried(data, b) == data.ver = base + b + 1 /\ data.tx.id = base + b + 1

\* What the transaction slot of batch b of a run over a new log holds.
TransactionsOf(b) == [batch |-> b, tx |-> [id |-> b + 1, parent |-> b]]

\* On its way from main to the worker, the state stays together with its batch.
DataFollows ==
    /\ batch > 0 \/ mainPc \in {"waitPrev", "sleepPrev", "dispatch"} =>
          memory = base + Applied
    /\ mainPc \in {"waitPrev", "sleepPrev", "dispatch"} => txBuf.id = memory
    /\ dataReady /\ ~shouldExit => Carried(argsData, args)
    /\ workerPc \in {"commit", "report"} => Carried(localData, local)

\* The run over a new log begins with zeros, and each batch follows on the one before.
FirstFollows ==
    FirstRun =>
       /\ memory = Applied
       /\ mainPc \in {"waitPrev", "sleepPrev", "dispatch"} =>
             txBuf = TransactionsOf(batch).tx
       /\ dataReady /\ ~shouldExit => argsData.tx = TransactionsOf(args).tx
       /\ workerPc \in {"commit", "report"} => localData.tx = TransactionsOf(local).tx

\* Who has written how much.
WritersCount ==
    phase = "run" =>
       /\ base = 0 => /\ logMax = Written /\ reported = Len(committed)
                      /\ writers = (IF Written = 0 THEN 0 ELSE 1)
       /\ base > 0 => /\ logMax = base + Written /\ reported <= base + Len(committed)
                      /\ writers > (IF Written = 0 THEN 0 ELSE 1)

\* Every chunk has its slots.
LogTypes == DOMAIN snap = Chunks /\ DOMAIN txs = Chunks

\* The slots, in memory and if every msync succeeded on the device.
LogHolds ==
    OneRun =>
       /\ \A k \in Chunks : /\ NearlyHoldsSnapshot(0, snap[k], k, logMax)
                            /\ NearlyHoldsTransactions(0, txs[k], k, logMax)
       /\ ~syncFailed => \A k \in Chunks :
             /\ NearlyHoldsSnapshot(0, diskSnap[k], k, logMax)
             /\ NearlyHoldsTransactions(0, diskTxs[k], k, logMax)

\* While the run goes on only the slot of the batch in flight may be behind.
FirstHolds ==
    FirstRun =>
       /\ \A k \in Chunks : HoldsSnapshot(0, snap[k], k, logMax)
       /\ commitPc # "transactions" =>
             \A k \in Chunks : HoldsTransactions(0, txs[k], k, logMax)
       /\ ~InFlight /\ ~syncFailed => \A k \in Chunks :
             /\ HoldsSnapshot(0, diskSnap[k], k, logMax)
             /\ HoldsTransactions(0, diskTxs[k], k, logMax)

\* Either the last batch was not reported yet, or it is in memory and on the device.
LastIsSafe ==
    ~syncFailed /\ writers <= 1 =>
       \/ reported < logMax
       \/ \A k \in Chunks :
             /\ HoldsSnapshot(0, snap[k], k, logMax) /\ HoldsSnapshot(0, diskSnap[k], k, logMax)
             /\ HoldsTransactions(0, txs[k], k, logMax)
             /\ HoldsTransactions(0, diskTxs[k], k, logMax)

ReplayFollows ==
    phase = "replay" /\ writers <= 1 /\ Intact =>
       \E t \in Nat : t = WholeId /\ Recoverable(0, t) /\ Replaying(0, t)

\* The hash file carries the number of its batch, or is of a state that never came to
\* the log.
HashFollows ==
    /\ hashFile \in [id : Int, label : Int]
    /\ ~damaged /\ (writers = 0 \/ FirstRun) => hashFile.label = hashFile.id - 1
    /\ OneRun => hashFile.label = hashFile.id - 1 \/ hashFile.id > logMax

RememberInv ==
    /\ HandoffInv /\ Control /\ History /\ DataFollows /\ FirstFollows /\ WritersCount
    /\ LogTypes /\ LogHolds /\ FirstHolds /\ LastIsSafe
    /\ ReplayFollows /\ HashFollows /\ VerdictRight

-----------------------------------------------------------------------------
\* What the state of the threads tells.

\* The transactions of a run over a new log.
LEMMA TransactionsOfRun == \A b \in Nat : HasTransactions(0, b, TransactionsOf(b))
  BY DEF HasTransactions, TransactionsOf

\* A batch in the worker's hands is the one dispatched last, and the next to be reported.
LEMMA InHand ==
    ASSUME RememberInv, workerPc \in {"commit", "report"}
    PROVE  /\ phase = "run" /\ mainPc # "start"
           /\ local \in Nat /\ Len(committed) = local /\ batch = local + 1
           /\ ~dataReady
           /\ localData.ver = base + local + 1 /\ localData.tx.id = base + local + 1
<1>1. phase = "run"
  BY DEF RememberInv, Control, HandoffInit
<1>2. inProgress /\ local \in Nat /\ batch \in Nat
  BY MaxBatchesAssumption DEF RememberInv, HandoffInv, HandoffTypeOK, OneInFlight
<1>3. ~dataReady /\ batch > 0 /\ local = batch - 1 /\ Len(committed) = batch - 1
  BY <1>2 DEF RememberInv, HandoffInv, OneInFlight
<1>4. mainPc # "start"
  BY <1>3 DEF RememberInv, HandoffInv, MainKnows
<1>5. Carried(localData, local)
  BY DEF RememberInv, DataFollows
<1>. QED  BY <1>1, <1>2, <1>3, <1>4, <1>5 DEF Carried

\* A run that has begun to write a log of one run has found it new.
LEMMA WritesFirst ==
    ASSUME RememberInv, OneRun, workerPc \in {"commit", "report"},
           InFlight \/ workerPc = "report"
    PROVE  base = 0 /\ FirstRun /\ logMax = local + 1
<1>1. phase = "run" /\ local \in Nat /\ Len(committed) = local
  BY InHand
<1>2. Written = local + 1
  BY <1>1 DEF Written
<1>3. base \in Nat /\ writers \in Nat
  BY DEF RememberInv, Control, History
<1>4. base = 0
  BY <1>1, <1>2, <1>3 DEF RememberInv, WritersCount, OneRun
<1>. QED  BY <1>1, <1>2, <1>4 DEF RememberInv, WritersCount, FirstRun, OneRun

\* A new process has the invariant of the handshake.
LEMMA HandoffBegins == HandoffInit' => HandoffInv'
  BY HandoffInitInv, PTL

\* What the parts of the composition do to the handshake.
LEMMA HandoffKept == ASSUME RememberInv, [Next]_vars PROVE HandoffInv'
<1>1. HandoffInv /\ [HandoffNext]_handoffVars => HandoffInv'
  BY HandoffNextInv
<1>2. HandoffInit' => HandoffInv'
  BY HandoffBegins
<1>3. ResetProcess => HandoffInit'
  BY DEF ResetProcess, HandoffInit
<1>4. CASE BootNext
  BY <1>1, <1>4
  DEF RememberInv, BootNext, Boot, BootReference, RecoveryStep, FinishRecovery
<1>5. CASE MainNext
  <2>1. HandoffNext
    BY <1>5 DEF MainNext, MainControl, ReadBatch, DispatchBatch, SaveHashAndSync,
                HandoffNext, MainStep
  <2>. QED  BY <1>1, <2>1 DEF RememberInv
<1>6. CASE WorkerNext
  <2>1. HandoffNext \/ UNCHANGED handoffVars
    BY <1>6 DEF WorkerNext, WorkerControl, TakeBatch, CopySnapshot, CopyTransactions,
                SyncCommit, ReportCommit, HandoffNext, WorkerStep
  <2>. QED  BY <1>1, <2>1 DEF RememberInv
<1>7. CASE CrashNext
  BY <1>2, <1>3, <1>7 DEF CrashNext, Exit, Kill, PowerLoss
<1>8. CASE UNCHANGED vars
  BY <1>1, <1>8 DEF RememberInv, vars
<1>. QED  BY <1>4, <1>5, <1>6, <1>7, <1>8 DEF Next

\* Processes only run, and the worker is only in a commit, when the program is in its loop.
LEMMA ControlKept == ASSUME RememberInv, [Next]_vars PROVE Control'
<1>. USE DEF Control
<1>0. Control /\ logMax \in Nat
  BY DEF RememberInv, History
<1>1. CASE BootNext
  <2>1. CASE Boot
    <3>1. /\ phase = "down" /\ phase' \in {"run", "replay"} /\ base' = logMax
          /\ UNCHANGED <<fileLength, commitPc, logMax, handoffVars>>
      BY <2>1 DEF Boot, historyVars
    <3>. QED
      BY <1>0, <3>1 DEF handoffVars, mainVars, workerVars, flagVars, HandoffInit
  <2>2. CASE BootReference
    <3>1. phase = "down" /\ UNCHANGED <<phase, fileLength, commitPc, base, handoffVars>>
      BY <2>2 DEF BootReference, envVars, processVars
    <3>. QED
      BY <1>0, <3>1 DEF handoffVars, mainVars, workerVars, flagVars, HandoffInit
  <2>3. CASE RecoveryStep
    <3>1. UNCHANGED <<phase, fileLength, base, commitPc, logMax, handoffVars>>
      BY <2>3 DEF RecoveryStep, envVars, processVars, historyVars
    <3>. QED
      BY <1>0, <3>1 DEF handoffVars, mainVars, workerVars, flagVars, HandoffInit
  <2>4. CASE FinishRecovery
    <3>1. phase' = "run" /\ UNCHANGED <<fileLength, base, commitPc, handoffVars>>
      BY <2>4 DEF FinishRecovery
    <3>. QED  BY <1>0, <3>1 DEF handoffVars, workerVars
  <2>. QED  BY <1>1, <2>1, <2>2, <2>3, <2>4 DEF BootNext
<1>2. CASE MainNext
  <2>1. phase = "run" /\ UNCHANGED envVars /\ UNCHANGED <<base, commitPc>>
    BY <1>2 DEF MainNext, MainControl, ReadBatch, DispatchBatch, SaveHashAndSync,
                NoDataEffect, processVars
  <2>2. workerPc = "commit" <=> workerPc' = "commit"
    BY <1>2 DEF MainNext, MainControl, ReadBatch, DispatchBatch, SaveHashAndSync,
                SetupSucceeds, SetupFails, WaitForPrevious, WaitForLast, Join,
                MainSpuriousWakeup, ReadEndOfFile, ReadAndApply, Dispatch, Finish,
                workerVars, SignalDataReady
  <2>. QED  BY <1>0, <2>1, <2>2 DEF envVars
<1>3. CASE WorkerNext
  <2>1. phase = "run" /\ UNCHANGED envVars /\ UNCHANGED base
    BY <1>3 DEF WorkerNext, WorkerControl, TakeBatch, CopySnapshot, CopyTransactions,
                SyncCommit, ReportCommit, NoDataEffect, processVars
  <2>2. CASE WorkerControl
    BY <1>0, <2>1, <2>2 DEF WorkerControl, WorkerSleep, WorkerExit, WorkerSpuriousWakeup,
                            NoDataEffect, processVars, envVars
  <2>3. CASE TakeBatch \/ SyncCommit \/ ReportCommit
    BY <1>0, <2>1, <2>3 DEF TakeBatch, WorkerTake, SyncCommit, WorkerCommit, ReportCommit,
                            WorkerReport, processVars, envVars
  <2>4. CASE CopySnapshot \/ CopyTransactions
    BY <1>0, <2>1, <2>4 DEF CopySnapshot, CopyTransactions, envVars, handoffVars, workerVars
  <2>. QED  BY <1>3, <2>2, <2>3, <2>4 DEF WorkerNext
<1>4. CASE CrashNext
  BY <1>0, <1>4 DEF CrashNext, Exit, Kill, PowerLoss, ResetProcess, HandoffInit
<1>5. CASE UNCHANGED vars
  BY <1>0, <1>5 DEF vars, processVars, envVars, handoffVars, mainVars, workerVars, flagVars,
                    HandoffInit, historyVars
<1>. QED  BY <1>1, <1>2, <1>3, <1>4, <1>5 DEF Next

\* The steps that write to the log or to the record of it are few.
LogStill == UNCHANGED <<logVars, logMax, writers, damaged, syncFailed>>

\* What is left are the copies, the syncs and the losses.
LEMMA LogSteps ==
    [Next]_vars => \/ LogStill \/ BootReference \/ SaveHashAndSync \/ CopySnapshot
                   \/ CopyTransactions \/ SyncCommit \/ Kill \/ PowerLoss
<1>. USE DEF LogStill, historyVars
<1>1. Boot \/ RecoveryStep \/ FinishRecovery => LogStill
  BY DEF Boot, RecoveryStep, FinishRecovery
<1>2. MainControl \/ ReadBatch \/ DispatchBatch => LogStill
  BY DEF MainControl, ReadBatch, DispatchBatch, NoDataEffect
<1>3. WorkerControl \/ TakeBatch \/ ReportCommit => LogStill
  BY DEF WorkerControl, TakeBatch, ReportCommit, NoDataEffect
<1>4. Exit \/ UNCHANGED vars => LogStill
  BY DEF Exit, vars
<1>. QED  BY <1>1, <1>2, <1>3, <1>4 DEF Next, BootNext, MainNext, WorkerNext, CrashNext

\* What was reported was written, and a log is empty when no run has written to it.
LEMMA HistoryKept == ASSUME RememberInv, [Next]_vars PROVE History'
<1>0. History
  BY DEF RememberInv
<1>1. CASE CopySnapshot
  <2>1. /\ local \in Nat /\ Len(committed) = local /\ phase = "run"
        /\ commitPc = "snapshot" /\ workerPc = "commit"
        /\ logMax' = base + local + 1
    BY <1>1, InHand DEF CopySnapshot
  <2>2. Written = local /\ base \in Nat
    BY <2>1 DEF Written, InFlight, RememberInv, Control
  <2>3. reported <= base + local /\ (local > 0 => writers > 0)
    <3>1. writers \in Nat /\ reported \in Nat
      BY <1>0 DEF History
    <3>2. /\ base = 0 => reported = local /\ writers = (IF local = 0 THEN 0 ELSE 1)
          /\ base > 0 => reported <= base + local /\ writers > (IF local = 0 THEN 0 ELSE 1)
      BY <2>1, <2>2 DEF RememberInv, WritersCount
    <3>. QED  BY <2>1, <2>2, <3>1, <3>2
  <2>4. writers' = IF local = 0 THEN writers + 1 ELSE writers
    BY <1>1 DEF CopySnapshot
  <2>5. UNCHANGED <<syncFailed, damaged, reported>>
    BY <1>1 DEF CopySnapshot
  <2>. QED  BY <1>0, <2>1, <2>2, <2>3, <2>4, <2>5 DEF History
<1>2. CASE ReportCommit
  <2>1. /\ local \in Nat /\ Len(committed) = local /\ phase = "run" /\ workerPc = "report"
        /\ reported' = base + local + 1
    BY <1>2, InHand DEF ReportCommit, WorkerReport
  <2>2. Written = local + 1 /\ base \in Nat
    BY <2>1 DEF Written, RememberInv, Control
  <2>3. logMax = base + local + 1
    BY <2>1, <2>2 DEF RememberInv, WritersCount
  <2>4. UNCHANGED <<syncFailed, damaged, writers, logMax>>
    BY <1>2 DEF ReportCommit
  <2>. QED  BY <1>0, <2>1, <2>2, <2>3, <2>4 DEF History
<1>3. CASE SaveHashAndSync \/ SyncCommit \/ BootReference \/ Kill \/ PowerLoss
  <2>1. CASE SaveHashAndSync \/ SyncCommit
    <3>1. /\ UNCHANGED <<damaged, reported, writers, logMax>>
          /\ syncFailed' = syncFailed \/ syncFailed' = TRUE
      BY <2>1 DEF SaveHashAndSync, SyncCommit
    <3>2. CASE syncFailed' = syncFailed
      BY <1>0, <3>1, <3>2 DEF History
    <3>3. CASE syncFailed' = TRUE
      BY <1>0, <3>1, <3>3 DEF History
    <3>. QED  BY <3>1, <3>2, <3>3
  <2>2. CASE BootReference
    <3>1. /\ syncFailed' = FALSE /\ damaged' = FALSE /\ reported' = 0
          /\ writers' = 0 /\ logMax' = 0
      BY <2>2 DEF BootReference
    <3>2. /\ syncFailed' \in BOOLEAN /\ damaged' \in BOOLEAN /\ (damaged' => syncFailed')
      BY <3>1
    <3>. QED  BY <3>1, <3>2 DEF History
  <2>3. CASE Kill
    <3>1. UNCHANGED historyVars
      BY <2>3 DEF Kill, historyVars
    <3>. QED  BY <1>0, <3>1 DEF History, historyVars
  <2>4. CASE PowerLoss
    <3>1. /\ UNCHANGED <<syncFailed, reported, writers, logMax>>
          /\ damaged' = (damaged \/ syncFailed)
      BY <2>4 DEF PowerLoss
    <3>2. damaged' = syncFailed
      BY <1>0, <3>1 DEF History
    <3>. QED  BY <1>0, <3>1, <3>2 DEF History
  <2>. QED  BY <1>3, <2>1, <2>2, <2>3, <2>4
<1>4. CASE UNCHANGED historyVars
  BY <1>0, <1>4 DEF History, historyVars
<1>5. CASE Boot \/ RecoveryStep \/ FinishRecovery \/ MainControl \/ ReadBatch \/ DispatchBatch
  BY <1>4, <1>5 DEF Boot, RecoveryStep, FinishRecovery, MainControl, ReadBatch, DispatchBatch,
                    NoDataEffect
<1>6. CASE WorkerControl \/ TakeBatch \/ CopyTransactions \/ Exit \/ UNCHANGED vars
  BY <1>4, <1>6 DEF WorkerControl, TakeBatch, CopyTransactions, Exit, vars, NoDataEffect,
                    historyVars
<1>. QED
  BY <1>1, <1>2, <1>3, <1>5, <1>6 DEF Next, BootNext, MainNext, WorkerNext, CrashNext

-----------------------------------------------------------------------------
\* A log nobody has written to.

\* Its slots are zeros, none of them is torn, and recovery ends in the state of zeros.
LEMMA NewLog ==
    ASSUME RememberInv, OneRun, logMax = 0
    PROVE  /\ \A k \in Chunks : /\ HoldsSnapshot(0, snap[k], k, 0)
                                /\ HoldsTransactions(0, txs[k], k, 0)
                                /\ snap[k] = ZeroSnapshot /\ txs[k] = ZeroBatch
           /\ ~syncFailed => \A k \in Chunks : /\ HoldsSnapshot(0, diskSnap[k], k, 0)
                                               /\ HoldsTransactions(0, diskTxs[k], k, 0)
           /\ \A k \in Chunks : ~TornSlot(k)
           /\ WholeId = 0
<1>1. \A k \in Chunks : HoldsSnapshot(0, snap[k], k, 0) /\ HoldsTransactions(0, txs[k], k, 0)
  BY DEF RememberInv, LogHolds, NearlyHoldsSnapshot, NearlyHoldsTransactions
<1>2. ~syncFailed => \A k \in Chunks : /\ HoldsSnapshot(0, diskSnap[k], k, 0)
                                       /\ HoldsTransactions(0, diskTxs[k], k, 0)
  BY DEF RememberInv, LogHolds, NearlyHoldsSnapshot, NearlyHoldsTransactions
<1>3. \A k \in Chunks : snap[k] = ZeroSnapshot /\ txs[k] = ZeroBatch
  BY <1>1 DEF HoldsSnapshot, HoldsTransactions, LeftSnapshot, LeftTransactions
<1>4. \A k \in Chunks : ~TornSlot(k)
  BY <1>3 DEF TornSlot, ZeroSnapshot, ZeroBatch, NoTransactions
<1>5. WholeId = 0
  BY <1>1, LastIsWhole
<1>. QED  BY <1>1, <1>2, <1>3, <1>4, <1>5

\* In the log of one run recovery finds a snapshot: slot 0 of a new log passes for one.
LEMMA AlwaysValid == ASSUME RememberInv, Intact, writers <= 1 PROVE ValidChunks # {}
<1>1. /\ \A k \in Chunks : NearlyHoldsSnapshot(0, snap[k], k, logMax)
      /\ \A k \in Chunks : NearlyHoldsTransactions(0, txs[k], k, logMax)
      /\ \A k \in Chunks : ~TornSlot(k)
      /\ logMax \in Nat
  BY DEF RememberInv, History, LogHolds, OneRun, Intact
<1>2. WholeId \in Nat /\ Recoverable(0, WholeId)
  BY <1>1, OneRunRecoverable
<1>. QED  BY <1>2 DEF Recoverable, ChunkBatch, LastBatch

\* Recovery from the log of one run ends in the newest batch that is whole.
LEMMA RecoveryIs ==
    ASSUME RememberInv, phase = "replay", Recovered, Intact, writers <= 1
    PROVE  /\ \A k \in Chunks : rec.ver[k] = WholeId
           /\ WholeId \in Nat
           /\ HighestBatch = IF WholeId = 0 THEN 0 ELSE WholeId - 1
<1>1. PICK t \in Nat : t = WholeId /\ Replaying(0, t)
  BY DEF RememberInv, ReplayFollows
<1>2. /\ \A k \in Chunks : rec.ver[k] = VersionBefore(0, t, t)
      /\ HighestBatch = LastBatch(t)
  BY <1>1, ReplayEnds
<1>. QED  BY <1>1, <1>2 DEF VersionBefore, LastBatch

-----------------------------------------------------------------------------
\* The data and the count of it.

\* A run over a new log starts from zeros.
LEMMA StartsFromZero == ASSUME RememberInv, Boot \/ FinishRecovery, FirstRun' PROVE memory' = 0
<1>1. logMax = 0 /\ ~damaged /\ logMax \in Nat /\ writers = 0
  BY DEF RememberInv, Control, History, Boot, FinishRecovery, FirstRun, historyVars
<1>2. OneRun
  BY <1>1 DEF OneRun
<1>3. Intact /\ WholeId = 0
  BY <1>1, <1>2, NewLog DEF Intact
<1>4. CASE Boot
  BY <1>1, <1>3, <1>4, AlwaysValid DEF Boot, FirstRun
<1>5. CASE FinishRecovery
  <2>1. \A k \in Chunks : rec.ver[k] = 0
    BY <1>1, <1>3, <1>5, RecoveryIs DEF FinishRecovery
  <2>2. Assembled = 0
    BY <2>1, NAssumption DEF Assembled, Chunks
  <2>. QED  BY <1>5, <2>2 DEF FinishRecovery
<1>. QED  BY <1>4, <1>5

\* Only the steps of the two threads move data, and each moves it with its batch.
LEMMA DataKept == ASSUME RememberInv, [Next]_vars PROVE DataFollows' /\ FirstFollows'
<1>0. /\ HandoffInv /\ Control /\ DataFollows /\ FirstFollows
      /\ batch \in Nat /\ base \in Nat
  BY MaxBatchesAssumption DEF RememberInv, HandoffInv, HandoffTypeOK, Control
<1>1. ASSUME HandoffInit', FirstRun' => memory' = 0 PROVE DataFollows' /\ FirstFollows'
  BY <1>1 DEF HandoffInit, DataFollows, FirstFollows, Applied
<1>2. CASE phase # "run"
  <2>1. HandoffInit /\ ~(phase' = "run" /\ ~(Boot \/ FinishRecovery))
    BY <1>0, <1>2 DEF Control, Next, BootNext, MainNext, WorkerNext, CrashNext, RecoveryStep,
      BootReference, MainControl, ReadBatch, DispatchBatch, SaveHashAndSync, WorkerControl,
      TakeBatch, CopySnapshot, CopyTransactions, SyncCommit, ReportCommit, Exit, Kill,
      PowerLoss, ResetProcess, vars, envVars
  <2>2. HandoffInit'
    BY <1>2, <2>1
    DEF Next, BootNext, MainNext, WorkerNext, CrashNext, Boot, RecoveryStep, FinishRecovery,
      BootReference, MainControl, ReadBatch, DispatchBatch, SaveHashAndSync, WorkerControl,
      TakeBatch, CopySnapshot, CopyTransactions, SyncCommit, ReportCommit, Exit, Kill,
      PowerLoss, ResetProcess, vars, HandoffInit, handoffVars, mainVars, workerVars, flagVars
  <2>3. FirstRun' => memory' = 0
    BY <2>1, StartsFromZero DEF FirstRun
  <2>. QED  BY <1>1, <2>2, <2>3
<1>3. CASE CrashNext
  BY <1>1, <1>3 DEF CrashNext, Exit, Kill, PowerLoss, ResetProcess, HandoffInit, FirstRun
<1>4. CASE UNCHANGED <<handoffVars, phase, memory, base, txBuf, argsData, localData, damaged>>
  <2>1. UNCHANGED <<batch, mainPc, dataReady, shouldExit, workerPc, args, local>>
    BY <1>4 DEF handoffVars, mainVars, workerVars, flagVars
  <2>2. DataFollows'
    BY <1>0, <1>4, <2>1 DEF DataFollows, Applied, Carried
  <2>3. FirstFollows'
    BY <1>0, <1>4, <2>1 DEF FirstFollows, FirstRun, Applied
  <2>. QED  BY <2>2, <2>3
<1>5. CASE MainControl
  <2>1. UNCHANGED <<phase, memory, base, txBuf, argsData, localData, damaged>>
    BY <1>5 DEF MainControl, NoDataEffect, processVars, historyVars, envVars
  <2>2. /\ UNCHANGED <<batch, args, local, Applied>>
        /\ mainPc' \in {"waitPrev", "sleepPrev", "dispatch"} =>
              mainPc \in {"waitPrev", "sleepPrev", "dispatch"}
        /\ dataReady' /\ ~shouldExit' => dataReady /\ ~shouldExit
        /\ workerPc' \in {"commit", "report"} => workerPc \in {"commit", "report"}
    BY <1>5 DEF MainControl, SetupSucceeds, SetupFails, WaitForPrevious, WaitForLast, Join,
                MainSpuriousWakeup, ReadEndOfFile, workerVars, flagVars, SignalDataReady,
                SignalCommitDone, Applied
  <2>3. DataFollows'
    BY <1>0, <2>1, <2>2 DEF DataFollows, Carried
  <2>4. FirstFollows'
    BY <1>0, <2>1, <2>2 DEF FirstFollows, FirstRun
  <2>. QED  BY <2>3, <2>4
<1>6. CASE ReadBatch
  <2>1. /\ mainPc = "read" /\ mainPc' \in {"waitPrev", "dispatch"}
        /\ UNCHANGED <<phase, base, argsData, localData, damaged, batch, args, local,
                       dataReady, shouldExit, workerPc>>
        /\ memory' = base + batch + 1 /\ txBuf' = [id |-> base + batch + 1, parent |-> memory]
    BY <1>6 DEF ReadBatch, ReadAndApply, workerVars, flagVars, historyVars, envVars
  <2>2. Applied = batch /\ Applied' = batch + 1
    BY <1>0, <2>1 DEF Applied
  <2>3. txBuf'.id = base + batch + 1
    BY <2>1
  <2>4. DataFollows'
    BY <1>0, <2>1, <2>2, <2>3 DEF DataFollows, Carried
  <2>5. FirstFollows'
    BY <1>0, <2>1, <2>2 DEF FirstFollows, FirstRun, TransactionsOf
  <2>. QED  BY <2>4, <2>5
<1>7. CASE DispatchBatch
  <2>1. /\ mainPc = "dispatch" /\ mainPc' \in {"finish", "read"}
        /\ UNCHANGED <<phase, memory, base, txBuf, localData, damaged, local, shouldExit>>
        /\ workerPc' \in {"commit", "report"} => workerPc \in {"commit", "report"}
        /\ batch' = batch + 1 /\ args' = batch
        /\ argsData' = [ver |-> memory, tx |-> txBuf]
    BY <1>7 DEF DispatchBatch, Dispatch, historyVars, envVars, SignalDataReady
  <2>2. Applied = batch + 1 /\ Applied' = batch + 1
    BY <1>0, <2>1 DEF Applied
  <2>3. argsData'.ver = memory /\ argsData'.tx = txBuf
    BY <2>1
  <2>4. DataFollows'
    BY <1>0, <2>1, <2>2, <2>3 DEF DataFollows, Carried
  <2>5. FirstFollows'
    BY <1>0, <2>1, <2>2, <2>3 DEF FirstFollows, FirstRun
  <2>. QED  BY <2>4, <2>5
<1>8. CASE SaveHashAndSync
  <2>1. /\ mainPc = "finish" /\ mainPc' = "waitLast"
        /\ UNCHANGED <<phase, memory, base, txBuf, argsData, localData, damaged, batch, args,
                       local, dataReady, shouldExit, workerPc>>
    BY <1>8 DEF SaveHashAndSync, Finish, workerVars, flagVars, processVars, envVars
  <2>2. Applied = batch /\ Applied' = batch
    BY <1>0, <2>1 DEF Applied
  <2>3. DataFollows'
    BY <1>0, <2>1, <2>2 DEF DataFollows, Carried
  <2>4. FirstFollows'
    BY <1>0, <2>1, <2>2 DEF FirstFollows, FirstRun
  <2>. QED  BY <2>3, <2>4
<1>9. CASE WorkerControl
  <2>1. /\ UNCHANGED <<phase, memory, base, txBuf, argsData, localData, damaged, batch, args,
                       local, dataReady, shouldExit, mainPc>>
        /\ workerPc' \in {"check", "sleep", "exited"}
    BY <1>9 DEF WorkerControl, WorkerSleep, WorkerExit, WorkerSpuriousWakeup, NoDataEffect,
                mainVars, flagVars, processVars, envVars, historyVars
  <2>2. DataFollows'
    BY <1>0, <2>1 DEF DataFollows, Applied, Carried
  <2>3. FirstFollows'
    BY <1>0, <2>1 DEF FirstFollows, FirstRun, Applied
  <2>. QED  BY <2>2, <2>3
<1>10. CASE TakeBatch
  <2>1. /\ UNCHANGED <<phase, memory, base, txBuf, argsData, damaged, batch, args, shouldExit,
                       mainPc>>
        /\ dataReady /\ ~shouldExit /\ ~dataReady'
        /\ local' = args /\ localData' = argsData
    BY <1>10 DEF TakeBatch, WorkerTake, mainVars, envVars, historyVars
  <2>2. DataFollows'
    BY <1>0, <2>1 DEF DataFollows, Applied, Carried
  <2>3. FirstFollows'
    BY <1>0, <2>1 DEF FirstFollows, FirstRun, Applied
  <2>. QED  BY <2>2, <2>3
<1>11. CASE SyncCommit
  <2>1. /\ UNCHANGED <<phase, memory, base, txBuf, argsData, localData, damaged, batch, args,
                       local, dataReady, shouldExit, mainPc>>
        /\ workerPc = "commit"
    BY <1>11 DEF SyncCommit, WorkerCommit, mainVars, flagVars, envVars
  <2>2. DataFollows'
    BY <1>0, <2>1 DEF DataFollows, Applied, Carried
  <2>3. FirstFollows'
    BY <1>0, <2>1 DEF FirstFollows, FirstRun, Applied
  <2>. QED  BY <2>2, <2>3
<1>12. CASE ReportCommit
  <2>1. /\ UNCHANGED <<phase, memory, base, txBuf, argsData, localData, damaged, batch, args,
                       local, dataReady, shouldExit, Applied>>
        /\ workerPc' = "check"
        /\ mainPc' \in {"waitPrev", "sleepPrev", "dispatch"} =>
              mainPc \in {"waitPrev", "sleepPrev", "dispatch"}
    BY <1>12 DEF ReportCommit, WorkerReport, processVars, envVars, SignalCommitDone, Applied
  <2>2. DataFollows'
    BY <1>0, <2>1 DEF DataFollows, Carried
  <2>3. FirstFollows'
    BY <1>0, <2>1 DEF FirstFollows, FirstRun
  <2>. QED  BY <2>2, <2>3
<1>13. CASE BootNext
  BY <1>2, <1>13 DEF BootNext, Boot, BootReference, RecoveryStep, FinishRecovery
<1>14. CASE CopySnapshot \/ CopyTransactions
  BY <1>4, <1>14 DEF CopySnapshot, CopyTransactions, envVars
<1>15. CASE UNCHANGED vars
  BY <1>4, <1>15 DEF vars, processVars, historyVars, envVars
<1>. QED
  BY <1>3, <1>5, <1>6, <1>7, <1>8, <1>9, <1>10, <1>11, <1>12, <1>13, <1>14, <1>15
  DEF Next, MainNext, WorkerNext

\* Every batch the worker begins to write counts in the history of the log.
LEMMA CountKept == ASSUME RememberInv, [Next]_vars PROVE WritersCount'
<1>0. WritersCount /\ Control /\ History
  BY DEF RememberInv
<1>1. CASE Boot \/ FinishRecovery
  <2>1. base' = logMax /\ UNCHANGED historyVars /\ UNCHANGED <<handoffVars, commitPc>>
        /\ phase # "run"
    BY <1>0, <1>1 DEF Boot, FinishRecovery, Control
  <2>2. Written' = 0 /\ Len(committed') = 0
    BY <1>0, <2>1 DEF Control, HandoffInit, Written, InFlight, handoffVars, workerVars
  <2>. QED  BY <1>0, <2>1, <2>2 DEF WritersCount, History, historyVars
<1>2. CASE BootReference \/ RecoveryStep \/ CrashNext
  BY <1>2 DEF BootReference, RecoveryStep, CrashNext, Exit, Kill, PowerLoss, ResetProcess,
              envVars, WritersCount
<1>3. CASE CopySnapshot
  <2>1. /\ local \in Nat /\ Len(committed) = local /\ phase = "run"
        /\ commitPc = "snapshot" /\ workerPc = "commit"
        /\ logMax' = base + local + 1
    BY <1>3, InHand DEF CopySnapshot
  <2>2. /\ UNCHANGED <<phase, base, reported, committed>> /\ commitPc' = "transactions"
        /\ writers' = IF local = 0 THEN writers + 1 ELSE writers
    BY <1>3 DEF CopySnapshot, envVars, handoffVars, workerVars
  <2>3. Written = local /\ Written' = local + 1 /\ base \in Nat
    BY <1>0, <2>1, <2>2 DEF Written, InFlight, Control
  <2>4. writers \in Nat /\ reported \in Nat
    BY <1>0 DEF History
  <2>. QED  BY <1>0, <2>1, <2>2, <2>3, <2>4 DEF WritersCount
<1>4. CASE ReportCommit
  <2>1. /\ local \in Nat /\ Len(committed) = local /\ phase = "run" /\ workerPc = "report"
        /\ reported' = base + local + 1
    BY <1>4, InHand DEF ReportCommit, WorkerReport
  <2>2. /\ UNCHANGED <<phase, base, writers, logMax, commitPc>> /\ workerPc' = "check"
        /\ committed' = Append(committed, local)
    BY <1>4 DEF ReportCommit, WorkerReport, envVars, processVars
  <2>3. Len(committed') = local + 1
    BY <2>1, <2>2 DEF RememberInv, HandoffInv, HandoffTypeOK
  <2>4. Written = local + 1 /\ Written' = local + 1 /\ base \in Nat
    BY <1>0, <2>1, <2>2, <2>3 DEF Written, InFlight, Control
  <2>. QED  BY <1>0, <2>1, <2>2, <2>3, <2>4 DEF WritersCount
<1>5. CASE UNCHANGED <<phase, base, reported, writers, logMax, committed, Written>>
  BY <1>0, <1>5 DEF WritersCount
<1>6. CASE MainNext
  <2>1. UNCHANGED <<phase, base, reported, writers, logMax, committed, commitPc>>
    BY <1>6 DEF MainNext, MainControl, ReadBatch, DispatchBatch, SaveHashAndSync,
                SetupSucceeds, SetupFails, WaitForPrevious, WaitForLast, Join,
                MainSpuriousWakeup, ReadEndOfFile, ReadAndApply, Dispatch, Finish,
                workerVars, NoDataEffect, processVars, historyVars, envVars
  <2>2. workerPc' = "report" <=> workerPc = "report"
    BY <1>6 DEF MainNext, MainControl, ReadBatch, DispatchBatch, SaveHashAndSync,
                SetupSucceeds, SetupFails, WaitForPrevious, WaitForLast, Join,
                MainSpuriousWakeup, ReadEndOfFile, ReadAndApply, Dispatch, Finish,
                workerVars, SignalDataReady
  <2>3. Written' = Written
    BY <2>1, <2>2 DEF Written, InFlight
  <2>. QED  BY <1>5, <2>1, <2>3
<1>7. CASE WorkerControl \/ TakeBatch \/ CopyTransactions \/ SyncCommit
  <2>1. UNCHANGED <<phase, base, reported, writers, logMax, committed>>
    BY <1>7 DEF WorkerControl, WorkerSleep, WorkerExit, WorkerSpuriousWakeup, TakeBatch,
                WorkerTake, CopyTransactions, SyncCommit, WorkerCommit, handoffVars,
                workerVars, NoDataEffect, processVars, historyVars, envVars
  <2>2. InFlight' \/ workerPc' = "report" <=> InFlight \/ workerPc = "report"
    BY <1>0, <1>7
       DEF WorkerControl, WorkerSleep, WorkerExit, WorkerSpuriousWakeup, TakeBatch,
           WorkerTake, CopyTransactions, SyncCommit, WorkerCommit, handoffVars, workerVars,
           NoDataEffect, processVars, InFlight, Control
  <2>3. Written' = Written
    BY <2>1, <2>2 DEF Written
  <2>. QED  BY <1>5, <2>1, <2>3
<1>8. CASE UNCHANGED vars
  BY <1>5, <1>8 DEF vars, processVars, historyVars, envVars, handoffVars, workerVars,
                    Written, InFlight
<1>. QED
  BY <1>1, <1>2, <1>3, <1>4, <1>6, <1>7, <1>8 DEF Next, BootNext, WorkerNext

-----------------------------------------------------------------------------
\* The slots.

\* After the first copy of a commit the snapshot slots have the batch, in memory.
LEMMA CopySnapshotHolds ==
    ASSUME RememberInv, CopySnapshot, OneRun'
    PROVE  /\ FirstRun /\ logMax = local /\ logMax' = local + 1 /\ local \in Nat
           /\ commitPc = "snapshot" /\ UNCHANGED <<txs, diskSnap, diskTxs>>
           /\ \A k \in Chunks : HoldsSnapshot(0, snap'[k], k, local + 1)
<1>1. /\ local \in Nat /\ Len(committed) = local /\ phase = "run"
      /\ commitPc = "snapshot" /\ workerPc = "commit"
      /\ logMax' = base + local + 1 /\ localData.ver = base + local + 1
      /\ snap' = [snap EXCEPT ![Slot(local)] =
                    [batch |-> local, chunk |-> Slot(local), ver |-> localData.ver]]
      /\ writers' = (IF local = 0 THEN writers + 1 ELSE writers)
      /\ UNCHANGED <<damaged, txs, diskSnap, diskTxs>>
  BY InHand DEF CopySnapshot, WriteSnapshot
<1>2. Written = local
  BY <1>1 DEF Written, InFlight
<1>3. base \in Nat /\ writers \in Nat
  BY DEF RememberInv, Control, History
<1>4. base = 0 /\ logMax = local
  BY <1>1, <1>2, <1>3 DEF RememberInv, WritersCount, OneRun
<1>5. FirstRun
  BY <1>1, <1>4 DEF FirstRun, OneRun
<1>6. snap' = [snap EXCEPT ![Slot(local)] = SnapshotOf(0, local)]
  BY <1>1, <1>4 DEF SnapshotOf
<1>7. \A k \in Chunks : HoldsSnapshot(0, snap[k], k, local) /\ k \in DOMAIN snap
  BY <1>4, <1>5 DEF RememberInv, FirstHolds, LogTypes
<1>8. ASSUME NEW k \in Chunks PROVE HoldsSnapshot(0, snap'[k], k, local + 1)
  <2>1. CASE k = Slot(local)
    BY <1>1, <1>6, <1>7, <2>1, HoldsLast
  <2>2. CASE k # Slot(local)
    BY <1>1, <1>6, <1>7, <2>2, HoldsLater
  <2>. QED  BY <2>1, <2>2
<1>. QED  BY <1>1, <1>4, <1>5, <1>8

\* After the second copy both slots of the batch are as they should be in memory.
LEMMA CopyTransactionsHolds ==
    ASSUME RememberInv, CopyTransactions, OneRun
    PROVE  /\ FirstRun /\ logMax = local + 1 /\ local \in Nat
           /\ UNCHANGED <<snap, diskSnap, diskTxs, logMax>>
           /\ \A k \in Chunks : HoldsTransactions(0, txs'[k], k, local + 1)
<1>1. /\ local \in Nat /\ workerPc = "commit" /\ InFlight
      /\ txs' = [txs EXCEPT ![Slot(local)] = [batch |-> local, tx |-> localData.tx]]
      /\ UNCHANGED <<snap, diskSnap, diskTxs, logMax>>
  BY InHand DEF CopyTransactions, WriteBatch, InFlight
<1>2. FirstRun /\ logMax = local + 1
  BY <1>1, WritesFirst
<1>3. txs' = [txs EXCEPT ![Slot(local)] = TransactionsOf(local)]
  BY <1>1, <1>2 DEF RememberInv, FirstFollows, TransactionsOf
<1>4. \A k \in Chunks : NearlyHoldsTransactions(0, txs[k], k, local + 1) /\ k \in DOMAIN txs
  BY <1>2 DEF RememberInv, LogHolds, OneRun, LogTypes
<1>5. ASSUME NEW k \in Chunks PROVE HoldsTransactions(0, txs'[k], k, local + 1)
  <2>1. CASE k = Slot(local)
    BY <1>1, <1>3, <1>4, <2>1, HoldsLast, TransactionsOfRun
  <2>2. CASE k # Slot(local)
    <3>1. txs'[k] = txs[k] /\ (local + 1) - 1 = local
      BY <1>1, <1>3, <1>4, <2>2
    <3>. QED  BY <1>4, <2>2, <3>1 DEF NearlyHoldsTransactions
  <2>. QED  BY <2>1, <2>2
<1>. QED  BY <1>1, <1>2, <1>5

\* Every slot but that of the batch in flight stays as it was.
LEMMA LogHoldsKept == ASSUME RememberInv, [Next]_vars PROVE LogHolds'
<1>0. LogHolds /\ History
  BY DEF RememberInv
<1>1. CASE LogStill
  BY <1>0, <1>1 DEF LogStill, logVars, LogHolds, OneRun
<1>2. CASE BootReference
  <2>1. /\ snap' = [k \in Chunks |-> ZeroSnapshot] /\ diskSnap' = snap'
        /\ txs' = [k \in Chunks |-> ZeroBatch] /\ diskTxs' = txs' /\ logMax' = 0
    BY <1>2 DEF BootReference
  <2>2. \A k \in Chunks : /\ NearlyHoldsSnapshot(0, ZeroSnapshot, k, 0)
                          /\ NearlyHoldsTransactions(0, ZeroBatch, k, 0)
    BY NAssumption DEF NearlyHoldsSnapshot, NearlyHoldsTransactions, HoldsSnapshot,
                       HoldsTransactions, LeftSnapshot, LeftTransactions, Chunks
  <2>3. \A k \in Chunks : /\ snap'[k] = ZeroSnapshot /\ diskSnap'[k] = ZeroSnapshot
                          /\ txs'[k] = ZeroBatch /\ diskTxs'[k] = ZeroBatch
    BY <2>1
  <2>. QED  BY <2>1, <2>2, <2>3 DEF LogHolds
<1>3. CASE CopySnapshot
  <2>. SUFFICES ASSUME OneRun' PROVE LogHolds'
    BY DEF LogHolds
  <2>1. /\ FirstRun /\ logMax = local /\ logMax' = local + 1 /\ local \in Nat
        /\ commitPc = "snapshot" /\ UNCHANGED <<txs, diskSnap, diskTxs>>
        /\ \A k \in Chunks : HoldsSnapshot(0, snap'[k], k, local + 1)
        /\ UNCHANGED syncFailed
    BY <1>3, CopySnapshotHolds DEF CopySnapshot
  <2>2. /\ \A k \in Chunks : HoldsTransactions(0, txs[k], k, local)
        /\ ~syncFailed => \A k \in Chunks : /\ HoldsSnapshot(0, diskSnap[k], k, local)
                                            /\ HoldsTransactions(0, diskTxs[k], k, local)
    BY <2>1 DEF RememberInv, FirstHolds, InFlight
  <2>3. \A k \in Chunks : \A s :
          /\ HoldsSnapshot(0, s, k, local) => NearlyHoldsSnapshot(0, s, k, local + 1)
          /\ HoldsTransactions(0, s, k, local) => NearlyHoldsTransactions(0, s, k, local + 1)
    <3>1. (local + 1) - 1 = local /\ local + 1 > 0
      BY <2>1
    <3>. QED
      BY <2>1, <3>1, HoldsLater DEF NearlyHoldsSnapshot, NearlyHoldsTransactions
  <2>4. \A k \in Chunks : NearlyHoldsSnapshot(0, snap'[k], k, local + 1)
    BY <2>1 DEF NearlyHoldsSnapshot
  <2>. QED  BY <2>1, <2>2, <2>3, <2>4 DEF LogHolds
<1>4. CASE CopyTransactions
  <2>. SUFFICES ASSUME OneRun' PROVE LogHolds'
    BY DEF LogHolds
  <2>1. OneRun /\ UNCHANGED syncFailed
    BY <1>4 DEF CopyTransactions, OneRun
  <2>2. /\ UNCHANGED <<snap, diskSnap, diskTxs, logMax>>
        /\ \A k \in Chunks : HoldsTransactions(0, txs'[k], k, logMax)
    BY <1>4, <2>1, CopyTransactionsHolds
  <2>. QED  BY <1>0, <2>1, <2>2 DEF LogHolds, NearlyHoldsTransactions
<1>5. CASE SyncCommit \/ SaveHashAndSync
  <2>. SUFFICES ASSUME OneRun' PROVE LogHolds'
    BY DEF LogHolds
  <2>1. OneRun /\ UNCHANGED <<snap, txs, logMax>>
    BY <1>5 DEF SyncCommit, SaveHashAndSync, OneRun
  <2>2. ASSUME ~syncFailed'
        PROVE  /\ ~syncFailed
               /\ \A k \in Chunks : /\ diskSnap'[k] \in {snap[k], diskSnap[k]}
                                    /\ diskTxs'[k] \in {txs[k], diskTxs[k]}
    <3>1. CASE SyncCommit
      <4>1. local \in Nat
        BY <3>1, InHand DEF SyncCommit, WorkerCommit
      <4>. QED  BY <2>2, <3>1, <4>1, SyncTakes DEF SyncCommit
    <3>2. CASE SaveHashAndSync
      BY <2>2, <3>2 DEF SaveHashAndSync, SyncAll
    <3>. QED  BY <1>5, <3>1, <3>2
  <2>. QED  BY <1>0, <2>1, <2>2 DEF LogHolds
<1>6. CASE Kill
  <2>1. UNCHANGED <<snap, txs, logMax, syncFailed, damaged, writers>>
        /\ diskSnap' = snap /\ diskTxs' = txs
    BY <1>6 DEF Kill, SyncAll
  <2>. QED  BY <1>0, <2>1 DEF LogHolds, OneRun
<1>7. CASE PowerLoss
  <2>. SUFFICES ASSUME OneRun' PROVE LogHolds'
    BY DEF LogHolds
  <2>1. OneRun /\ ~syncFailed /\ UNCHANGED <<logMax, syncFailed>>
    BY <1>7 DEF PowerLoss, OneRun
  <2>2. /\ diskSnap' = snap' /\ diskTxs' = txs'
        /\ \A k \in Chunks : /\ snap'[k] \in {snap[k], diskSnap[k]}
                             /\ txs'[k] \in {txs[k], diskTxs[k]}
    BY <1>7 DEF PowerLoss
  <2>. QED  BY <1>0, <2>1, <2>2 DEF LogHolds
<1>. QED  BY <1>1, <1>2, <1>3, <1>4, <1>5, <1>6, <1>7, LogSteps

\* No step adds or drops a slot.
LEMMA LogTypesKept == ASSUME RememberInv, [Next]_vars PROVE LogTypes'
<1>0. LogTypes
  BY DEF RememberInv
<1>1. CASE LogStill \/ SaveHashAndSync \/ SyncCommit \/ Kill
  BY <1>0, <1>1 DEF LogStill, logVars, SaveHashAndSync, SyncCommit, Kill, LogTypes
<1>2. CASE BootReference \/ PowerLoss
  BY <1>2 DEF BootReference, PowerLoss, LogTypes
<1>3. CASE CopySnapshot \/ CopyTransactions
  BY <1>0, <1>3 DEF CopySnapshot, CopyTransactions, WriteSnapshot, WriteBatch, LogTypes
<1>. QED  BY <1>1, <1>2, <1>3, LogSteps

\* While a first run goes on, what is not in flight is where it belongs.
LEMMA FirstHoldsKept == ASSUME RememberInv, [Next]_vars PROVE FirstHolds'
<1>. SUFFICES ASSUME FirstRun' PROVE FirstHolds'
  BY DEF FirstHolds
<1>0. FirstHolds /\ Control /\ History
  BY DEF RememberInv
<1>1. CASE Boot \/ FinishRecovery
  <2>1. logMax = 0 /\ ~damaged /\ UNCHANGED logVars /\ UNCHANGED historyVars
    BY <1>0, <1>1 DEF Boot, FinishRecovery, FirstRun, Control, historyVars
  <2>2. OneRun
    BY <1>0, <2>1 DEF OneRun, History
  <2>. QED  BY <2>1, <2>2, NewLog DEF FirstHolds, logVars, historyVars
<1>2. CASE CopySnapshot
  <2>1. OneRun' /\ commitPc' = "transactions"
    <3>1. WritersCount' /\ History'
      BY CountKept, HistoryKept
    <3>2. writers' <= 1
      BY <3>1 DEF WritersCount, FirstRun, History
    <3>. QED  BY <1>2, <3>2 DEF OneRun, FirstRun, CopySnapshot
  <2>2. /\ logMax' = local + 1
        /\ \A k \in Chunks : HoldsSnapshot(0, snap'[k], k, local + 1)
    BY <1>2, <2>1, CopySnapshotHolds
  <2>. QED  BY <2>1, <2>2 DEF FirstHolds, InFlight
<1>3. ASSUME UNCHANGED <<phase, base, damaged>> PROVE OneRun /\ FirstRun
  <2>1. FirstRun
    BY <1>3 DEF FirstRun
  <2>. QED  BY <1>0, <2>1 DEF RememberInv, WritersCount, FirstRun, OneRun, History
<1>4. CASE CopyTransactions
  <2>1. OneRun /\ FirstRun /\ commitPc' = "sync"
    BY <1>3, <1>4 DEF CopyTransactions, envVars
  <2>2. /\ logMax = local + 1 /\ UNCHANGED <<snap, logMax>>
        /\ \A k \in Chunks : HoldsTransactions(0, txs'[k], k, logMax)
    BY <1>4, <2>1, CopyTransactionsHolds
  <2>. QED  BY <1>0, <2>1, <2>2 DEF FirstHolds, InFlight
<1>5. CASE SyncCommit
  <2>1. OneRun /\ FirstRun /\ UNCHANGED <<snap, txs, logMax>>
        /\ commitPc = "sync" /\ workerPc = "commit"
    BY <1>3, <1>5 DEF SyncCommit, WorkerCommit, envVars
  <2>2. local \in Nat /\ logMax = local + 1
    BY <2>1, InHand, WritesFirst DEF InFlight
  <2>3. /\ \A k \in Chunks : HoldsSnapshot(0, snap[k], k, logMax)
        /\ \A k \in Chunks : HoldsTransactions(0, txs[k], k, logMax)
    BY <1>0, <2>1 DEF FirstHolds
  <2>4. ASSUME ~syncFailed'
        PROVE  \A k \in Chunks : /\ HoldsSnapshot(0, diskSnap'[k], k, logMax)
                                 /\ HoldsTransactions(0, diskTxs'[k], k, logMax)
    <3>. TAKE k \in Chunks
    <3>1. ~syncFailed /\ SyncSlots(local)
      BY <1>5, <2>4 DEF SyncCommit
    <3>2. CASE k = Slot(local)
      BY <2>2, <2>3, <3>1, <3>2, SyncTakes
    <3>3. CASE k # Slot(local)
      <4>1. logMax - 1 = local
        BY <2>2
      <4>2. /\ HoldsSnapshot(0, diskSnap[k], k, logMax)
            /\ HoldsTransactions(0, diskTxs[k], k, logMax)
        BY <2>1, <3>1, <3>3, <4>1
        DEF RememberInv, LogHolds, NearlyHoldsSnapshot, NearlyHoldsTransactions
      <4>. QED  BY <2>2, <2>3, <3>1, <4>2, SyncTakes
    <3>. QED  BY <3>2, <3>3
  <2>. QED  BY <2>1, <2>3, <2>4 DEF FirstHolds
<1>6. CASE SaveHashAndSync
  <2>1. OneRun /\ FirstRun /\ UNCHANGED <<snap, txs, logMax, commitPc>>
        /\ (~syncFailed' => diskSnap' = snap /\ diskTxs' = txs)
    BY <1>3, <1>6 DEF SaveHashAndSync, SyncAll, envVars, processVars
  <2>. QED  BY <1>0, <2>1 DEF FirstHolds, InFlight
<1>7. ASSUME LogStill, UNCHANGED <<phase, base>>,
             \/ commitPc' = commitPc
             \/ commitPc' = "snapshot" /\ commitPc = "idle"
      PROVE  FirstHolds'
  <2>1. FirstRun
    BY <1>3, <1>7 DEF LogStill
  <2>2. /\ InFlight' <=> InFlight
        /\ commitPc' # "transactions" <=> commitPc # "transactions"
    BY <1>7 DEF InFlight
  <2>3. UNCHANGED <<snap, txs, diskSnap, diskTxs, logMax, syncFailed>>
    BY <1>7 DEF LogStill, logVars
  <2>. QED  BY <1>0, <2>1, <2>2, <2>3 DEF FirstHolds
<1>8. CASE MainControl \/ ReadBatch \/ DispatchBatch
  <2>1. LogStill /\ UNCHANGED <<phase, base>> /\ commitPc' = commitPc
    BY <1>8 DEF MainControl, ReadBatch, DispatchBatch, NoDataEffect, LogStill, processVars,
                historyVars, envVars
  <2>. QED  BY <1>7, <2>1
<1>9. CASE WorkerControl \/ ReportCommit
  <2>1. LogStill /\ UNCHANGED <<phase, base>> /\ commitPc' = commitPc
    BY <1>9 DEF WorkerControl, ReportCommit, NoDataEffect, LogStill, processVars,
                historyVars, envVars
  <2>. QED  BY <1>7, <2>1
<1>10. CASE TakeBatch
  <2>1. commitPc = "idle"
    BY <1>0, <1>10 DEF TakeBatch, WorkerTake, Control
  <2>. QED  BY <1>7, <1>10, <2>1 DEF TakeBatch, LogStill, historyVars, envVars
<1>11. CASE BootReference \/ RecoveryStep \/ CrashNext
  BY <1>11 DEF BootReference, RecoveryStep, CrashNext, Exit, Kill, PowerLoss, ResetProcess,
               FirstRun, envVars
<1>12. CASE UNCHANGED vars
  <2>1. LogStill /\ UNCHANGED <<phase, base>> /\ commitPc' = commitPc
    BY <1>12 DEF vars, LogStill, processVars, historyVars, envVars
  <2>. QED  BY <1>7, <2>1
<1>. QED
  BY <1>1, <1>2, <1>4, <1>5, <1>6, <1>8, <1>9, <1>10, <1>11, <1>12
  DEF Next, BootNext, MainNext, WorkerNext

\* A reported batch stays where it is safe until the next one is begun.
LEMMA LastIsSafeKept == ASSUME RememberInv, [Next]_vars PROVE LastIsSafe'
<1>. SUFFICES ASSUME ~syncFailed', writers' <= 1 PROVE LastIsSafe'
  BY DEF LastIsSafe
<1>0. LastIsSafe /\ Control /\ History /\ History'
  BY HistoryKept DEF RememberInv
<1>1. CASE CopySnapshot
  <2>1. OneRun'
    BY <1>0 DEF OneRun, History
  <2>2. FirstRun /\ logMax = local /\ logMax' = local + 1 /\ local \in Nat
    BY <1>1, <2>1, CopySnapshotHolds
  <2>3. reported' = reported /\ reported \in Nat /\ reported <= logMax
    BY <1>0, <1>1 DEF CopySnapshot, History
  <2>. QED  BY <2>2, <2>3 DEF LastIsSafe
<1>2. CASE CopyTransactions \/ SyncCommit
  <2>1. OneRun /\ workerPc = "commit" /\ InFlight /\ UNCHANGED <<reported, logMax>>
    BY <1>0, <1>2 DEF OneRun, History, CopyTransactions, SyncCommit, WorkerCommit, InFlight
  <2>2. FirstRun /\ logMax = local + 1 /\ Len(committed) = local /\ local \in Nat
    BY <2>1, InHand, WritesFirst
  <2>3. reported = local
    BY <2>2 DEF RememberInv, WritersCount, FirstRun
  <2>. QED  BY <2>1, <2>2, <2>3 DEF LastIsSafe
<1>3. CASE ReportCommit
  <2>1. OneRun /\ workerPc = "report" /\ ~syncFailed /\ UNCHANGED logVars /\ logMax' = logMax
    BY <1>0, <1>3 DEF OneRun, History, ReportCommit, WorkerReport
  <2>2. FirstRun /\ ~InFlight /\ commitPc = "idle"
    BY <1>0, <2>1, WritesFirst DEF Control, InFlight
  <2>3. \A k \in Chunks :
          /\ HoldsSnapshot(0, snap[k], k, logMax) /\ HoldsSnapshot(0, diskSnap[k], k, logMax)
          /\ HoldsTransactions(0, txs[k], k, logMax)
          /\ HoldsTransactions(0, diskTxs[k], k, logMax)
    BY <2>1, <2>2 DEF RememberInv, FirstHolds
  <2>. QED  BY <2>1, <2>3 DEF LastIsSafe, logVars
<1>4. CASE BootReference
  <2>1. /\ snap' = [k \in Chunks |-> ZeroSnapshot] /\ diskSnap' = snap'
        /\ txs' = [k \in Chunks |-> ZeroBatch] /\ diskTxs' = txs' /\ logMax' = 0
    BY <1>4 DEF BootReference
  <2>2. \A k \in Chunks : /\ HoldsSnapshot(0, ZeroSnapshot, k, 0)
                          /\ HoldsTransactions(0, ZeroBatch, k, 0)
    BY NAssumption DEF HoldsSnapshot, HoldsTransactions, LeftSnapshot, LeftTransactions, Chunks
  <2>3. \A k \in Chunks : /\ snap'[k] = ZeroSnapshot /\ diskSnap'[k] = ZeroSnapshot
                          /\ txs'[k] = ZeroBatch /\ diskTxs'[k] = ZeroBatch
    BY <2>1
  <2>. QED  BY <2>1, <2>2, <2>3 DEF LastIsSafe
<1>5. CASE SaveHashAndSync \/ Kill \/ PowerLoss
  <2>1. ~syncFailed /\ writers <= 1 /\ UNCHANGED <<reported, logMax>>
    BY <1>5 DEF SaveHashAndSync, Kill, PowerLoss
  <2>2. \A k \in Chunks :
          /\ snap'[k] \in {snap[k], diskSnap[k]} /\ diskSnap'[k] \in {snap[k], diskSnap[k]}
          /\ txs'[k] \in {txs[k], diskTxs[k]} /\ diskTxs'[k] \in {txs[k], diskTxs[k]}
    <3>1. CASE SaveHashAndSync \/ Kill
      BY <3>1 DEF SaveHashAndSync, Kill, SyncAll
    <3>2. CASE PowerLoss
      BY <3>2 DEF PowerLoss
    <3>. QED  BY <1>5, <3>1, <3>2
  <2>. QED  BY <1>0, <2>1, <2>2 DEF LastIsSafe
<1>6. CASE LogStill /\ reported' = reported
  BY <1>0, <1>6 DEF LogStill, logVars, LastIsSafe
<1>7. CASE LogStill /\ ~ReportCommit
  <2>1. reported' = reported
    BY <1>7 DEF Next, BootNext, MainNext, WorkerNext, CrashNext, Boot, BootReference,
       RecoveryStep, FinishRecovery, MainControl, ReadBatch, DispatchBatch, SaveHashAndSync,
       WorkerControl, TakeBatch, CopySnapshot, CopyTransactions, SyncCommit, Exit, Kill,
       PowerLoss, NoDataEffect, historyVars, LogStill, vars
  <2>. QED  BY <1>6, <1>7, <2>1
<1>. QED  BY <1>1, <1>2, <1>3, <1>4, <1>5, <1>7, LogSteps

-----------------------------------------------------------------------------
\* Recovery, the hash file and the verdict.

\* Recovery begins with a log it can bring forward, and each step brings it forward.
LEMMA ReplayKept == ASSUME RememberInv, [Next]_vars PROVE ReplayFollows'
<1>. SUFFICES ASSUME phase' = "replay", writers' <= 1, Intact' PROVE ReplayFollows'
  BY DEF ReplayFollows
<1>1. CASE Boot
  <2>1. LoadSnapshots /\ UNCHANGED logVars /\ UNCHANGED historyVars
    BY <1>1 DEF Boot
  <2>2. writers <= 1 /\ Intact
    BY <2>1 DEF historyVars, logVars, Intact, TornSlot
  <2>3. /\ \A k \in Chunks : NearlyHoldsSnapshot(0, snap[k], k, logMax)
        /\ \A k \in Chunks : NearlyHoldsTransactions(0, txs[k], k, logMax)
        /\ \A k \in Chunks : ~TornSlot(k)
        /\ logMax \in Nat
    BY <2>2 DEF RememberInv, History, LogHolds, OneRun, Intact
  <2>4. PICK t \in Nat : t = WholeId /\ Recoverable(0, t)
    BY <2>3, OneRunRecoverable
  <2>5. Replaying(0, t)'
    BY <2>1, <2>4, ReplayBegins
  <2>6. t = WholeId' /\ Recoverable(0, t)'
    BY <2>1, <2>4, LogStays
  <2>. QED  BY <2>5, <2>6 DEF ReplayFollows
<1>2. CASE RecoveryStep
  <2>1. /\ ReplayBatch \/ NextChunk
        /\ phase = "replay" /\ UNCHANGED logVars /\ UNCHANGED historyVars
    BY <1>2 DEF RecoveryStep
  <2>2. writers <= 1 /\ Intact
    BY <2>1 DEF historyVars, logVars, Intact, TornSlot
  <2>3. PICK t \in Nat : t = WholeId /\ Recoverable(0, t) /\ Replaying(0, t)
    BY <2>1, <2>2 DEF RememberInv, ReplayFollows
  <2>4. Replaying(0, t)'
    BY <2>1, <2>3, ReplayGoesOn
  <2>5. t = WholeId' /\ Recoverable(0, t)'
    BY <2>1, <2>3, LogStays
  <2>. QED  BY <2>4, <2>5 DEF ReplayFollows
<1>3. CASE UNCHANGED vars
  <2>1. phase = "replay" /\ UNCHANGED <<rec, logVars>> /\ UNCHANGED historyVars
    BY <1>3 DEF vars, envVars
  <2>2. writers <= 1 /\ Intact
    BY <2>1 DEF historyVars, logVars, Intact, TornSlot
  <2>3. PICK t \in Nat : t = WholeId /\ Recoverable(0, t) /\ Replaying(0, t)
    BY <2>1, <2>2 DEF RememberInv, ReplayFollows
  <2>4. t = WholeId' /\ Recoverable(0, t)'
    BY <2>1, <2>3, LogStays
  <2>5. Replaying(0, t)'
    <3>1. rec' = rec
      BY <2>1
    <3>. QED  BY <2>3, <3>1 DEF Replaying, Behind, HighestBatch
  <2>. QED  BY <2>4, <2>5 DEF ReplayFollows
<1>4. ~(MainNext \/ WorkerNext)
  BY DEF MainNext, WorkerNext, MainControl, ReadBatch, DispatchBatch, SaveHashAndSync,
         WorkerControl, TakeBatch, CopySnapshot, CopyTransactions, SyncCommit, ReportCommit,
         NoDataEffect, envVars
<1>5. ~(BootReference \/ FinishRecovery \/ CrashNext)
  BY DEF BootReference, FinishRecovery, CrashNext, Exit, Kill, PowerLoss, ResetProcess, envVars
<1>. QED  BY <1>1, <1>2, <1>3, <1>4, <1>5 DEF Next, BootNext

\* The hash file is written with the number of the batch, and only then.
LEMMA HashKept == ASSUME RememberInv, [Next]_vars PROVE HashFollows'
<1>0. HashFollows /\ Control /\ History /\ DataFollows /\ WritersCount
  BY DEF RememberInv
<1>1. CASE SaveHashAndSync
  <2>1. /\ phase = "run" /\ mainPc = "finish"
        /\ hashFile' = (IF batch > 0 THEN [id |-> memory, label |-> batch - 1] ELSE hashFile)
        /\ UNCHANGED <<phase, base, damaged, writers, logMax>>
    BY <1>1 DEF SaveHashAndSync, Finish, envVars, processVars
  <2>2. batch \in Nat /\ base \in Nat /\ writers \in Nat /\ logMax \in Nat
    BY <1>0, MaxBatchesAssumption DEF RememberInv, HandoffInv, HandoffTypeOK, Control, History
  <2>3. CASE batch = 0
    <3>1. UNCHANGED <<hashFile, phase, base, damaged, writers, logMax>>
      BY <2>1, <2>2, <2>3
    <3>. QED  BY <1>0, <3>1 DEF HashFollows, FirstRun, OneRun
  <2>4. CASE batch > 0
    <3>1. memory = base + batch
      BY <1>0, <2>1, <2>2, <2>4 DEF DataFollows, Applied
    <3>2. hashFile' \in [id : Int, label : Int]
          /\ hashFile'.id = base + batch /\ hashFile'.label = batch - 1
      BY <2>1, <2>2, <2>4, <3>1
    <3>3. base > 0 => writers > 0
      BY <1>0, <2>1, <2>2 DEF WritersCount
    <3>4. base > 0 /\ writers <= 1 => logMax = base
      <4>. SUFFICES ASSUME base > 0, writers <= 1 PROVE logMax = base
        OBVIOUS
      <4>1. writers > (IF Written = 0 THEN 0 ELSE 1) /\ logMax = base + Written
        BY <1>0, <2>1 DEF WritersCount
      <4>2. Written = 0
        BY <2>2, <4>1
      <4>. QED  BY <2>2, <4>1, <4>2
    <3>. QED  BY <2>1, <2>2, <2>4, <3>2, <3>3, <3>4 DEF HashFollows, FirstRun, OneRun
  <2>. QED  BY <2>2, <2>3, <2>4
<1>2. CASE BootReference
  BY <1>2 DEF BootReference, HashFollows, NoHash
<1>3. CASE CopySnapshot
  <2>1. UNCHANGED <<hashFile, phase, base, damaged>> /\ logMax' > 0 /\ writers' > 0
    <3>1. UNCHANGED <<hashFile, phase, base, damaged>> /\ logMax' = base + local + 1
          /\ local \in Nat
      BY <1>3, InHand DEF CopySnapshot, fileVars, envVars
    <3>2. base \in Nat
      BY <1>0 DEF Control
    <3>3. History'
      BY HistoryKept
    <3>. QED  BY <3>1, <3>2, <3>3 DEF History
  <2>2. OneRun' => FirstRun /\ ~damaged
    BY <1>3, CopySnapshotHolds DEF FirstRun
  <2>. QED  BY <1>0, <2>1, <2>2 DEF HashFollows, FirstRun
<1>4. CASE Boot \/ FinishRecovery
  <2>1. UNCHANGED <<hashFile, damaged, writers, logMax>> /\ base' = logMax
    BY <1>0, <1>4 DEF Boot, FinishRecovery, fileVars, historyVars, Control
  <2>2. FirstRun' => writers = 0
    BY <1>0, <2>1 DEF FirstRun, History
  <2>. QED  BY <1>0, <2>1, <2>2 DEF HashFollows, FirstRun, OneRun
<1>5. CASE UNCHANGED <<hashFile, writers, logMax>> /\ (damaged => damaged')
           /\ (FirstRun' => FirstRun)
  BY <1>0, <1>5 DEF HashFollows, OneRun
<1>6. CASE RecoveryStep \/ MainControl \/ ReadBatch \/ DispatchBatch
  <2>1. UNCHANGED <<hashFile, writers, logMax, damaged, phase, base>>
    BY <1>6 DEF RecoveryStep, MainControl, ReadBatch, DispatchBatch, NoDataEffect, fileVars,
                processVars, historyVars, envVars
  <2>. QED  BY <1>5, <2>1 DEF FirstRun
<1>7. CASE WorkerControl \/ TakeBatch \/ CopyTransactions \/ SyncCommit \/ ReportCommit
  <2>1. UNCHANGED <<hashFile, writers, logMax, damaged, phase, base>>
    BY <1>7 DEF WorkerControl, TakeBatch, CopyTransactions, SyncCommit, ReportCommit,
                NoDataEffect, fileVars, processVars, historyVars, envVars
  <2>. QED  BY <1>5, <2>1 DEF FirstRun
<1>8. CASE CrashNext
  <2>1. UNCHANGED <<hashFile, writers, logMax>> /\ (damaged => damaged') /\ phase' = "down"
    <3>1. CASE Exit \/ Kill
      BY <3>1 DEF Exit, Kill, ResetProcess, historyVars
    <3>2. CASE PowerLoss
      BY <3>2 DEF PowerLoss, ResetProcess
    <3>. QED  BY <1>8, <3>1, <3>2 DEF CrashNext
  <2>. QED  BY <1>5, <2>1 DEF FirstRun
<1>9. CASE UNCHANGED vars
  <2>1. UNCHANGED <<hashFile, writers, logMax, damaged, phase, base>>
    BY <1>9 DEF vars, fileVars, processVars, historyVars, envVars
  <2>. QED  BY <1>5, <2>1 DEF FirstRun
<1>. QED
  BY <1>1, <1>2, <1>3, <1>4, <1>6, <1>7, <1>8, <1>9 DEF Next, BootNext, MainNext, WorkerNext

\* The verdict is given once, on the state that recovery ends in.
LEMMA VerdictKept == ASSUME RememberInv, [Next]_vars PROVE VerdictRight'
<1>. SUFFICES ASSUME phase' = "run", mainPc' = "start", Intact', writers' <= 1, WholeId' > 0,
                     hashFile'.id <= logMax'
              PROVE  verify' = IF hashFile'.id = WholeId' THEN "ok" ELSE "skipped"
  BY DEF VerdictRight
<1>1. CASE FinishRecovery
  <2>1. /\ phase = "replay" /\ Recovered /\ UNCHANGED <<hashFile, logMax, damaged, writers>>
        /\ UNCHANGED <<snap, txs>>
        /\ verify' = CASE hashFile.label # HighestBatch -> "skipped"
                       [] hashFile.label = HighestBatch /\ hashFile.id = Assembled -> "ok"
                       [] OTHER -> "mismatch"
    BY <1>1 DEF FinishRecovery, historyVars, logVars
  <2>2. Intact /\ writers <= 1 /\ WholeId = WholeId' /\ hashFile.id <= logMax
    BY <2>1 DEF Intact, TornSlot, WholeId
  <2>3. /\ \A k \in Chunks : rec.ver[k] = WholeId
        /\ WholeId \in Nat /\ WholeId > 0
        /\ HighestBatch = WholeId - 1
    BY <2>1, <2>2, RecoveryIs
  <2>4. Assembled = WholeId
    BY <2>3, NAssumption DEF Assembled, Chunks
  <2>5. /\ hashFile \in [id : Int, label : Int] /\ logMax \in Int
        /\ hashFile.label = hashFile.id - 1 \/ hashFile.id > logMax
    BY <2>2 DEF RememberInv, HashFollows, OneRun, Intact, History
  <2>6. hashFile.label = hashFile.id - 1
    BY <2>2, <2>5
  <2>7. hashFile.id \in Int /\ (hashFile.label = HighestBatch <=> hashFile.id = WholeId)
    BY <2>3, <2>5, <2>6
  <2>8. CASE hashFile.id = WholeId
    <3>1. verify' = "ok"
      BY <2>1, <2>4, <2>7, <2>8
    <3>. QED  BY <2>1, <2>2, <2>8, <3>1
  <2>9. CASE hashFile.id # WholeId
    <3>1. verify' = "skipped"
      BY <2>1, <2>7, <2>9
    <3>. QED  BY <2>1, <2>2, <2>9, <3>1
  <2>. QED  BY <2>8, <2>9
<1>2. CASE Boot
  <2>1. Intact /\ writers <= 1 /\ ValidChunks = {}
    BY <1>2 DEF Boot, logVars, historyVars, Intact, TornSlot
  <2>. QED  BY <2>1, AlwaysValid
<1>3. CASE UNCHANGED <<phase, mainPc, verify, hashFile, logVars, historyVars>>
  <2>1. Intact /\ WholeId = WholeId'
    BY <1>3 DEF Intact, TornSlot, WholeId, logVars, historyVars
  <2>. QED  BY <1>3, <2>1 DEF RememberInv, VerdictRight, historyVars
<1>4. CASE WorkerControl \/ TakeBatch
  BY <1>3, <1>4 DEF WorkerControl, WorkerSleep, WorkerExit, WorkerSpuriousWakeup, TakeBatch,
                    WorkerTake, NoDataEffect, mainVars, fileVars, envVars
<1>5. CASE UNCHANGED vars
  BY <1>3, <1>5 DEF vars, handoffVars, mainVars, fileVars, envVars
<1>6. ~MainNext
  BY DEF MainNext, MainControl, ReadBatch, DispatchBatch, SaveHashAndSync, SetupSucceeds,
         SetupFails, WaitForPrevious, WaitForLast, Join, MainSpuriousWakeup, ReadEndOfFile,
         ReadAndApply, Dispatch, Finish, SignalCommitDone
<1>7. ~(CopySnapshot \/ CopyTransactions \/ SyncCommit \/ ReportCommit)
  <2>1. workerPc \in {"commit", "report"} => mainPc # "start"
    BY InHand
  <2>. QED
    BY <2>1 DEF CopySnapshot, CopyTransactions, SyncCommit, WorkerCommit, ReportCommit,
       WorkerReport, SignalCommitDone, handoffVars, mainVars
<1>8. ~(BootReference \/ RecoveryStep \/ CrashNext)
  BY DEF BootReference, RecoveryStep, CrashNext, Exit, Kill, PowerLoss, ResetProcess, envVars
<1>. QED
  BY <1>1, <1>2, <1>4, <1>5, <1>6, <1>7, <1>8 DEF Next, BootNext, WorkerNext

-----------------------------------------------------------------------------
\* The theorems.

\* It holds of a program that was never started.
LEMMA RememberInit == Init => RememberInv
<1>. SUFFICES ASSUME Init PROVE RememberInv
  OBVIOUS
<1>. USE DEF Init, FreshProcess, FreshHistory
<1>1. HandoffInv /\ HandoffInit
  BY HandoffInitInv
<1>2. Control
  <2>1. workerPc = "check" /\ logMax = 0
    BY <1>1 DEF HandoffInit
  <2>. QED  BY <1>1, <2>1 DEF Control
<1>3. History
  <2>1. syncFailed \in BOOLEAN /\ damaged \in BOOLEAN /\ (damaged => syncFailed)
    OBVIOUS
  <2>. QED  BY <2>1 DEF History
<1>4. WritersCount /\ FirstFollows /\ FirstHolds
  BY DEF WritersCount, FirstFollows, FirstHolds, FirstRun
<1>5. DataFollows
  BY <1>1 DEF HandoffInit, DataFollows
<1>6. LogTypes
  BY DEF LogTypes, FreshLog
<1>7. \A k \in Chunks :
        /\ HoldsSnapshot(0, snap[k], k, 0) /\ HoldsTransactions(0, txs[k], k, 0)
        /\ HoldsSnapshot(0, diskSnap[k], k, 0) /\ HoldsTransactions(0, diskTxs[k], k, 0)
  BY NAssumption
  DEF FreshLog, HoldsSnapshot, HoldsTransactions, LeftSnapshot, LeftTransactions, Chunks
<1>8. LogHolds /\ LastIsSafe
  BY <1>7 DEF LogHolds, LastIsSafe, NearlyHoldsSnapshot, NearlyHoldsTransactions
<1>9. HashFollows
  BY DEF HashFollows, NoHash
<1>10. ReplayFollows /\ VerdictRight
  BY DEF ReplayFollows, VerdictRight
<1>. QED  BY <1>1, <1>2, <1>3, <1>4, <1>5, <1>6, <1>8, <1>9, <1>10 DEF RememberInv

\* No step of the main thread, the worker, recovery or a crash breaks it.
LEMMA RememberStep == RememberInv /\ [Next]_vars => RememberInv'
<1>. SUFFICES ASSUME RememberInv, [Next]_vars PROVE RememberInv'
  OBVIOUS
<1>1. HandoffInv' /\ Control' /\ History' /\ DataFollows' /\ FirstFollows' /\ WritersCount'
  BY HandoffKept, ControlKept, HistoryKept, DataKept, CountKept
<1>2. LogTypes' /\ LogHolds' /\ FirstHolds' /\ LastIsSafe'
  BY LogTypesKept, LogHoldsKept, FirstHoldsKept, LastIsSafeKept
<1>3. ReplayFollows' /\ HashFollows' /\ VerdictRight'
  BY ReplayKept, HashKept, VerdictKept
<1>. QED  BY <1>1, <1>2, <1>3 DEF RememberInv

\* The program, with any number of kills, power losses, failed syncs and starts, keeps the
\* inductive invariant.
THEOREM RememberInvariant == Spec => []RememberInv
  BY RememberInit, RememberStep, PTL DEF Spec

\* The snapshot of a batch is committed with the transactions of that batch.
THEOREM CommitsTogether == Spec => []CommitsOneVersion
<1>1. RememberInv => CommitsOneVersion
  <2>. SUFFICES ASSUME RememberInv, commitPc # "idle"
                PROVE  localData.ver = localData.tx.id /\ localData.ver = base + local + 1
    BY DEF CommitsOneVersion
  <2>1. workerPc = "commit"
    BY DEF RememberInv, Control
  <2>. QED  BY <2>1, InHand
<1>. QED  BY <1>1, RememberInvariant, PTL

\* Recovery from the log of one run, not torn, ends in the newest batch that is whole.
THEOREM RecoveryIsExact == Spec => []RecoveryExact
<1>1. RememberInv => RecoveryExact
  BY RecoveryIs DEF RecoveryExact
<1>. QED  BY <1>1, RememberInvariant, PTL

\* With more than one slot, what was reported is not lost to a kill or a power loss.
THEOREM ReportedSurvives == N > 1 => (Spec => []ReportedIsDurable)
<1>. SUFFICES ASSUME N > 1 PROVE Spec => []ReportedIsDurable
  OBVIOUS
<1>1. RememberInv => ReportedIsDurable
  <2>. SUFFICES ASSUME RememberInv, ~syncFailed, writers <= 1 PROVE WholeId >= reported
    BY DEF ReportedIsDurable
  <2>1. /\ logMax \in Nat /\ reported \in Nat /\ reported <= logMax
        /\ \A k \in Chunks : NearlyHoldsSnapshot(0, snap[k], k, logMax)
        /\ \A k \in Chunks : NearlyHoldsTransactions(0, txs[k], k, logMax)
    BY DEF RememberInv, History, LogHolds, OneRun
  <2>2. CASE reported < logMax
    <3>1. WholeId \in Nat /\ WholeId + 1 >= logMax
      BY <2>1, NewestIsWhole
    <3>. QED  BY <2>1, <2>2, <3>1
  <2>3. CASE ~(reported < logMax)
    <3>1. WholeId = logMax
      BY <2>1, <2>3, LastIsWhole DEF RememberInv, LastIsSafe
    <3>. QED  BY <2>1, <3>1
  <2>. QED  BY <2>2, <2>3
<1>. QED  BY <1>1, RememberInvariant, PTL

\* The verdict on the recovered state is right.
THEOREM VerdictIsRight == Spec => []VerdictRight
<1>1. RememberInv => VerdictRight
  BY DEF RememberInv
<1>. QED  BY <1>1, RememberInvariant, PTL
=============================================================================
