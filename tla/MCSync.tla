------------------------------- MODULE MCSync -------------------------------
(***************************************************************************)
(* The two programs that commit in their main thread, for model checking:  *)
(* SyncGlaze and TwoCycleLog.  They share nothing; a behaviour is of one   *)
(* of them, and the other keeps its initial state.                         *)
(***************************************************************************)
EXTENDS SyncGlaze

CONSTANTS Ring, PerChunk, Small, TestBatches, MaxFile, MaxAll, MaxRuns

VARIABLES
    program,   \* "sync" or "test"
    stage, accounts, number, buffer, label, oldest, chunkSlots, batchSlots, savedHash,
    refused, runs, all, logged, past, inputs, newLog

testVars == <<stage, accounts, number, buffer, label, oldest, chunkSlots, batchSlots,
              savedHash, refused, runs, all, logged, past, inputs, newLog>>

Test == INSTANCE TwoCycleLog

ASSUME TestConstants == Test!TestAssumption

-----------------------------------------------------------------------------
\* Batches of TwoCycleLog: on both chunks, on the second one only, one the order of
\* which matters, and one that is rejected.

T(from, to, amount) == [func |-> "transfer", from |-> from, to |-> to, amount |-> amount]
R(start, count, amount) == [func |-> "range", from |-> start, to |-> count, amount |-> amount]

MCTestBatches ==
    { <<R(0, 3, 5), T(0, 1, 2)>>, <<T(2, 2, 1), R(2, 1, 3)>>,
      <<T(0, 2, 1), T(2, 0, 2)>>, <<T(2, 3, 1), R(2, 2, 9)>> }

-----------------------------------------------------------------------------
MCInit == program \in {"sync", "test"} /\ Init /\ Test!TestInit

MCNext ==
    \/ program = "sync" /\ Next /\ UNCHANGED <<program, testVars>>
    \/ program = "test" /\ Test!TestNext /\ UNCHANGED <<program, vars>>

MCSpec == MCInit /\ [][MCNext]_<<program, vars, testVars>>

\* The properties of TwoCycleLog: what a restart recovers, and that it is accepted.
TwoCyclesRecover == Test!TwoCyclesRecover
OrderlyEndAccepted == Test!OrderlyEndAccepted
=============================================================================
