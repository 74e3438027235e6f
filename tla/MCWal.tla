-------------------------------- MODULE MCWal --------------------------------
(***************************************************************************)
(* The baselines with a log and snapshots, for model checking and for the  *)
(* proofs about both: WalSnapshot and WalAccounts.  They share nothing; a  *)
(* behaviour is of one of them, and the other keeps its initial state.     *)
(***************************************************************************)
EXTENDS WalSnapshot

CONSTANTS
    Programs,  \* of "sequences" (WalSnapshot) and "accounts" (WalAccounts)
    Counts, Inputs, Initial, BatchesARun, SnapshotEach, SelfGain, MaxStarts, Nothing

VARIABLES
    program,   \* the one of them that runs
    up, at, thread, count, balances, batch, task, busy, ended, walFile, handle, snapFile,
    starts, counts, kinds, safe, newest, applied, inLog, inSnapshot, whole, repeats,
    orphanBatch

accountVars == <<up, at, thread, count, balances, batch, task, busy, ended, walFile, handle,
                 snapFile, starts, counts, kinds, safe, newest, applied, inLog, orphanBatch,
                 inSnapshot, whole, repeats>>

Accounts == INSTANCE WalAccounts WITH orphan <- orphanBatch

ASSUME AccountConstants == Accounts!AccountAssumption

-----------------------------------------------------------------------------
\* Batches of WalAccounts: transfers of which the first is covered once only and a run
\* with two accounts refuses the second; range sets, one of them across that limit; and a
\* transfer of a negative amount with one from an account to itself.
MCTransfer(from, to, amount) ==
    [func |-> "transfer", from |-> from, to |-> to, amount |-> amount]

MCInputs ==
    { <<MCTransfer(0, 1, 3), MCTransfer(1, 2, 2)>>,
      <<[func |-> "range", from |-> 0, to |-> 1, amount |-> 7],
        [func |-> "range", from |-> 1, to |-> 9, amount |-> 1]>>,
      <<MCTransfer(1, 0, -1), MCTransfer(0, 0, 2)>> }

-----------------------------------------------------------------------------
MCInit == program \in Programs /\ Init /\ Accounts!AccountInit

MCNext ==
    \/ program = "sequences" /\ Next /\ UNCHANGED <<program, accountVars>>
    \/ program = "accounts" /\ Accounts!AccountNext /\ UNCHANGED <<program, vars>>

\* Fairness is needed, and justified, for the threads of WalSnapshot as in its Spec.
MCSpec ==
    /\ MCInit /\ [][MCNext]_<<program, vars, accountVars>>
    /\ WF_vars(MainNext) /\ WF_vars(WorkerNext)

\* The properties of WalAccounts: what a restart recovers, and what survives even when
\* that is wrong.
RecoversPrefix == Accounts!RecoversPrefix
MoneyKept == Accounts!MoneyKept
=============================================================================
