------------------------------ MODULE MCHybrid ------------------------------
(***************************************************************************)
(* The programs with range sets, for model checking and for the proofs     *)
(* about two of them: HybridLog, ParamGlaze, and TransferSemantics.  They  *)
(* share nothing; a behaviour is of one of them, and the others keep their *)
(* initial states.                                                         *)
(***************************************************************************)
EXTENDS HybridLog

CONSTANTS
    Sizes, Inputs, BatchSize, Segments, SelfGain, Word, MaxTotal, MaxStarts,
    AccountCount, Unpadded, PerChunk, MaxId, Half

VARIABLES
    program,   \* "hybrid", "param" or "transfers"
    size, main, worker, balances, next, applied, args, chunkData, logFile, hashFile,
    reference, isReference, outcome, starts, total, states, batches, done, fresh,
    array, chunk, replica, aliased, negative

Param == INSTANCE ParamGlaze

Tx == INSTANCE TransferSemantics WITH
                live <- array, SmallCount <- Unpadded, ChunkSize <- PerChunk

chunkVars == <<array, chunk, replica, aliased, negative>>

ASSUME TransferConstants == Tx!SizeAssumption

ASSUME ParamConstants == Param!ParamAssumption

paramVars == <<size, main, worker, balances, next, applied, args, chunkData, logFile,
               hashFile, reference, isReference, outcome, starts, total, states,
               batches, done, fresh>>

-----------------------------------------------------------------------------
\* Batches of HybridLog: transfers with and without cover, range sets that cross the
\* chunks, and both in either order.

T(from, to, amount) == [func |-> "transfer", from |-> from, to |-> to, amount |-> amount]
R(start, count, amount) == [func |-> "range", from |-> start, to |-> count, amount |-> amount]

MCBatches == { <<R(0, 3, 4)>>, <<T(0, 1, 1)>>, <<T(1, 2, 3), T(0, 1, 1)>>, <<R(1, 3, 7)>>,
               <<R(0, 1, 4), R(0, 2, 6)>>, <<T(1, 0, 2), R(0, 2, 9)>>,
               <<R(2, 1, 8), T(2, 1, 3)>> }

\* Command lines and batches of ParamGlaze: two chunks of two accounts, or three of one;
\* the operation code of a range set is above both halves of a cell.  Range sets reach
\* the last chunk, and one is rejected; one account pays itself.

ParamT(from, to, amount) == [sender |-> from, receiver |-> to, amount |-> amount]
ParamR(first, count, amount) ==
    [sender |-> Word * Word + first, receiver |-> Word * Word + count, amount |-> amount]

MCSizes == {[accounts |-> 4, perChunk |-> 2], [accounts |-> 3, perChunk |-> 1]}

MCInputs == { <<ParamR(0, 2, 5), ParamT(0, 2, 2)>>, <<ParamT(1, 0, 1), ParamT(2, 2, 1)>>,
              <<ParamT(0, 1, 1), ParamR(1, 4, 4)>>, <<ParamR(1, 1, 3), ParamR(7, 1, 1)>> }

-----------------------------------------------------------------------------
MCInit ==
    /\ program \in {"hybrid", "param", "transfers"}
    /\ Init /\ (program # "hybrid" => buffer = [i \in Accounts |-> 0])
    /\ Param!ParamInit
    /\ Tx!Init
    /\ program # "transfers" => array = [i \in Tx!Accounts |-> 0] /\ chunk = 0

MCNext ==
    \/ program = "hybrid" /\ Next /\ UNCHANGED <<program, paramVars, chunkVars>>
    \/ program = "param" /\ Param!ParamNext /\ UNCHANGED <<program, vars, chunkVars>>
    \/ program = "transfers" /\ Tx!Next /\ UNCHANGED <<program, vars, paramVars>>

MCSpec == MCInit /\ [][MCNext]_<<program, vars, paramVars, chunkVars>>

\* The properties of ParamGlaze: what a restart recovers, and what it says of the hash.
RecoversUpToRangeSets == Param!RecoversUpToRangeSets
OrderlyEndVerified == Param!OrderlyEndVerified

\* And of TransferSemantics: the replay of one chunk, and the balances.
ChunkTracksState == Tx!ChunkTracksState
NoOverdraft == Tx!NoOverdraft
=============================================================================
