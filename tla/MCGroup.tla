------------------------------- MODULE MCGroup -------------------------------
(***************************************************************************)
(* GroupPipeline beside BatchPipeline, for model checking and for the      *)
(* proofs about both.  The two programs have their queues, their threads   *)
(* and the variables of the same names in common; a behaviour is of        *)
(* GroupPipeline, and what only BatchPipeline has keeps its initial value. *)
(***************************************************************************)
EXTENDS BatchPipeline

CONSTANTS GroupSize, Accounts, Transactions

VARIABLES batchCount, group, current, processed, opened

Group == INSTANCE GroupPipeline

ASSUME GroupConstants == Group!GroupAssumption

\* A batch of two transfers.
MCTransactions == << [from |-> 0, to |-> 1, amount |-> 1],
                     [from |-> 1, to |-> 0, amount |-> 2] >>

otherVars == <<ringVars, nextRead, batchNum, snapshot, batch, phase, run, verdict, bases,
               ended>>

MCInit ==
    /\ Group!Init
    /\ InitRing /\ nextRead = 0 /\ batchNum = 0 /\ snapshot = 0 /\ batch = -1
    /\ phase = "down" /\ run = 0 /\ verdict = "none" /\ bases = <<>> /\ ended = "never ran"

MCSpec ==
    /\ MCInit /\ [][Group!Next /\ UNCHANGED otherVars]_<<Group!vars, otherVars>>
    /\ WF_(Group!vars)(Group!Reader) /\ WF_(Group!vars)(Group!Main)
    /\ WF_(Group!vars)(Group!Worker)

\* The properties of GroupPipeline: the batches reach the log in order, and all of them.
CommitsFileInOrder == Group!CommitsFileInOrder
EndsOnFullFile == Group!EndsOnFullFile
=============================================================================
