--------------------------- MODULE CheckpointRing ---------------------------
(***************************************************************************)
(* The log file of the pipelined variants (ring_buffer_glaze,              *)
(* ring_buffer_glaze_group): a ring of slots, each a header, a snapshot of *)
(* the first chunk of the state and a write set, written one after the     *)
(* other with pwrite and then synced.  A part is identified with the       *)
(* commit job that wrote it.  The commit thread prints errors of pwrite,   *)
(* ignores those of fsync, and goes on.                                    *)
(***************************************************************************)
EXTENDS Integers, FiniteSets

CONSTANT Ring  \* RING_SIZE

ASSUME RingAssumption == Ring \in Nat \ {0}

VARIABLES
    file,      \* the slots as the page cache has them
    disk,      \* the slots as the storage device has them
    ioFailed,  \* history: a pwrite or an fsync has failed
    torn       \* history: slots that a crash has left half written

ringVars == <<file, disk, ioFailed, torn>>

Slots == 0..Ring - 1
Parts == {"header", "snapshot", "writes"}

Slot(batch) == batch % Ring

\* The zeros of preallocate_log_file_posix: the counts of a valid header differ.
Nothing == [run |-> 0, batch |-> -1, txs |-> -1, value |-> 0]
EmptySlot == [p \in Parts |-> Nothing]

InitRing ==
    /\ file = [s \in Slots |-> EmptySlot] /\ disk = file
    /\ ioFailed = FALSE /\ torn = {}

-----------------------------------------------------------------------------
WritePart(job, part) ==
    /\ \/ /\ file' = [file EXCEPT ![Slot(job.batch)][part] = job]
          /\ UNCHANGED ioFailed
       \/ UNCHANGED file /\ ioFailed' = TRUE
    \* a slot is whole again when all of its parts have been rewritten
    /\ torn' = IF part = "writes" /\ ~ioFailed' THEN torn \ {Slot(job.batch)} ELSE torn
    /\ UNCHANGED disk

\* Fault: only the header is synced.
FsyncHeader ==
    /\ disk' = [s \in Slots |-> [disk[s] EXCEPT !["header"] = file[s]["header"]]]
    /\ UNCHANGED <<file, torn, ioFailed>>

Fsync ==
    /\ \/ disk' = file /\ UNCHANGED ioFailed
       \/ UNCHANGED disk /\ ioFailed' = TRUE
    /\ UNCHANGED <<file, torn>>

\* The process ends and the page cache stays; open is the set of the slot under
\* commit, if there is one.
KeepCache(open) ==
    /\ torn' = torn \union open
    /\ UNCHANGED <<file, disk, ioFailed>>

\* The machine stops: of what differs from the device, any part may have reached
\* it.
LoseCache ==
    LET unsynced == {sp \in Slots \X Parts : file[sp[1]][sp[2]] # disk[sp[1]][sp[2]]}
    IN  /\ \E kept \in SUBSET unsynced :
              file' = [s \in Slots |-> [p \in Parts |->
                         IF <<s, p>> \in kept THEN file[s][p] ELSE disk[s][p]]]
        /\ disk' = file'
        /\ torn' = torn \union {sp[1] : sp \in unsynced}
        /\ UNCHANGED ioFailed

-----------------------------------------------------------------------------
\* reconstruct_state

ValidSlots == {s \in Slots : file[s]["header"] # Nothing}

\* The valid slot of the highest batch number, the last of several.
LatestSlot ==
    CHOOSE s \in ValidSlots : \A t \in ValidSlots :
        LET b == file[s]["header"].batch
            c == file[t]["header"].batch
        IN  c < b \/ (c = b /\ t <= s)

ReconstructedBatch == IF ValidSlots = {} THEN -1 ELSE file[LatestSlot]["header"].batch

\* The state stays calloc'ed zeros when there is no valid checkpoint.
ReconstructedState == IF ValidSlots = {} THEN 0 ELSE file[LatestSlot]["snapshot"].value
=============================================================================
