------------------------------ MODULE SlotFile ------------------------------
(***************************************************************************)
(* The log file of the variants with snapshots and write sets: a ring of   *)
(* slots, each with a header, a chunk of the state and a write set, and    *)
(* the five ways in which the variants reconstruct the state from it.      *)
(*                                                                         *)
(* A balance is identified with the number of the write that produced it,  *)
(* 0 being the balance before all writes, so that no two differ only by    *)
(* accident.  A write-set entry is <<account, balance>>.                   *)
(***************************************************************************)
EXTENDS Integers, Sequences, FiniteSetsExt

CONSTANTS
    Ring,     \* RING_SIZE
    PerChunk  \* STATE_CHUNK_COUNT: the accounts of one chunk

ASSUME SlotAssumption == Ring \in Nat \ {0} /\ PerChunk \in Nat \ {0}

VARIABLES
    file,  \* the slots as the page cache has them
    disk   \* the slots as the storage device has them

Slots == 0..Ring - 1
Accounts == 0..Ring * PerChunk - 1
FirstChunk == 0..PerChunk - 1

\* The zeros of preallocate_log_file: no magic number and no counts.
NoHeader == [batch |-> -1, count |-> 0]
EmptySlot == [header |-> NoHeader, chunk |-> [i \in FirstChunk |-> 0], writes |-> <<>>]

InitFile ==
    /\ file = [s \in Slots |-> EmptySlot]
    /\ disk = file

\* The chunk of a state that starts at an account.
ChunkAt(state, first) == [i \in FirstChunk |-> state[first + i]]

\* Writing a shorter sequence over a longer one leaves the end of the longer one.
Over(new, old) == new \o SubSeq(old, Len(new) + 1, Len(old))

\* One pwrite, or memcpy into the mapping, of a part of a slot.
WriteSlot(s, part, content) ==
    LET old  == file[s]
        area == Over(content.writes, old.writes)
    IN  file' = [file EXCEPT ![s] =
            CASE part = "header" -> [old EXCEPT !.header = content.header]
              [] part = "chunk"  -> [old EXCEPT !.chunk = content.chunk]
              [] part = "writes" -> [old EXCEPT !.writes = area]]

\* The machine stops: any part that differs from the device may have reached it.
LoseCache ==
    LET unsynced == {sp \in Slots \X {"header", "chunk", "writes"} :
                        file[sp[1]][sp[2]] # disk[sp[1]][sp[2]]}
    IN  /\ \E kept \in SUBSET unsynced :
              file' = [s \in Slots |-> [p \in {"header", "chunk", "writes"} |->
                          IF <<s, p>> \in kept THEN file[s][p] ELSE disk[s][p]]]
        /\ disk' = file'

-----------------------------------------------------------------------------
\* reconstruct_state.  Each starts from calloc'ed zeros and is a pair of a state and
\* the batch that the program then reports.

ValidSlots == {s \in Slots : file[s].header.batch # -1}

\* Entry i of the write set of a slot; where nothing was written there are zeros.
Entry(s, i) == IF i <= Len(file[s].writes) THEN file[s].writes[i] ELSE <<0, 0>>

\* The entries, among those the header counts, that hold a balance of an account.
Hits(s, account) == {i \in 1..file[s].header.count : Entry(s, i)[1] = account}

LastHit(s, account) == Entry(s, Max(Hits(s, account)))[2]

\* Slots are read in order, so that the last valid one gives the batch.
LastValid == IF ValidSlots = {} THEN -1 ELSE file[Max(ValidSlots)].header.batch

\* glaze: the chunks are put together and the write sets are not looked at.
CopyChunks ==
    [state |-> [a \in Accounts |->
                  IF a \div PerChunk \in ValidSlots
                    THEN file[a \div PerChunk].chunk[a % PerChunk] ELSE 0],
     batch |-> LastValid]

\* opcode_glaze, s_fixing_glaze: the write set of the slot is redone on each chunk.
CopyAndRedo ==
    [state |-> [a \in Accounts |->
                  LET s == a \div PerChunk
                  IN  CASE s \notin ValidSlots -> 0
                        [] s \in ValidSlots /\ Hits(s, a) # {} -> LastHit(s, a)
                        [] OTHER -> file[s].chunk[a % PerChunk]],
     batch |-> LastValid]

\* breaking_glaze: the chunk of the slot with the highest number.
Newest(slots) == CHOOSE s \in slots : \A t \in slots : file[t].header.batch <= file[s].header.batch
Oldest(slots) == CHOOSE s \in slots : \A t \in slots : file[s].header.batch <= file[t].header.batch

LatestChunk ==
    [state |-> [a \in Accounts |->
                  IF ValidSlots # {} /\ a \in FirstChunk
                    THEN file[Newest(ValidSlots)].chunk[a] ELSE 0],
     batch |-> IF ValidSlots = {} THEN -1 ELSE file[Newest(ValidSlots)].header.batch]

\* Fault: the slots are replayed in the order they are read in, without the sort.
UnsortedReplay(accounts) ==
    LET later(a) == {s \in ValidSlots \ {Min(ValidSlots)} : Hits(s, a) # {}}
        base(a)  == IF ValidSlots # {} /\ a \in FirstChunk
                      THEN file[Min(ValidSlots)].chunk[a] ELSE 0
    IN  [state |-> [a \in Accounts |->
                      IF a \in accounts /\ ValidSlots # {} /\ later(a) # {}
                        THEN LastHit(Max(later(a)), a) ELSE base(a)],
         batch |-> IF ValidSlots = {} THEN -1 ELSE file[Newest(ValidSlots)].header.batch]

\* The chunk of the lowest number, and on it, in the order of their numbers, the
\* write sets of all the others, as far as they are about one of the given accounts.
SortedReplay(accounts) ==
    LET later(a) == {s \in ValidSlots \ {Oldest(ValidSlots)} : Hits(s, a) # {}}
        base(a)  == IF ValidSlots # {} /\ a \in FirstChunk
                      THEN file[Oldest(ValidSlots)].chunk[a] ELSE 0
    IN  [state |-> [a \in Accounts |->
                      IF a \in accounts /\ ValidSlots # {} /\ later(a) # {}
                        THEN LastHit(Newest(later(a)), a) ELSE base(a)],
         batch |-> IF ValidSlots = {} THEN -1 ELSE file[Newest(ValidSlots)].header.batch]

\* glaze_server_testing replays on the first chunk, glaze_with_memset on the state.
SortedReplayFirst == SortedReplay(FirstChunk)
SortedReplayAll == SortedReplay(Accounts)
=============================================================================
