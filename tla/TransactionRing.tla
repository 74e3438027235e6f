-------------------------- MODULE TransactionRing --------------------------
(***************************************************************************)
(* transaction_ring_glaze/state_management.c: a ring of entries in a file, *)
(* with head and tail in the metadata before it.  The entry of a batch     *)
(* holds its transactions and the chunk whose turn it is as it was before  *)
(* them.  It is written twice, first marked partial and then valid, and    *)
(* then the tail is moved; only that is followed by an fsync.  The batch   *)
(* is applied when its entry is stored.  Recovery goes from head to tail,  *)
(* puts the chunk of each entry back and applies its transactions to the   *)
(* whole state.                                                            *)
(*                                                                         *)
(* A chunk is one account.  An entry carries the whole state before its    *)
(* batch, of which the program stores the account of the chunk: recovery   *)
(* uses no more, the rest says what the program had.  The process can be   *)
(* killed, and power can fail, at any point.                               *)
(***************************************************************************)
EXTENDS Integers, Sequences

CONSTANTS
    NumChunks,       \* NUM_CHUNKS
    InitialBalance,  \* INITIAL_BALANCE
    TotalBatches,    \* TOTAL_BATCHES, how many a run processes
    Batches,         \* the batches that the transaction file may have at each place
    MaxBoots         \* bound: how often the program is started

Chunks == 0..NumChunks-1

ASSUME RingAssumption ==
    /\ NumChunks \in Nat \ {0} /\ InitialBalance \in Nat
    /\ TotalBatches \in Nat /\ MaxBoots \in Nat
    /\ Batches \in [0..TotalBatches-1 ->
                        SUBSET Seq([sender : Chunks, receiver : Chunks, amount : Nat])]

VARIABLES
    phase,     \* "down", "create", "recover", "run", "undefined"
    pc,        \* place in main and ring_write_entry
    state,     \* g_state
    meta,      \* g_ring_meta
    entry,     \* ringbuf
    writes,    \* g_num_writes, g_processed_batches
    idx,       \* idx of ring_recover
    slots, fileMeta,       \* the file as the processes see it
    diskSlots, diskMeta,   \* the file on the device
    boots,      \* history: how often the program was started
    committed,  \* history: the newest batch whose metadata had been synced
    disordered, \* history: power failed, and an entry in the ring is not as it was when
                \* the metadata was written that the device has
    cut         \* history: a recovery has stopped before the tail

fileVars == <<slots, fileMeta>>
diskVars == <<diskSlots, diskMeta>>
processVars == <<phase, pc, state, meta, entry, writes, idx>>
historyVars == <<boots, committed, disordered, cut>>
vars == <<processVars, fileVars, diskVars, historyVars>>

Capacity == 2 * NumChunks
NextSlot(i) == (i + 1) % Capacity

\* A file without metadata ("none"), with zeros in its place, or with a signature;
\* count is how many entries were ever stored.
NoMeta == [sig |-> "none", head |-> 0, tail |-> 0, count |-> 0]
ZeroMeta == [NoMeta EXCEPT !.sig = "zero"]
EmptyRing == [NoMeta EXCEPT !.sig = "signed"]

Zeros == [c \in Chunks |-> 0]   \* malloc maps fresh pages for an array of this size
NoEntry == [batch |-> 0, chunk |-> 0, transactions |-> <<>>, before |-> Zeros]
Torn == [NoEntry EXCEPT !.batch = -1]   \* neither the old entry nor the new one
EmptySlot == [valid |-> FALSE, body |-> NoEntry]

Transfer(balances, tx) ==
    IF balances[tx.sender] < tx.amount
      THEN balances
      ELSE [[balances EXCEPT ![tx.sender] = @ - tx.amount]
                      EXCEPT ![tx.receiver] = @ + tx.amount]

\* The balances after the first transactions, as many as the index says.
AppliedEach(balances, transactions) ==
    LET after[k \in 0..Len(transactions)] ==
            IF k = 0 THEN balances ELSE Transfer(after[k - 1], transactions[k])
    IN  after

ApplyAll(balances, transactions) == AppliedEach(balances, transactions)[Len(transactions)]

Init ==
    /\ phase = "down" /\ pc = "read" /\ state = Zeros /\ meta = NoMeta
    /\ entry = NoEntry /\ writes = 0 /\ idx = 0
    /\ slots = [i \in 0..Capacity-1 |-> EmptySlot] /\ fileMeta = NoMeta
    /\ diskSlots = slots /\ diskMeta = fileMeta
    /\ boots = 0 /\ committed = 0 /\ disordered = FALSE /\ cut = FALSE

-----------------------------------------------------------------------------
\* ring_open_and_recover

\* A missing signature in the file is supplied by ring_read_metadata when the file is
\* too short, and is what makes it "brand new" when the file is longer.
Boot ==
    /\ phase = "down" /\ boots < MaxBoots
    /\ boots' = boots + 1
    /\ pc' = "read" /\ writes' = 0 /\ entry' = NoEntry
    /\ meta' = IF fileMeta.sig = "signed" THEN fileMeta ELSE EmptyRing
    /\ idx' = meta'.head
    /\ state' = IF fileMeta.sig = "zero" THEN [c \in Chunks |-> InitialBalance] ELSE Zeros
    /\ phase' = IF fileMeta.sig = "zero" THEN "create" ELSE "recover"
    /\ UNCHANGED <<fileVars, diskVars, committed, disordered, cut>>

\* ring_write_metadata for a "brand new" file.
CreateRing ==
    /\ phase = "create" /\ fileMeta # meta
    /\ fileMeta' = meta
    /\ UNCHANGED <<processVars, slots, diskVars, historyVars>>

SyncNewRing ==
    /\ phase = "create" /\ fileMeta = meta
    /\ diskSlots' = slots /\ diskMeta' = fileMeta
    /\ phase' = "run"
    /\ UNCHANGED <<pc, state, meta, entry, writes, idx, fileVars, historyVars>>

\* Fault: the chunk is put back after its batch.
RedoFirst(balances, body) ==
    [ApplyAll(balances, body.transactions) EXCEPT ![body.chunk] = body.before[body.chunk]]

\* The chunk of an entry is put back, its transactions are applied to the whole state.
Redo(balances, body) ==
    ApplyAll([balances EXCEPT ![body.chunk] = body.before[body.chunk]], body.transactions)

\* An entry that is not marked valid is passed over; if the file is too short for it, so
\* that the read is, StopRecovery can take its place.
RecoverEntry ==
    /\ phase = "recover" /\ idx # meta.tail
    /\ ~(slots[idx].valid /\ slots[idx].body = Torn)
    /\ state' = IF slots[idx].valid THEN Redo(state, slots[idx].body) ELSE state
    /\ idx' = NextSlot(idx)
    /\ UNCHANGED <<phase, pc, meta, entry, writes, fileVars, diskVars, historyVars>>

\* Indices from a torn entry may lie anywhere: what follows is undefined.
RecoverTornEntry ==
    /\ phase = "recover" /\ idx # meta.tail
    /\ slots[idx].valid /\ slots[idx].body = Torn
    /\ phase' = "undefined"
    /\ UNCHANGED <<pc, state, meta, entry, writes, idx, fileVars, diskVars, historyVars>>

\* A read that fails, or finds the file too short, ends the recovery, and the program goes
\* on with what it has.  Once here: what is recovered later is as wrong as that.
StopRecovery ==
    /\ phase = "recover" /\ idx # meta.tail
    /\ ~cut /\ phase' = "run" /\ cut' = TRUE
    /\ UNCHANGED <<pc, state, meta, entry, writes, idx, fileVars, diskVars, boots, committed,
                   disordered>>

FinishRecovery ==
    /\ phase = "recover" /\ idx = meta.tail
    /\ phase' = "run"
    /\ UNCHANGED <<pc, state, meta, entry, writes, idx, fileVars, diskVars, historyVars>>

-----------------------------------------------------------------------------
\* incremental_persist and ring_write_entry

\* Fault: a full ring keeps its oldest entry.
HeadKept == meta.head

\* With one free slot left the oldest entry is discarded.
HeadBeforeWrite == IF NextSlot(meta.tail) = meta.head THEN NextSlot(meta.head) ELSE meta.head

BuildEntry(batch) ==
    /\ phase = "run" /\ pc = "read" /\ writes < TotalBatches
    /\ entry' = [batch |-> meta.count + 1, chunk |-> writes % NumChunks,
                 transactions |-> batch, before |-> state]
    /\ writes' = writes + 1
    /\ meta' = [meta EXCEPT !.head = HeadBeforeWrite]
    /\ pc' = "write"
    /\ UNCHANGED <<phase, state, idx, fileVars, diskVars, historyVars>>

\* Phase 1: the marker goes first, then the rest; the first entry makes the file
\* longer than its metadata.
BeginWrite ==
    /\ phase = "run" /\ pc = "write"
    /\ slots' = [slots EXCEPT ![meta.tail] = [valid |-> FALSE, body |-> Torn]]
    /\ fileMeta' = IF fileMeta = NoMeta THEN ZeroMeta ELSE fileMeta
    /\ pc' = "writing"
    /\ UNCHANGED <<phase, state, meta, entry, writes, idx, diskVars, historyVars>>

EndWrite ==
    /\ phase = "run" /\ pc = "writing"
    /\ slots' = [slots EXCEPT ![meta.tail].body = entry]
    /\ pc' = "mark"
    /\ UNCHANGED <<phase, state, meta, entry, writes, idx, fileMeta, diskVars, historyVars>>

\* Phase 2 writes the same bytes again, but for the marker.
MarkValid ==
    /\ phase = "run" /\ pc = "mark"
    /\ slots' = [slots EXCEPT ![meta.tail].valid = TRUE]
    /\ pc' = "metadata"
    /\ UNCHANGED <<phase, state, meta, entry, writes, idx, fileMeta, diskVars, historyVars>>

WriteMetadata ==
    /\ phase = "run" /\ pc = "metadata"
    /\ meta' = [meta EXCEPT !.tail = NextSlot(@), !.count = @ + 1]
    /\ fileMeta' = meta'
    /\ pc' = "sync"
    /\ UNCHANGED <<phase, state, entry, writes, idx, slots, diskVars, historyVars>>

SyncMetadata ==
    /\ phase = "run" /\ pc = "sync"
    /\ diskSlots' = slots /\ diskMeta' = fileMeta
    /\ committed' = entry.batch
    /\ pc' = "apply"
    /\ UNCHANGED <<phase, state, meta, entry, writes, idx, fileVars, boots, disordered,
                   cut>>

ApplyBatch ==
    /\ phase = "run" /\ pc = "apply"
    /\ state' = ApplyAll(state, entry.transactions)
    /\ pc' = "read"
    /\ UNCHANGED <<phase, meta, entry, writes, idx, fileVars, diskVars, historyVars>>

-----------------------------------------------------------------------------
\* The end of a run.  Calls that fail elsewhere end it with exit(1), like a kill, except
\* fsync, whose result is not looked at: here it does what it promises.

Reset ==
    /\ phase' = "down" /\ pc' = "read" /\ state' = Zeros /\ meta' = NoMeta
    /\ entry' = NoEntry /\ writes' = 0 /\ idx' = 0

Finish ==
    /\ phase = "run" /\ pc = "read" /\ writes = TotalBatches
    /\ Reset
    /\ UNCHANGED <<fileVars, diskVars, historyVars>>

Kill ==
    /\ phase # "down"
    /\ Reset
    /\ UNCHANGED <<fileVars, diskVars, historyVars>>

\* What the device may hold of a slot whose last writes were not synced: the old
\* pages, the new ones, or some of each with either marker.
Leftover(i, outcome) ==
    CASE outcome = "old" -> diskSlots[i]
      [] outcome = "new" -> slots[i]
      [] outcome = "mixed, old marker" -> [valid |-> diskSlots[i].valid, body |-> Torn]
      [] outcome = "mixed, new marker" -> [valid |-> slots[i].valid, body |-> Torn]

InRing(m) == {i \in 0..Capacity-1 : (i - m.head) % Capacity < (m.tail - m.head) % Capacity}

\* A file that is still empty on the device has no entries.
PowerLoss ==
    /\ phase # "down"
    /\ Reset
    /\ LET dirty == {i \in 0..Capacity-1 : slots[i] # diskSlots[i]}
       IN  \/ /\ fileMeta' \in {diskMeta, fileMeta} \ {NoMeta}
              /\ \E outcome \in
                       [dirty -> {"old", "new", "mixed, old marker", "mixed, new marker"}] :
                    slots' = [i \in 0..Capacity-1 |->
                                IF i \in dirty THEN Leftover(i, outcome[i]) ELSE slots[i]]
           \/ /\ diskMeta = NoMeta
              /\ fileMeta' = NoMeta /\ slots' = diskSlots
    /\ diskSlots' = slots' /\ diskMeta' = fileMeta'
    /\ disordered' = (disordered \/ \E i \in InRing(fileMeta') :
                        slots'[i] # IF fileMeta' = diskMeta THEN diskSlots[i] ELSE slots[i])
    /\ UNCHANGED <<boots, committed, cut>>

-----------------------------------------------------------------------------
OpenNext == Boot \/ CreateRing \/ SyncNewRing
            \/ RecoverEntry \/ RecoverTornEntry \/ StopRecovery \/ FinishRecovery
PersistNext ==
    \/ writes < TotalBatches /\ \E batch \in Batches[writes] : BuildEntry(batch)
    \/ BeginWrite \/ EndWrite \/ MarkValid \/ WriteMetadata \/ SyncMetadata \/ ApplyBatch
EndNext == Finish \/ Kill \/ PowerLoss

Next == OpenNext \/ PersistNext \/ EndNext
Spec == Init /\ [][Next]_vars

-----------------------------------------------------------------------------
\* Properties.

Length(m) == (m.tail - m.head) % Capacity
Stored(n) == slots[(fileMeta.tail - n) % Capacity]  \* the n-th entry back from the tail

\* However often the program was killed, whatever was discarded, wherever the ring
\* has wrapped: the ring in the file is the latest entries, as many as there is
\* room for, whole, in their order, and with every committed one among them,
\* unless power has failed and the device had taken entries and metadata in another
\* order than they were written in.
RingIsLatestEntries ==
    ~disordered =>
        /\ Length(fileMeta) = IF fileMeta.count < Capacity THEN fileMeta.count ELSE Capacity - 1
        /\ \A n \in 1..Length(fileMeta) :
              Stored(n).valid /\ Stored(n).body.batch = fileMeta.count + 1 - n
        /\ committed <= fileMeta.count

\* If the accounts in known are right before the batch of an entry, those which are right
\* after it: a sender that is not may be refused now and not the first time, or the
\* other way round.
Touched(known, transactions) ==
    LET after[k \in 0..Len(transactions)] ==
            IF k = 0 THEN known
            ELSE IF transactions[k].sender \in after[k - 1] THEN after[k - 1]
            ELSE after[k - 1] \ {transactions[k].receiver}
    IN  after

KnownAfter(known, body) ==
    Touched(known \union {body.chunk}, body.transactions)[Len(body.transactions)]

\* The accounts that the ring tells: those put back which have since received nothing but
\* from accounts that it tells, too.
Known ==
    LET told[k \in 0..Length(fileMeta)] ==
            IF k = 0 THEN {}
            ELSE KnownAfter(told[k - 1], Stored(Length(fileMeta) + 1 - k).body)
    IN  told[Length(fileMeta)]

\* What a chunk that is missing in the ring, or put back too late, spoils is only what it
\* has paid for: whatever runs the ring was filled by, wherever it has wrapped, every
\* account that it tells is recovered as it was after the newest entry.
KnownIsRestored ==
    (phase = "recover" /\ idx = meta.tail /\ ~disordered /\ ~cut /\ fileMeta.count > 0)
    => \A c \in Known :
          state[c] = ApplyAll(Stored(1).body.before, Stored(1).body.transactions)[c]

-----------------------------------------------------------------------------
\* What comments say, and the code does not do.

\* "valid_marker (1 => fully valid, 0 => partial)": pages of an entry that was not
\* synced between its phases get to the device in any order.
ValidIsWhole == \A i \in 0..Capacity-1 : slots[i].valid => slots[i].body # Torn

\* "Ring replay complete. In-memory chunks are up-to-date.": chunks that no entry
\* holds stay zero, and a sender that is not yet put back cannot pay.
ReplayIsUpToDate ==
    phase = "recover" /\ idx = meta.tail /\ fileMeta.count > 0 /\ ~disordered
    => state = ApplyAll(Stored(1).body.before, Stored(1).body.transactions)
=============================================================================
