----------------------------- MODULE FileStore -----------------------------
(***************************************************************************)
(* microStore's FileStore (src/include/microStore/FileStore.h): an         *)
(* append-only log cut into SegCount segment files, a hash index in RAM    *)
(* with a log of its own (index.dat), and a compaction that streams the    *)
(* live records into compact.tmp under a journal.                          *)
(*                                                                         *)
(* A step is what the program does up to and including its next effect on  *)
(* the file system, so a power cut can fall between any two effects.  A    *)
(* record is one cell of a segment and an offset counts cells.  Only one   *)
(* operation runs at a time: the store has no locks and no threads.        *)
(***************************************************************************)
EXTENDS Integers, Sequences, FiniteSets, FiniteSetsExt

CONSTANTS
    Keys,        \* the keys callers use
    EmptyKeys,   \* those of them whose length is zero
    Payloads,    \* what a put may store: [val, ts, ttl, prio]
    None,        \* no index entry, no value
    Tombstone,   \* the payload of a FLAG_DELETE record
    Torn,        \* what a write cut short leaves behind
    NoFile,      \* the file does not exist
    Closed,      \* active_file is not open
    Unlinked,    \* active_file is open on a file that has been removed
    SegCount,    \* _segment_count
    SegRecs,     \* records that fit in a segment (_segment_size)
    MaxRecs,     \* policy_max_recs, 0 = no limit
    PolicyTTL,   \* policy_ttl_secs, 0 = none
    Threshold    \* USTORE_COMPACT_THRESHOLD, 0 = disabled

CONSTANTS        \* the environment: what can go wrong, and the bounds
    Ops,         \* what the caller does: "put", "remove", "clear", ...
    Crashes,     \* the phases in which power may fail
    TornWrites,  \* the files a power cut may leave half written
    Faults,      \* I/O errors: "append", "tmp_open", "tmp_write", "journal",
                 \* "rename"
    IndexLoss,   \* whether index.dat may vanish between two boots
    MaxOffset,   \* bound on current_offset
    MaxDead,     \* bound on dead_since_compact
    MaxTime      \* bound on the clock

ASSUME Parameters ==
    /\ IsFiniteSet(Keys) /\ EmptyKeys \subseteq Keys /\ None \notin Keys
    /\ \A p \in Payloads : p.ts \in Nat /\ p.ttl \in Nat /\ p.prio \in Nat
    /\ SegCount \in Nat /\ SegCount >= 2
    /\ SegRecs \in Nat \ {0}
    /\ MaxRecs \in Nat /\ PolicyTTL \in Nat /\ Threshold \in Nat
    /\ MaxOffset \in Nat /\ MaxDead \in Nat /\ MaxTime \in Nat /\ IndexLoss \in BOOLEAN

VARIABLES        \* the disk
    segs,        \* segN.dat for every segment number
    compact_tmp, \* compact.tmp
    journal,     \* journal.dat
    index_dat    \* index.dat

VARIABLES        \* the RAM
    index,       \* _index
    current_segment,
    current_offset,
    active_file, \* the file active_file is open on
    index_file,  \* whether index_file is open
    dead_since_compact,
    compact_in_cooldown

VARIABLES        \* where the program is
    pc,          \* the next file-system effect
    op,          \* the call in progress
    caller,      \* who called compact() or finalize_compaction()
    cs,          \* the segment loop's counter
    todo         \* keys whose record in segment cs is still to be copied

VARIABLES        \* the outside
    now,         \* microStore::time()
    promised     \* what the answers given so far make callers expect

disk == <<segs, compact_tmp, journal, index_dat>>
handles == <<current_segment, current_offset, active_file, index_file>>
ram == <<index, handles, dead_since_compact, compact_in_cooldown>>
control == <<pc, op, caller, cs, todo>>
outside == <<now, promised>>
vars == <<disk, ram, control, outside>>

Segments == 0..(SegCount - 1)

---------------------------------------------------------------------------
(* Records, files and the index                                            *)

Cell == [key : Keys, data : Payloads \cup {Tombstone}]
File == Seq(Cell \cup {Torn})
JournalEntry == [state : {"COMPACTING", "COMMIT"}, next : 0..SegCount]

\* IndexValue keeps the TTL in 24 bits.
Entry == [seg : Segments, off : Nat, ts : Nat, ttl : Nat, prio : Nat]
Index == [Keys -> Entry \cup {None}]
EmptyIndex == [k \in Keys |-> None]

\* load_index(): what replaying index.dat gives. Entries appended behind a
\* half-written one are lost to the replay.
IndexLog == [map : Index, torn : BOOLEAN]

ASSUME ModelValues ==
    /\ None \notin Payloads \cup Entry \cup {Tombstone}
    /\ Tombstone \notin Payloads
    /\ Torn \notin Cell \cup JournalEntry
    /\ NoFile \notin File \cup JournalEntry \cup IndexLog
    /\ Closed # Unlinked /\ {Closed, Unlinked} \cap (0..SegCount) = {}

\* (bug) The TTL does not reach the index.
EntryWithoutTTL(s, o, d) ==
    [seg |-> s, off |-> o, ts |-> d.ts, ttl |-> 0, prio |-> d.prio]

EntryFor(s, o, d) ==
    [seg |-> s, off |-> o, ts |-> d.ts, ttl |-> d.ttl % 16777216, prio |-> d.prio]

Indexed(ix) == {k \in Keys : ix[k] # None}

\* is_ttl_expired_ at time t
EffectiveTTL(ttl) == IF ttl > 0 THEN ttl ELSE PolicyTTL
Expired(ts, ttl, t) ==
    /\ EffectiveTTL(ttl) > 0
    /\ t > ts
    /\ t - ts >= EffectiveTTL(ttl)

Readable(f, o) == f # NoFile /\ o < Len(f) /\ f[o + 1] # Torn

\* A scan walks the records up to the first frame it cannot parse; a record
\* with an empty key looks like one.
Scanned(f) ==
    {i \in DOMAIN f : \A j \in 1..i : f[j] # Torn /\ f[j].key \notin EmptyKeys}

RecordsOf(f, k) == IF f = NoFile THEN {} ELSE {i \in Scanned(f) : f[i].key = k}
PutsOf(f, k) == {i \in RecordsOf(f, k) : f[i].data # Tombstone}

\* (bug) The scan offset is advanced before it is indexed.
OffsetTooFar(f) ==
    [k \in Keys |->
        IF PutsOf(f, k) = {} THEN None
        ELSE LET i == Max(PutsOf(f, k)) IN EntryFor(0, i, f[i].data)]

\* finalize_compaction(): index segment 0, skipping tombstones.
IndexOfSegment0(f) ==
    [k \in Keys |->
        IF PutsOf(f, k) = {} THEN None
        ELSE LET i == Max(PutsOf(f, k)) IN EntryFor(0, i - 1, f[i].data)]

\* (bug) Tombstones are skipped, as in finalize_compaction().
IgnoreTombstones ==
    [k \in Keys |->
        LET hits == {s \in Segments : PutsOf(segs[s], k) # {}} IN
        IF hits = {} THEN None
        ELSE LET s == Max(hits)
                 i == Max(PutsOf(segs[s], k))
             IN EntryFor(s, i - 1, segs[s][i].data)]

\* rebuild_index_from_segments(): the last record of a key, in the order of
\* the segment numbers, decides.
RebuiltIndex ==
    [k \in Keys |->
        LET hits == {s \in Segments : RecordsOf(segs[s], k) # {}} IN
        IF hits = {} THEN None
        ELSE LET s == Max(hits)
                 i == Max(RecordsOf(segs[s], k))
             IN IF segs[s][i].data = Tombstone THEN None
                ELSE EntryFor(s, i - 1, segs[s][i].data)]

\* (bug) The comparison is turned round: the newest record goes first.
NewestFirst(e) == 0 - e.ts

\* evicts_before compares these: priority costs a record a multiple of its
\* time to live. The code multiplies in 32 bits, which an indexed TTL of 24
\* bits cannot overflow; a PolicyTTL above 2^32 / 10 could.
Score(e) == e.ts - (EffectiveTTL(e.ttl) \div (e.prio + 3)) * e.prio * 10

\* (bug) One record too many is kept.
ExcessLate(ix) ==
    IF MaxRecs = 0 \/ Cardinality(Indexed(ix)) <= MaxRecs + 1 THEN 0
    ELSE Cardinality(Indexed(ix)) - MaxRecs

\* prune_index_to_max_recs_(): the sets of keys it may pick.
Excess(ix) ==
    IF MaxRecs = 0 \/ Cardinality(Indexed(ix)) <= MaxRecs THEN 0
    ELSE Cardinality(Indexed(ix)) - MaxRecs
Victims(ix) ==
    {E \in SUBSET Indexed(ix) :
        /\ Cardinality(E) = Excess(ix)
        /\ \A e \in E, r \in Indexed(ix) \ E : Score(ix[e]) <= Score(ix[r])}
Without(f, E) == [k \in Keys |-> IF k \in E THEN None ELSE f[k]]

\* (bug) remove() does not log its deletion.
LogPutsOnly(log, k, e) ==
    IF log.torn \/ e = None THEN log ELSE [log EXCEPT !.map = [@ EXCEPT ![k] = e]]

\* What the replay gives after persist_index_entry().
Logged(log, k, e) ==
    IF log.torn THEN log ELSE [log EXCEPT !.map = [@ EXCEPT ![k] = e]]

---------------------------------------------------------------------------
(* What callers see and expect                                             *)

\* get(): the value found where the index points. The key stored there is
\* not compared with the key asked for.
View(k) ==
    LET e == index[k] IN
    IF e = None \/ (e # None /\ Expired(e.ts, e.ttl, now)) THEN None
    ELSE IF Readable(segs[e.seg], e.off) THEN segs[e.seg][e.off + 1].data
    ELSE None

Seen(d) == IF d # None /\ Expired(d.ts, d.ttl, now) THEN None ELSE d

NoOp == [name |-> "none", key |-> None, data |-> None, evicted |-> {}]
OpNames == {"none", "put", "remove", "clear", "compact"}

\* What k holds once the call in progress has taken effect.
After(k) ==
    IF op.name = "clear" \/ k \in op.evicted THEN None
    ELSE IF k = op.key THEN op.data
    ELSE promised[k]

---------------------------------------------------------------------------
Init ==
    /\ segs = [s \in Segments |-> NoFile]
    /\ compact_tmp = NoFile /\ journal = NoFile /\ index_dat = NoFile
    /\ index = EmptyIndex
    /\ current_segment = 0 /\ current_offset = 0
    /\ active_file = Closed /\ index_file = FALSE
    /\ dead_since_compact = 0 /\ compact_in_cooldown = FALSE
    /\ pc = "down" /\ op = NoOp /\ caller = "none" /\ cs = 0 /\ todo = {}
    /\ now = 0 /\ promised = [k \in Keys |-> None]

Goto(l) == pc' = l /\ UNCHANGED <<op, caller, cs, todo>>

\* The call returns true to its caller.
Return ==
    /\ pc' = "idle" /\ op' = NoOp /\ caller' = "none" /\ cs' = 0 /\ todo' = {}
    /\ promised' = [k \in Keys |-> After(k)]
    /\ UNCHANGED now

\* The call returns false: it did nothing.
Refuse ==
    /\ pc' = "idle" /\ op' = NoOp /\ UNCHANGED <<caller, cs, todo, outside>>

\* (bug) The seek to the end is forgotten.
OpenAtStart(id) ==
    /\ segs' = [segs EXCEPT ![id] = IF @ = NoFile THEN <<>> ELSE @]
    /\ active_file' = id /\ current_segment' = id
    /\ current_offset' = 0

\* open_segment(): append mode creates the file.
OpenSegment(id) ==
    /\ segs' = [segs EXCEPT ![id] = IF @ = NoFile THEN <<>> ELSE @]
    /\ active_file' = id /\ current_segment' = id
    /\ current_offset' = IF segs[id] = NoFile THEN 0 ELSE Len(segs[id])

\* (bug) The loop stops one segment early.
KeepLastSegment(S) ==
    /\ segs' = [s \in Segments |-> IF s \in S \ {SegCount - 1} THEN NoFile ELSE segs[s]]
    /\ active_file' = IF active_file \in S THEN Unlinked ELSE active_file

\* Removing a file leaves a handle open on it without a name.
RemoveSegments(S) ==
    /\ segs' = [s \in Segments |-> IF s \in S THEN NoFile ELSE segs[s]]
    /\ active_file' = IF active_file \in S THEN Unlinked ELSE active_file

---------------------------------------------------------------------------
(* put() and remove()                                                      *)

\* The handles are only missing after close().
Usable == active_file = Closed => "use_after_close" \in Ops

\* put() up to its first write: rotate_segment_if_needed(), whose failure
\* does not stop the put.
StartPut(k, d) ==
    /\ pc = "idle" /\ "put" \in Ops /\ Usable
    /\ current_offset <= MaxOffset /\ dead_since_compact <= MaxDead
    /\ op' = [name |-> "put", key |-> k, data |-> d, evicted |-> {}]
    /\ \/ /\ current_offset < SegRecs
          /\ pc' = "append"
          /\ UNCHANGED <<disk, ram, caller>>
       \/ /\ current_offset >= SegRecs
          /\ current_segment + 1 < SegCount
          /\ OpenSegment(current_segment + 1)
          /\ pc' = "append"
          /\ UNCHANGED <<compact_tmp, journal, index_dat, index, index_file,
                         dead_since_compact, compact_in_cooldown, caller>>
       \/ /\ current_offset >= SegRecs
          /\ current_segment + 1 >= SegCount
          /\ compact_in_cooldown
          /\ OpenSegment(SegCount - 1)
          /\ pc' = "append"
          /\ UNCHANGED <<compact_tmp, journal, index_dat, index, index_file,
                         dead_since_compact, compact_in_cooldown, caller>>
       \/ /\ current_offset >= SegRecs
          /\ current_segment + 1 >= SegCount
          /\ ~compact_in_cooldown
          /\ active_file' = Closed
          /\ current_segment' = current_segment + 1
          /\ caller' = "rotate" /\ pc' = "journal_copying"
          /\ UNCHANGED <<disk, index, current_offset, index_file,
                         dead_since_compact, compact_in_cooldown>>
    /\ UNCHANGED <<cs, todo, outside>>

StartRemove(k) ==
    /\ pc = "idle" /\ "remove" \in Ops /\ Usable
    /\ current_offset < MaxOffset /\ dead_since_compact <= MaxDead
    /\ op' = [name |-> "remove", key |-> k, data |-> None, evicted |-> {}]
    /\ pc' = "append"
    /\ UNCHANGED <<disk, ram, caller, cs, todo, outside>>

\* flush_buffer() of the record, which ignores what write() returns ...
WriteRecord ==
    LET c == [key |-> op.key,
              data |-> IF op.name = "put" THEN op.data ELSE Tombstone] IN
    \/ /\ active_file \in Segments
       /\ segs' = [segs EXCEPT ![active_file] = Append(@, c)]
    \/ /\ active_file \in Segments => "append" \in Faults
       /\ UNCHANGED segs

\* ... and, in the same step, the update of the index in RAM.
AppendRecord ==
    /\ pc = "append"
    /\ ~(op.name = "put" /\ active_file = Closed)
    /\ WriteRecord
    /\ LET e  == EntryFor(current_segment, current_offset, op.data)
           ix == [index EXCEPT ![op.key] = IF op.name = "put" THEN e ELSE None]
           dead == dead_since_compact + (IF index[op.key] # None THEN 1 ELSE 0)
       IN IF op.name = "put"
          THEN \E E \in Victims(ix) :
                  /\ index' = Without(ix, E)
                  /\ dead_since_compact' = dead + Cardinality(E)
                  /\ op' = [op EXCEPT !.evicted = (@ \ {op.key}) \cup E]
          ELSE /\ index' = ix /\ dead_since_compact' = dead
               /\ UNCHANGED op
    /\ pc' = "persist"
    /\ UNCHANGED <<compact_tmp, journal, index_dat, handles,
                   compact_in_cooldown, caller, cs, todo, outside>>

\* A put whose buffer cannot be flushed because no file is open fails.
AppendRefused ==
    /\ pc = "append" /\ op.name = "put" /\ active_file = Closed
    /\ Refuse /\ UNCHANGED <<disk, ram>>

\* compact_if_threshold()
TooManyDead ==
    LET total == Cardinality(Indexed(index)) + dead_since_compact IN
    /\ Threshold > 0 /\ total > 0
    /\ (dead_since_compact * 100) \div total >= Threshold

\* persist_index_entry(), and the rest of the call.
PersistEntry ==
    /\ pc = "persist"
    /\ index_dat' =
         IF index_file
         THEN Logged(index_dat, op.key,
                     IF op.name = "put"
                     THEN EntryFor(current_segment, current_offset, op.data)
                     ELSE None)
         ELSE index_dat
    /\ current_offset' = current_offset + 1
    /\ \/ TooManyDead /\ pc' = "journal_copying" /\ caller' = "threshold"
          /\ UNCHANGED <<op, cs, todo, outside>>
       \/ ~TooManyDead /\ Return
    /\ UNCHANGED <<segs, compact_tmp, journal, index, current_segment,
                   active_file, index_file, dead_since_compact,
                   compact_in_cooldown>>

\* get() and exists() drop an expired entry from the index in RAM.
Get(k) ==
    /\ pc = "idle" /\ "get" \in Ops
    /\ index[k] # None /\ Expired(index[k].ts, index[k].ttl, now)
    /\ index' = [index EXCEPT ![k] = None]
    /\ UNCHANGED <<disk, handles, dead_since_compact, compact_in_cooldown,
                   control, outside>>

---------------------------------------------------------------------------
(* compact()                                                               *)

\* The public compact() call.
StartCompact ==
    /\ pc = "idle" /\ "compact" \in Ops /\ Usable
    /\ op' = [NoOp EXCEPT !.name = "compact"]
    /\ pc' = "journal_copying" /\ caller' = "call"
    /\ UNCHANGED <<disk, ram, cs, todo, outside>>

\* (bug) now - ts wraps around for a record stamped in the future.
LiveUnlessFuture(s, ix) ==
    {k \in Keys :
        /\ ix[k] # None /\ ix[k].seg = s
        /\ EffectiveTTL(ix[k].ttl) > 0 =>
              now >= ix[k].ts /\ now - ix[k].ts < EffectiveTTL(ix[k].ttl)}

\* Keys whose live record lies in segment s.
LiveIn(s, ix) ==
    {k \in Keys : ix[k] # None /\ ix[k].seg = s
                    /\ ~Expired(ix[k].ts, ix[k].ttl, now)}

\* write_journal() tells nobody when it fails. A file that could not be opened
\* is as it was, or removed already; one that could not be written is cut short.
WriteJournal(j) ==
    \/ journal' = j
    \/ "journal" \in Faults /\ journal' \in {journal, NoFile, Torn}

\* write_journal(COMPACTING, 0)
JournalCopying ==
    /\ pc = "journal_copying"
    /\ WriteJournal([state |-> "COMPACTING", next |-> 0])
    /\ Goto("open_tmp")
    /\ UNCHANGED <<segs, compact_tmp, index_dat, ram, outside>>

OpenTmp ==
    /\ pc = "open_tmp"
    /\ compact_tmp' = <<>>
    /\ \E E \in Victims(index) :
          /\ index' = Without(index, E)
          /\ dead_since_compact' = dead_since_compact + Cardinality(E)
          /\ op' = [op EXCEPT !.evicted = @ \cup E]
    /\ pc' = "copy" /\ cs' = 0 /\ todo' = LiveIn(0, index')
    /\ UNCHANGED <<segs, journal, index_dat, handles, compact_in_cooldown,
                   caller, outside>>

\* compact() returns false to its caller.
GiveUp ==
    \/ /\ caller = "rotate"
       /\ compact_in_cooldown' = TRUE
       /\ OpenSegment(SegCount - 1)
       /\ pc' = "append" /\ caller' = "none" /\ cs' = 0 /\ todo' = {}
       /\ UNCHANGED <<op, outside>>
    \/ /\ caller \in {"threshold", "call"}
       /\ Return
       /\ UNCHANGED <<segs, current_segment, current_offset, active_file,
                      compact_in_cooldown>>

OpenTmpFails ==
    /\ pc = "open_tmp" /\ "tmp_open" \in Faults
    /\ journal' = NoFile
    /\ GiveUp
    /\ UNCHANGED <<compact_tmp, index_dat, index, index_file,
                   dead_since_compact>>

\* The next record of segment cs, in the order of the offsets.
First(k) == k \in todo /\ \A j \in todo : index[k].off <= index[j].off

\* (bug) The loop does not advance over a record that cannot be read.
RetryRecord ==
    /\ pc = "copy"
    /\ \E k \in Keys :
          /\ First(k)
          /\ IF Readable(segs[cs], index[k].off)
             THEN /\ compact_tmp' = Append(compact_tmp, segs[cs][index[k].off + 1])
                  /\ todo' = todo \ {k}
             ELSE UNCHANGED <<compact_tmp, todo>>
    /\ UNCHANGED <<segs, journal, index_dat, ram, pc, op, caller, cs, outside>>

\* A record that cannot be read is skipped.
CopyRecord ==
    /\ pc = "copy"
    /\ \E k \in Keys :
          /\ First(k)
          /\ compact_tmp' =
               IF Readable(segs[cs], index[k].off)
               THEN Append(compact_tmp, segs[cs][index[k].off + 1])
               ELSE compact_tmp
          /\ todo' = todo \ {k}
    /\ UNCHANGED <<segs, journal, index_dat, ram, pc, op, caller, cs, outside>>

\* The storage is full. Nothing has been deleted yet: back to the start.
CopyFailsEarly ==
    /\ pc = "copy" /\ "tmp_write" \in Faults /\ cs = 0 /\ todo # {}
    /\ compact_tmp' = NoFile
    /\ Goto("clear_aborted")
    /\ UNCHANGED <<segs, journal, index_dat, ram, outside>>

\* Segments have been deleted: compact.tmp and the journal stay.
CopyFailsLate ==
    /\ pc = "copy" /\ "tmp_write" \in Faults /\ cs > 0 /\ todo # {}
    /\ compact_tmp' = Append(compact_tmp, Torn)
    /\ GiveUp
    /\ UNCHANGED <<journal, index_dat, index, index_file, dead_since_compact>>

ClearAborted ==
    /\ pc = "clear_aborted"
    /\ journal' = NoFile
    /\ GiveUp
    /\ UNCHANGED <<compact_tmp, index_dat, index, index_file,
                   dead_since_compact>>

\* (bug) The journal names the segment itself, not the one after it.
JournalOffByOne ==
    /\ pc = "copy" /\ todo = {}
    /\ WriteJournal([state |-> "COMPACTING", next |-> cs])
    /\ Goto("drop_source")
    /\ UNCHANGED <<segs, compact_tmp, index_dat, ram, outside>>

\* (bug) The copy loop may be left before every record has been copied.
JournalTooSoon ==
    /\ pc = "copy"
    /\ WriteJournal([state |-> "COMPACTING", next |-> cs + 1])
    /\ Goto("drop_source")
    /\ UNCHANGED <<segs, compact_tmp, index_dat, ram, outside>>

\* write_journal(COMPACTING, s + 1) covers segment s ...
JournalSegment ==
    /\ pc = "copy" /\ todo = {}
    /\ WriteJournal([state |-> "COMPACTING", next |-> cs + 1])
    /\ Goto("drop_source")
    /\ UNCHANGED <<segs, compact_tmp, index_dat, ram, outside>>

\* (bug) The loop runs to s <= _segment_count.
DropOneMore ==
    /\ pc = "drop_source"
    /\ RemoveSegments({cs})
    /\ IF cs < SegCount
       THEN pc' = "copy" /\ cs' = cs + 1 /\ todo' = LiveIn(cs + 1, index)
       ELSE pc' = "journal_commit" /\ UNCHANGED <<cs, todo>>
    /\ UNCHANGED <<compact_tmp, journal, index_dat, index, current_segment,
                   current_offset, index_file, dead_since_compact,
                   compact_in_cooldown, op, caller, outside>>

\* ... before segment s is deleted.
DropSource ==
    /\ pc = "drop_source"
    /\ RemoveSegments({cs})
    /\ IF cs + 1 < SegCount
       THEN pc' = "copy" /\ cs' = cs + 1 /\ todo' = LiveIn(cs + 1, index)
       ELSE pc' = "journal_commit" /\ UNCHANGED <<cs, todo>>
    /\ UNCHANGED <<compact_tmp, journal, index_dat, index, current_segment,
                   current_offset, index_file, dead_since_compact,
                   compact_in_cooldown, op, caller, outside>>

JournalCommit ==
    /\ pc = "journal_commit"
    /\ WriteJournal([state |-> "COMMIT", next |-> 0])
    /\ Goto("remove_all")
    /\ UNCHANGED <<segs, compact_tmp, index_dat, ram, outside>>

---------------------------------------------------------------------------
(* finalize_compaction()                                                   *)

\* At most one segment is left when this runs: the loop has one effect.
RemoveAll ==
    /\ pc = "remove_all"
    /\ RemoveSegments(Segments)
    /\ Goto("rename_tmp")
    /\ UNCHANGED <<compact_tmp, journal, index_dat, index, current_segment,
                   current_offset, index_file, dead_since_compact,
                   compact_in_cooldown, outside>>

\* If compact.tmp cannot be renamed it is removed, and nobody is told.
RenameTmp ==
    /\ pc = "rename_tmp"
    /\ compact_tmp' = NoFile
    /\ \/ /\ compact_tmp # NoFile
          /\ segs' = [segs EXCEPT ![0] = compact_tmp]
          /\ index' = IndexOfSegment0(compact_tmp)
          /\ index_file' = FALSE
          /\ Goto("remove_index")
       \/ /\ compact_tmp = NoFile \/ "rename" \in Faults
          /\ Goto("clear_journal")
          /\ UNCHANGED <<segs, index, index_file>>
    /\ UNCHANGED <<journal, index_dat, current_segment, current_offset,
                   active_file, dead_since_compact, compact_in_cooldown, outside>>

RemoveIndex ==
    /\ pc = "remove_index"
    /\ index_dat' = NoFile
    /\ Goto("write_index")
    /\ UNCHANGED <<segs, compact_tmp, journal, ram, outside>>

\* write_index_bulk() and open_index_for_append()
WriteIndex ==
    /\ pc = "write_index"
    /\ index_dat' = [map |-> index, torn |-> FALSE]
    /\ index_file' = TRUE
    /\ current_segment' = 0
    /\ Goto("clear_journal")
    /\ UNCHANGED <<segs, compact_tmp, journal, index, current_offset,
                   active_file, dead_since_compact, compact_in_cooldown, outside>>

\* (bug) The counter is never reset.
DeadKept == dead_since_compact

\* The recovery at boot does not touch the counter.
DeadAfterCompact == IF caller = "boot" THEN dead_since_compact ELSE 0

\* clear_journal(), and back to whoever started this. After the public
\* compact() current_offset and active_file are what they were before.
ClearJournal ==
    /\ pc = "clear_journal"
    /\ journal' = NoFile
    /\ dead_since_compact' = DeadAfterCompact
    /\ \/ caller = "boot" /\ Goto("load") /\ UNCHANGED outside
       \/ caller \in {"rotate", "threshold"} /\ Goto("reopen")
          /\ UNCHANGED outside
       \/ caller = "call" /\ Return
    /\ UNCHANGED <<segs, compact_tmp, index_dat, index, handles,
                   compact_in_cooldown>>

\* Fresh writes start at segment 1.
Reopen ==
    /\ pc = "reopen"
    /\ OpenSegment(1)
    /\ \/ /\ caller = "rotate"
          /\ compact_in_cooldown' = FALSE
          /\ pc' = "append" /\ caller' = "none" /\ cs' = 0 /\ todo' = {}
          /\ UNCHANGED <<op, outside>>
       \/ /\ caller = "threshold"
          /\ Return
          /\ UNCHANGED compact_in_cooldown
    /\ UNCHANGED <<compact_tmp, journal, index_dat, index, index_file,
                   dead_since_compact>>

---------------------------------------------------------------------------
(* clear() and close()                                                     *)

StartClear ==
    /\ pc = "idle" /\ "clear" \in Ops /\ Usable
    /\ op' = [NoOp EXCEPT !.name = "clear"]
    /\ pc' = "clear_segment" /\ cs' = 0
    /\ UNCHANGED <<disk, ram, caller, todo, outside>>

\* Both files are closed before the first remove; the handles are reopened
\* at the end if they were open, so they keep their values until then.
ClearSegment ==
    /\ pc = "clear_segment"
    /\ segs' = [segs EXCEPT ![cs] = NoFile]
    /\ IF cs + 1 < SegCount
       THEN pc' = "clear_segment" /\ cs' = cs + 1
       ELSE pc' = "clear_index" /\ cs' = 0
    /\ UNCHANGED <<compact_tmp, journal, index_dat, ram, op, caller, todo,
                   outside>>

ClearIndex ==
    /\ pc = "clear_index"
    /\ index_dat' = NoFile
    /\ index' = EmptyIndex /\ dead_since_compact' = 0
    /\ current_segment' = 0 /\ current_offset' = 0
    /\ Goto("clear_reopen")
    /\ UNCHANGED <<segs, compact_tmp, journal, active_file, index_file,
                   compact_in_cooldown, outside>>

\* Inside init() nothing was open, and recovery comes next.
ClearReopen ==
    /\ pc = "clear_reopen"
    /\ index_dat' = IF index_file THEN [map |-> EmptyIndex, torn |-> FALSE]
                    ELSE index_dat
    /\ IF active_file # Closed THEN OpenSegment(0)
       ELSE UNCHANGED <<segs, active_file, current_segment, current_offset>>
    /\ IF caller = "boot"
       THEN /\ pc' = "recover" /\ op' = NoOp
            /\ promised' = [k \in Keys |-> None]
            /\ UNCHANGED <<caller, cs, todo, now>>
       ELSE Return
    /\ UNCHANGED <<compact_tmp, journal, index, index_file,
                   dead_since_compact, compact_in_cooldown>>

Close ==
    /\ pc = "idle" /\ "close" \in Ops
    /\ active_file # Closed
    /\ active_file' = Closed /\ index_file' = FALSE
    /\ UNCHANGED <<disk, index, current_segment, current_offset,
                   dead_since_compact, compact_in_cooldown, control, outside>>

---------------------------------------------------------------------------
(* init()                                                                  *)

\* A new FileStore object is initialised; clearOnInit clears it first.
Boot ==
    /\ pc = "down"
    /\ caller' = "boot"
    /\ \/ pc' = "recover" /\ UNCHANGED op
       \/ /\ "clear_on_init" \in Ops
          /\ pc' = "clear_segment"
          /\ op' = [op EXCEPT !.name = "clear"]
    /\ UNCHANGED <<disk, ram, cs, todo, outside>>

\* recover_if_needed(): without a journal, or with one that is cut short.
RecoverNothing ==
    /\ pc = "recover" /\ journal \in {NoFile, Torn}
    /\ journal' = NoFile
    /\ Goto("load")
    /\ UNCHANGED <<segs, compact_tmp, index_dat, ram, outside>>

RecoverCommitted ==
    /\ pc = "recover" /\ journal \notin {NoFile, Torn}
    /\ journal.state = "COMMIT"
    /\ Goto("remove_all")
    /\ UNCHANGED <<disk, ram, outside>>

\* (bug) JOURNAL_COMMIT, which carries next_seg 0, is taken for COMPACTING.
RecoverBackAlways ==
    /\ pc = "recover" /\ journal \notin {NoFile, Torn}
    /\ journal.next = 0
    /\ compact_tmp' = NoFile
    /\ Goto("clear_journal")
    /\ UNCHANGED <<segs, journal, index_dat, ram, outside>>

\* No source segment has been deleted: compact.tmp is not needed.
RecoverBack ==
    /\ pc = "recover" /\ journal \notin {NoFile, Torn}
    /\ journal.state = "COMPACTING" /\ journal.next = 0
    /\ compact_tmp' = NoFile
    /\ Goto("clear_journal")
    /\ UNCHANGED <<segs, journal, index_dat, ram, outside>>

\* Some have been deleted: compact.tmp becomes segment 0. If it cannot be
\* renamed the journal is kept for the next boot.
RecoverPartial ==
    /\ pc = "recover" /\ journal \notin {NoFile, Torn}
    /\ journal.state = "COMPACTING" /\ journal.next > 0
    /\ \/ /\ compact_tmp # NoFile
          /\ segs' = [segs EXCEPT ![0] = compact_tmp]
          /\ compact_tmp' = NoFile
          /\ Goto("clear_journal")
       \/ /\ compact_tmp = NoFile \/ "rename" \in Faults
          /\ Goto("load")
          /\ UNCHANGED <<segs, compact_tmp>>
    /\ UNCHANGED <<journal, index_dat, ram, outside>>

\* load_index() succeeds whenever index.dat can be opened.
LoadIndex ==
    /\ pc = "load" /\ index_dat # NoFile
    /\ index' = index_dat.map
    /\ Goto("prune")
    /\ UNCHANGED <<disk, handles, dead_since_compact, compact_in_cooldown,
                   outside>>

RebuildIndex ==
    /\ pc = "load" /\ index_dat = NoFile
    /\ index' = RebuiltIndex
    /\ index_file' = FALSE
    /\ Goto("write_rebuilt")
    /\ UNCHANGED <<disk, current_segment, current_offset, active_file,
                   dead_since_compact, compact_in_cooldown, outside>>

\* write_index_bulk() after a rebuild, and after a prune.
WriteBootIndex ==
    /\ pc \in {"write_rebuilt", "write_pruned"}
    /\ index_dat' = [map |-> index, torn |-> FALSE]
    /\ Goto(IF pc = "write_rebuilt" THEN "prune" ELSE "open")
    /\ UNCHANGED <<segs, compact_tmp, journal, ram, outside>>

\* prune_index_to_max_recs_() at boot; index.dat is rewritten if it evicts.
PruneAtBoot ==
    /\ pc = "prune"
    /\ \E E \in Victims(index) :
          /\ index' = Without(index, E)
          /\ dead_since_compact' = dead_since_compact + Cardinality(E)
          /\ op' = [op EXCEPT !.evicted = E]
          /\ index_dat' = IF E = {} THEN index_dat ELSE NoFile
          /\ pc' = IF E = {} THEN "open" ELSE "write_pruned"
    /\ UNCHANGED <<segs, compact_tmp, journal, handles, compact_in_cooldown,
                   caller, cs, todo, outside>>

\* What a reboot may make of the call that power cut short: nothing, or all
\* of it.
Resolved(k) ==
    LET may == {promised[k], After(k)} \cup (IF k = op.key THEN {op.data} ELSE {})
        fits == {d \in may : Seen(d) = View(k)}
    IN IF fits = {} THEN After(k) ELSE CHOOSE d \in fits : TRUE

\* Opens index.dat, and the last segment that exists, for appending.
OpenFiles ==
    /\ pc = "open"
    /\ index_file' = TRUE
    /\ OpenSegment(LET found == {s \in Segments : segs[s] # NoFile} IN
                   IF found = {} THEN 0 ELSE Max(found))
    /\ pc' = "idle" /\ op' = NoOp /\ caller' = "none" /\ cs' = 0 /\ todo' = {}
    /\ promised' = [k \in Keys |-> Resolved(k)]
    /\ UNCHANGED <<compact_tmp, journal, index_dat, index, dead_since_compact,
                   compact_in_cooldown, now>>

---------------------------------------------------------------------------
(* Power cuts, reboots and the clock                                       *)

\* How far a compaction has come, as the disk tells it.
Phase ==
    IF pc \in {"clear_segment", "clear_index", "clear_reopen"} THEN "clearing"
    ELSE IF journal \in {NoFile, Torn} THEN "quiet"
    ELSE IF journal.state = "COMMIT"
         THEN IF compact_tmp # NoFile THEN "committed" ELSE "swapped"
    ELSE IF journal.next = 0 THEN "copying" ELSE "partial"

PowerOff ==
    /\ index' = EmptyIndex
    /\ current_segment' = 0 /\ current_offset' = 0
    /\ active_file' = Closed /\ index_file' = FALSE
    /\ dead_since_compact' = 0 /\ compact_in_cooldown' = FALSE
    /\ pc' = "down" /\ op' = [op EXCEPT !.evicted = {}]
    /\ caller' = "none" /\ cs' = 0 /\ todo' = {}
    /\ UNCHANGED outside

\* The write under way when power fails may reach the disk in part.
TornWrite ==
    \/ /\ pc = "append" /\ "segment" \in TornWrites
       /\ active_file \in Segments
       /\ segs' = [segs EXCEPT ![active_file] = Append(@, Torn)]
       /\ UNCHANGED <<compact_tmp, journal, index_dat>>
    \/ /\ pc = "persist" /\ "index" \in TornWrites /\ index_file
       /\ index_dat' = [index_dat EXCEPT !.torn = TRUE]
       /\ UNCHANGED <<segs, compact_tmp, journal>>
    \/ /\ pc \in {"journal_copying", "copy", "journal_commit"}
       /\ todo = {} /\ "journal" \in TornWrites
       /\ journal' = Torn
       /\ UNCHANGED <<segs, compact_tmp, index_dat>>
    \/ /\ pc = "copy" /\ todo # {} /\ "tmp" \in TornWrites
       /\ compact_tmp' = Append(compact_tmp, Torn)
       /\ UNCHANGED <<segs, journal, index_dat>>
    \/ /\ pc \in {"write_index", "write_rebuilt", "write_pruned"}
       /\ "bulk" \in TornWrites
       /\ \E S \in SUBSET Indexed(index) :
             index_dat' = [map |-> Without(index, S), torn |-> TRUE]
       /\ UNCHANGED <<segs, compact_tmp, journal>>

Crash ==
    /\ pc # "down" /\ Phase \in Crashes
    /\ UNCHANGED disk \/ TornWrite
    /\ PowerOff

\* The program ends with no call in progress, after close() or without.
Shutdown ==
    /\ pc = "idle" /\ "reboot" \in Ops
    /\ PowerOff /\ UNCHANGED disk

LoseIndex ==
    /\ pc = "down" /\ IndexLoss
    /\ index_dat' = NoFile
    /\ UNCHANGED <<segs, compact_tmp, journal, ram, control, outside>>

\* USTORE_COMPACT_RETRY_MS pass.
CooldownEnds ==
    /\ pc = "idle" /\ compact_in_cooldown
    /\ compact_in_cooldown' = FALSE
    /\ UNCHANGED <<disk, index, handles, dead_since_compact, control, outside>>

Tick ==
    /\ pc \in {"idle", "down"} /\ now < MaxTime
    /\ now' = now + 1
    /\ UNCHANGED <<disk, ram, control, promised>>

---------------------------------------------------------------------------

Call ==
    \/ \E k \in Keys, d \in Payloads : StartPut(k, d)
    \/ \E k \in Keys : StartRemove(k) \/ Get(k)
    \/ StartCompact \/ StartClear \/ Close

Compacting ==
    \/ JournalCopying \/ OpenTmp \/ OpenTmpFails
    \/ CopyRecord \/ CopyFailsEarly \/ CopyFailsLate \/ ClearAborted
    \/ JournalSegment \/ DropSource \/ JournalCommit
    \/ RemoveAll \/ RenameTmp \/ RemoveIndex \/ WriteIndex
    \/ ClearJournal \/ Reopen

Booting ==
    \/ Boot
    \/ RecoverNothing \/ RecoverCommitted \/ RecoverBack \/ RecoverPartial
    \/ LoadIndex \/ RebuildIndex \/ WriteBootIndex \/ PruneAtBoot \/ OpenFiles

Proceed ==
    \/ AppendRecord \/ AppendRefused \/ PersistEntry
    \/ Compacting \/ Booting
    \/ ClearSegment \/ ClearIndex \/ ClearReopen

Outage == Crash \/ Shutdown \/ LoseIndex \/ CooldownEnds \/ Tick

Next == Call \/ Proceed \/ Outage

Spec == Init /\ [][Next]_vars

\* The program keeps running: nothing in it waits for anything. That the
\* storage is full is never what makes it go on.
Progress == Proceed /\ ~(CopyFailsEarly \/ CopyFailsLate)

FairSpec == Spec /\ WF_vars(Progress)

=============================================================================
