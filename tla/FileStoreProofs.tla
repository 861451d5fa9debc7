-------------------------- MODULE FileStoreProofs --------------------------
(***************************************************************************)
(* Theorems about FileStore for every value of its constants: any number   *)
(* of keys, segments and records, any set of calls, power cuts and errors. *)
(***************************************************************************)
EXTENDS FileStoreProperties, FiniteSetTheorems, SequenceTheorems,
        WellFoundedInduction, TLAPS

---------------------------------------------------------------------------
(* Numbers, sets and sequences                                             *)

Less == {ss \in Nat \X Nat : ss[1] < ss[2]}

\* A nonempty set of numbers up to n has a maximum, and Max picks it.
LEMMA MaxInSet ==
    ASSUME NEW n \in Nat, NEW S \in SUBSET (0..n), S # {}
    PROVE  Max(S) \in S /\ \A y \in S : Max(S) >= y
<1> DEFINE T == {n - x : x \in S}
<1>1. T \subseteq Nat /\ T # {}
  <2>1. \A x \in S : n - x \in Nat
    OBVIOUS
  <2>2. PICK x \in S : TRUE
    OBVIOUS
  <2>3. n - x \in T
    OBVIOUS
  <2> QED BY <2>1, <2>3
<1>2. PICK m \in T : \A y \in T : ~ (<<y, m>> \in Less)
  <2>1. IsWellFoundedOn(Less, Nat)
    BY NatLessThanWellFounded DEF OpToRel, Less
  <2> HIDE DEF T
  <2> QED BY <1>1, <2>1, WFMin
<1>3. PICK x \in S : m = n - x
  OBVIOUS
<1>4. \A y \in S : x >= y
  <2> SUFFICES ASSUME NEW y \in S PROVE x >= y
    OBVIOUS
  <2>1. n - y \in T
    OBVIOUS
  <2>2. ~ (<<n - y, m>> \in Less)
    BY <1>2, <2>1
  <2>3. n - y \in Nat /\ m \in Nat
    BY <2>1, <1>1
  <2>4. ~ (n - y < m)
    BY <2>2, <2>3 DEF Less
  <2> QED BY <2>4, <1>3
<1> QED BY <1>4 DEF Max

---------------------------------------------------------------------------
(* The operators the steps are built from                                  *)

\* A put is indexed by an entry, whatever its payload.
LEMMA EntryType ==
    ASSUME NEW s \in Segments, NEW o \in Nat, NEW d \in Payloads
    PROVE  EntryFor(s, o, d) \in Entry
<1>1. d.ttl \in Nat /\ d.ts \in Nat /\ d.prio \in Nat
  BY Parameters
<1>2. d.ttl % 16777216 \in Nat
  BY <1>1
<1> QED BY <1>1, <1>2 DEF EntryFor, Entry

\* The scan visits numbers of records of the file.
LEMMA ScanType ==
    ASSUME NEW f \in File, NEW k
    PROVE  /\ RecordsOf(f, k) \in SUBSET (0..Len(f))
           /\ \A i \in RecordsOf(f, k) :
                 i \in DOMAIN f /\ i - 1 \in Nat /\ f[i] \in Cell /\ f[i].key = k
<1>1. \A i \in DOMAIN f : i \in 1..Len(f) /\ f[i] \in Cell \cup {Torn}
  BY DEF File
<1>2. \A i \in RecordsOf(f, k) : i \in DOMAIN f /\ f[i] # Torn /\ f[i].key = k
  <2> SUFFICES ASSUME NEW i \in RecordsOf(f, k)
               PROVE  i \in DOMAIN f /\ f[i] # Torn /\ f[i].key = k
    OBVIOUS
  <2>1. f # NoFile
    BY ModelValues
  <2>2. i \in Scanned(f) /\ f[i].key = k
    BY <2>1 DEF RecordsOf
  <2>3. i \in DOMAIN f /\ i \in 1..i
    BY <2>2, <1>1 DEF Scanned
  <2> QED BY <2>2, <2>3 DEF Scanned
<1> QED BY <1>1, <1>2

\* The put records of a key in a well-typed file are records of that key.
LEMMA PutsType ==
    ASSUME NEW f \in File \cup {NoFile}, NEW k, PutsOf(f, k) # {}
    PROVE  /\ Max(PutsOf(f, k)) \in PutsOf(f, k)
           /\ Max(PutsOf(f, k)) - 1 \in Nat
           /\ f[Max(PutsOf(f, k))].data \in Payloads
<1>1. f \in File
  BY DEF PutsOf, RecordsOf
<1>2. PutsOf(f, k) \in SUBSET (0..Len(f)) /\ Len(f) \in Nat
  BY <1>1, ScanType DEF PutsOf, File
<1>3. Max(PutsOf(f, k)) \in PutsOf(f, k)
  BY <1>2, MaxInSet
<1> QED BY <1>1, <1>3, ScanType DEF PutsOf, Cell

\* What finalize_compaction() and rebuild_index_from_segments() build are
\* indexes: they only point into segments that exist.
LEMMA Segment0Type ==
    ASSUME NEW f \in File
    PROVE  IndexOfSegment0(f) \in Index
<1> SUFFICES ASSUME NEW k \in Keys, PutsOf(f, k) # {}
             PROVE  EntryFor(0, Max(PutsOf(f, k)) - 1, f[Max(PutsOf(f, k))].data) \in Entry
  BY DEF IndexOfSegment0, Index
<1>1. 0 \in Segments
  BY Parameters DEF Segments
<1> QED BY <1>1, PutsType, EntryType

\* rebuild_index_from_segments() makes an index, whatever the segments hold.
LEMMA RebuiltType ==
    ASSUME segs \in [Segments -> File \cup {NoFile}]
    PROVE  RebuiltIndex \in Index
<1> SUFFICES ASSUME NEW k \in Keys
             PROVE  RebuiltIndex[k] \in Entry \cup {None}
  BY DEF RebuiltIndex, Index
<1> DEFINE hits == {s \in Segments : RecordsOf(segs[s], k) # {}}
           s == Max(hits)
           i == Max(RecordsOf(segs[s], k))
<1>1. CASE hits = {}
  BY <1>1 DEF RebuiltIndex
<1>2. CASE hits # {}
  <2>1. s \in hits
    <3>1. hits \in SUBSET (0..SegCount - 1) /\ SegCount - 1 \in Nat
      BY Parameters DEF Segments
    <3> HIDE DEF hits
    <3> QED BY <3>1, <1>2, MaxInSet
  <2> HIDE DEF s
  <2>2. s \in Segments /\ segs[s] \in File /\ RecordsOf(segs[s], k) # {}
    BY <2>1 DEF RecordsOf
  <2>3. i \in RecordsOf(segs[s], k)
    <3>1. Len(segs[s]) \in Nat
      BY <2>2 DEF File
    <3> QED BY <2>2, <3>1, ScanType, MaxInSet
  <2> HIDE DEF i
  <2>4. i - 1 \in Nat /\ segs[s][i].data \in Payloads \cup {Tombstone}
    BY <2>2, <2>3, ScanType DEF Cell
  <2>5. RebuiltIndex[k] = IF segs[s][i].data = Tombstone THEN None
                          ELSE EntryFor(s, i - 1, segs[s][i].data)
    BY <1>2 DEF RebuiltIndex, s, i
  <2> QED BY <2>2, <2>4, <2>5, EntryType
<1> QED BY <1>1, <1>2

\* Dropping the victims of an eviction leaves an index; there are finitely
\* many of them, so counting them gives a number.
LEMMA WithoutType ==
    ASSUME NEW ix \in Index, NEW E
    PROVE  Without(ix, E) \in Index
BY DEF Without, Index

\* prune_index_to_max_recs_() takes keys out of an index, and what is left is
\* one.
LEMMA VictimsType ==
    ASSUME NEW ix, NEW E \in Victims(ix)
    PROVE  E \in SUBSET Keys /\ Cardinality(E) \in Nat
<1>1. E \in SUBSET Keys
  BY DEF Victims, Indexed
<1> QED BY <1>1, Parameters, FS_Subset, FS_CardinalityType

\* A record that can be read is a record.
LEMMA ReadType ==
    ASSUME NEW f \in File \cup {NoFile}, NEW o \in Nat, Readable(f, o)
    PROVE  f[o + 1] \in Cell
BY DEF Readable, File

\* A file just created is a file.
LEMMA EmptyType == <<>> \in File /\ <<>> # NoFile
<1>1. <<>> \in File
  BY EmptySeq DEF File
<1> QED BY <1>1, ModelValues

\* Appending a record, or the beginning of one, to a file leaves a file.
LEMMA AppendType ==
    ASSUME NEW f \in File, NEW c \in Cell \cup {Torn}
    PROVE  Append(f, c) \in File /\ Append(f, c) # NoFile
BY ModelValues DEF File

\* persist_index_entry() leaves index.dat an index log.
LEMMA LoggedType ==
    ASSUME NEW log \in IndexLog, NEW k \in Keys, NEW e \in Entry \cup {None}
    PROVE  Logged(log, k, e) \in IndexLog
BY DEF Logged, IndexLog, Index

\* open_segment() leaves every file that exists as it was, and the file it
\* opens exists.
LEMMA OpenType ==
    ASSUME segs \in [Segments -> File \cup {NoFile}], NEW id \in Segments,
           OpenSegment(id)
    PROVE  /\ segs' \in [Segments -> File \cup {NoFile}]
           /\ active_file' = id /\ current_segment' = id
           /\ current_offset' \in Nat
           /\ segs'[id] # NoFile
           /\ \A s \in Segments : segs[s] # NoFile => segs'[s] = segs[s]
<1>1. <<>> \in File /\ <<>> # NoFile
  BY EmptyType
<1>2. segs[id] # NoFile => Len(segs[id]) \in Nat
  BY DEF File
<1>3. \A s \in Segments :
        segs'[s] = IF s = id /\ segs[s] = NoFile THEN <<>> ELSE segs[s]
  BY DEF OpenSegment
<1>4. segs' \in [Segments -> File \cup {NoFile}]
  <2>1. segs' = [segs EXCEPT ![id] = IF segs[id] = NoFile THEN <<>> ELSE segs[id]]
    BY DEF OpenSegment
  <2> QED BY <2>1, <1>1
<1>5. current_offset' \in Nat
  BY <1>2 DEF OpenSegment
<1> QED BY <1>1, <1>3, <1>4, <1>5 DEF OpenSegment

\* Deleting segments keeps the types of the segments and of active_file.
LEMMA RemoveType ==
    ASSUME segs \in [Segments -> File \cup {NoFile}], NEW S \in SUBSET Segments,
           active_file \in Segments \cup {Closed, Unlinked},
           RemoveSegments(S)
    PROVE  /\ segs' \in [Segments -> File \cup {NoFile}]
           /\ active_file' \in Segments \cup {Closed, Unlinked}
           /\ \A s \in Segments : s \notin S => segs'[s] = segs[s]
           /\ active_file' \in Segments =>
                 active_file' = active_file /\ active_file \notin S
<1>1. Unlinked \notin Segments
  BY ModelValues, Parameters DEF Segments
<1> QED BY <1>1 DEF RemoveSegments

---------------------------------------------------------------------------
(* The inductive invariant                                                 *)

\* Where each call may be, what it may be called for, and which file it has
\* in hand: the part of the control state that the type of the next state
\* depends on.
CallOK ==
    /\ pc \in {"idle", "append", "persist", "down"} => caller = "none"
    /\ pc \in {"append", "persist"} => op.name \in {"put", "remove"}
    /\ op.name \in {"put", "remove"} => op.key \in Keys
    /\ op.name = "put" => op.data \in Payloads
    /\ caller = "rotate" => op.name = "put"
    /\ caller # "rotate" => current_segment \in Segments

\* A file that is written to exists: compact.tmp while records are copied,
\* index.dat while a handle on it is open, the segment open for appending,
\* except where clear(), finalize_compaction() or init() is about to put the
\* file back.
Rewriting == Clearing \cup {"write_index", "load", "write_rebuilt", "write_pruned"}

FilesOK ==
    /\ pc \in {"copy", "drop_source"} =>
          compact_tmp # NoFile /\ \A k \in todo : index[k] # None
    /\ pc \in {"down", "remove_index"} => ~index_file
    /\ pc \in {"prune", "open"} => index_dat # NoFile
    /\ index_file /\ index_dat = NoFile => pc \in Rewriting
    /\ active_file \in Segments /\ segs[active_file] = NoFile => pc \in Clearing

\* Every step that deletes segments comes after the journal entry that covers
\* them, if that entry could be written, or belongs to clear().
JournalOK ==
    /\ pc = "drop_source" /\ "journal" \notin Faults => Covered(cs)
    /\ pc = "remove_all" /\ "journal" \notin Faults =>
          InJournal(journal) /\ journal.state = "COMMIT"
    /\ pc \in {"clear_segment", "clear_index", "clear_reopen"} => op.name = "clear"

IInv == TypeOK /\ CallOK /\ FilesOK /\ JournalOK

---------------------------------------------------------------------------
(* What the values assigned by the steps are                               *)

\* What SegCount >= 2 says of segment numbers: 0, 1 and the last are three
\* uses of two or more numbers.
LEMMA SegmentFacts ==
    /\ 0 \in Segments /\ 1 \in Segments /\ SegCount - 1 \in Segments
    /\ \A s \in Segments : s + 1 \in 0..SegCount /\ s \in 0..SegCount
    /\ SegCount \in Nat /\ 0 \in 0..SegCount
    /\ Closed \notin Segments /\ Unlinked \notin Segments
BY ModelValues, Parameters DEF Segments

\* The entries write_journal() writes are journal entries.
LEMMA JournalFacts ==
    /\ [state |-> "COMMIT", next |-> 0] \in JournalEntry
    /\ [state |-> "COMPACTING", next |-> 0] \in JournalEntry
    /\ \A s \in Segments : [state |-> "COMPACTING", next |-> s + 1] \in JournalEntry
    /\ \A j \in JournalEntry : InJournal(j)
BY SegmentFacts, ModelValues DEF JournalEntry, InJournal

\* Whether or not it succeeds, write_journal() leaves one of the journals there
\* can be on the disk.
LEMMA WriteJournalType ==
    ASSUME NEW j \in JournalEntry, WriteJournal(j),
           journal \in JournalEntry \cup {NoFile, Torn}
    PROVE  journal' \in JournalEntry \cup {NoFile, Torn}
BY DEF WriteJournal

\* The records that stand for calls are operations.
LEMMA OperationFacts ==
    /\ NoOp \in Operation
    /\ \A k \in Keys, d \in Payloads :
          [name |-> "put", key |-> k, data |-> d, evicted |-> {}] \in Operation
    /\ \A k \in Keys :
          [name |-> "remove", key |-> k, data |-> None, evicted |-> {}] \in Operation
    /\ \A n \in OpNames, o \in Operation : [o EXCEPT !.name = n] \in Operation
    /\ \A o \in Operation, E \in SUBSET Keys : [o EXCEPT !.evicted = E] \in Operation
<1>1. NoOp \in Operation
  BY DEF NoOp, Operation, OpNames
<1>2. ASSUME NEW k \in Keys, NEW d \in Payloads
      PROVE  [name |-> "put", key |-> k, data |-> d, evicted |-> {}] \in Operation
  BY DEF Operation, OpNames
<1>3. ASSUME NEW k \in Keys
      PROVE  [name |-> "remove", key |-> k, data |-> None, evicted |-> {}] \in Operation
  BY DEF Operation, OpNames
<1>4. ASSUME NEW o \in Operation, NEW n \in OpNames
      PROVE  [o EXCEPT !.name = n] \in Operation
  BY DEF Operation
<1>5. ASSUME NEW o \in Operation, NEW E \in SUBSET Keys
      PROVE  [o EXCEPT !.evicted = E] \in Operation
  BY DEF Operation
<1> QED BY <1>1, <1>2, <1>3, <1>4, <1>5

\* An index.dat written in one go replays to the index it was written from.
LEMMA IndexLogFacts ==
    /\ EmptyIndex \in Index
    /\ \A ix \in Index, t \in BOOLEAN :
          [map |-> ix, torn |-> t] \in IndexLog /\ [map |-> ix, torn |-> t] # NoFile
<1>1. EmptyIndex \in Index
  BY DEF EmptyIndex, Index
<1>2. \A ix \in Index, t \in BOOLEAN : [map |-> ix, torn |-> t] \in IndexLog
  BY Zenon DEF IndexLog
<1> QED BY <1>1, <1>2, ModelValues

\* A call that returns leaves a well-formed promise.
LEMMA ReturnType ==
    ASSUME ControlTypeOK, OutsideTypeOK, Return
    PROVE  ControlTypeOK' /\ OutsideTypeOK'
<1>1. ControlTypeOK'
  <2>1. pc' \in Labels /\ caller' \in Callers
    BY DEF Return, Labels, Callers
  <2> QED BY <2>1, OperationFacts, SegmentFacts DEF Return, ControlTypeOK
<1>2. OutsideTypeOK'
  <2>1. op.data \in Payloads \cup {None}
    BY DEF ControlTypeOK, Operation
  <2>2. \A k \in Keys : After(k) \in Payloads \cup {None}
    BY <2>1 DEF After, OutsideTypeOK
  <2> QED BY <2>2 DEF Return, OutsideTypeOK
<1> QED BY <1>1, <1>2

\* So does a compaction that gives up, whoever called it.
LEMMA GiveUpType ==
    ASSUME TypeOK, GiveUp, UNCHANGED <<index, index_file, dead_since_compact>>
    PROVE  /\ segs' \in [Segments -> File \cup {NoFile}]
           /\ RamTypeOK' /\ ControlTypeOK' /\ OutsideTypeOK'
<1> USE DEF TypeOK
<1>1. CASE caller \in {"threshold", "call"} /\ Return
           /\ UNCHANGED <<segs, current_segment, current_offset, active_file,
                          compact_in_cooldown>>
  BY <1>1, ReturnType DEF DiskTypeOK, RamTypeOK
<1>2. CASE /\ compact_in_cooldown' = TRUE /\ OpenSegment(SegCount - 1)
           /\ pc' = "append" /\ caller' = "none" /\ cs' = 0 /\ todo' = {}
           /\ UNCHANGED <<op, outside>>
  <2>1. /\ segs' \in [Segments -> File \cup {NoFile}]
        /\ active_file' \in Segments /\ current_segment' \in 0..SegCount
        /\ current_offset' \in Nat
    BY <1>2, SegmentFacts, OpenType DEF DiskTypeOK
  <2>2. RamTypeOK'
    <3>1. compact_in_cooldown' \in BOOLEAN
      BY <1>2
    <3> QED BY <2>1, <3>1 DEF RamTypeOK
  <2>3. ControlTypeOK'
    <3>1. pc' \in Labels /\ caller' \in Callers
      BY <1>2 DEF Labels, Callers
    <3> QED BY <1>2, <3>1, SegmentFacts DEF ControlTypeOK
  <2>4. OutsideTypeOK'
    BY <1>2 DEF outside, OutsideTypeOK
  <2> QED BY <2>1, <2>2, <2>3, <2>4
<1> QED BY <1>1, <1>2 DEF GiveUp

---------------------------------------------------------------------------
(* Type correctness: one lemma per group of actions                        *)

USE DEF TypeOK, disk, ram, handles, control, outside, Goto

\* The calls: a call is entered with a well-formed operation, and rotation
\* leaves the segments in range unless it hands over to the compaction.
LEMMA CallType ==
    ASSUME TypeOK, CallOK, Call
    PROVE  TypeOK'
<1>1. ASSUME NEW k \in Keys, NEW d \in Payloads, StartPut(k, d)
      PROVE  TypeOK'
  <2>1. op' \in Operation /\ caller \in Callers /\ pc' \in Labels
    BY <1>1, OperationFacts DEF StartPut, ControlTypeOK, Labels
  <2>2. OutsideTypeOK'
    BY <1>1 DEF StartPut, OutsideTypeOK
  <2>3. caller' \in Callers
    BY <1>1, <2>1 DEF StartPut, Callers
  <2>4. ControlTypeOK'
    BY <1>1, <2>1, <2>3 DEF StartPut, ControlTypeOK
  <2>5. DiskTypeOK' /\ RamTypeOK'
    <3>1. CASE UNCHANGED <<disk, ram, caller>>
      BY <3>1 DEF DiskTypeOK, RamTypeOK
    <3>2. ASSUME NEW id \in Segments, OpenSegment(id),
                 UNCHANGED <<compact_tmp, journal, index_dat, index, index_file,
                             dead_since_compact, compact_in_cooldown, caller>>
          PROVE  DiskTypeOK' /\ RamTypeOK'
      BY <3>2, OpenType, SegmentFacts DEF DiskTypeOK, RamTypeOK
    <3>3. CASE current_segment + 1 < SegCount /\ OpenSegment(current_segment + 1)
               /\ UNCHANGED <<compact_tmp, journal, index_dat, index, index_file,
                              dead_since_compact, compact_in_cooldown, caller>>
      <4>1. current_segment + 1 \in Segments
        BY <3>3, SegmentFacts DEF RamTypeOK, Segments
      <4> QED BY <3>2, <3>3, <4>1
    <3>4. CASE active_file' = Closed /\ current_segment' = current_segment + 1
               /\ UNCHANGED <<disk, index, current_offset, index_file,
                              dead_since_compact, compact_in_cooldown>>
      <4>1. current_segment \in Segments
        BY <1>1 DEF CallOK, StartPut
      <4> QED BY <3>4, <4>1, SegmentFacts DEF DiskTypeOK, RamTypeOK
    <3>5. SegCount - 1 \in Segments
      BY SegmentFacts
    <3> QED BY <1>1, <3>1, <3>2, <3>3, <3>4, <3>5 DEF StartPut
  <2> QED BY <2>2, <2>4, <2>5
<1>2. ASSUME NEW k \in Keys, StartRemove(k)
      PROVE  TypeOK'
  <2>1. op' \in Operation /\ pc' \in Labels
    BY <1>2, OperationFacts DEF StartRemove, Labels
  <2> QED BY <1>2, <2>1 DEF StartRemove, DiskTypeOK, RamTypeOK, ControlTypeOK, OutsideTypeOK
<1>3. ASSUME NEW k \in Keys, Get(k)
      PROVE  TypeOK'
  <2>1. index' \in Index
    BY <1>3 DEF Get, RamTypeOK, Index
  <2> QED BY <1>3, <2>1 DEF Get, DiskTypeOK, RamTypeOK, ControlTypeOK, OutsideTypeOK
<1>4. CASE StartCompact
  <2>1. op' \in Operation /\ pc' \in Labels /\ caller' \in Callers
    BY <1>4, OperationFacts DEF StartCompact, Labels, Callers, OpNames
  <2> QED BY <1>4, <2>1 DEF StartCompact, DiskTypeOK, RamTypeOK, ControlTypeOK, OutsideTypeOK
<1>5. CASE StartClear
  <2>1. op' \in Operation /\ pc' \in Labels
    BY <1>5, OperationFacts DEF StartClear, Labels, OpNames
  <2> QED BY <1>5, <2>1, SegmentFacts
      DEF StartClear, DiskTypeOK, RamTypeOK, ControlTypeOK, OutsideTypeOK
<1>6. CASE Close
  <2>1. index_file' \in BOOLEAN
    BY <1>6 DEF Close
  <2> QED BY <1>6, <2>1 DEF Close, DiskTypeOK, RamTypeOK, ControlTypeOK, OutsideTypeOK
<1> QED BY <1>1, <1>2, <1>3, <1>4, <1>5, <1>6 DEF Call

\* put() and remove() after their first write.
LEMMA WriteType ==
    ASSUME TypeOK, CallOK, FilesOK, AppendRecord \/ AppendRefused \/ PersistEntry
    PROVE  TypeOK'
<1>1. CASE AppendRecord
  <2>1. op.name \in {"put", "remove"} /\ op.key \in Keys /\ current_segment \in Segments
        /\ (op.name = "put" => op.data \in Payloads)
    BY <1>1 DEF AppendRecord, CallOK
  <2>2. DiskTypeOK'
    <3> DEFINE c == [key |-> op.key,
                     data |-> IF op.name = "put" THEN op.data ELSE Tombstone]
    <3>1. c \in Cell
      BY <2>1 DEF Cell
    <3>2. segs' \in [Segments -> File \cup {NoFile}]
      <4>1. CASE UNCHANGED segs
        BY <4>1 DEF DiskTypeOK
      <4>2. CASE active_file \in Segments
                 /\ segs' = [segs EXCEPT ![active_file] = Append(@, c)]
        <5>1. segs[active_file] \in File
          BY <1>1, <4>2 DEF AppendRecord, FilesOK, Clearing, DiskTypeOK
        <5>2. Append(segs[active_file], c) \in File
          BY <3>1, <5>1, AppendType
        <5> QED BY <4>2, <5>2 DEF DiskTypeOK
      <4> QED BY <1>1, <4>1, <4>2 DEF AppendRecord, WriteRecord
    <3> QED BY <1>1, <3>2 DEF AppendRecord, DiskTypeOK
  <2>3. pc' \in Labels
    BY <1>1 DEF AppendRecord, Labels
  <2> DEFINE e == EntryFor(current_segment, current_offset, op.data)
             ix == [index EXCEPT ![op.key] = IF op.name = "put" THEN e ELSE None]
             dead == dead_since_compact + (IF index[op.key] # None THEN 1 ELSE 0)
  <2>4. ix \in Index /\ dead \in Nat
    <3>1. op.name = "put" => e \in Entry
      BY <2>1, EntryType DEF RamTypeOK
    <3> HIDE DEF e
    <3>2. ix \in Index
      BY <2>1, <3>1 DEF RamTypeOK, Index
    <3>3. dead \in Nat
      BY DEF RamTypeOK
    <3> QED BY <3>2, <3>3
  <2>5. index' \in Index /\ dead_since_compact' \in Nat /\ op' \in Operation
    <3>1. CASE op.name = "put"
      <4>1. PICK E \in Victims(ix) :
               /\ index' = Without(ix, E)
               /\ dead_since_compact' = dead + Cardinality(E)
               /\ op' = [op EXCEPT !.evicted = (@ \ {op.key}) \cup E]
        BY <1>1, <3>1 DEF AppendRecord
      <4> HIDE DEF ix, dead
      <4>2. index' \in Index
        BY <4>1, <2>4, WithoutType
      <4>3. E \in SUBSET Keys /\ Cardinality(E) \in Nat
        BY <4>1, VictimsType
      <4>4. (op.evicted \ {op.key}) \cup E \in SUBSET Keys
        BY <4>3 DEF ControlTypeOK, Operation
      <4>5. op' \in Operation
        BY <4>1, <4>4, OperationFacts DEF ControlTypeOK
      <4> QED BY <4>1, <4>2, <4>3, <4>5, <2>4
    <3>2. CASE op.name # "put"
      BY <1>1, <3>2, <2>4 DEF AppendRecord, ControlTypeOK
    <3> QED BY <3>1, <3>2
  <2>6. RamTypeOK'
    BY <1>1, <2>5 DEF AppendRecord, RamTypeOK
  <2>7. ControlTypeOK' /\ OutsideTypeOK'
    BY <1>1, <2>3, <2>5 DEF AppendRecord, ControlTypeOK, OutsideTypeOK
  <2> QED BY <2>2, <2>6, <2>7
<1>2. CASE AppendRefused
  <2>1. op' \in Operation /\ pc' \in Labels
    BY <1>2, OperationFacts DEF AppendRefused, Refuse, Labels
  <2> QED BY <1>2, <2>1
      DEF AppendRefused, Refuse, DiskTypeOK, RamTypeOK, ControlTypeOK, OutsideTypeOK
<1>3. CASE PersistEntry
  <2>1. op.name \in {"put", "remove"} /\ op.key \in Keys /\ current_segment \in Segments
        /\ (op.name = "put" => op.data \in Payloads)
    BY <1>3 DEF PersistEntry, CallOK
  <2>2. index_dat' \in IndexLog \cup {NoFile}
    <3> DEFINE e == IF op.name = "put"
                    THEN EntryFor(current_segment, current_offset, op.data) ELSE None
    <3>1. e \in Entry \cup {None}
      BY <2>1, EntryType DEF RamTypeOK
    <3>2. index_dat' = IF index_file THEN Logged(index_dat, op.key, e) ELSE index_dat
      BY <1>3 DEF PersistEntry
    <3>3. index_file => index_dat \in IndexLog
      BY <1>3 DEF PersistEntry, FilesOK, Rewriting, Clearing, DiskTypeOK
    <3> HIDE DEF e
    <3> QED BY <2>1, <3>1, <3>2, <3>3, LoggedType DEF DiskTypeOK
  <2>3. DiskTypeOK' /\ RamTypeOK'
    BY <1>3, <2>2 DEF PersistEntry, DiskTypeOK, RamTypeOK
  <2>4. ControlTypeOK' /\ OutsideTypeOK'
    <3>1. CASE Return
      BY <3>1, ReturnType
    <3>2. CASE pc' = "journal_copying" /\ caller' = "threshold"
               /\ UNCHANGED <<op, cs, todo, outside>>
      <4>1. pc' \in Labels /\ caller' \in Callers
        BY <3>2 DEF Labels, Callers
      <4> QED BY <3>2, <4>1 DEF ControlTypeOK, OutsideTypeOK
    <3> QED BY <1>3, <3>1, <3>2 DEF PersistEntry
  <2> QED BY <2>3, <2>4
<1> QED BY <1>1, <1>2, <1>3

\* compact(), up to the journal entry that commits it.
LEMMA CompactType ==
    ASSUME TypeOK, FilesOK,
           \/ JournalCopying \/ OpenTmp \/ OpenTmpFails
           \/ CopyRecord \/ CopyFailsEarly \/ CopyFailsLate \/ ClearAborted
           \/ JournalSegment \/ DropSource \/ JournalCommit
    PROVE  TypeOK'
<1>1. CASE JournalCopying
  <2>1. journal' \in JournalEntry \cup {NoFile, Torn} /\ pc' \in Labels
    BY <1>1, JournalFacts, WriteJournalType DEF JournalCopying, DiskTypeOK, Labels
  <2> QED BY <1>1, <2>1
      DEF JournalCopying, DiskTypeOK, RamTypeOK, ControlTypeOK, OutsideTypeOK
<1>2. CASE OpenTmp
  <2>1. PICK E \in Victims(index) :
           /\ index' = Without(index, E)
           /\ dead_since_compact' = dead_since_compact + Cardinality(E)
           /\ op' = [op EXCEPT !.evicted = @ \cup E]
    BY <1>2 DEF OpenTmp
  <2>2. E \in SUBSET Keys /\ Cardinality(E) \in Nat
    BY VictimsType
  <2>3. RamTypeOK'
    <3>1. index' \in Index /\ dead_since_compact' \in Nat
      BY <2>1, <2>2, WithoutType DEF RamTypeOK
    <3> QED BY <1>2, <3>1 DEF OpenTmp, RamTypeOK
  <2>4. DiskTypeOK'
    BY <1>2, EmptyType DEF OpenTmp, DiskTypeOK
  <2>5. ControlTypeOK'
    <3>1. op.evicted \cup E \in SUBSET Keys
      BY <2>2 DEF ControlTypeOK, Operation
    <3>2. op' \in Operation
      BY <2>1, <3>1, OperationFacts DEF ControlTypeOK
    <3>3. todo' \in SUBSET Keys /\ pc' \in Labels
      BY <1>2 DEF OpenTmp, LiveIn, Labels
    <3> QED BY <1>2, <3>2, <3>3, SegmentFacts DEF OpenTmp, ControlTypeOK
  <2>6. OutsideTypeOK'
    BY <1>2 DEF OpenTmp, OutsideTypeOK
  <2> QED BY <2>3, <2>4, <2>5, <2>6
<1>3. CASE OpenTmpFails \/ ClearAborted
  <2>1. /\ GiveUp /\ journal' = NoFile
        /\ UNCHANGED <<compact_tmp, index_dat>>
        /\ UNCHANGED <<index, index_file, dead_since_compact>>
    BY <1>3 DEF OpenTmpFails, ClearAborted
  <2> QED BY <2>1, GiveUpType DEF DiskTypeOK
<1>4. CASE CopyRecord
  <2>1. PICK k \in Keys :
           /\ First(k)
           /\ compact_tmp' =
                IF Readable(segs[cs], index[k].off)
                THEN Append(compact_tmp, segs[cs][index[k].off + 1])
                ELSE compact_tmp
           /\ todo' = todo \ {k}
    BY <1>4 DEF CopyRecord
  <2>2. compact_tmp' \in File
    <3>1. compact_tmp \in File
      BY <1>4 DEF CopyRecord, FilesOK, DiskTypeOK
    <3>2. index[k] \in Entry
      BY <1>4, <2>1 DEF CopyRecord, First, FilesOK, RamTypeOK, Index
    <3>3. index[k].off \in Nat
      BY <3>2 DEF Entry
    <3>4. segs[cs] \in File \cup {NoFile}
      BY DEF DiskTypeOK, ControlTypeOK
    <3>5. Readable(segs[cs], index[k].off) => segs[cs][index[k].off + 1] \in Cell
      BY <3>3, <3>4, ReadType
    <3> QED BY <2>1, <3>1, <3>5, AppendType
  <2> QED BY <1>4, <2>1, <2>2
      DEF CopyRecord, DiskTypeOK, RamTypeOK, ControlTypeOK, OutsideTypeOK
<1>5. CASE CopyFailsEarly
  <2>1. pc' \in Labels
    BY <1>5 DEF CopyFailsEarly, Labels
  <2> QED BY <1>5, <2>1
      DEF CopyFailsEarly, DiskTypeOK, RamTypeOK, ControlTypeOK, OutsideTypeOK
<1>6. CASE CopyFailsLate
  <2>1. compact_tmp' \in File
    <3>1. compact_tmp \in File
      BY <1>6 DEF CopyFailsLate, FilesOK, DiskTypeOK
    <3> QED BY <1>6, <3>1, AppendType DEF CopyFailsLate
  <2>2. GiveUp /\ UNCHANGED <<journal, index_dat>>
        /\ UNCHANGED <<index, index_file, dead_since_compact>>
    BY <1>6 DEF CopyFailsLate
  <2> QED BY <2>1, <2>2, GiveUpType DEF DiskTypeOK
<1>7. CASE JournalSegment
  <2>1. journal' \in JournalEntry \cup {NoFile, Torn} /\ pc' \in Labels
    BY <1>7, JournalFacts, WriteJournalType DEF JournalSegment, DiskTypeOK, ControlTypeOK, Labels
  <2> QED BY <1>7, <2>1
      DEF JournalSegment, DiskTypeOK, RamTypeOK, ControlTypeOK, OutsideTypeOK
<1>8. CASE DropSource
  <2>1. /\ segs' \in [Segments -> File \cup {NoFile}]
        /\ active_file' \in Segments \cup {Closed, Unlinked}
    <3>1. {cs} \in SUBSET Segments /\ RemoveSegments({cs})
      BY <1>8 DEF DropSource, ControlTypeOK
    <3> QED BY <3>1, RemoveType DEF DiskTypeOK, RamTypeOK
  <2>2. ControlTypeOK'
    <3>1. cs' \in Segments
      BY <1>8, SegmentFacts DEF DropSource, ControlTypeOK, Segments
    <3>2. pc' \in Labels /\ todo' \in SUBSET Keys
      BY <1>8 DEF DropSource, ControlTypeOK, Labels, LiveIn
    <3> QED BY <1>8, <3>1, <3>2 DEF DropSource, ControlTypeOK
  <2> QED BY <1>8, <2>1, <2>2 DEF DropSource, DiskTypeOK, RamTypeOK, OutsideTypeOK
<1>9. CASE JournalCommit
  <2>1. journal' \in JournalEntry \cup {NoFile, Torn} /\ pc' \in Labels
    BY <1>9, JournalFacts, WriteJournalType DEF JournalCommit, DiskTypeOK, Labels
  <2> QED BY <1>9, <2>1
      DEF JournalCommit, DiskTypeOK, RamTypeOK, ControlTypeOK, OutsideTypeOK
<1> QED BY <1>1, <1>2, <1>3, <1>4, <1>5, <1>6, <1>7, <1>8, <1>9

\* finalize_compaction(), and the way back to the call that compacted.
LEMMA SwapType ==
    ASSUME TypeOK,
           RemoveAll \/ RenameTmp \/ RemoveIndex \/ WriteIndex \/ ClearJournal \/ Reopen
    PROVE  TypeOK'
<1>1. CASE RemoveAll
  <2>1. /\ segs' \in [Segments -> File \cup {NoFile}]
        /\ active_file' \in Segments \cup {Closed, Unlinked}
    BY <1>1, RemoveType DEF RemoveAll, DiskTypeOK, RamTypeOK
  <2>2. pc' \in Labels
    BY <1>1 DEF RemoveAll, Labels
  <2> QED BY <1>1, <2>1, <2>2
      DEF RemoveAll, DiskTypeOK, RamTypeOK, ControlTypeOK, OutsideTypeOK
<1>2. CASE RenameTmp
  <2>1. /\ segs' \in [Segments -> File \cup {NoFile}]
        /\ compact_tmp' \in File \cup {NoFile}
    BY <1>2, SegmentFacts DEF RenameTmp, DiskTypeOK
  <2>2. index' \in Index
    BY <1>2, Segment0Type DEF RenameTmp, DiskTypeOK, RamTypeOK
  <2>3. index_file' \in BOOLEAN
    BY <1>2 DEF RenameTmp, RamTypeOK
  <2>4. pc' \in Labels
    BY <1>2 DEF RenameTmp, Labels
  <2> QED BY <1>2, <2>1, <2>2, <2>3, <2>4
      DEF RenameTmp, DiskTypeOK, RamTypeOK, ControlTypeOK, OutsideTypeOK
<1>3. CASE RemoveIndex
  <2>1. pc' \in Labels
    BY <1>3 DEF RemoveIndex, Labels
  <2> QED BY <1>3, <2>1
      DEF RemoveIndex, DiskTypeOK, RamTypeOK, ControlTypeOK, OutsideTypeOK
<1>4. CASE WriteIndex
  <2>1. index_dat' \in IndexLog
    BY <1>4, IndexLogFacts DEF WriteIndex, RamTypeOK
  <2>2. index_file' \in BOOLEAN
    BY <1>4 DEF WriteIndex
  <2>3. pc' \in Labels
    BY <1>4 DEF WriteIndex, Labels
  <2> QED BY <1>4, <2>1, <2>2, <2>3, SegmentFacts
      DEF WriteIndex, DiskTypeOK, RamTypeOK, ControlTypeOK, OutsideTypeOK
<1>5. CASE ClearJournal
  <2>1. dead_since_compact' \in Nat
    BY <1>5 DEF ClearJournal, DeadAfterCompact, RamTypeOK
  <2>2. ControlTypeOK' /\ OutsideTypeOK'
    <3>1. CASE Return
      BY <3>1, ReturnType
    <3>2. CASE (Goto("load") \/ Goto("reopen")) /\ UNCHANGED outside
      <4>1. pc' \in Labels
        BY <3>2 DEF Labels
      <4> QED BY <3>2, <4>1 DEF ControlTypeOK, OutsideTypeOK
    <3> QED BY <1>5, <3>1, <3>2 DEF ClearJournal
  <2> QED BY <1>5, <2>1, <2>2 DEF ClearJournal, DiskTypeOK, RamTypeOK
<1>6. CASE Reopen
  <2>1. /\ segs' \in [Segments -> File \cup {NoFile}]
        /\ active_file' \in Segments /\ current_segment' \in 0..SegCount
        /\ current_offset' \in Nat
    BY <1>6, OpenType, SegmentFacts DEF Reopen, DiskTypeOK
  <2>2. compact_in_cooldown' \in BOOLEAN
    BY <1>6 DEF Reopen, RamTypeOK
  <2>3. ControlTypeOK' /\ OutsideTypeOK'
    <3>1. CASE Return
      BY <3>1, ReturnType
    <3>2. CASE /\ pc' = "append" /\ caller' = "none" /\ cs' = 0 /\ todo' = {}
               /\ UNCHANGED <<op, outside>>
      <4>1. pc' \in Labels /\ caller' \in Callers
        BY <3>2 DEF Labels, Callers
      <4> QED BY <3>2, <4>1, SegmentFacts DEF ControlTypeOK, OutsideTypeOK
    <3> QED BY <1>6, <3>1, <3>2 DEF Reopen
  <2> QED BY <1>6, <2>1, <2>2, <2>3 DEF Reopen, DiskTypeOK, RamTypeOK
<1> QED BY <1>1, <1>2, <1>3, <1>4, <1>5, <1>6

\* clear() after it has closed its files.
LEMMA ClearType ==
    ASSUME TypeOK, ClearSegment \/ ClearIndex \/ ClearReopen
    PROVE  TypeOK'
<1>1. CASE ClearSegment
  <2>1. cs' \in Segments
    BY <1>1, SegmentFacts DEF ClearSegment, ControlTypeOK, Segments
  <2>2. pc' \in Labels
    BY <1>1 DEF ClearSegment, Labels
  <2>3. segs' \in [Segments -> File \cup {NoFile}]
    BY <1>1 DEF ClearSegment, DiskTypeOK
  <2> QED BY <1>1, <2>1, <2>2, <2>3
      DEF ClearSegment, DiskTypeOK, RamTypeOK, ControlTypeOK, OutsideTypeOK
<1>2. CASE ClearIndex
  <2>1. pc' \in Labels
    BY <1>2 DEF ClearIndex, Labels
  <2>2. index' \in Index
    BY <1>2, IndexLogFacts DEF ClearIndex
  <2> QED BY <1>2, <2>1, <2>2, SegmentFacts
      DEF ClearIndex, DiskTypeOK, RamTypeOK, ControlTypeOK, OutsideTypeOK
<1>3. CASE ClearReopen
  <2>1. index_dat' \in IndexLog \cup {NoFile}
    BY <1>3, IndexLogFacts DEF ClearReopen, DiskTypeOK
  <2>2. /\ segs' \in [Segments -> File \cup {NoFile}]
        /\ active_file' \in Segments \cup {Closed, Unlinked}
        /\ current_segment' \in 0..SegCount /\ current_offset' \in Nat
    <3>1. CASE OpenSegment(0)
      BY <3>1, OpenType, SegmentFacts DEF DiskTypeOK
    <3>2. CASE UNCHANGED <<segs, active_file, current_segment, current_offset>>
      BY <3>2 DEF DiskTypeOK, RamTypeOK
    <3> QED BY <1>3, <3>1, <3>2 DEF ClearReopen
  <2>3. ControlTypeOK' /\ OutsideTypeOK'
    <3>1. CASE Return
      BY <3>1, ReturnType
    <3>2. CASE /\ pc' = "recover" /\ op' = NoOp /\ promised' = [k \in Keys |-> None]
               /\ UNCHANGED <<caller, cs, todo, now>>
      <4>1. pc' \in Labels
        BY <3>2 DEF Labels
      <4> QED BY <3>2, <4>1, OperationFacts DEF ControlTypeOK, OutsideTypeOK
    <3> QED BY <1>3, <3>1, <3>2 DEF ClearReopen
  <2> QED BY <1>3, <2>1, <2>2, <2>3 DEF ClearReopen, DiskTypeOK, RamTypeOK
<1> QED BY <1>1, <1>2, <1>3

\* init() ends with the last segment that exists open, or segment 0.
LEMMA OpenFilesSegment ==
    ASSUME DiskTypeOK, OpenFiles
    PROVE  \E id \in Segments :
              OpenSegment(id) /\ current_segment' \in Segments
<1> DEFINE found == {s \in Segments : segs[s] # NoFile}
           id == IF found = {} THEN 0 ELSE Max(found)
<1>1. id \in Segments
  <2>1. found \in SUBSET (0..SegCount - 1) /\ SegCount - 1 \in Nat
    BY Parameters DEF Segments
  <2>2. found # {} => Max(found) \in found
    <3> HIDE DEF found
    <3> QED BY <2>1, MaxInSet
  <2> QED BY <2>2, SegmentFacts
<1>2. OpenSegment(id)
  BY DEF OpenFiles
<1> HIDE DEF id
<1> QED BY <1>1, <1>2, OpenType DEF DiskTypeOK

\* init(): recovery, the index, and the files.
LEMMA BootType ==
    ASSUME TypeOK, FilesOK, Booting
    PROVE  TypeOK'
<1>1. CASE Boot
  <2>1. op' \in Operation
    BY <1>1, OperationFacts DEF Boot, ControlTypeOK, OpNames
  <2>2. pc' \in Labels /\ caller' \in Callers
    BY <1>1 DEF Boot, Labels, Callers
  <2> QED BY <1>1, <2>1, <2>2
      DEF Boot, DiskTypeOK, RamTypeOK, ControlTypeOK, OutsideTypeOK
<1>2. CASE RecoverNothing \/ RecoverCommitted
  <2>1. pc' \in Labels
    BY <1>2 DEF RecoverNothing, RecoverCommitted, Labels
  <2> QED BY <1>2, <2>1 DEF RecoverNothing, RecoverCommitted,
                            DiskTypeOK, RamTypeOK, ControlTypeOK, OutsideTypeOK
<1>3. CASE RecoverBack
  <2>1. pc' \in Labels
    BY <1>3 DEF RecoverBack, Labels
  <2> QED BY <1>3, <2>1
      DEF RecoverBack, DiskTypeOK, RamTypeOK, ControlTypeOK, OutsideTypeOK
<1>4. CASE RecoverPartial
  <2>1. pc' \in Labels
    BY <1>4 DEF RecoverPartial, Labels
  <2>2. /\ segs' \in [Segments -> File \cup {NoFile}]
        /\ compact_tmp' \in File \cup {NoFile}
    BY <1>4, SegmentFacts DEF RecoverPartial, DiskTypeOK
  <2> QED BY <1>4, <2>1, <2>2
      DEF RecoverPartial, DiskTypeOK, RamTypeOK, ControlTypeOK, OutsideTypeOK
<1>5. CASE LoadIndex
  <2>1. pc' \in Labels
    BY <1>5 DEF LoadIndex, Labels
  <2>2. index' \in Index
    BY <1>5 DEF LoadIndex, DiskTypeOK, IndexLog
  <2> QED BY <1>5, <2>1, <2>2
      DEF LoadIndex, DiskTypeOK, RamTypeOK, ControlTypeOK, OutsideTypeOK
<1>6. CASE RebuildIndex
  <2>1. pc' \in Labels
    BY <1>6 DEF RebuildIndex, Labels
  <2>2. index' \in Index
    BY <1>6, RebuiltType DEF RebuildIndex, DiskTypeOK
  <2>3. index_file' \in BOOLEAN
    BY <1>6 DEF RebuildIndex
  <2> QED BY <1>6, <2>1, <2>2, <2>3
      DEF RebuildIndex, DiskTypeOK, RamTypeOK, ControlTypeOK, OutsideTypeOK
<1>7. CASE WriteBootIndex
  <2>1. pc' \in Labels
    BY <1>7 DEF WriteBootIndex, Labels
  <2>2. index_dat' \in IndexLog
    BY <1>7, IndexLogFacts DEF WriteBootIndex, RamTypeOK
  <2> QED BY <1>7, <2>1, <2>2
      DEF WriteBootIndex, DiskTypeOK, RamTypeOK, ControlTypeOK, OutsideTypeOK
<1>8. CASE PruneAtBoot
  <2>1. PICK E \in Victims(index) :
           /\ index' = Without(index, E)
           /\ dead_since_compact' = dead_since_compact + Cardinality(E)
           /\ op' = [op EXCEPT !.evicted = E]
           /\ index_dat' = IF E = {} THEN index_dat ELSE NoFile
           /\ pc' = IF E = {} THEN "open" ELSE "write_pruned"
    BY <1>8 DEF PruneAtBoot
  <2>2. E \in SUBSET Keys /\ Cardinality(E) \in Nat
    BY VictimsType
  <2>3. index' \in Index /\ dead_since_compact' \in Nat
    BY <2>1, <2>2, WithoutType DEF RamTypeOK
  <2>4. op' \in Operation
    BY <2>1, <2>2, OperationFacts DEF ControlTypeOK
  <2>5. pc' \in Labels
    BY <2>1 DEF Labels
  <2>6. index_dat' \in IndexLog \cup {NoFile}
    BY <2>1 DEF DiskTypeOK
  <2> QED BY <1>8, <2>3, <2>4, <2>5, <2>6
      DEF PruneAtBoot, DiskTypeOK, RamTypeOK, ControlTypeOK, OutsideTypeOK
<1>9. CASE OpenFiles
  <2>1. PICK id \in Segments : OpenSegment(id)
    BY <1>9, OpenFilesSegment
  <2>3. /\ segs' \in [Segments -> File \cup {NoFile}]
        /\ active_file' \in Segments /\ current_segment' \in 0..SegCount
        /\ current_offset' \in Nat
    BY <2>1, OpenType, SegmentFacts DEF DiskTypeOK
  <2>4. index_file' \in BOOLEAN
    BY <1>9 DEF OpenFiles
  <2>5. pc' \in Labels /\ caller' \in Callers
    BY <1>9 DEF OpenFiles, Labels, Callers
  <2>6. OutsideTypeOK'
    <3>1. \A k \in Keys : Resolved(k) \in Payloads \cup {None}
      <4> SUFFICES ASSUME NEW k \in Keys
                   PROVE  Resolved(k) \in Payloads \cup {None}
        OBVIOUS
      <4> DEFINE may == {promised[k], After(k)} \cup (IF k = op.key THEN {op.data} ELSE {})
                 fits == {d \in may : Seen(d) = View(k)}
      <4>1. op.data \in Payloads \cup {None}
        BY DEF ControlTypeOK, Operation
      <4>2. promised[k] \in Payloads \cup {None} /\ After(k) \in Payloads \cup {None}
        BY <4>1 DEF OutsideTypeOK, After
      <4>3. fits # {} => (CHOOSE d \in fits : TRUE) \in fits
        BY Zenon
      <4>4. \A d \in fits : d \in Payloads \cup {None}
        BY <4>1, <4>2
      <4>5. Resolved(k) = IF fits = {} THEN After(k) ELSE CHOOSE d \in fits : TRUE
        BY DEF Resolved
      <4> HIDE DEF fits
      <4> QED BY <4>2, <4>3, <4>4, <4>5
    <3> QED BY <1>9, <3>1 DEF OpenFiles, OutsideTypeOK
  <2> QED BY <1>9, <2>3, <2>4, <2>5, <2>6, OperationFacts, SegmentFacts
      DEF OpenFiles, DiskTypeOK, RamTypeOK, ControlTypeOK
<1> QED BY <1>1, <1>2, <1>3, <1>4, <1>5, <1>6, <1>7, <1>8, <1>9 DEF Booting

\* Power cuts leave files and fragments of files, reboots leave the disk.
LEMMA OutageType ==
    ASSUME TypeOK, FilesOK, Outage
    PROVE  TypeOK'
<1>1. ASSUME PowerOff PROVE RamTypeOK' /\ ControlTypeOK' /\ OutsideTypeOK'
  <2>1. pc' \in Labels /\ caller' \in Callers
    BY <1>1 DEF PowerOff, Labels, Callers
  <2>2. op' \in Operation
    BY <1>1, OperationFacts DEF PowerOff, ControlTypeOK
  <2>3. index_file' \in BOOLEAN /\ compact_in_cooldown' \in BOOLEAN
    BY <1>1, Zenon DEF PowerOff
  <2>4. RamTypeOK'
    BY <1>1, <2>3, IndexLogFacts, SegmentFacts DEF PowerOff, RamTypeOK
  <2>5. ControlTypeOK'
    BY <1>1, <2>1, <2>2, SegmentFacts DEF PowerOff, ControlTypeOK
  <2>6. OutsideTypeOK'
    BY <1>1 DEF PowerOff, OutsideTypeOK
  <2> QED BY <2>4, <2>5, <2>6
<1>2. ASSUME TornWrite PROVE DiskTypeOK'
  <2>1. CASE /\ pc = "append" /\ active_file \in Segments
             /\ segs' = [segs EXCEPT ![active_file] = Append(@, Torn)]
             /\ UNCHANGED <<compact_tmp, journal, index_dat>>
    <3>1. segs[active_file] \in File
      BY <2>1 DEF FilesOK, Clearing, Rewriting, DiskTypeOK
    <3>2. Append(segs[active_file], Torn) \in File
      BY <3>1, AppendType
    <3> QED BY <2>1, <3>2 DEF DiskTypeOK
  <2>2. CASE /\ pc = "persist" /\ index_file
             /\ index_dat' = [index_dat EXCEPT !.torn = TRUE]
             /\ UNCHANGED <<segs, compact_tmp, journal>>
    <3>1. index_dat \in IndexLog
      BY <2>2 DEF FilesOK, Clearing, Rewriting, DiskTypeOK
    <3>2. index_dat' \in IndexLog
      BY <2>2, <3>1, Zenon DEF IndexLog
    <3> QED BY <2>2, <3>2 DEF DiskTypeOK
  <2>3. CASE journal' = Torn /\ UNCHANGED <<segs, compact_tmp, index_dat>>
    BY <2>3 DEF DiskTypeOK
  <2>4. CASE /\ pc = "copy" /\ compact_tmp' = Append(compact_tmp, Torn)
             /\ UNCHANGED <<segs, journal, index_dat>>
    <3>1. compact_tmp \in File
      BY <2>4 DEF FilesOK, DiskTypeOK
    <3> QED BY <2>4, <3>1, AppendType DEF DiskTypeOK
  <2>5. CASE /\ \E S \in SUBSET Indexed(index) :
                   index_dat' = [map |-> Without(index, S), torn |-> TRUE]
             /\ UNCHANGED <<segs, compact_tmp, journal>>
    <3>1. index_dat' \in IndexLog
      BY <2>5, WithoutType, IndexLogFacts DEF RamTypeOK
    <3> QED BY <2>5, <3>1 DEF DiskTypeOK
  <2> QED BY <1>2, <2>1, <2>2, <2>3, <2>4, <2>5 DEF TornWrite
<1>3. CASE Crash
  <2>1. DiskTypeOK'
    BY <1>2, <1>3 DEF Crash, DiskTypeOK
  <2> QED BY <1>1, <1>3, <2>1 DEF Crash
<1>4. CASE Shutdown
  <2>1. DiskTypeOK'
    BY <1>4 DEF Shutdown, DiskTypeOK
  <2> QED BY <1>1, <1>4, <2>1 DEF Shutdown
<1>5. CASE LoseIndex
  BY <1>5 DEF LoseIndex, control, DiskTypeOK, RamTypeOK, ControlTypeOK, OutsideTypeOK
<1>6. CASE CooldownEnds
  <2>1. compact_in_cooldown' \in BOOLEAN
    BY <1>6 DEF CooldownEnds
  <2> QED BY <1>6, <2>1
      DEF CooldownEnds, DiskTypeOK, RamTypeOK, ControlTypeOK, OutsideTypeOK
<1>7. CASE Tick
  BY <1>7 DEF Tick, DiskTypeOK, RamTypeOK, ControlTypeOK, OutsideTypeOK
<1> QED BY <1>3, <1>4, <1>5, <1>6, <1>7 DEF Outage

---------------------------------------------------------------------------
(* The control state: where each call may be                               *)

\* Once a call has returned nothing of it is left.
LEMMA ReturnCall ==
    ASSUME Return \/ Refuse, caller = "none" \/ Return, current_segment' \in Segments
    PROVE  CallOK'
<1>1. op'.name = "none" /\ pc' = "idle" /\ caller' = "none"
  BY DEF Return, Refuse, NoOp
<1> QED BY <1>1 DEF CallOK

\* The compaction that a rotation starts returns to the put that rotated.
LEMMA BackToPut ==
    ASSUME CallOK, caller = "rotate", pc' = "append" /\ caller' = "none",
           UNCHANGED op, current_segment' \in Segments
    PROVE  CallOK'
BY DEF CallOK

\* A compaction that fails hands back to its caller in a state CallOK allows.
LEMMA GiveUpCall ==
    ASSUME TypeOK, CallOK, GiveUp
    PROVE  CallOK'
<1>1. CASE caller = "rotate"
  BY <1>1, BackToPut, OpenType, SegmentFacts DEF GiveUp, DiskTypeOK
<1>2. CASE caller \in {"threshold", "call"}
  <2>1. current_segment' \in Segments
    BY <1>2 DEF GiveUp, CallOK
  <2> QED BY <1>2, <2>1, ReturnCall DEF GiveUp
<1> QED BY <1>1, <1>2 DEF GiveUp

\* Counting more keys as evicted does not change what the call is.
LEMMA EvictedOnly ==
    ASSUME ControlTypeOK, NEW E, op' = [op EXCEPT !.evicted = E]
    PROVE  op'.name = op.name /\ op'.key = op.key /\ op'.data = op.data
BY DEF ControlTypeOK, Operation

\* The steps that stay inside the call, its caller and its segment.
LEMMA SameCall ==
    ASSUME CallOK, UNCHANGED <<caller, op, current_segment>>,
           pc' \notin {"idle", "append", "persist", "down"}
    PROVE  CallOK'
BY DEF CallOK

\* Every step keeps the control state and the call in progress consistent.
LEMMA CallPreserved ==
    ASSUME TypeOK, CallOK, JournalOK, Next
    PROVE  CallOK'
<1>1. ASSUME NEW k \in Keys, NEW d \in Payloads, StartPut(k, d)
      PROVE  CallOK'
  <2>1. /\ op'.name = "put" /\ op'.key = k /\ op'.data = d
        /\ caller = "none" /\ current_segment \in Segments
    BY <1>1 DEF StartPut, CallOK
  <2>2. CASE UNCHANGED <<ram, caller>> /\ pc' = "append"
    BY <2>1, <2>2 DEF CallOK
  <2>3. ASSUME NEW id \in Segments, OpenSegment(id), UNCHANGED caller, pc' = "append"
        PROVE  CallOK'
    <3>1. current_segment' \in Segments
      BY <2>3, OpenType DEF DiskTypeOK
    <3> QED BY <2>1, <2>3, <3>1 DEF CallOK
  <2>4. CASE caller' = "rotate" /\ pc' = "journal_copying"
    BY <2>1, <2>4 DEF CallOK
  <2>5. SegCount - 1 \in Segments
        /\ (current_segment + 1 < SegCount => current_segment + 1 \in Segments)
    BY <2>1, SegmentFacts DEF Segments
  <2> QED BY <1>1, <2>2, <2>3, <2>4, <2>5 DEF StartPut
<1>2. CASE \E k \in Keys : StartRemove(k)
  BY <1>2 DEF StartRemove, CallOK
<1>3. CASE \E k \in Keys : Get(k)
  BY <1>3 DEF Get, CallOK
<1>4. CASE StartCompact \/ StartClear
  <2>1. op'.name \in {"compact", "clear"} /\ pc' \in {"journal_copying", "clear_segment"}
        /\ caller' # "rotate" /\ caller # "rotate"
    BY <1>4 DEF StartCompact, StartClear, NoOp, CallOK
  <2> QED BY <1>4, <2>1 DEF StartCompact, StartClear, CallOK
<1>5. CASE Close
  BY <1>5 DEF Close, CallOK
<1>6. CASE AppendRecord
  <2>1. op'.name = op.name /\ op'.key = op.key /\ op'.data = op.data
    <3>1. op' = op \/ \E E : op' = [op EXCEPT !.evicted = E]
      BY <1>6 DEF AppendRecord
    <3> QED BY <3>1, EvictedOnly
  <2> QED BY <1>6, <2>1 DEF AppendRecord, CallOK
<1>7. CASE AppendRefused
  <2>1. caller = "none" /\ current_segment' \in Segments
    BY <1>7 DEF AppendRefused, CallOK
  <2> QED BY <1>7, <2>1, ReturnCall DEF AppendRefused
<1>8. CASE PersistEntry
  <2>1. current_segment \in Segments /\ UNCHANGED current_segment
    BY <1>8 DEF PersistEntry, CallOK
  <2>2. CASE Return
    BY <2>1, <2>2, ReturnCall
  <2>3. CASE pc' = "journal_copying" /\ caller' = "threshold" /\ UNCHANGED op
    BY <2>1, <2>3 DEF CallOK
  <2> QED BY <1>8, <2>2, <2>3 DEF PersistEntry
<1>9. CASE \/ JournalCopying \/ CopyRecord \/ CopyFailsEarly \/ JournalSegment
           \/ DropSource \/ JournalCommit \/ RemoveAll \/ RenameTmp \/ RemoveIndex
  <2>1. /\ UNCHANGED <<caller, op, current_segment>>
        /\ pc' \notin {"idle", "append", "persist", "down"}
    BY <1>9 DEF JournalCopying, CopyRecord, CopyFailsEarly, JournalSegment,
                DropSource, JournalCommit, RemoveAll, RenameTmp, RemoveIndex
  <2> QED BY <2>1, SameCall
<1>10. CASE OpenTmp
  <2>1. op'.name = op.name /\ op'.key = op.key /\ op'.data = op.data
    BY <1>10, EvictedOnly DEF OpenTmp
  <2> QED BY <1>10, <2>1 DEF OpenTmp, CallOK
<1>11. CASE OpenTmpFails \/ ClearAborted \/ CopyFailsLate
  BY <1>11, GiveUpCall DEF OpenTmpFails, ClearAborted, CopyFailsLate
<1>12. CASE WriteIndex
  BY <1>12, SegmentFacts DEF WriteIndex, CallOK
<1>13. CASE ClearJournal
  <2>1. CASE Goto("load") \/ Goto("reopen")
    <3>1. UNCHANGED <<caller, op, current_segment>>
          /\ pc' \notin {"idle", "append", "persist", "down"}
      BY <1>13, <2>1 DEF ClearJournal
    <3> QED BY <3>1, SameCall
  <2>2. CASE caller = "call" /\ Return
    <3>1. current_segment' \in Segments
      BY <1>13, <2>2 DEF ClearJournal, CallOK
    <3> QED BY <2>2, <3>1, ReturnCall
  <2> QED BY <1>13, <2>1, <2>2 DEF ClearJournal
<1>14. CASE Reopen
  <2>1. current_segment' \in Segments
    BY <1>14, OpenType, SegmentFacts DEF Reopen, DiskTypeOK
  <2>2. CASE caller = "rotate"
    BY <1>14, <2>1, <2>2, BackToPut DEF Reopen
  <2>3. CASE Return
    BY <2>1, <2>3, ReturnCall
  <2> QED BY <1>14, <2>2, <2>3 DEF Reopen
<1>15. CASE ClearSegment
  <2>1. /\ UNCHANGED <<caller, op, current_segment>>
        /\ pc' \notin {"idle", "append", "persist", "down"}
    BY <1>15 DEF ClearSegment
  <2> QED BY <2>1, SameCall
<1>16. CASE ClearIndex
  BY <1>16, SegmentFacts DEF ClearIndex, CallOK
<1>17. CASE ClearReopen
  <2>1. CASE caller = "boot"
    <3>1. op'.name = "none" /\ pc' = "recover" /\ caller' = "boot"
      BY <1>17, <2>1 DEF ClearReopen, NoOp
    <3>2. current_segment' \in Segments
      BY <1>17, <2>1, OpenType, SegmentFacts DEF ClearReopen, CallOK, DiskTypeOK
    <3> QED BY <3>1, <3>2 DEF CallOK
  <2>2. CASE caller # "boot"
    <3>1. Return
      BY <1>17, <2>2 DEF ClearReopen
    <3>2. current_segment' \in Segments
      <4>1. caller # "rotate"
        BY <1>17 DEF ClearReopen, CallOK, JournalOK
      <4> QED BY <1>17, <4>1, OpenType, SegmentFacts DEF ClearReopen, CallOK, DiskTypeOK
    <3> QED BY <3>1, <3>2, ReturnCall
  <2> QED BY <2>1, <2>2
<1>18. CASE Boot
  <2>1. op'.key = op.key /\ op'.data = op.data /\ op'.name \in {op.name, "clear"}
    <3>1. op' = op \/ op' = [op EXCEPT !.name = "clear"]
      BY <1>18 DEF Boot
    <3> QED BY <3>1 DEF ControlTypeOK, Operation
  <2>2. current_segment' \in Segments
    BY <1>18 DEF Boot, CallOK
  <2>3. caller' = "boot" /\ pc' \in {"recover", "clear_segment"}
    BY <1>18 DEF Boot
  <2> QED BY <2>1, <2>2, <2>3 DEF CallOK
<1>19. CASE \/ RecoverNothing \/ RecoverCommitted \/ RecoverBack \/ RecoverPartial
            \/ LoadIndex \/ RebuildIndex \/ WriteBootIndex
  <2>1. /\ UNCHANGED <<caller, op, current_segment>>
        /\ pc' \notin {"idle", "append", "persist", "down"}
    BY <1>19 DEF RecoverNothing, RecoverCommitted, RecoverBack, RecoverPartial,
                 LoadIndex, RebuildIndex, WriteBootIndex
  <2> QED BY <2>1, SameCall
<1>20. CASE PruneAtBoot
  <2>1. op'.name = op.name /\ op'.key = op.key /\ op'.data = op.data
    BY <1>20, EvictedOnly DEF PruneAtBoot
  <2>2. UNCHANGED <<caller, current_segment>> /\ pc' \in {"open", "write_pruned"}
    BY <1>20 DEF PruneAtBoot
  <2> QED BY <2>1, <2>2 DEF CallOK
<1>21. CASE OpenFiles
  <2>1. op'.name = "none" /\ pc' = "idle" /\ caller' = "none"
    BY <1>21 DEF OpenFiles, NoOp
  <2>2. current_segment' \in Segments
    BY <1>21, OpenFilesSegment DEF DiskTypeOK
  <2> QED BY <2>1, <2>2 DEF CallOK
<1>22. CASE Crash \/ Shutdown
  <2>1. PowerOff
    BY <1>22 DEF Crash, Shutdown
  <2>2. op'.name = op.name /\ op'.key = op.key /\ op'.data = op.data
    BY <2>1, EvictedOnly DEF PowerOff
  <2> QED BY <2>1, <2>2, SegmentFacts DEF PowerOff, CallOK
<1>23. CASE LoseIndex \/ CooldownEnds \/ Tick
  BY <1>23 DEF LoseIndex, CooldownEnds, Tick, control, CallOK
<1> QED BY <1>1, <1>2, <1>3, <1>4, <1>5, <1>6, <1>7, <1>8, <1>9, <1>10, <1>11,
           <1>12, <1>13, <1>14, <1>15, <1>16, <1>17, <1>18, <1>19, <1>20, <1>21,
           <1>22, <1>23 DEF Next, Call, Proceed, Compacting, Booting, Outage

---------------------------------------------------------------------------
(* The files: what is written to exists                                    *)

\* A file that a handle is open on stays where it is: no step between two
\* labels outside clear() takes the active segment or index.dat away.
LEMMA FilesKept ==
    ASSUME FilesOK, pc \notin Clearing,
           pc' \notin {"copy", "drop_source", "down", "remove_index", "prune", "open"},
           UNCHANGED <<index_dat, index_file>>,
           pc' \in Rewriting \/ pc \notin Rewriting,
           active_file' \in Segments => segs'[active_file'] # NoFile
    PROVE  FilesOK'
BY DEF FilesOK, Clearing, Rewriting

\* open_segment() deletes no segment.
LEMMA OpenKeeps ==
    ASSUME DiskTypeOK, NEW id \in Segments, OpenSegment(id)
    PROVE  active_file' \in Segments /\ segs'[active_file'] # NoFile
BY OpenType DEF DiskTypeOK

\* The file in hand survives every step that leaves the segments alone.
LEMMA SameFiles ==
    ASSUME FilesOK, pc \notin Clearing,
           \/ UNCHANGED <<segs, active_file>>
           \/ active_file' = Closed
    PROVE  active_file' \in Segments => segs'[active_file'] # NoFile
BY SegmentFacts DEF FilesOK, Clearing

\* A compaction that fails leaves the files as FilesOK wants them.
LEMMA GiveUpFiles ==
    ASSUME TypeOK, FilesOK, GiveUp, UNCHANGED <<index_dat, index_file>>,
           pc \in {"open_tmp", "copy", "clear_aborted"}
    PROVE  FilesOK'
<1>1. pc' \in {"idle", "append"}
  BY DEF GiveUp, Return
<1>2. active_file' \in Segments => segs'[active_file'] # NoFile
  BY SameFiles, OpenKeeps, SegmentFacts DEF GiveUp, Clearing
<1> QED BY <1>1, <1>2, FilesKept DEF Clearing, Rewriting

\* So does every step that starts a call ...
LEMMA CallFiles ==
    ASSUME TypeOK, FilesOK, Call
    PROVE  FilesOK'
<1>1. ASSUME NEW k \in Keys, NEW d \in Payloads, StartPut(k, d)
      PROVE  FilesOK'
  <2>1. pc = "idle" /\ pc' \in {"append", "journal_copying"}
        /\ UNCHANGED <<index_dat, index_file>>
    BY <1>1 DEF StartPut
  <2>2. active_file' \in Segments => segs'[active_file'] # NoFile
    <3>1. ASSUME NEW id \in Segments, OpenSegment(id)
          PROVE  segs'[active_file'] # NoFile
      BY <3>1, OpenKeeps
    <3>2. current_segment + 1 < SegCount => current_segment + 1 \in Segments
      BY SegmentFacts DEF RamTypeOK, Segments
    <3>3. CASE UNCHANGED <<segs, active_file>> \/ active_file' = Closed
      BY <2>1, <3>3, SameFiles DEF Clearing
    <3> QED BY <1>1, <3>1, <3>2, <3>3, SegmentFacts DEF StartPut
  <2> QED BY <2>1, <2>2, FilesKept DEF Clearing, Rewriting
<1>2. ASSUME \/ \E k \in Keys : StartRemove(k) \/ Get(k)
             \/ StartCompact \/ StartClear
      PROVE  FilesOK'
  <2>1. /\ pc = "idle" /\ pc' \in {"idle", "append", "journal_copying", "clear_segment"}
        /\ UNCHANGED <<index_dat, index_file, segs, active_file>>
    BY <1>2 DEF StartRemove, Get, StartCompact, StartClear
  <2> QED BY <2>1, SameFiles, FilesKept DEF Clearing, Rewriting
<1>3. CASE Close
  <2>1. pc' = "idle" /\ ~index_file' /\ active_file' = Closed
    BY <1>3 DEF Close
  <2> QED BY <2>1, SegmentFacts DEF FilesOK
<1> QED BY <1>1, <1>2, <1>3 DEF Call

\* ... every step of put() and remove() ...
LEMMA WriteFiles ==
    ASSUME TypeOK, CallOK, FilesOK, AppendRecord \/ AppendRefused \/ PersistEntry
    PROVE  FilesOK'
<1>1. CASE AppendRecord
  <2>1. active_file' \in Segments => segs'[active_file'] # NoFile
    <3>1. CASE UNCHANGED segs
      BY <1>1, <3>1, SameFiles DEF AppendRecord, Clearing
    <3>2. ASSUME NEW c \in Cell, active_file \in Segments,
                 segs' = [segs EXCEPT ![active_file] = Append(@, c)]
          PROVE  segs'[active_file] # NoFile
      <4>1. segs[active_file] \in File
        BY <1>1, <3>2 DEF AppendRecord, FilesOK, Clearing, DiskTypeOK
      <4> QED BY <3>2, <4>1, AppendType DEF DiskTypeOK
    <3>3. [key |-> op.key, data |-> IF op.name = "put" THEN op.data ELSE Tombstone]
             \in Cell
      BY <1>1 DEF AppendRecord, CallOK, Cell
    <3> QED BY <1>1, <3>1, <3>2, <3>3 DEF AppendRecord, WriteRecord
  <2> QED BY <1>1, <2>1, FilesKept DEF AppendRecord, Clearing, Rewriting
<1>2. CASE AppendRefused
  <2>1. /\ pc = "append" /\ pc' = "idle"
        /\ UNCHANGED <<segs, active_file, index_dat, index_file>>
    BY <1>2 DEF AppendRefused, Refuse
  <2> QED BY <2>1, SameFiles, FilesKept DEF Clearing, Rewriting
<1>3. CASE PersistEntry
  <2>1. pc = "persist" /\ pc' \in {"journal_copying", "idle"}
        /\ UNCHANGED <<segs, active_file, index_file>>
    BY <1>3 DEF PersistEntry, Return
  <2>2. index_file' => index_dat' # NoFile
    <3> DEFINE e == IF op.name = "put"
                    THEN EntryFor(current_segment, current_offset, op.data) ELSE None
    <3>1. op.key \in Keys /\ e \in Entry \cup {None}
      BY <1>3, EntryType DEF PersistEntry, CallOK, RamTypeOK
    <3>2. index_dat' = IF index_file THEN Logged(index_dat, op.key, e) ELSE index_dat
      BY <1>3 DEF PersistEntry
    <3>3. index_file => index_dat \in IndexLog
      BY <2>1 DEF FilesOK, Rewriting, Clearing, DiskTypeOK
    <3> HIDE DEF e
    <3> QED BY <2>1, <3>1, <3>2, <3>3, LoggedType, ModelValues
  <2>3. active_file' \in Segments => segs'[active_file'] # NoFile
    BY <2>1, SameFiles DEF Clearing
  <2> QED BY <2>1, <2>2, <2>3 DEF FilesOK
<1> QED BY <1>1, <1>2, <1>3

\* ... every step of compact() and finalize_compaction() ...
LEMMA CompactFiles ==
    ASSUME TypeOK, FilesOK, Compacting
    PROVE  FilesOK'
<1>1. CASE JournalCopying \/ CopyFailsEarly \/ JournalCommit \/ ClearJournal
  <2>1. /\ pc \notin Rewriting
        /\ pc' \in {"open_tmp", "clear_aborted", "remove_all", "load", "reopen", "idle"}
        /\ UNCHANGED <<segs, active_file, index_dat, index_file>>
    BY <1>1 DEF JournalCopying, CopyFailsEarly, JournalCommit, ClearJournal, Return,
                Rewriting, Clearing
  <2> QED BY <2>1, SameFiles, FilesKept DEF Rewriting
<1>2. CASE OpenTmp
  <2>1. pc = "open_tmp" /\ pc' = "copy"
        /\ UNCHANGED <<segs, active_file, index_dat, index_file>>
    BY <1>2 DEF OpenTmp
  <2>2. compact_tmp' # NoFile /\ \A k \in todo' : index'[k] # None
    BY <1>2, EmptyType DEF OpenTmp, LiveIn
  <2> QED BY <2>1, <2>2 DEF FilesOK, Rewriting, Clearing
<1>3. CASE OpenTmpFails \/ ClearAborted \/ CopyFailsLate
  BY <1>3, GiveUpFiles DEF OpenTmpFails, ClearAborted, CopyFailsLate
<1>4. CASE CopyRecord
  <2>1. /\ pc = "copy" /\ UNCHANGED <<pc, segs, active_file, index, index_dat, index_file>>
        /\ todo' \in SUBSET todo
    BY <1>4 DEF CopyRecord
  <2>2. compact_tmp' # NoFile
    <3>1. PICK k \in Keys :
             /\ First(k)
             /\ compact_tmp' =
                  IF Readable(segs[cs], index[k].off)
                  THEN Append(compact_tmp, segs[cs][index[k].off + 1])
                  ELSE compact_tmp
      BY <1>4 DEF CopyRecord
    <3>2. compact_tmp \in File /\ compact_tmp # NoFile
      BY <2>1 DEF FilesOK, DiskTypeOK
    <3>3. index[k].off \in Nat
      BY <2>1, <3>1 DEF First, FilesOK, RamTypeOK, Index, Entry
    <3>4. segs[cs] \in File \cup {NoFile}
      BY DEF DiskTypeOK, ControlTypeOK
    <3> QED BY <3>1, <3>2, <3>3, <3>4, ReadType, AppendType
  <2> QED BY <2>1, <2>2 DEF FilesOK
<1>5. CASE JournalSegment
  BY <1>5 DEF JournalSegment, FilesOK, Rewriting, Clearing
<1>6. CASE DropSource
  <2>1. active_file' \in Segments => segs'[active_file'] # NoFile
    <3>1. {cs} \in SUBSET Segments /\ RemoveSegments({cs}) /\ pc = "drop_source"
      BY <1>6 DEF DropSource, ControlTypeOK
    <3>2. active_file' \in Segments =>
             active_file' = active_file /\ active_file \notin {cs}
             /\ segs'[active_file] = segs[active_file]
      BY <3>1, RemoveType DEF DiskTypeOK, RamTypeOK
    <3> QED BY <3>1, <3>2 DEF FilesOK, Clearing
  <2>2. compact_tmp' # NoFile /\ index_dat' = index_dat /\ index_file' = index_file
        /\ pc = "drop_source"
    BY <1>6 DEF DropSource, FilesOK
  <2>3. \/ pc' = "copy" /\ \A k \in todo' : index'[k] # None
        \/ pc' = "journal_commit"
    BY <1>6 DEF DropSource, LiveIn
  <2> QED BY <2>1, <2>2, <2>3 DEF FilesOK, Rewriting, Clearing
<1>7. CASE RemoveAll
  <2>1. active_file' \in Segments => segs'[active_file'] # NoFile
    BY <1>7, RemoveType DEF RemoveAll, DiskTypeOK, RamTypeOK
  <2> QED BY <1>7, <2>1, FilesKept DEF RemoveAll, Rewriting, Clearing
<1>8. CASE RenameTmp
  <2>1. pc = "rename_tmp" /\ UNCHANGED <<active_file, index_dat>>
    BY <1>8 DEF RenameTmp
  <2>2. active_file' \in Segments => segs'[active_file'] # NoFile
    BY <1>8, <2>1 DEF RenameTmp, FilesOK, Clearing, DiskTypeOK
  <2>3. \/ pc' = "remove_index" /\ ~index_file'
        \/ pc' = "clear_journal" /\ UNCHANGED index_file
    BY <1>8 DEF RenameTmp
  <2> QED BY <2>1, <2>2, <2>3 DEF FilesOK, Rewriting, Clearing
<1>9. CASE RemoveIndex
  BY <1>9 DEF RemoveIndex, FilesOK, Rewriting, Clearing
<1>10. CASE WriteIndex
  <2>1. index_dat' # NoFile
    BY <1>10, IndexLogFacts DEF WriteIndex, RamTypeOK
  <2>2. active_file' \in Segments => segs'[active_file'] # NoFile
    BY <1>10, SameFiles DEF WriteIndex, Clearing
  <2>3. pc' = "clear_journal"
    BY <1>10 DEF WriteIndex
  <2> QED BY <2>1, <2>2, <2>3 DEF FilesOK
<1>11. CASE Reopen
  <2>1. active_file' \in Segments => segs'[active_file'] # NoFile
    BY <1>11, OpenKeeps, SegmentFacts DEF Reopen
  <2>2. /\ pc = "reopen" /\ pc' \in {"append", "idle"}
        /\ UNCHANGED <<index_dat, index_file>>
    BY <1>11 DEF Reopen, Return
  <2> QED BY <2>1, <2>2, FilesKept DEF Rewriting, Clearing
<1> QED BY <1>1, <1>2, <1>3, <1>4, <1>5, <1>6, <1>7, <1>8, <1>9, <1>10, <1>11
        DEF Compacting

\* ... every step of clear() ...
LEMMA ClearFiles ==
    ASSUME TypeOK, FilesOK, ClearSegment \/ ClearIndex \/ ClearReopen
    PROVE  FilesOK'
<1>1. CASE ClearSegment \/ ClearIndex
  <2>1. pc' \in Clearing
    BY <1>1 DEF ClearSegment, ClearIndex, Clearing
  <2> QED BY <2>1 DEF FilesOK, Rewriting, Clearing
<1>2. CASE ClearReopen
  <2>1. active_file' \in Segments => segs'[active_file'] # NoFile
    BY <1>2, OpenKeeps, SegmentFacts DEF ClearReopen
  <2>2. pc' \in {"recover", "idle"}
    BY <1>2 DEF ClearReopen, Return
  <2>3. index_file' => index_dat' # NoFile
    BY <1>2, IndexLogFacts DEF ClearReopen
  <2> QED BY <2>1, <2>2, <2>3 DEF FilesOK
<1> QED BY <1>1, <1>2

\* ... every step of init() ...
LEMMA BootFiles ==
    ASSUME TypeOK, FilesOK, Booting
    PROVE  FilesOK'
<1>1. CASE Boot \/ RecoverNothing \/ RecoverCommitted \/ RecoverBack
  <2>1. /\ pc \in {"down", "recover"}
        /\ pc' \in {"recover", "clear_segment", "load", "remove_all", "clear_journal"}
        /\ UNCHANGED <<segs, active_file, index_dat, index_file>>
    BY <1>1 DEF Boot, RecoverNothing, RecoverCommitted, RecoverBack
  <2> QED BY <2>1, SameFiles, FilesKept DEF Rewriting, Clearing
<1>2. CASE RecoverPartial
  <2>1. /\ pc = "recover" /\ pc' \in {"load", "clear_journal"}
        /\ UNCHANGED <<active_file, index_dat, index_file>>
    BY <1>2 DEF RecoverPartial
  <2>2. active_file' \in Segments => segs'[active_file'] # NoFile
    BY <1>2, <2>1 DEF RecoverPartial, FilesOK, Clearing, DiskTypeOK
  <2> QED BY <2>1, <2>2, FilesKept DEF Rewriting, Clearing
<1>3. CASE LoadIndex
  BY <1>3 DEF LoadIndex, FilesOK, Rewriting, Clearing
<1>4. CASE RebuildIndex
  BY <1>4 DEF RebuildIndex, FilesOK, Rewriting, Clearing
<1>5. CASE WriteBootIndex
  <2>1. index_dat' # NoFile
    BY <1>5, IndexLogFacts DEF WriteBootIndex, RamTypeOK
  <2>2. active_file' \in Segments => segs'[active_file'] # NoFile
    BY <1>5, SameFiles DEF WriteBootIndex, Clearing
  <2>3. pc' \in {"prune", "open"}
    BY <1>5 DEF WriteBootIndex
  <2> QED BY <2>1, <2>2, <2>3 DEF FilesOK
<1>6. CASE PruneAtBoot
  <2>1. pc = "prune" /\ UNCHANGED <<segs, active_file>>
        /\ \/ pc' = "open" /\ index_dat' = index_dat
           \/ pc' = "write_pruned"
    BY <1>6 DEF PruneAtBoot
  <2> QED BY <2>1 DEF FilesOK, Rewriting, Clearing
<1>7. CASE OpenFiles
  <2>1. active_file' \in Segments => segs'[active_file'] # NoFile
    BY <1>7, OpenFilesSegment, OpenKeeps
  <2>2. pc = "open" /\ pc' = "idle" /\ UNCHANGED index_dat
    BY <1>7 DEF OpenFiles
  <2> QED BY <2>1, <2>2 DEF FilesOK
<1> QED BY <1>1, <1>2, <1>3, <1>4, <1>5, <1>6, <1>7 DEF Booting

\* ... and every step of the environment.
LEMMA OutageFiles ==
    ASSUME TypeOK, FilesOK, Outage
    PROVE  FilesOK'
<1>1. CASE Crash \/ Shutdown
  <2>1. pc' = "down" /\ ~index_file' /\ active_file' = Closed
    BY <1>1 DEF Crash, Shutdown, PowerOff
  <2> QED BY <2>1, SegmentFacts DEF FilesOK
<1>2. CASE LoseIndex
  <2>1. pc = "down" /\ UNCHANGED <<pc, segs, active_file, index_file>>
    BY <1>2 DEF LoseIndex, control
  <2> QED BY <2>1 DEF FilesOK
<1>3. CASE CooldownEnds \/ Tick
  <2>1. UNCHANGED <<disk, index, active_file, index_file, pc, todo>>
    BY <1>3 DEF CooldownEnds, Tick, control
  <2> QED BY <2>1 DEF FilesOK
<1> QED BY <1>1, <1>2, <1>3 DEF Outage

---------------------------------------------------------------------------
(* The journal: no segment is deleted that it does not cover               *)

\* Every step keeps the journal in agreement with the progress of the
\* compaction.
LEMMA JournalPreserved ==
    ASSUME TypeOK, JournalOK, Next
    PROVE  JournalOK'
<1>1. CASE Call
  <2>1. pc = "idle" /\ pc' \in {"idle", "append", "journal_copying", "clear_segment"}
        /\ (pc' = "clear_segment" => op'.name = "clear")
    BY <1>1 DEF Call, StartPut, StartRemove, Get, StartCompact, StartClear, Close, NoOp
  <2> QED BY <2>1 DEF JournalOK
<1>2. CASE AppendRecord \/ AppendRefused \/ PersistEntry
  <2>1. pc' \in {"idle", "persist", "journal_copying"}
    BY <1>2 DEF AppendRecord, AppendRefused, Refuse, PersistEntry, Return
  <2> QED BY <2>1 DEF JournalOK
<1>3. CASE \/ JournalCopying \/ OpenTmp \/ OpenTmpFails \/ CopyRecord
           \/ CopyFailsEarly \/ CopyFailsLate \/ ClearAborted \/ DropSource
           \/ RemoveAll \/ RenameTmp \/ RemoveIndex \/ WriteIndex
           \/ ClearJournal \/ Reopen
  <2>1. pc' \in {"open_tmp", "copy", "clear_aborted", "append", "idle",
                 "journal_commit", "rename_tmp", "remove_index", "write_index",
                 "clear_journal", "load", "reopen"}
    BY <1>3 DEF JournalCopying, OpenTmp, OpenTmpFails, CopyRecord, CopyFailsEarly,
                CopyFailsLate, ClearAborted, GiveUp, Return, DropSource, RemoveAll,
                RenameTmp, RemoveIndex, WriteIndex, ClearJournal, Reopen
  <2> QED BY <2>1 DEF JournalOK
<1>4. CASE JournalSegment
  <2> SUFFICES ASSUME "journal" \notin Faults PROVE JournalOK'
    BY <1>4 DEF JournalSegment, JournalOK
  <2>1. journal' = [state |-> "COMPACTING", next |-> cs + 1]
        /\ pc' = "drop_source" /\ cs' = cs
    BY <1>4 DEF JournalSegment, WriteJournal
  <2>2. journal' \in JournalEntry
    BY <2>1, JournalFacts DEF ControlTypeOK
  <2>3. journal'.next > cs'
    BY <2>1, SegmentFacts DEF ControlTypeOK, Segments
  <2>4. InJournal(journal')
    BY <2>2, JournalFacts
  <2> QED BY <2>1, <2>3, <2>4 DEF JournalOK, Covered, InJournal
<1>5. CASE JournalCommit
  <2> SUFFICES ASSUME "journal" \notin Faults PROVE JournalOK'
    BY <1>5 DEF JournalCommit, JournalOK
  <2>1. journal' = [state |-> "COMMIT", next |-> 0] /\ pc' = "remove_all"
    BY <1>5 DEF JournalCommit, WriteJournal
  <2>2. InJournal(journal')
    BY <2>1, JournalFacts
  <2> QED BY <2>1, <2>2 DEF JournalOK, InJournal
<1>6. CASE ClearSegment \/ ClearIndex \/ ClearReopen
  <2>1. /\ pc \in {"clear_segment", "clear_index", "clear_reopen"}
        /\ \/ pc' \in {"clear_segment", "clear_index", "clear_reopen"} /\ op' = op
           \/ pc' \in {"recover", "idle"}
    BY <1>6 DEF ClearSegment, ClearIndex, ClearReopen, Return
  <2> QED BY <2>1 DEF JournalOK
<1>7. CASE Boot
  <2>1. pc' = "recover" \/ (pc' = "clear_segment" /\ op' = [op EXCEPT !.name = "clear"])
    BY <1>7 DEF Boot
  <2> QED BY <2>1 DEF JournalOK, ControlTypeOK, Operation
<1>8. CASE RecoverCommitted
  BY <1>8 DEF RecoverCommitted, JournalOK, InJournal
<1>9. CASE \/ RecoverNothing \/ RecoverBack \/ RecoverPartial \/ LoadIndex
           \/ RebuildIndex \/ WriteBootIndex \/ PruneAtBoot \/ OpenFiles
  <2>1. pc' \in {"load", "clear_journal", "prune", "write_rebuilt", "open",
                 "write_pruned", "idle"}
    BY <1>9 DEF RecoverNothing, RecoverBack, RecoverPartial, LoadIndex,
                RebuildIndex, WriteBootIndex, PruneAtBoot, OpenFiles
  <2> QED BY <2>1 DEF JournalOK
<1>10. CASE Outage
  <2>1. \/ pc' \in {"idle", "down"}
    BY <1>10 DEF Outage, Crash, Shutdown, PowerOff, LoseIndex, CooldownEnds, Tick, control
  <2> QED BY <2>1 DEF JournalOK
<1> QED BY <1>1, <1>2, <1>3, <1>4, <1>5, <1>6, <1>7, <1>8, <1>9, <1>10
        DEF Next, Proceed, Compacting, Booting

---------------------------------------------------------------------------
(* The theorems                                                            *)

\* The state of a store that has never been started satisfies the invariant.
LEMMA InitInvariant == Init => IInv
<1> SUFFICES ASSUME Init PROVE IInv
  OBVIOUS
<1>1. pc = "down" /\ caller = "none" /\ op = NoOp /\ index_file = FALSE
      /\ active_file = Closed /\ current_segment = 0
  BY DEF Init
<1>2. DiskTypeOK
  BY DEF Init, DiskTypeOK
<1>3. RamTypeOK
  <2>1. compact_in_cooldown \in BOOLEAN /\ index_file \in BOOLEAN
    BY DEF Init
  <2> QED BY <2>1, IndexLogFacts, SegmentFacts DEF Init, RamTypeOK
<1>4. ControlTypeOK
  <2>1. pc \in Labels /\ caller \in Callers
    BY <1>1 DEF Labels, Callers
  <2> QED BY <2>1, OperationFacts, SegmentFacts DEF Init, ControlTypeOK
<1>5. OutsideTypeOK
  BY DEF Init, OutsideTypeOK
<1>6. CallOK
  BY <1>1, SegmentFacts DEF CallOK, NoOp
<1>7. FilesOK
  BY <1>1, SegmentFacts DEF FilesOK
<1>8. JournalOK
  BY <1>1 DEF JournalOK
<1> QED BY <1>2, <1>3, <1>4, <1>5, <1>6, <1>7, <1>8 DEF IInv

\* Every step of the program and of its environment preserves it.
LEMMA NextInvariant == IInv /\ [Next]_vars => IInv'
<1> SUFFICES ASSUME IInv, [Next]_vars PROVE IInv'
  OBVIOUS
<1> USE DEF IInv
<1>1. CASE Next
  <2>1. TypeOK'
    <3>1. CASE Call
      BY <3>1, CallType
    <3>2. CASE AppendRecord \/ AppendRefused \/ PersistEntry
      BY <3>2, WriteType
    <3>3. CASE Compacting
      BY <3>3, CompactType, SwapType DEF Compacting
    <3>4. CASE Booting
      BY <3>4, BootType
    <3>5. CASE ClearSegment \/ ClearIndex \/ ClearReopen
      BY <3>5, ClearType
    <3>6. CASE Outage
      BY <3>6, OutageType
    <3> QED BY <1>1, <3>1, <3>2, <3>3, <3>4, <3>5, <3>6 DEF Next, Proceed
  <2>2. CallOK'
    BY <1>1, CallPreserved
  <2>3. FilesOK'
    <3>1. CASE Call
      BY <3>1, CallFiles
    <3>2. CASE AppendRecord \/ AppendRefused \/ PersistEntry
      BY <3>2, WriteFiles
    <3>3. CASE Compacting
      BY <3>3, CompactFiles
    <3>4. CASE Booting
      BY <3>4, BootFiles
    <3>5. CASE ClearSegment \/ ClearIndex \/ ClearReopen
      BY <3>5, ClearFiles
    <3>6. CASE Outage
      BY <3>6, OutageFiles
    <3> QED BY <1>1, <3>1, <3>2, <3>3, <3>4, <3>5, <3>6 DEF Next, Proceed
  <2>4. JournalOK'
    BY <1>1, JournalPreserved
  <2> QED BY <2>1, <2>2, <2>3, <2>4
<1>2. CASE UNCHANGED vars
  BY <1>2 DEF vars, control, DiskTypeOK, RamTypeOK, ControlTypeOK, OutsideTypeOK,
              CallOK, FilesOK, JournalOK, Covered, InJournal
<1> QED BY <1>1, <1>2

\* The invariant holds in every state of every run.
THEOREM Invariant == Spec => []IInv
BY InitInvariant, NextInvariant, PTL DEF Spec

\* Type correctness: whatever the caller does, whenever power fails and
\* whichever I/O errors occur, segments, index, journal and index.dat keep
\* their form. In particular every index entry names a segment number in
\* range, the loop of compact() never leaves the segments, and no step writes
\* to a file that does not exist.
THEOREM TypeCorrect == Spec => []TypeOK
<1>1. IInv => TypeOK
  BY DEF IInv
<1> QED BY <1>1, Invariant, PTL

\* A step that makes a segment disappear is one of clear(), of the loop of
\* compact() after its journal entry, or of finalize_compaction().
LEMMA DeletesStep ==
    ASSUME IInv, Next, "journal" \notin Faults,
           NEW s \in Segments, segs[s] # NoFile, segs'[s] = NoFile
    PROVE  op.name = "clear" \/ Covered(s)
<1> USE DEF IInv
<1>1. segs' # segs
  OBVIOUS
<1>2. ASSUME NEW id \in Segments, OpenSegment(id) PROVE FALSE
  BY <1>2, OpenType DEF DiskTypeOK
<1>3. CASE Call
  <2>1. PICK k \in Keys, d \in Payloads : StartPut(k, d)
    BY <1>1, <1>3 DEF Call, StartRemove, Get, StartCompact, StartClear, Close
  <2>2. current_segment + 1 < SegCount => current_segment + 1 \in Segments
    BY SegmentFacts DEF RamTypeOK, Segments
  <2> QED BY <1>1, <1>2, <2>1, <2>2, SegmentFacts DEF StartPut
<1>4. CASE AppendRecord
  <2>1. [key |-> op.key, data |-> IF op.name = "put" THEN op.data ELSE Tombstone] \in Cell
    BY <1>4 DEF AppendRecord, CallOK, Cell
  <2>2. PICK c \in Cell : active_file \in Segments
                          /\ segs' = [segs EXCEPT ![active_file] = Append(@, c)]
    BY <1>1, <1>4, <2>1 DEF AppendRecord, WriteRecord
  <2>3. segs[active_file] \in File
    BY <1>4, <2>2 DEF AppendRecord, FilesOK, Clearing, DiskTypeOK
  <2> QED BY <2>2, <2>3, AppendType DEF DiskTypeOK
<1>5. CASE OpenTmpFails \/ ClearAborted \/ CopyFailsLate
  <2>1. GiveUp
    BY <1>5 DEF OpenTmpFails, ClearAborted, CopyFailsLate
  <2> QED BY <1>1, <1>2, <2>1, SegmentFacts DEF GiveUp
<1>6. CASE DropSource
  <2>1. {cs} \in SUBSET Segments /\ RemoveSegments({cs}) /\ pc = "drop_source"
    BY <1>6 DEF DropSource, ControlTypeOK
  <2>2. s = cs
    BY <2>1, RemoveType DEF DiskTypeOK, RamTypeOK
  <2> QED BY <2>1, <2>2 DEF JournalOK
<1>7. CASE RemoveAll
  BY <1>7 DEF RemoveAll, JournalOK, Covered
<1>8. CASE RenameTmp \/ RecoverPartial
  BY <1>8 DEF RenameTmp, RecoverPartial, DiskTypeOK
<1>9. CASE Reopen
  BY <1>2, <1>9, SegmentFacts DEF Reopen
<1>10. CASE ClearSegment \/ ClearReopen
  BY <1>10 DEF ClearSegment, ClearReopen, JournalOK
<1>11. CASE OpenFiles
  BY <1>2, <1>11, OpenFilesSegment
<1>12. CASE Crash
  <2>1. TornWrite
    BY <1>1, <1>12 DEF Crash
  <2>2. active_file \in Segments /\ pc = "append"
        /\ segs' = [segs EXCEPT ![active_file] = Append(@, Torn)]
    BY <1>1, <2>1 DEF TornWrite
  <2>3. segs[active_file] \in File
    BY <2>2 DEF FilesOK, Clearing, DiskTypeOK
  <2> QED BY <2>2, <2>3, AppendType DEF DiskTypeOK
<1>13. CASE UNCHANGED segs
  BY <1>1, <1>13
<1>14. \/ Call \/ AppendRecord \/ OpenTmpFails \/ ClearAborted \/ CopyFailsLate
       \/ DropSource \/ RemoveAll \/ RenameTmp \/ RecoverPartial \/ Reopen
       \/ ClearSegment \/ ClearReopen \/ OpenFiles \/ Crash \/ UNCHANGED segs
  <2>1. CASE AppendRefused \/ PersistEntry \/ ClearIndex
    BY <2>1 DEF AppendRefused, PersistEntry, ClearIndex
  <2>2. CASE Compacting
    BY <2>2 DEF Compacting, JournalCopying, OpenTmp, CopyRecord, CopyFailsEarly,
                JournalSegment, JournalCommit, RemoveIndex, WriteIndex, ClearJournal
  <2>3. CASE Booting
    BY <2>3 DEF Booting, Boot, RecoverNothing, RecoverCommitted, RecoverBack,
                LoadIndex, RebuildIndex, WriteBootIndex, PruneAtBoot
  <2>4. CASE Outage
    BY <2>4 DEF Outage, Shutdown, LoseIndex, CooldownEnds, Tick
  <2> QED BY <2>1, <2>2, <2>3, <2>4 DEF Next, Proceed
<1> QED BY <1>3, <1>4, <1>5, <1>6, <1>7, <1>8, <1>9, <1>10, <1>11, <1>12,
           <1>13, <1>14

\* The promise the recovery is built on: outside clear(), no step deletes a
\* segment unless the journal on disk already tells the next boot that what
\* the segment held is in compact.tmp. It holds for every order of calls,
\* power cuts at any step, torn writes and every I/O error of the model, as
\* long as write_journal() does what it is asked to: compact() does not learn
\* of a journal that could not be written and deletes the segment all the same.
THEOREM DeletesJournaled ==
    ASSUME "journal" \notin Faults
    PROVE  Spec => DeletesAreJournaled
<1>1. IInv /\ [Next]_vars =>
         [\A s \in Segments : segs[s] # NoFile /\ segs'[s] = NoFile =>
             op.name = "clear" \/ Covered(s)]_vars
  BY DeletesStep
<1> QED BY <1>1, Invariant, PTL DEF Spec, DeletesAreJournaled

=============================================================================
