------------------------ MODULE FileStoreProperties ------------------------
(***************************************************************************)
(* What makes FileStore correct. The runs check these formulas on small    *)
(* instances; FileStoreProofs proves some of them for every instance.      *)
(***************************************************************************)
EXTENDS FileStore

Labels ==
    {"idle", "append", "persist", "journal_copying", "open_tmp", "copy",
     "clear_aborted", "drop_source", "journal_commit", "remove_all",
     "rename_tmp", "remove_index", "write_index", "clear_journal", "reopen",
     "clear_segment", "clear_index", "clear_reopen", "down", "recover",
     "load", "write_rebuilt", "prune", "write_pruned", "open"}

Clearing == {"clear_segment", "clear_index", "clear_reopen"}

Callers == {"none", "rotate", "threshold", "call", "boot"}
Operation == [name : OpNames, key : Keys \cup {None},
              data : Payloads \cup {None}, evicted : SUBSET Keys]

DiskTypeOK ==
    /\ segs \in [Segments -> File \cup {NoFile}]
    /\ compact_tmp \in File \cup {NoFile}
    /\ journal \in JournalEntry \cup {NoFile, Torn}
    /\ index_dat \in IndexLog \cup {NoFile}

RamTypeOK ==
    /\ index \in Index
    /\ current_segment \in 0..SegCount /\ current_offset \in Nat
    /\ active_file \in Segments \cup {Closed, Unlinked}
    /\ index_file \in BOOLEAN
    /\ dead_since_compact \in Nat /\ compact_in_cooldown \in BOOLEAN

ControlTypeOK ==
    /\ pc \in Labels /\ op \in Operation /\ caller \in Callers
    /\ cs \in Segments /\ todo \in SUBSET Keys

OutsideTypeOK == now \in Nat /\ promised \in [Keys -> Payloads \cup {None}]

\* The type invariant of the disk, the RAM, the control state and the outside.
TypeOK == DiskTypeOK /\ RamTypeOK /\ ControlTypeOK /\ OutsideTypeOK

---------------------------------------------------------------------------
(* Safety                                                                  *)

\* Whenever the store is idle, get() returns for every key what the answers
\* given so far promised: the last value put, unless it was removed, evicted,
\* cleared, or has expired. Holds across the reboots a run allows: a call that
\* power cut short has happened entirely or not at all.
Durable == pc = "idle" => \A k \in Keys : View(k) = Seen(promised[k])

\* Every index entry points at a record of its own key, with the metadata the
\* entry repeats: get() and the iterator never compare the key on disk.
PointsHome(k) ==
    index[k] # None =>
        LET e == index[k] IN
        /\ Readable(segs[e.seg], e.off)
        /\ LET c == segs[e.seg][e.off + 1] IN
             /\ c.key = k /\ c.data # Tombstone
             /\ e = EntryFor(e.seg, e.off, c.data)
IndexSound == pc = "idle" => \A k \in Keys : PointsHome(k)

\* The file open for appending is the current segment, and the offset that
\* the next put will index is where that file ends.
AppendsWhereIndexed ==
    pc = "idle" /\ active_file # Closed =>
        /\ active_file = current_segment
        /\ current_offset = Len(segs[active_file])

\* No value the store answers for exists only in RAM or in a deleted file: at
\* every moment, in the middle of a compaction too, some file holds it.
HasCopy(f, k, d) == f # NoFile /\ [key |-> k, data |-> d] \in Range(f)
NothingLost ==
    op.name # "clear" =>
        \A k \in Keys \ (op.evicted \cup {op.key}) :
            Seen(promised[k]) # None =>
                \/ HasCopy(compact_tmp, k, promised[k])
                \/ \E s \in Segments : HasCopy(segs[s], k, promised[k])

\* The log and index.dat each determine the index: losing the RAM, or the RAM
\* and index.dat, between two calls changes nothing a caller can see.
SameAnswers(ix) ==
    \A k \in Keys :
        \/ ix[k] = index[k]
        \/ index[k] = None /\ ix[k] # None /\ Expired(ix[k].ts, ix[k].ttl, now)
IndexFileReplays == pc = "idle" => SameAnswers(index_dat.map)
LogReplays == pc = "idle" => SameAnswers(RebuiltIndex)

\* What compaction leaves behind is segment 0 with one record per indexed key
\* and nothing else: expired, removed and overwritten records are gone.
Compacted ==
    pc = "clear_journal" /\ caller # "boot" =>
        /\ Len(segs[0]) = Cardinality(Indexed(index))
        /\ \A s \in Segments \ {0} : segs[s] = NoFile

\* dead_since_compact never counts more records than compaction can reclaim:
\* of the values in the log, it leaves one for each entry of the index.
ValuesIn(f) ==
    IF f = NoFile THEN {} ELSE {i \in DOMAIN f : f[i] # Torn /\ f[i].data # Tombstone}
Values == UNION {{s} \X ValuesIn(segs[s]) : s \in Segments}
DeadCounterHonest ==
    pc = "idle" => dead_since_compact + Cardinality(Indexed(index)) <= Cardinality(Values)

---------------------------------------------------------------------------
(* Action properties                                                       *)

InJournal(j) == j \notin {NoFile, Torn}
Covered(s) == InJournal(journal) /\ (journal.state = "COMMIT" \/ journal.next > s)

\* Outside clear(), a segment is deleted only under a journal that says so:
\* "the journal is updated BEFORE the source segment is deleted".
DeletesAreJournaled ==
    [][\A s \in Segments :
          segs[s] # NoFile /\ segs'[s] = NoFile => op.name = "clear" \/ Covered(s)]_vars

\* Once a source segment has been deleted, the journal that leads recovery to
\* compact.tmp moves on to the next segment or to COMMIT, and goes away only
\* when compact.tmp has become segment 0.
JournalMovesForward ==
    [][Covered(0) /\ journal' # journal =>
          \/ journal' = NoFile /\ compact_tmp = NoFile /\ segs[0] # NoFile
          \/ /\ InJournal(journal') /\ journal.state = "COMPACTING"
             /\ journal'.state = "COMPACTING" => journal'.next = journal.next + 1
             /\ journal'.state = "COMMIT" => journal.next = SegCount]_vars

\* "The oldest record (by timestamp) is evicted whenever a put would push the
\* count over the cap": no record that stays is older than one that goes.
Stamp(k) == IF k = op.key THEN op.data.ts ELSE index[k].ts
OldestEvicted ==
    [][pc = "append" /\ pc' = "persist" =>
          \A k \in op'.evicted \ op.evicted, j \in Indexed(index') :
              Stamp(k) <= index'[j].ts]_vars

---------------------------------------------------------------------------
(* Liveness                                                                *)

\* Every call returns, and every boot completes.
CallsReturn == pc # "idle" ~> pc = "idle"

---------------------------------------------------------------------------
(* Refinement                                                              *)

\* Between calls the store holds what get() returns: the record promised, which
\* may have expired, unless that is not what get() makes of it. During a call
\* it holds what the last answers promised.
Contents ==
    [k \in Keys |->
        IF pc = "idle" /\ View(k) # Seen(promised[k]) THEN View(k) ELSE promised[k]]

KV == INSTANCE KVStore WITH kv <- Contents

\* FileStore implements the abstract store: every call is one step of it.
ImplementsKVStore == KV!Spec

=============================================================================
