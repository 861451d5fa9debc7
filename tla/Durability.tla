---------------------------- MODULE Durability ----------------------------
(***************************************************************************)
(* Why FileStore keeps what it has promised: the inductive invariant from  *)
(* which DurabilityProofs derives that property for every instance.        *)
(*                                                                         *)
(* What tells the value of a key changes as the program goes on: the index *)
(* in RAM and index.dat, with the segments; in the middle of a compaction  *)
(* the index with the segments not yet deleted and with compact.tmp; once  *)
(* it is committed compact.tmp alone; and after a power cut index.dat or   *)
(* compact.tmp. Each part of the invariant says when one of them is enough *)
(* and that it then tells, for every key, a value that callers may expect. *)
(***************************************************************************)
EXTENDS FileStoreProperties

\* What the store is proved to cope with. What is left out are the calls, the
\* power cuts and the errors after which it loses or revives a record.
Supported ==
    /\ EmptyKeys = {}
    /\ \A p \in Payloads : p.ttl < 16777216
    /\ Ops \cap {"compact", "clear_on_init", "use_after_close"} = {}
    /\ Crashes \subseteq {"quiet", "copying", "committed"}
    /\ TornWrites \subseteq {"segment", "journal", "tmp"}
    /\ Faults \subseteq {"tmp_open"}
    /\ IndexLoss => Crashes = {} /\ MaxRecs = 0
    /\ MaxRecs > 0 => Crashes = {} /\ "reboot" \notin Ops

---------------------------------------------------------------------------
(* Where a value is: the segments S, the time t, an index entry e, a file f *)

\* What a value is worth at time t.
SeenAt(t, d) == IF d # None /\ Expired(d.ts, d.ttl, t) THEN None ELSE d

Stored(S, e) == S[e.seg][e.off + 1].data

\* The entry e points at a record of k, and repeats its metadata.
Home(S, e, k) ==
    /\ Readable(S[e.seg], e.off)
    /\ S[e.seg][e.off + 1].key = k
    /\ Stored(S, e) \in Payloads
    /\ e = EntryFor(e.seg, e.off, Stored(S, e))

\* Who follows e to read k sees what d is worth.
Fits(S, t, e, k, d) ==
    IF e = None THEN SeenAt(t, d) = None
    ELSE Home(S, e, k) /\ SeenAt(t, Stored(S, e)) = SeenAt(t, d)

Holds(f, k, d) == \E i \in DOMAIN f : f[i] = [key |-> k, data |-> d]

\* Whatever record of k is read from f says d, and there is one if d counts.
Carries(f, t, k, d) ==
    /\ SeenAt(t, d) # None => Holds(f, k, d)
    /\ \A i \in DOMAIN f :
          f[i] \in Cell /\ (f[i].key = k => f[i].data = d /\ d \in Payloads)

---------------------------------------------------------------------------
(* What a key may hold                                                     *)

\* From a power cut to the end of init().
Starting == pc = "down" \/ caller = "boot"

\* The call has taken effect in the index in RAM; it has in index.dat.
InRam == pc = "persist" \/ caller = "threshold"
OnDisk == caller = "threshold"

\* What k holds, the call in progress having taken effect or not.
Due(k, done) ==
    IF k \in op.evicted THEN None
    ELSE IF done /\ k = op.key THEN op.data
    ELSE promised[k]

\* A call that power cut short has happened entirely or not at all.
May(k, done) ==
    {Due(k, done)} \cup (IF Starting /\ k = op.key THEN {op.data} ELSE {})

IndexFits(ix, done) ==
    \A k \in Keys : \E d \in May(k, done) : Fits(segs, now, ix[k], k, d)

---------------------------------------------------------------------------
(* Who runs, and what it finds                                             *)

Loading == {"recover", "load", "write_rebuilt", "prune", "open"}
Swapping == {"remove_all", "rename_tmp", "remove_index", "write_index", "clear_journal"}
Copying == {"copy", "drop_source", "journal_commit"}

Copying0 == [state |-> "COMPACTING", next |-> 0]
Committed == InJournal(journal) /\ journal.state = "COMMIT"
Blank == \A s \in Segments : segs[s] = NoFile

\* Which call is in progress, and on whose behalf.
TurnOK ==
    /\ pc \notin {"clear_aborted", "write_pruned"}
    /\ caller # "call"
    /\ pc \in Loading => caller = "boot"
    /\ caller = "boot" => pc \in Loading \cup Swapping
    /\ pc \in Copying \cup {"journal_copying", "open_tmp", "reopen"} =>
          caller \in {"rotate", "threshold"}
    /\ pc \in Clearing => caller = "none"
    /\ pc = "idle" => op = NoOp
    /\ op.name \in {"none", "put", "remove", "clear"}
    /\ op.name = "clear" <=> pc \in Clearing
    /\ op.name = "none" => pc = "idle" \/ Starting
    /\ op.name \in {"none", "clear"} => op.key = None
    /\ op.name = "remove" => op.data = None
    /\ MaxRecs = 0 => op.evicted = {}

\* The journal, compact.tmp and the segments at each step.
StageOK ==
    /\ pc \in {"idle", "append", "persist", "journal_copying", "reopen", "load",
               "write_rebuilt", "prune", "open"} \cup Clearing => journal = NoFile
    /\ pc = "open_tmp" => journal = Copying0
    /\ pc = "copy" => journal = [state |-> "COMPACTING", next |-> cs]
    /\ pc = "drop_source" => journal = [state |-> "COMPACTING", next |-> cs + 1]
    /\ pc = "journal_commit" =>
          /\ cs = SegCount - 1 /\ compact_tmp # NoFile
          /\ journal = [state |-> "COMPACTING", next |-> SegCount]
    /\ pc \in {"remove_all", "rename_tmp"} => Committed /\ compact_tmp # NoFile
    /\ pc = "rename_tmp" => Blank
    /\ pc \in {"remove_index", "write_index", "clear_journal"} =>
          \/ /\ Committed /\ compact_tmp = NoFile /\ segs[0] # NoFile
             /\ \A s \in Segments \ {0} : segs[s] = NoFile
          \/ pc = "clear_journal" /\ caller = "boot" /\ journal = Copying0
    /\ pc \in {"down", "recover"} =>
          \/ journal \in {NoFile, Torn, Copying0}
          \/ Committed /\ compact_tmp # NoFile

\* index.dat: whole where it exists, missing only at boot or while it is being
\* replaced.
IndexFileOK ==
    /\ index_dat # NoFile => ~index_dat.torn
    /\ index_dat = NoFile => Starting \/ pc \in Clearing \cup {"write_index"}
    /\ pc = "clear_journal" /\ Committed => index_dat # NoFile
    /\ pc \in {"prune", "open"} => index = index_dat.map

\* With a record limit the only boot is the first.
FirstBootOK ==
    MaxRecs > 0 /\ Starting =>
        /\ op = NoOp /\ journal = NoFile /\ Blank
        /\ \A k \in Keys : promised[k] = None

\* The next record goes where the index will say it is.
Ready ==
    \/ pc = "append"
    \/ pc = "idle" /\ active_file # Closed
    \/ pc \in {"journal_copying", "open_tmp"} /\ caller = "threshold"
AppendOK ==
    /\ Ready \/ pc = "persist" =>
          /\ active_file \in Segments /\ active_file = current_segment
          /\ segs[active_file] # NoFile /\ index_file
    /\ Ready => current_offset = Len(segs[active_file])
    /\ pc = "persist" /\ op.name = "put" =>
          LET e == EntryFor(current_segment, current_offset, op.data) IN
          /\ Home(segs, e, op.key) /\ Stored(segs, e) = op.data
          /\ op.key \notin op.evicted => index[op.key] = e
    /\ pc = "persist" =>
          /\ current_offset + 1 = Len(segs[active_file])
          /\ op.name = "remove" => index[op.key] = None
    /\ \/ pc \in {"journal_copying", "open_tmp", "reopen"}
       \/ pc = "clear_journal" /\ caller # "boot"
       => index_file

\* clear() has the handles to reopen and deletes what it has come past.
ClearOK ==
    /\ pc \in Clearing => active_file # Closed /\ index_file
    /\ pc = "clear_segment" => \A s \in Segments : s < cs => segs[s] = NoFile
    /\ pc \in {"clear_index", "clear_reopen"} => Blank
    /\ pc = "clear_reopen" => index = EmptyIndex

---------------------------------------------------------------------------
(* Who tells the values                                                    *)

\* The index in RAM does, except between boot and load_index(), while the
\* records it points at are on the move, and during clear().
RamTells ==
    \/ pc \in {"idle", "append", "persist", "journal_copying", "open_tmp",
               "remove_index", "write_index", "reopen", "write_rebuilt",
               "prune", "open"}
    \/ pc = "clear_journal" /\ caller # "boot"
RamOK == RamTells => IndexFits(index, InRam)

\* index.dat does, until the first source segment is to go and again when it
\* has been rewritten; where it is missing, the segments do that init() will
\* scan instead. It never learns of evictions by put().
DiskTells ==
    /\ MaxRecs = 0 \/ Starting
    /\ pc \notin Clearing \cup {"drop_source", "journal_commit", "remove_all",
                                "rename_tmp", "remove_index", "write_index"}
    /\ pc = "copy" => cs = 0
    /\ pc \in {"down", "recover"} => ~Committed
DiskMap == IF index_dat = NoFile THEN RebuiltIndex ELSE index_dat.map
DiskOK == DiskTells => IndexFits(DiskMap, OnDisk)

\* While the loop of compact() runs, a live record is in compact.tmp once it
\* has been copied and at home before; compact.tmp has it once, and nothing
\* else.
Live(k) == index[k] # None /\ ~Expired(index[k].ts, index[k].ttl, now)
Copied(k) == index[k].seg < cs \/ (index[k].seg = cs /\ k \notin todo)
Accounted(k) ==
    LET d == Due(k, InRam) IN
    IF Live(k)
    THEN /\ d \in Payloads
         /\ IF Copied(k) THEN Holds(compact_tmp, k, d)
            ELSE Home(segs, index[k], k) /\ Stored(segs, index[k]) = d
    ELSE SeenAt(now, d) = None
IsCopy(c) ==
    c \in Cell /\ Live(c.key) /\ Copied(c.key) /\ c.data = Due(c.key, InRam)
CopyOK ==
    pc \in Copying =>
        /\ \A k \in Keys : Accounted(k)
        /\ \A i \in DOMAIN compact_tmp : IsCopy(compact_tmp[i])
        /\ todo \subseteq LiveIn(cs, index)
        /\ pc # "copy" => todo = {}

\* From JOURNAL_COMMIT to the rename compact.tmp does.
TmpTells ==
    \/ pc \in {"remove_all", "rename_tmp"}
    \/ pc \in {"down", "recover"} /\ Committed
CommitOK ==
    TmpTells => \A k \in Keys : \E d \in May(k, InRam) : Carries(compact_tmp, now, k, d)

\* compact.tmp has one record of a key, and an index as long is made of it.
OnePerKey(f) ==
    \A i \in DOMAIN f :
        /\ f[i] \in Cell /\ f[i].data \in Payloads
        /\ \A j \in DOMAIN f : f[i].key = f[j].key => i = j
DistinctOK ==
    caller # "boot" =>
        /\ pc \in Copying \cup {"remove_all", "rename_tmp"} => OnePerKey(compact_tmp)
        /\ pc \in {"remove_index", "write_index", "clear_journal"} =>
              Len(segs[0]) = Cardinality(Indexed(index))

\* Without a record limit, index.dat follows the index in RAM: it lags by the
\* call in progress and by expired entries that get() has dropped.
Mirrored ==
    /\ MaxRecs = 0
    /\ \/ pc \in {"idle", "append", "persist", "journal_copying", "open_tmp", "reopen"}
       \/ pc = "clear_journal" /\ caller # "boot"
Mirrors(ix, k) ==
    \/ ix[k] = index[k]
    \/ index[k] = None /\ ix[k] # None /\ Expired(ix[k].ts, ix[k].ttl, now)
MirrorOK ==
    Mirrored => \A k \in Keys :
                   (pc = "persist" /\ k = op.key) \/ Mirrors(index_dat.map, k)

---------------------------------------------------------------------------
(* The segments alone                                                      *)

\* Without power cuts and without a record limit the segments say what
\* index.dat says: neither a record whose call was cut short, nor one that was
\* evicted, is left in them to be found by the scan.
Replaying == Crashes = {} /\ MaxRecs = 0
LogTells ==
    pc \notin Clearing \cup Copying \cup {"remove_all", "rename_tmp", "remove_index", "write_index"}

\* The last record of a key is the one written last: it is whole, and the
\* segments after the one that is written are not there.
Whole ==
    \A s \in Segments :
        segs[s] = NoFile \/ \A i \in DOMAIN segs[s] : segs[s][i] # Torn
InOrder ==
    /\ pc \in {"idle", "append", "persist", "journal_copying", "open_tmp"} =>
          \A s \in Segments : s > current_segment => segs[s] = NoFile
    /\ pc = "reopen" => \A s \in Segments \ {0} : segs[s] = NoFile

\* Every boot finds a store at rest.
AtRest == Starting => journal = NoFile /\ pc \in Loading \cup {"down"}

\* What is about to be written to index.dat is what a scan gives, and what is
\* in it differs by the call in progress.
ScanIndex == pc \in {"remove_index", "write_index", "write_rebuilt"} => RebuiltIndex = index
SameEntries ==
    LogTells /\ index_dat # NoFile =>
        \A k \in Keys :
            (pc = "persist" /\ k = op.key) \/ RebuiltIndex[k] = index_dat.map[k]
LastEntry ==
    pc = "persist" =>
        RebuiltIndex[op.key] =
            IF op.name = "put" THEN EntryFor(current_segment, current_offset, op.data)
            ELSE None

LogOK ==
    Replaying => Whole /\ InOrder /\ AtRest /\ ScanIndex /\ SameEntries /\ LastEntry

\* All of it: at every step of every call, boot and compaction something on disk
\* or in RAM that the code will consult next tells every value that callers
\* may expect.
DInv ==
    /\ TurnOK /\ StageOK /\ IndexFileOK /\ FirstBootOK /\ AppendOK /\ ClearOK
    /\ RamOK /\ DiskOK /\ CopyOK /\ CommitOK /\ DistinctOK /\ MirrorOK /\ LogOK

---------------------------------------------------------------------------
(* The counter of dead records                                             *)

\* It starts from nothing at a boot, a clear() and a compaction; from then on
\* no call counts a record twice, or one that an entry leads to.
Counting == {"idle", "append", "persist", "journal_copying", "open_tmp"}
DeadOK ==
    /\ Starting \/ pc \in {"reopen", "clear_reopen"} => dead_since_compact = 0
    /\ pc \in Counting =>
          dead_since_compact + Cardinality(Indexed(index)) <= Cardinality(Values)

=============================================================================
