# microStore in TLA+

A model of microStore, from its file handles to its cache, the TLC runs that check it on small
instances, and proofs, checked by TLAPS, that hold for every instance. Paths below are relative to
the repository root; `FileStore.h`,
`TypedTieredStore.h` and the like are in `include/microStore/`.

## 1. The system

microStore is a header-only key-value store for microcontrollers. It has no threads and no
locks: one operation runs at a time, to its end, unless the power fails. What makes it hard is the disk: every
operation is several writes to several files, power may go between any two of them (or in the
middle of one), and the RAM index, the index file, the log, the journal and the half-built compaction
output must agree with each other again after every boot.

| Component | State | Operations | Hard because | Correct when |
|---|---|---|---|---|
| `FileStore` (`FileStore.h`) | segments, `index.dat`, `journal.dat`, `compact.tmp`; `_index`, the open file, `current_segment`, `current_offset`, `_dead_since_compact`, the cooldown | `init`, `close`, `clear`, `put`, `get`, `exists`, `remove`, `compact` | power cuts, torn writes, full storage, eviction, expiry, rewriting live data in place | what was answered survives; what was removed stays removed; every entry of the index points at its record |
| `HeapStore` (`HeapStore.h`) | an ordered map, two policies, iterators | the same interface | expiry and eviction while writing; iterators into a map that `get` may change; time stamps from another translation unit | a record is read until its time; eviction takes no more than it must; iteration is complete |
| `TypedStore` (`TypedStore.h`) | the iterator's decoded entry | encode, forward, decode | values that do not decode | what is put is what is got |
| `TypedTieredStore` (`TypedTieredStore.h`) | slots, LRU list, hash chains, `dirty`/`in_l2` flags | `put`, `get`, `remove`, `exists`, `sync`, `clear` | write-back; two levels that evict and expire on their own | cache and store together are one map; the LRU list and the hash chains hold exactly the valid slots |
| `File`, `FileSystem` (`File.h`, `FileSystem.h`) | a handle, shared by its copies: position, `available()` | open, read, write, seek, flush, close, rename, remove, `writeFile` | names that are removed and reused under open handles | a reader keeps its version; what was flushed survives |
| Adapters (`Adapters/*.h`) | a file descriptor or library object, a counter of the rest | POSIX, stdio, LittleFS, SPIFFS, SD, FlashFS, InternalFS, none; `init` with its check and `format` | modes, buffering and the meaning of `flush` differ; a failed check formats the medium | the counter agrees with the position; a name leads to the version it should |
| `Utility.h` | two static roll-over counters in each translation unit, `time_offset` | clock, CRC-32 | 32-bit roll-over | all units see one clock |
| `Codec.h`, `Log.h`, `Stream.h`, `Print.h` | none | byte conversions, logging, Arduino streams | - | decode inverts encode |

How they interact: the application calls a store, directly or through `TypedStore` or
`TypedTieredStore`, which hold a reference to it; `FileStore` calls `FileSystem::open`, `remove` and
`rename` and the `File` handles these return; everything that expires asks `microStore::time()`. There are no
callbacks. `put` and `remove` call `compact` on their own, when the log is full
(`rotate_segment_if_needed`) or when too many records are dead (`compact_if_threshold`), and `init`
calls `recover_if_needed`, which may finish a compaction.

`PROJECT.json` lists the hazards of this code line by line, with the property that would catch each.

## 2. The modules

| Module | What it is |
|---|---|
| `KVStore.tla` | the abstract store: a map from keys to records, with `Put`, `Remove`, `Clear` and a clock; eviction and expiry are part of what it promises: among records of one priority and lifetime, and among those whose priority costs nothing, the older goes first. A record that has expired counts for the limit until something drops it, as in `prune_index_to_max_recs_`, which looks at `_index.size()`. Reboots are not visible in it |
| `FileStore.tla` | the program and its environment: 11 variables for disk and RAM, 5 for where the program is, 2 for what is outside; 32 steps of the program, 6 calls, 5 steps of the environment |
| `FileStoreProperties.tla` | the type invariant, the safety, action and liveness properties, the refinement of `KVStore` |
| `MCFileStore.tla`, `*.cfg` | payloads for the instances TLC checks; one configuration per run |
| `FileStoreProofs.tla` | types, proved for every error and power cut, and the journal discipline, for every one but a failing journal |
| `ReplayProofs.tla` | what a scan of the segments finds, after an append, a rotation, a compaction |
| `Durability.tla` | why values survive: `Supported`, the settings under which they do, and the inductive invariant `DInv` |
| `DurabilityProofs.tla` | the proof of `DInv`, and what follows from it |
| `Eviction.tla` | why a put evicts what `KVStore` lets it: the invariant `EInv` |
| `RefinementProofs.tla` | the proof of `EInv`, and that `FileStore` implements `KVStore` |
| `TieredStore.tla` | the write-back cache of `TypedTieredStore` over a second level that `KVStore` describes: 6 variables of the program, 3 of history; every call, `sync()` in steps |
| `TieredStoreProperties.tla` | its type invariant, safety properties and the inductive invariant `TieredInv` of its data |
| `TieredProofs.tla` | the proof of all of these: the linked list, the hash chains, and the agreement of the two levels |
| `MCTieredStore.tla`, `*.cfg` | payloads and hash functions for TLC |
| `Clock.tla` | `time()` on the boards: `millis()` that starts again, the two static variables of each translation unit, `set_time_offset` |
| `HeapStore.tla` | `HeapStore` on that clock: 3 variables of the program, 2 of history |
| `TypedStore.tla` | `TypedStore` over `HeapStore`: the iterator of both, and the next-state relation of the three modules |
| `TypedStoreProperties.tla`, `MCTypedStore.tla`, `heap.cfg` | what the three promise together; payloads for TLC |
| `ClockProofs.tla` | the theorem that all units see one clock |
| `HeapProofs.tla` | what is read back, what is evicted and what an iteration gives, proved |
| `Adapters.tla` | a table per adapter: what each mode, a handle, `init` and `format` do |
| `Files.tla` | `File` and `FileSystem` over one of these adapters: names, files, handles, power cuts |
| `FilesProperties.tla`, `MCFiles.tla`, `files.cfg` | what callers may count on whatever the adapter; symmetry for TLC |
| `FilesProofs.tla` | the inductive invariant of `Files` and the theorems |

`TieredStore` and `FileStore` meet in `KVStore`: the first is modelled over it, the second shown to implement it.
`TypedStore` extends `HeapStore` extends `Clock`. `Files` extends `Adapters`; `FileStore` stands on the same
calls but has a coarser model of them, in which a file is a sequence of records.

### FileStore: how a state corresponds to the code

* `segs[s]` is `segN.dat`, a sequence of records (or `NoFile`); offsets count records.
  `compact_tmp`, `journal`, `index_dat` are the other files. `Torn` is a record, or a journal, that a
  power cut left half written; `index_dat` is the map that replaying the file gives, and `torn` is set once a
  half written entry hides all that is appended behind it.
* `index`, `current_segment`, `current_offset`, `active_file`, `index_file`, `dead_since_compact`,
  `compact_in_cooldown` are the members of `BasicFileStore`. `active_file = Unlinked` is a handle on
  a file that has been removed: writes to it succeed and are lost.
* `pc` names the next effect on the file system, `op` the call, `caller` who called
  `compact()` or `finalize_compaction()`, `cs` is the segment loop's `s` and `todo` its
  `offsets`.
* `promised` is not in the program. It is what the answers given so far let callers expect of
  each key: a step that returns to the caller updates it, eviction and clearing included.

### FileStore: how a step corresponds to the code

A step runs from one effect on the file system to the next, so that `Crash` can fall between
any two of them. What the code does in RAM in between belongs to the step.

| Code | Steps |
|---|---|
| `put`, `rotate_segment_if_needed`, `append_buffer`, `flush_buffer` | `StartPut`, `AppendRecord`, `AppendRefused`, `PersistEntry` |
| `remove` | `StartRemove`, `AppendRecord`, `PersistEntry` |
| `get`, `exists` | `Get` (they change state only when the record has expired); what they return is `View` |
| `compact` | `StartCompact`, `JournalCopying`, `OpenTmp`, `CopyRecord`, `JournalSegment`, `DropSource`, `JournalCommit`; on errors `OpenTmpFails`, `CopyFailsEarly`, `CopyFailsLate`, `ClearAborted` |
| `finalize_compaction` | `RemoveAll`, `RenameTmp`, `RemoveIndex`, `WriteIndex`, then `ClearJournal` and `Reopen` of the caller |
| `clear` | `StartClear`, `ClearSegment`, `ClearIndex`, `ClearReopen` |
| `close` | `Close` |
| `init`, `recover_if_needed`, `load_index`, `rebuild_index_from_segments` | `Boot`, `RecoverNothing`, `RecoverCommitted`, `RecoverBack`, `RecoverPartial`, `LoadIndex`, `RebuildIndex`, `WriteBootIndex`, `PruneAtBoot`, `OpenFiles` |
| power, flash, clock | `Crash` (with `TornWrite`), `Shutdown`, `LoseIndex`, `CooldownEnds`, `Tick` |

### TieredStore

* `l1` is the cache: `slots` with `prev`, `next`, `hash_next` and the flags as in `struct Slot`, the
  hash `buckets`, `head` and `tail` of the LRU list. Slots count from 1 and `Invalid` is 0.
* `store` is the second level. It is the map of `KVStore`, and an instance of that module supplies what
  expires and what a limit may evict. Here as there, an expired record stays in
  `store` until something drops it; which call does is part of `TieredStore`.
* `last`, `safe`, `recent` are history: the value callers expect of a key, the values a power cut may fall back to,
  the order of use (the pairs `<<j, k>>` of cached keys of which `j` was used after `k`).
* `Walk` gives the stops of a walk along pointers, at most one per slot and a last one: it is how the properties read the list and the chains.

| Code | Definitions |
|---|---|
| `link_l1_hash_` ... `remove_l1_slot_` | `LinkHash`, `UnlinkHash`, `LinkFront`, `UnlinkLRU`, `Touch`, `RemoveSlot`, one each |
| `allocate_l1_slot_`, `flush_l1_slot_` | `Allocations`, `Flushed`: the set of outcomes, as the second level may refuse or evict |
| `prune_expired_l1_`, `expire_l1_slot_` | `Pruned`, `ExpireCache`, `PrunedStore`, `ExpireStore` |
| `put` | `PutCached`, `PutNew` |
| `get`, `exists` | `ReadCached`, `Promote`, `ReadBeneath`; what `get` returns is `View` |
| `remove`, `clear`, `begin()` | `RemoveKey`, `Clear`, `Iterate` |
| `sync` | `StartSync`, then `SyncDrop` or `SyncFlush` for each dirty slot from the last to the first, `SyncReturns` |
| power, clock | `Reboot` (the cache is gone), `Tick` |

A call is one step: between two of its writes nothing else runs. A power cut inside a call
leaves of each key what a cut before or after the call leaves, because a call other than `sync()` writes a
key once at most. `remove()` of the second level always answers true, as `FileStore`'s does. Times do not reach 2^32.

### Clock, HeapStore, TypedStore: how state and steps correspond to the code

* `ms` is the time since boot and `millis` what the board shows of it. `low32[u]`, `high32[u]` are the
  static variables of the copy of `time()` in translation unit `u` (the function is `static`, in a header).
  `called[u]` is history: when the unit last called. `Tick` lets no unit stay away from `time()` for a whole
  period of `millis()`.
* `data`, `policy_ttl_secs`, `policy_max_recs` are the members. The stamp of a record is the default argument
  of `put`, which the compiler evaluates in the caller's unit; all else calls the `time()` of the unit whose
  copy of the template is linked. There are two units: `"caller"` and `"store"`.
* `pos`, `entry`, `current` are the map iterator, the copy `HeapStore::iterator` makes and the decoded entry of
  `TypedStore::iterator`; `seen` (history) is what the caller has been given.
* `last` is history: the record put last under each key and the true time it was born. `call` is the last call.

| Code | Definitions |
|---|---|
| `put` | `Put`: `Purged`, then `Evicted`, then the record |
| `get` | `Get` (changes state if the record has expired, and the clock's statics if it may expire); what it returns is `View`, what `TypedStore` makes of it `TypedView` |
| `remove`, `clear`, `init`, `set_ttl_secs`, `set_max_recs` | `Remove`, `Clear`, `set_ttl_secs`, `set_max_recs` |
| `begin`, `++`, `load` of both iterators | `Begin`, `Advance`, `Next_pos`, `Load`, `TypedLoad`; `Finish` drops the iterator |
| `time`, `set_time_offset` | `Time`, `TimeCalled`, `set_time_offset` |

### Adapters, Files: how state and steps correspond to the code

* `adapter` is the one the program was built with. `PosixOpen`, `PosixFile`, `PosixInit` and so on say what
  each makes of the modes, how its `FileImpl` counts, buffers and syncs, and how `init` checks.
* `tree` gives names their files; `content` and `durable` are the bytes of a file as the program reads them and as
  a power cut may leave them. A handle is a `FileImpl` with all the `File` copies that share it: `ino`, what
  its mode allows (`can`), `pos`, the adapter's counter `available`, and `pending`, what the C library holds in
  its buffer. `alone` and `version` are history: no other handle has written since, and what a handle that
  only reads saw when it was opened. `flushed` is history too.

| Code | Definitions |
|---|---|
| `FileSystem::open` and `open` of each adapter | `Open`, `OpenFails` (which may have removed the file already) |
| `File::read`, `write`, `seek`, `flush`, `close` | `ReadByte`, `Read`, `Write`, `BufferedWrite` (stdio), `Seek`, `Flush`, `Close` |
| `remove`, `rename`, `FileSystem::writeFile` | `Remove`, `Rename`, `writeFile` |
| `init` with its check, `format` | `Mount` |
| the power | `PowerCut` |

The libraries beneath are external. What the model takes of them: a file keeps what was last synced and may lose
what came later; names are kept at once, so a cut inside `writeFile` may find the old file removed and nothing in its place; the
libraries other than C's refuse to write, remove or replace a file that is open, the C library does not;
a write stores what there is room for, and what a power cut leaves fits on the medium too. `FILE_O_WRITE` of FlashFS and InternalFS appends, as the source says
(`Adapters/FlashFSFileSystem.h`, `open`). C wants a flush or a seek between a write and a read of a stream,
and callers obey.

### Simplifications of FileStore

* A record is one cell. The record header, the CRC, the commit marker and the 512-byte write buffer
  are abstracted to "whole" or "torn"; a record that spans two flushes cannot be half
  written by a put that then returns false.
* A full segment is one of `SegRecs` records: the size test of `rotate_segment_if_needed` counts records.
* `finalize_compaction` removes all segments in one step: when it runs at most one is left. `ClearReopen`
  creates `index.dat` and segment 0 in one step. `DropSource` with nothing to delete is still a step.
* A half written entry of `index.dat` loses the entries behind it. In the file they may also be
  misread as other entries.
* `rename` replaces an existing file (`Adapters/PosixFileSystem.h:298`), or fails and changes nothing. What may fail
  (`Faults`): opening or writing `compact.tmp` and `journal.dat`, writing a record, and renaming `compact.tmp`.
  What does not: opening `index.dat` or a segment, writing `index.dat`, reading, and removing a file. A
  journal that cannot be written is as it was, gone or torn (`WriteJournal`).
* The clock moves only between calls and does not go back at a reboot. On a board without a clock it does
  (`Utility.h:51`).
* The policies are constants of a run; `set_ttl_secs` and `set_max_recs` in the life of a
  store are not modelled. Offsets stay below 2^24 and the eviction penalty below 2^32.
* `put` and `get` refuse keys and values that are too long before anything else; the model's callers do not
  pass them.

## 3. The runs

The first five runs, and the two that end in a violation, use `MCFileStore`. Unless the run says otherwise there are two keys, two
values, and two segments of two records: enough for a rotation, a compaction with records in
both segments, an overwritten record and a removed one. `MaxOffset` stops calls from growing
a segment further; it is never below `SegRecs`, so rotation always happens. `MaxDead` keeps the counter of dead records finite where compactions fail. Keys are symmetric where nothing in the run
tells them apart.

| Run | Instance | Shows |
|---|---|---|
| `rotate` | 3 segments, compaction also at 60 % dead; put, remove, clear, reboot, loss of `index.dat` between boots | `Durable`: every key reads as the answers promised. `IndexSound`: each index entry points at a record of its own key with the same metadata, which `get()` relies on without checking. `LogReplays`: the index can be rebuilt from the log at any moment. `Compacted`: a compaction leaves segment 0 with one record per indexed key. `AppendsWhereIndexed`: the next put is indexed where it will be written. `DeadCounterHonest`: the counter behind the threshold never promises more than a compaction can reclaim. `DInv`, the invariant of section 4, with boots that find no `index.dat` |
| `crash` | power cuts between any two writes while no compaction runs, while nothing has been deleted, and between COMMIT and the rename; torn records in the log and in `compact.tmp`; records with and without a lifetime, a clock to 1, `get()` | `Durable` and `IndexFileReplays` across them: an interrupted call happened as a whole or not at all, and a record that `get()` has dropped as expired stays so when `index.dat` brings its entry back. `NothingLost`: at every step some file holds each promised value. `DInv`: the inductive invariant of section 4. `ImplementsKVStore`: across power cuts and reboots the store is the abstract one. `JournalMovesForward`: from the first deletion on the journal only advances until `compact.tmp` is segment 0 |
| `expire` | three keys, `MaxRecs = 2`, segments of two records, so that puts evict while expired entries are still in the index; two records of one kind that differ in age, one of them stamped in the future, and one whose priority costs it 50 seconds; a clock to 2; put, remove, clear, get | `ImplementsKVStore`: eviction picks what the abstract store may evict, the older of two like records, and what is expired is what that calls expired. That the oldest of all goes does not hold, see below. `EInv`: the invariant that the proof of it needs (section 4). `NothingLost` with eviction and expiry before, during and after a compaction |
| `failing` | one key, one value, segments of one record; every call (also after `close()`), every I/O error of `Faults` but a failing journal, power cuts at every step, every torn write | `TypeOK`; `DeletesAreJournaled`: no step but `clear()` deletes a segment the journal does not cover |
| `live` | one value, segments of one record, compaction at 50 % dead, eviction, records that cannot be read back, failing compactions, journals and renames, reboots | `CallsReturn`: every call returns and every boot completes |
| `tiered` | three keys, two values, two slots, two hash buckets; refused writes of the second level, power cuts also inside `sync()` | `Coherent`: a value put is read back through every eviction, promotion and sync. `CrashSafe`: after a power cut a key has the value it had when `sync()` last returned true, or one put since, and never a removed one. `EachOnce`: `size()` counts and the iterator yields each readable key once. `TieredInv`: the inductive invariant of section 4, in the middle of `sync()` as well |
| `lru` | four symmetric keys of one bucket, three slots, so that slots leave from the middle of list and chain; a lifetime of one second | `WellLinked`: the list, from both ends, and the chains hold exactly the valid slots. `EvictsLeastRecent`: the list is the order of use |
| `policies` | two keys, two slots, lifetimes of 0 and 2 seconds, a clock to 2, `MaxRecs = 1` in the second level; all calls but `get()`, which promotes without an expiry (see below) | `TypeOK`; `NeverStale`: no older version, expired value or removed value is ever read. `TieredInv` with eviction and expiry in both levels |
| `heap` | three keys, a limit of 0 or 2 records, a policy TTL of 0 or 2 s, both set at any time; records of all lifetimes, stamped now or in the past; `millis()` of 4 ticks, 2 to the second, 5 ticks of time, so that it rolls over once with ticks to spare; the offset raised once (set back, it would put existing stamps in the future, see below); differences of stamps modulo 64 (`SecWrap`) | `ReadsBack`: `get()` answers with the value last put until it has expired by the true time, is removed or evicted. `ClocksAgree`. `EvictsOnlyWhenFull`: no readable record goes except by a removal or for the room of a new key. `IterationComplete`: an iteration to the end, with reads on the way, gives each record that decodes once, with its value. `IteratorValid`: no call erases the record under an iterator. `HInv`: the invariant these rest on |
| `files` | all seven adapters; two names, two handles, two files; files up to 2 bytes on a medium of 2 (`Capacity`), so that it is full often; positions up to 2 (`MaxPos`), which in a shorter file are past its end; one buffered byte, one writer to a file (`MaxWriters`), `size_t` of 16 values, a test file of 1 byte for the 4 of `init`; one value of a byte, also for the gap that a write past the end leaves, so that a file is its length; the three modes that read, of which `ModeWrite` and `ModeAppend` are the same without reading | `AvailableIsRest`: the counter beside the position is the rest of the file, through reads, overwrites, extensions, short writes and seeks, and 0 past its end. `ReadersKeepVersion`: a reader keeps its file when the name is removed, renamed or rewritten. `FlushSurvives`: what was flushed survives a power cut, whatever happened to names and handles since. |

Fairness is used in `live` only: weak fairness of `Progress`, the steps of a call or a boot in progress
other than a full storage, which may happen but is never forced: a copy loop that hangs must not be rescued by an
error. A processor that has power executes the next instruction, and no step of a call waits for
anything. Nothing is assumed of callers or the environment: the run has no power cut because a
power cut at every boot would keep the store from ever coming up.

Two more runs check what the repository says of the program and find it violated. Each is
a setting away from a run that passes:

| Run | Setting | What happens |
|---|---|---|
| `swap_crash` | power cut after the rename of `compact.tmp` | the journal still says COMMIT: recovery deletes segment 0, then finds no `compact.tmp`. All data is lost (`FileStore.h:1316-1325`) |
| `manual_compact` | the caller calls `compact()` | nobody opens a segment afterwards: later puts go to a deleted file (`FileStore.h:1359`) |

Further disagreements show when a passing run is changed (lines of `FileStore.h` unless named):

* `failing` with `"journal"` in `Faults`: `write_journal` tells nobody when `journal.dat` cannot be opened or written, and
  `compact()` deletes the source segment all the same (`:1226`, `:1514`). The comment at `:1433` has the journal updated
  before; `DeletesAreJournaled` is violated.
* `expire` with the property `OldestEvicted`: a put may evict a newer record, even the one just put, because its priority
  and TTL cost it more than age (`:950`). The user guide (line 387) and the comment at `:340` of
  `test/test_file_store/test_file_store.cpp` disagree: the first has the oldest record evicted, the second wants the penalty.
* `crash` with `Crashes = {"quiet", "copying", "partial"}`: power fails while source segments are being deleted.
  `compact.tmp` becomes segment 0, but the old `index.dat` is loaded: keys read as absent or as another key's
  value (`:1296`, `:171`), though the user guide (line 601) has the index rebuilt.
* `crash` with `Crashes = {}`, `Faults = {"tmp_write"}`, `MaxOffset = 6`: storage fills up after the first deletion; the
  next compaction truncates the `compact.tmp` that holds the only copy (`:1417-1421`), so `NothingLost` fails. The comment
  at `:1530` leaves it for the next boot.
* `crash` with `"clear_on_init"` in `Ops`: `clear()` leaves journal and `compact.tmp` behind, and recovery restores
  the old records (`:229`, `:169`), where the user guide (line 223) says "wipe everything".
* `crash` with `TornWrites = {"index"}`: entries appended behind a torn one are lost, though the user guide
  (line 89) has a truncated index rebuilt (`:1068`).
* `expire` with `"reboot"` in `Ops` and the invariant `Durable`: `index.dat` still has the evicted key, and the boot
  may keep it (`:315`), which the user guide (lines 106 and 387) excludes.
* `policies` with `"get"` in `Ops`: the copy of a promoted record has no expiry and is read after its TTL
  (`TypedTieredStore.h:134`), which the user guide (lines 105 and 372) excludes.
* `heap` with a payload whose `ahead` is 1: a record stamped in the future expires at once (`HeapStore.h:90`),
  unlike in `FileStore`, so `ReadsBack` fails. So does a record put before `set_time_offset` lowers the offset
  (`SetBack = TRUE`; `Utility.h:47` takes any value).
* `heap` with `"reread"` in `Ops`: `get()` of an expired record erases it while an iterator stands on it
  (`HeapStore.h:142`), so `IteratorValid` fails.
* `heap` without the second conjunct of `Tick`: a unit that does not call `time()` for 49.7 days
  misses a roll-over (`Utility.h:53`).
* `crash` with `IndexLoss = TRUE`: records appended behind a torn record are out of reach of the
  rebuild (`:1176`, `:1385`).
* `crash` with `Faults = {"append"}`: `flush_buffer()` ignores a short write, `put()` returns true (`:903`).
* `rotate` with `EmptyKeys = {k1}` and no symmetry: `put()` accepts an empty key, which ends
  every later scan of the log (`:1336`).
* `tiered` with `MaxRecs = 1`: `in_l2` stays true when the second level evicts the record, so `size()` and the
  iterator miss a key that `get()` finds (`TypedTieredStore.h:194`).
* `tiered` with `Lifetimes` and a clock to 2: `sync()` drops a dirty value when the older record in the
  second level has expired (`TypedTieredStore.h:206`). A test wants this where the record was removed.
* `expire` with a payload whose TTL is 2^24 + 1: the index keeps 24 bits of it (`:923`).

More can be read off the code and needs no run:

* `compact_if_threshold()` ignores the cooldown that the user guide (line 406) promises (`:1250`).
* `remove()` never rotates, so a caller that only removes outgrows the fixed segment size (`:515`).
* `HeapStore` evicts the smallest keys (`HeapStore.h:98`), where the user guide (line 106) has the oldest record
  evicted. Its `exists()` and `size()` count expired records (`HeapStore.h:204`; user guide, line 255).
* A value that `TypedStore`'s iterator cannot decode is given with the value of the entry before
  (`TypedStore.h:126`), because the answer of `decode()` is not looked at. `IterationComplete` speaks of values
  that decode.
* `init()` of LittleFS, SPIFFS, FlashFS and InternalFS, and of the POSIX adapter on ESP32, formats a medium on which its
  test file cannot be opened, whatever the reason, and one that is only full: the test file does not fit
  (`Adapters/LittleFSFileSystem.h:111-121`). A write of that file through stdio cannot fail, since `fwrite` only
  fills a buffer. Where `format()` does nothing (SD, POSIX on a host) a check that failed leaves the test file behind,
  and the model does not. `Mount` has these cases; no property speaks of them, because the repository does not
  say what `init()` keeps.
* `flush()` of stdio is `fflush`, not `fsync` (`Adapters/StdioFileSystem.h:179`); `FlushSurvives` leaves it out. `fclose`
  errors are lost with the bytes still buffered.
* `open(ModeWrite)` of FlashFS and InternalFS removes the file first; when the open then fails, the file is gone (`OpenFails`).
* `read()` into a buffer subtracts what it read from the counter, which wraps around when another handle has made the file
  longer (`Adapters/PosixFileSystem.h:135`). `AvailableIsRest` holds for handles that are alone.
* `test_available_after_write_overwrite` (`test/test_file_available/test_file_available.cpp:88`) has the file stay 10
  bytes long; under `O_APPEND` the write goes to its end.
* `seek()` answers with the new position (POSIX), 0 (stdio) or a truth value (the others), where
  `Adapters/InternalFSFileSystem.h:69` speaks of one interface contract.
* `rmdir()` of the C library adapters answers the wrong way round (`Adapters/PosixFileSystem.h:316`).

Every property of a passing run has a mutant in `PROJECT.json`: a definition marked `(bug)` next to the one
it replaces (a tombstone not logged, a journal entry off by one, a seek forgotten ...), under which the run
fails.

## 4. The proofs

Eight modules hold theorems or lemmas. `FileStoreProofs.tla` has, for every set of keys and payloads, any number of segments (at
least two), any limits, and all errors, torn writes and power cuts, those of the journal included but for the last:

* `Invariant`: `Spec => []IInv`.
* `TypeCorrect`: `Spec => []TypeOK`.
* `DeletesJournaled`: `Spec => DeletesAreJournaled`, if `"journal"` is not in `Faults`; section 3 shows why.

They rest on the two named assumptions of `FileStore.tla`: `Parameters` (what the constants
are) and `ModelValues` (the markers `None`, `Torn`, `NoFile`, `Closed`, `Unlinked` and `Tombstone` differ from
the values they stand beside).

`TypeOK` is not inductive. A step appends to `compact.tmp` or to the open segment, or updates `index.dat`,
and its result has a type only if that file exists; `finalize_compaction` and
`clear` remove files that handles are open on. So

    IInv == TypeOK /\ CallOK /\ FilesOK /\ JournalOK

where `CallOK` says which call may be at which step and for whom, `FilesOK` that a file written to exists
(apart from the steps that are about to put it back), and `JournalOK` that, where the journal can be written,
`drop_source` is reached only after it covers segment `cs`, and `remove_all` only under COMMIT. Each
conjunct is preserved by its own lemma (`CallPreserved`, `CallFiles` ... `OutageFiles`, `JournalPreserved`, and
one `...Type` lemma per group of steps), and `NextInvariant` collects them.
`DeletesJournaled` then goes through the steps that change `segs`: all but `DropSource`, `RemoveAll` and
`ClearSegment` leave existing segments in place, and `JournalOK` covers those three.

### What FileStore keeps

`DurabilityProofs.tla` and `RefinementProofs.tla` prove, for any keys, payloads, segments and limits and runs of any length,
under the assumption `Supported` of `Durability.tla`:

* `DurableAlways`, `NothingLostAlways`, `IndexSoundAlways`, `AppendsWhereIndexedAlways`, `CompactedAlways`: the invariants of those
  names. `IndexFileReplaysAlways` also assumes `MaxRecs = 0`: `index.dat` does not learn of evictions.
* `LogReplaysAlways`: what a scan of the segments gives is the index, if there are no power cuts and no record limit. Under the same
  restrictions the others hold with `index.dat` lost at any boot.
* `DeadCounterAlways`: `DeadCounterHonest`.
* `JournalMovesForwardAlways`: the action property.
* `Implements`: `Spec => ImplementsKVStore`, the refinement of the abstract store.
* `DurabilityInvariant` and `EvictionInvariant`, the inductive invariants behind them.

`Supported` leaves out the calls and failures after which the program does lose or revive a record. Each conjunct has its
counterexample in section 3:

| `Supported` | Without it |
|---|---|
| no empty key | it ends every later scan |
| a TTL below 2^24 | the index keeps 24 bits of it |
| no `compact()` by the caller, no call after `close()`, no `clearOnInit` | `manual_compact`; puts into no file; `clear()` leaves the journal |
| power cuts only while the disk says `quiet`, `copying` or `committed` | `swap_crash`, and the partly deleted segments; a cut inside `clear()` (hazard at `:235`) |
| torn writes only of a segment, of the journal and of `compact.tmp` | a torn `index.dat` hides what is appended behind it |
| I/O errors only of the opening of `compact.tmp` | short writes are answered with true; a failed copy leaves the only one behind; a failed journal leaves deletions uncovered; a failed rename in `finalize_compaction` removes `compact.tmp` |
| `index.dat` lost only where there are no power cuts and no record limit | a rebuild does not reach behind a torn record, and finds evicted ones |
| a record limit only without power cuts and reboots | `index.dat` brings evicted records back |

All of it is what a run can set: `rotate`, `crash` and `expire` satisfy it, so no theorem is empty.

`Durable` speaks of the moments between calls, and of the index in RAM. In between, something else tells the values, and the code
moves from one to the next. `DInv` says for each program point which it is:

* the index in RAM with the segments (`RamOK`): always but between a boot and `load_index`, in the middle of a
  compaction, and in `clear`;
* `index.dat` with the segments (`DiskOK`): until the first source segment goes, and again once it has been rewritten;
  this is what a power cut falls back to;
* while segments are copied and dropped, either a segment not yet passed or `compact.tmp` (`CopyOK`: a live record has been copied or is at home,
  and `compact.tmp` has nothing else);
* from COMMIT to the rename, `compact.tmp` alone (`CommitOK`).

To tell a value is `Fits`: the entry points at a record of that key with the entry's metadata, whose value is worth at the
present time what the key should hold; no entry, if that is nothing. "Should hold" is `May`: what was promised, the call in progress having taken
effect or not, and after a power cut either. The other conjuncts are what it takes to keep that up: whose turn it is (`TurnOK`), what
the journal and the files are at each step (`StageOK`, `IndexFileOK`), that the next record lands where its entry will point
(`AppendOK`), that `compact.tmp` has one record per key (`DistinctOK`, for `Compacted`), how far `index.dat` may lag (`MirrorOK`, for
`IndexFileReplays`), and what a scan of the segments finds (`LogOK`, for `LogReplays` and for boots without `index.dat`). Each has one lemma, `...Kept`, with one case per group of steps; `Keeps` and `HomeKept` carry entries over steps that only add
records, `FitsLater` over the clock, `Segment0Fits` over the scan of the new segment 0, `CopyEffect` over the copy of a record.

`LogOK` speaks of the order of the log, which nothing else does: a scan gives for each key its last record in the last segment that has one. `ReplayProofs.tla`
says how this changes. An append to the last segment replaces the entry of its key (`ReplayedAppend`), a new empty segment changes nothing
(`ReplayedOpen`), and when only segment 0 is left, the scan gives what `compact.tmp` holds (`ReplayedSegment0`). So `LogOK` has no segment after the
one that is written (`InOrder`), no torn record that would hide what is behind it (`Whole`), a scan that agrees with `index.dat` but for the key of
the call in progress (`SameEntries`, `LastEntry`), and with the index in RAM when `index.dat` is about to be written from it (`ScanIndex`).
While a compaction deletes segments a scan misses what `compact.tmp` holds, and `clear` deletes everything, so `LogTells` leaves these steps out.

`DeadCounterHonest` compares the counter with the values in the log that no entry leads to. It has an invariant of its own beside `DInv`,
`DeadOK`: after a boot, a `clear` and a compaction the counter is 0, and wherever it counts, counter and entries
together are no more than the values in the log. With the counter at 0 this says that entries are never more than values, which holds because `DInv` has every entry lead
to a record of its own key (`EntriesFit`). From there a put adds one value and either an entry or a dead record, a
removal turns an entry into a dead record, an eviction some entries into as many (`AppendCount`), and `get()` drops an expired entry without counting it, which is why the
counter may fall short. It does not matter what a torn record leaves behind, so `Supported` is enough. TLC finds no violation of `DeadOK` on the
instances of `rotate`, `crash` and `expire`.

The refinement maps the map of `KVStore` to `Contents`: between calls the record whose worth `get()` returns, during a call the one
promised before it. By `DInv` both are `promised` (`ContentsPromised`), so it is enough to say what each step does to `promised`
(`AbstractStep`): the return of a call does what its name says (`ReturnStep`), the end of a reboot completes
the call that power cut short or drops it (`ResolveStep`), the clock ticks, and all other steps do nothing.
What remains is the set of keys a put evicts. The code chooses it among the entries of its index, `KVStore` among the records. `EInv`
says that under a limit an entry leads to the very record promised, expired or not, so that of two like records the older ranks first (`RanksByAge`); that a key
missing from the index has expired (then `KVStore` may drop it too); and that the index is within the limit at every step, so that a compaction
before or after the append evicts nothing more (`NothingToEvict`).

`FilesProofs.tla` has, for every adapter and any number of names, files and handles, any capacity and any power cuts:

* `FilesInvariant`: `Spec => []IInv`.
* `FilesTypeOK`: `Spec => []TypeOK`.
* `CounterIsRest`: `Spec => []AvailableIsRest`, with the buffer of stdio too.
* `ReadersKept`: `Spec => []ReadersKeepVersion`.
* `FlushedSurvives`: `Spec => FlushSurvives`.

They rest on `FilesParameters` (`Files.tla`) and `BoardParameter` (`Adapters.tla`).
None of these properties is inductive. A version survives because no step writes to a file without taking the vouching
from its other readers; but `seek`, `flush` and `close` write too, when the C library has bytes buffered,
so `HandleOK` says that only a handle that writes, under a buffering adapter, has any, and that only a handle that
does not write vouches. A new file must be one that nobody has open: `FreshUnused` shows it for the smallest unused number, and
`LiveInodes` that names and handles stay within `Inodes`. What was flushed survives because of `OnMedium`: a
file in `flushed` reads the same from the medium. `BecomeKeeps` shows once that a step given by its new names,
contents and handles keeps the invariant, freeing included; `HandleStep`, `ReadStep`, `DrainStep` and `NamesStep` apply it to
the kinds of calls, and one `...Keeps` lemma per action applies those.

The counter needs more: how long files are. stdio counts a write before it knows that it fits, and a counter that is right for
the file as it should become is right for the file as it is only if a write is cut short behind the old end, never before
it. That is so because the medium is never overfull (`StoredFacts`): `Room` is not negative. `FInv == IInv /\ Sizes` says
so: `Sizes` bounds what all files take up by `Capacity`, and each file also as a cut may leave it, and has every open handle `Measured`:
what it buffers lies within the medium, its position within `MaxPos`, and where it is alone and does not append, its counter
is what is `Behind` its position: nothing, if that is past the end. TLC finds no violation of `Sizes` on the instance of `files`. What files take up is a fold over all of them;
`AllFiles` is the induction over sets of files (a smallest set for which a statement fails, by `AllNumbers`), which gives its
arithmetic: one file changes (`UsedChange`), files shrink or are freed (`UsedLess`, `UsedFreed`), one is part of the whole
(`UsedAtLeast`). One `...Sizes` lemma per call applies those. An append, and a file that two handles write, are outside of what
`AvailableIsRest` says, see section 3.

`ClockProofs.tla` has, for any period of `millis()` and any calls of the stores in any order:

* `ClockInvariant`: `Spec => []ClockInv`.
* `AllClocksAgree`: `Spec => []ClocksAgree`.

They rest on `ClockParameters`, and on the guard of `Tick`: a unit calls `time()` at least once in a period.
`ClocksAgree` compares numbers and says nothing of the static variables; `ClockInv` says that each unit's pair is
quotient and remainder of the moment of its last call, less than a period ago. The arithmetic is in
`OneRollOver`: less than a period apart, the remainder has become smaller exactly when a multiple of the period lies
between.

`HeapProofs.tla` has, for any number of keys, any records, lifetimes and limits, and policies that change at any time:

* `HeapTypeOK`: `Spec => []TypeOK`.
* `HeapReadsBack`: `HonestStamps => (Spec => []ReadsBack)`.
* `HeapEvictsOnlyWhenFull`: `Spec => EvictsOnlyWhenFull`.
* `IterationIsComplete`: `Spec => []IterationComplete`.
* `HeapInvariant`: `HonestStamps => (Spec => []HInv)`, behind the second and the fourth.
* `IteratorStaysValid`: `Spec => []IteratorValid` when `"reread"` is not in `Ops`.

They rest on `HeapParameters`, `TypedParameters`, `ClockParameters` and `NoneIsNoRecord` (no record is the marker for
none). `HonestStamps` says that callers do not put a time to come or set the clock back and that the seconds fit into the 32 bits of a stamp, 136
years; without it the code answers otherwise (section 3). The other theorems do not need it.

`ReadsBack` is not inductive: a record that has expired under one policy and that nothing has dropped comes back when the policy
is changed, so the invariant has to speak of records nobody can read. `Remembered` (part of `HInv`) ties each record in the
map, expired or not, to the one callers remember, and `StampsPassed` keeps all stamps in the past, so that the unsigned difference is the
true age. By `ClocksAgreeNow` the store's clock reads the true time, and `ExpiredIsLapsed` concludes that store and
callers agree on what has expired. `EvictedCount` counts: the number of smaller keys maps the held keys one to one onto the
numbers below their count, so the keys with rank below `n` are `n`. `GivenSoFar` says what an iterator has given at any point of the way:
the decodable records up to its position, each once; since it moves to the next key held (`IteratorMoves`, on `MinOfKeys`),
and reads take records away but change none, each step keeps it.

### What TypedTieredStore keeps

`TieredProofs.tla` has, for any keys and payloads, any number of slots and buckets, any hash function, refused writes, power cuts, and
any limits of the second level but where a theorem says otherwise:

* `TieredTypeOK`: `Spec => []TypeOK`.
* `WellLinkedAlways`: `Spec => []WellLinked`, list and chains.
* `EvictsLeastRecentAlways`: `Spec => []EvictsLeastRecent`.
* `TieredInvAlways`: `Spec => []TieredInv`, the agreement of the two levels with what callers were told.
* `NeverStaleAlways`: `Spec => []NeverStale`, if `KeepsExpiry`.
* `CoherentAlways`: `Spec => []Coherent`, if `Lossless`.
* `CrashSafeAlways` and `EachOnceAlways`: `Spec => []CrashSafe` and `Spec => []EachOnce`, if `Lossless` and `Everlasting`.

They rest on `CacheParameters` and `NoneIsNoRecord`. The three conditions in the list are there because the code does otherwise
without them:

| Condition | Says | Without it |
|---|---|---|
| `KeepsExpiry` | `get()` is not called, or nothing has a lifetime | a promoted copy has no expiry (`TypedTieredStore.h:134`) |
| `Lossless` | the second level has no limit and no policy TTL, and neither `get()` nor `sync()` is called where records have lifetimes | a limit takes records away, which is no error of the cache; `sync()` drops a dirty value over an expired one (`:206`) |
| `Everlasting` | no record has a lifetime | an expired record beneath the cache is still in the count of `in_l2` (`:194`), and a power cut may fall back to nothing |

`tiered` satisfies all three, `policies` satisfies `KeepsExpiry` with lifetimes and a limit. The invariant is

    IInv == TypeOK /\ CacheOK(l1, recent) /\ TieredInv

`CacheOK` is about the links. `WellLinked` and `EvictsLeastRecent` speak of walks, and an operation that relinks a slot changes every walk through it, so
they say little about what a step does. `CacheOK` gives each slot in use two ranks instead, one for the list and one for its chain. `Threaded` says that
each pointer leads to the slot with the next lower rank, `ListOf` that `next` does so by the ranks and `prev` by their negatives, `ChainsOf` that
`hash_next` does within each bucket, and `Ordered` that the ranks in the list are the order of use. To link a slot at the front is to give
it a higher rank than all others (`ThreadFront`; `ThreadBack` for the other direction), and to unlink one is to leave it out (`ThreadOut`). From these
each of `link_*` and `unlink_*` has an `...Effect` lemma, what it assigns, and one that says what this does to the ranks; `RemoveOK`, `FillOK`, `TouchOK` and
`ExpireOK` put them together for the operations on slots, and `FindOK` says that `find_l1_` finds the slot of a key if there is one.
`ThreadWalk` leads back to walks: one along a `Threaded` list visits each of its slots once and ends. It is an induction on the steps of the walk, done with
`AllNumbers`, a least counterexample.

`TieredInv` is about the data, key by key. `SlotOK` ties a slot to the record beneath it, the value callers remember and those a power cut may
leave; `RecordOK` does so for the second level; and `Below` says that a record which no dirty slot covers is the one remembered. `Coherent` and its
siblings speak only of what can be read, so none of them is inductive: a stale record under a dirty slot is harmless until that
slot is flushed, dropped, expired or lost. `AgreeElsewhere` says once that a step that touches one key keeps `Agree` for the others; what remains
is that key, in `FlushOK` (the four outcomes of writing a slot back), `AllocateOK`, `PruneOK` and one `...OK` lemma per call. `LaterOK` carries `Below` over
the clock: a record and the memory of it expire at the same moment. `SyncOK` says what the loop of `sync()` has still to do, so that on its return with true
no slot is dirty and each key can fall back only to its present value.

Only model-checked: liveness (`CallsReturn`), which is out of the proof system's reach, and the two counterexamples
of section 3.

## 5. Not modelled

* The iterator, `size()` and `dumpInfo` of `FileStore`, and `exists()`, `size()` and `dumpInfo` of `HeapStore`, which
  change no state.
* The byte formats of `Codec` and the CRC of a record or a `File`. A value decodes or does not, a record is whole
  or torn.
* In `File`, the running CRC, which no store verifies; directories; sizes of the storage; `NoopFileSystem`, which
  answers false to everything. A medium that a library cannot mount at all.
* `Stream.h`, `Print.h`: Arduino's stream classes, copied for native builds; `Log.h`.
* The tests, which are read as statements of intent; the examples, boards and variants, which call the stores and have
  no logic of their own.

## 6. Plan

Done: `KVStore`, `FileStore`, `TieredStore`, `Clock`, `HeapStore`, `TypedStore`, `Adapters`, `Files`, their properties and
runs; of `FileStore` types, journal discipline, durability and the refinement proved; all of `TieredStore` and of `heap`, the clock
and `Files`.

Left: `evicts_before` in the widths of the code: that it is a strict weak order (what `std::partial_sort` needs), that
the linear scan and the partial sort agree, and where it overflows.
