---------------------------- MODULE ReplayProofs ----------------------------
(***************************************************************************)
(* What a scan of the segments finds: how rebuild_index_from_segments()    *)
(* sees what open_segment(), an append and finalize_compaction() do to     *)
(* them, for any number of keys, segments and records.                     *)
(***************************************************************************)
EXTENDS FileStoreProofs

SegmentFiles == [Segments -> File \cup {NoFile}]

\* rebuild_index_from_segments() of the segments S.
Replayed(S) ==
    [k \in Keys |->
        LET hits == {s \in Segments : RecordsOf(S[s], k) # {}} IN
        IF hits = {} THEN None
        ELSE LET s == Max(hits)
                 i == Max(RecordsOf(S[s], k))
             IN IF S[s][i].data = Tombstone THEN None
                ELSE EntryFor(s, i - 1, S[s][i].data)]

\* The scan of the model is Replayed of the segments, before a step and after it.
LEMMA RebuiltReplays ==
    RebuiltIndex = Replayed(segs) /\ RebuiltIndex' = Replayed(segs')
BY DEF RebuiltIndex, Replayed

\* It stays what it is while the segments do.
LEMMA SameLog == UNCHANGED segs => RebuiltIndex' = RebuiltIndex
BY RebuiltReplays

\* Record i of segment s is the last one of k.
LastRecord(S, k, s, i) ==
    /\ s \in Segments /\ i \in RecordsOf(S[s], k)
    /\ \A j \in RecordsOf(S[s], k) : j <= i
    /\ \A t \in Segments : t > s => RecordsOf(S[t], k) = {}

\* The segments and the records that hold something of a key have a last one.
LEMMA LastOfRecords ==
    ASSUME NEW f \in File, NEW k, RecordsOf(f, k) # {}
    PROVE  LET i == Max(RecordsOf(f, k)) IN
           i \in RecordsOf(f, k) /\ \A j \in RecordsOf(f, k) : j <= i
<1>1. RecordsOf(f, k) \in SUBSET (0..Len(f)) /\ Len(f) \in Nat
  BY ScanType DEF File
<1>2. /\ Max(RecordsOf(f, k)) \in RecordsOf(f, k)
      /\ \A j \in RecordsOf(f, k) : Max(RecordsOf(f, k)) >= j
  BY <1>1, MaxInSet
<1>3. \A j \in RecordsOf(f, k) : j \in Int
  BY <1>1
<1> HIDE DEF Max
<1> QED BY <1>2, <1>3

\* The last of some segments is one of them, and none behind it is.
LEMMA LastOfSegments ==
    ASSUME NEW hits \in SUBSET Segments, hits # {}
    PROVE  Max(hits) \in hits /\ \A t \in Segments : t > Max(hits) => t \notin hits
<1>1. hits \in SUBSET (0..SegCount - 1) /\ SegCount - 1 \in Nat
  BY Parameters DEF Segments
<1>2. Max(hits) \in hits /\ \A t \in hits : Max(hits) >= t
  BY <1>1, MaxInSet
<1>3. \A t \in Segments : t \in Int
  BY DEF Segments
<1> QED BY <1>2, <1>3

\* A key has no record at all, or a last one.
LEMMA LastExists ==
    ASSUME NEW S \in SegmentFiles, NEW k
    PROVE  \/ \A s \in Segments : RecordsOf(S[s], k) = {}
           \/ LET hits == {s \in Segments : RecordsOf(S[s], k) # {}}
                  s == Max(hits)
              IN hits # {} /\ LastRecord(S, k, s, Max(RecordsOf(S[s], k)))
<1> DEFINE hits == {s \in Segments : RecordsOf(S[s], k) # {}}
           s == Max(hits)
<1> SUFFICES ASSUME hits # {} PROVE LastRecord(S, k, s, Max(RecordsOf(S[s], k)))
  OBVIOUS
<1>1. s \in hits /\ \A t \in Segments : t > s => t \notin hits
  <2>1. hits \in SUBSET Segments
    OBVIOUS
  <2> HIDE DEF hits
  <2> QED BY <2>1, LastOfSegments
<1> HIDE DEF s
<1>2. s \in Segments /\ S[s] \in File /\ RecordsOf(S[s], k) # {}
  BY <1>1 DEF RecordsOf, SegmentFiles
<1> QED BY <1>1, <1>2, LastOfRecords DEF LastRecord

\* There is only one last record.
LEMMA LastOnce ==
    ASSUME NEW S \in SegmentFiles, NEW k, NEW s, NEW i, NEW t, NEW j,
           LastRecord(S, k, s, i), LastRecord(S, k, t, j)
    PROVE  s = t /\ i = j
<1>1. s \in Int /\ t \in Int /\ s = t
  BY DEF LastRecord, Segments
<1>2. S[s] \in File
  BY DEF LastRecord, RecordsOf, SegmentFiles
<1>3. i \in Int /\ j \in Int
  BY <1>1, <1>2, ScanType DEF LastRecord
<1> QED BY <1>1, <1>3 DEF LastRecord

\* The last record of a key decides, and where there is none nothing is
\* indexed.
LEMMA ReplayedLast ==
    ASSUME NEW S \in SegmentFiles, NEW k \in Keys, NEW s, NEW i, LastRecord(S, k, s, i)
    PROVE  Replayed(S)[k] = IF S[s][i].data = Tombstone THEN None
                            ELSE EntryFor(s, i - 1, S[s][i].data)
<1> DEFINE hits == {x \in Segments : RecordsOf(S[x], k) # {}}
           t == Max(hits)
           j == Max(RecordsOf(S[t], k))
<1>1. s \in Segments /\ RecordsOf(S[s], k) # {}
  BY DEF LastRecord
<1>2. hits # {} /\ LastRecord(S, k, t, j)
  BY <1>1, LastExists
<1>3. Replayed(S)[k] = IF S[t][j].data = Tombstone THEN None
                       ELSE EntryFor(t, j - 1, S[t][j].data)
  BY <1>2 DEF Replayed
<1> HIDE DEF t, j
<1> QED BY <1>2, <1>3, LastOnce

\* A key without a record in any segment has no entry.
LEMMA ReplayedNone ==
    ASSUME NEW S, NEW k \in Keys, \A s \in Segments : RecordsOf(S[s], k) = {}
    PROVE  Replayed(S)[k] = None
<1>1. {s \in Segments : RecordsOf(S[s], k) # {}} = {}
  OBVIOUS
<1> QED BY <1>1 DEF Replayed

\* Segments with the same records of a key give it the same entry.
LEMMA ReplayedSame ==
    ASSUME NEW S \in SegmentFiles, NEW T \in SegmentFiles, NEW k \in Keys,
           \A s \in Segments :
              /\ RecordsOf(T[s], k) = RecordsOf(S[s], k)
              /\ \A i \in RecordsOf(S[s], k) : T[s][i] = S[s][i]
    PROVE  Replayed(T)[k] = Replayed(S)[k]
<1>1. CASE \A s \in Segments : RecordsOf(S[s], k) = {}
  BY <1>1, ReplayedNone
<1>2. ASSUME NEW s, NEW i, LastRecord(S, k, s, i) PROVE Replayed(T)[k] = Replayed(S)[k]
  <2>1. LastRecord(T, k, s, i) /\ T[s][i] = S[s][i]
    BY <1>2 DEF LastRecord
  <2> QED BY <1>2, <2>1, ReplayedLast
<1> QED BY <1>1, <1>2, LastExists

---------------------------------------------------------------------------
(* What the store writes, as a scan sees it                                *)

\* Nothing half-written and no empty key stops the scan.
LEMMA ScanWhole ==
    ASSUME EmptyKeys = {}, NEW f \in File, \A i \in DOMAIN f : f[i] # Torn, NEW k
    PROVE  RecordsOf(f, k) = {i \in 1..Len(f) : f[i].key = k}
<1>1. DOMAIN f = 1..Len(f) /\ Len(f) \in Nat /\ f # NoFile
  BY ModelValues DEF File
<1>2. Scanned(f) = 1..Len(f)
  <2> SUFFICES ASSUME NEW i \in 1..Len(f), NEW j \in 1..i PROVE j \in DOMAIN f
    BY <1>1 DEF Scanned
  <2> QED BY <1>1
<1> QED BY <1>1, <1>2 DEF RecordsOf

\* A segment that open_segment() creates is empty.
LEMMA ReplayedOpen ==
    ASSUME segs \in SegmentFiles, NEW id \in Segments, OpenSegment(id)
    PROVE  RebuiltIndex' = RebuiltIndex
<1>1. segs' \in SegmentFiles /\ \A s \in Segments : segs[s] # NoFile => segs'[s] = segs[s]
  BY OpenType DEF SegmentFiles
<1>2. \A s \in Segments : segs'[s] = segs[s] \/ (segs[s] = NoFile /\ segs'[s] = <<>>)
  BY DEF OpenSegment, SegmentFiles
<1>3. \A k : RecordsOf(<<>>, k) = {} /\ RecordsOf(NoFile, k) = {}
  <2>1. Scanned(<<>>) = {}
    BY DEF Scanned
  <2> QED BY <2>1 DEF RecordsOf
<1>4. ASSUME NEW k \in Keys PROVE Replayed(segs')[k] = Replayed(segs)[k]
  <2>1. \A s \in Segments : /\ RecordsOf(segs'[s], k) = RecordsOf(segs[s], k)
                            /\ \A i \in RecordsOf(segs[s], k) : segs'[s][i] = segs[s][i]
    BY <1>2, <1>3
  <2> QED BY <1>1, <2>1, ReplayedSame
<1>5. Replayed(segs') = Replayed(segs)
  BY <1>4 DEF Replayed
<1> QED BY <1>5, RebuiltReplays

\* An append to the last segment that exists decides for its key, and leaves
\* the others what they have.
LEMMA ReplayedAppend ==
    ASSUME EmptyKeys = {}, segs \in SegmentFiles, NEW a \in Segments, segs[a] # NoFile,
           \A i \in DOMAIN segs[a] : segs[a][i] # Torn,
           \A s \in Segments : s > a => segs[s] = NoFile,
           NEW c \in Cell, segs' = [segs EXCEPT ![a] = Append(@, c)],
           NEW k \in Keys
    PROVE  RebuiltIndex'[k] =
               IF k # c.key THEN RebuiltIndex[k]
               ELSE IF c.data = Tombstone THEN None
               ELSE EntryFor(a, Len(segs[a]), c.data)
<1> DEFINE f == segs[a]
           n == Len(f)
           g == Append(f, c)
<1>1. f \in File /\ n \in Nat /\ DOMAIN f = 1..n
  BY DEF SegmentFiles, File
<1>2. g \in File /\ g # NoFile /\ Len(g) = n + 1 /\ DOMAIN g = 1..(n + 1)
      /\ g[n + 1] = c /\ \A i \in 1..n : g[i] = f[i]
  BY <1>1, AppendType DEF File
<1>3. segs'[a] = g /\ \A s \in Segments \ {a} : segs'[s] = segs[s]
  BY DEF SegmentFiles
<1>4. segs' \in SegmentFiles
  BY <1>2 DEF SegmentFiles
<1>5. \A i \in DOMAIN g : g[i] # Torn
  BY <1>1, <1>2, ModelValues
<1>6. RecordsOf(f, k) = {i \in 1..n : f[i].key = k}
      /\ RecordsOf(g, k) = {i \in 1..(n + 1) : g[i].key = k}
  BY <1>1, <1>2, <1>5, ScanWhole
<1> HIDE DEF g, n, f
<1>7. CASE k # c.key
  <2>1. RecordsOf(g, k) = RecordsOf(f, k) /\ \A i \in RecordsOf(f, k) : g[i] = f[i]
    BY <1>1, <1>2, <1>6, <1>7
  <2>2. \A s \in Segments : /\ RecordsOf(segs'[s], k) = RecordsOf(segs[s], k)
                            /\ \A i \in RecordsOf(segs[s], k) : segs'[s][i] = segs[s][i]
    BY <1>3, <2>1 DEF f
  <2>3. Replayed(segs')[k] = Replayed(segs)[k]
    BY <1>4, <2>2, ReplayedSame
  <2> QED BY <1>7, <2>3, RebuiltReplays
<1>8. CASE k = c.key
  <2>1. PICK i \in Nat : i = n + 1
    BY <1>1
  <2>2. i \in RecordsOf(g, k) /\ \A j \in RecordsOf(g, k) : j <= i
    BY <1>1, <1>2, <1>6, <1>8, <2>1
  <2>3. a \in Int /\ \A s \in Segments : s > a => segs'[s] = NoFile
    BY <1>3 DEF Segments
  <2>4. LastRecord(segs', k, a, i)
    BY <1>3, <2>2, <2>3 DEF LastRecord, RecordsOf
  <2>5. Replayed(segs')[k] = IF segs'[a][i].data = Tombstone THEN None
                             ELSE EntryFor(a, i - 1, segs'[a][i].data)
    <3> DEFINE T == segs'
    <3>1. T \in SegmentFiles /\ LastRecord(T, k, a, i)
      BY <1>4, <2>4
    <3> HIDE DEF T
    <3>2. Replayed(T)[k] = IF T[a][i].data = Tombstone THEN None
                           ELSE EntryFor(a, i - 1, T[a][i].data)
      BY ONLY <3>1, ReplayedLast
    <3> QED BY <3>2 DEF T
  <2>6. i - 1 = n /\ segs'[a][i] = c
    BY <1>1, <1>2, <1>3, <2>1
  <2> QED BY <1>8, <2>5, <2>6, RebuiltReplays DEF n, f
<1> QED BY <1>7, <1>8

\* A scan of segment 0 alone, without tombstones in it, gives the index that
\* finalize_compaction() makes of it.
LEMMA ReplayedSegment0 ==
    ASSUME EmptyKeys = {}, NEW S \in SegmentFiles, NEW f \in File, S[0] = f,
           \A s \in Segments \ {0} : S[s] = NoFile,
           \A i \in DOMAIN f : f[i] \in Cell /\ f[i].data # Tombstone
    PROVE  Replayed(S) = IndexOfSegment0(f)
<1> SUFFICES ASSUME NEW k \in Keys PROVE Replayed(S)[k] = IndexOfSegment0(f)[k]
  BY DEF Replayed, IndexOfSegment0
<1>1. 0 \in Segments /\ \A i \in DOMAIN f : f[i] # Torn
  BY SegmentFacts, ModelValues
<1>2. RecordsOf(f, k) = {i \in 1..Len(f) : f[i].key = k}
  BY <1>1, ScanWhole
<1>3. PutsOf(f, k) = RecordsOf(f, k)
  BY <1>2, ScanType DEF PutsOf
<1>4. CASE RecordsOf(f, k) = {}
  <2>1. \A s \in Segments : RecordsOf(S[s], k) = {}
    BY <1>4 DEF RecordsOf
  <2> QED BY <1>3, <1>4, <2>1, ReplayedNone DEF IndexOfSegment0
<1>5. CASE RecordsOf(f, k) # {}
  <2> DEFINE i == Max(RecordsOf(f, k))
  <2>1. i \in RecordsOf(f, k) /\ \A j \in RecordsOf(f, k) : j <= i
    BY <1>5, LastOfRecords
  <2>2. IndexOfSegment0(f)[k] = EntryFor(0, i - 1, f[i].data)
    BY <1>3, <1>5 DEF IndexOfSegment0
  <2> HIDE DEF i
  <2>3. i \in DOMAIN f
    BY <2>1, ScanType
  <2>4. LastRecord(S, k, 0, i)
    BY <1>1, <2>1 DEF LastRecord, RecordsOf, Segments
  <2> QED BY <2>2, <2>3, <2>4, ReplayedLast
<1> QED BY <1>4, <1>5

=============================================================================
