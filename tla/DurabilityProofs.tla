-------------------------- MODULE DurabilityProofs --------------------------
(***************************************************************************)
(* FileStore keeps its promises, for every value of its constants that     *)
(* Supported allows.                                                       *)
(***************************************************************************)
EXTENDS Durability, ReplayProofs

---------------------------------------------------------------------------
(* Values, entries and files                                               *)

Value == Payloads \cup {None}

\* A value counts until it expires, and never again.
LEMMA SeenFacts ==
    ASSUME NEW d \in Value, NEW t \in Nat
    PROVE  /\ SeenAt(t, d) \in {None, d}
           /\ SeenAt(t, None) = None
           /\ SeenAt(t, d) = None => SeenAt(t + 1, d) = None
<1>1. SeenAt(t, d) \in {None, d} /\ SeenAt(t, None) = None
  BY DEF SeenAt
<1>2. ASSUME d # None, SeenAt(t, d) = None PROVE SeenAt(t + 1, d) = None
  <2>1. d \in Payloads /\ d.ts \in Nat /\ d.ttl \in Nat
    BY <1>2, Parameters DEF Value
  <2>2. Expired(d.ts, d.ttl, t)
    BY <1>2 DEF SeenAt
  <2>3. EffectiveTTL(d.ttl) \in Nat
    BY <2>1, Parameters DEF EffectiveTTL
  <2>4. Expired(d.ts, d.ttl, t + 1)
    BY <2>1, <2>2, <2>3 DEF Expired
  <2> QED BY <2>4 DEF SeenAt
<1> QED BY <1>1, <1>2 DEF SeenAt

\* The index expires a record when the record itself says so: 24 bits are
\* enough for its TTL.
LEMMA HomeExpiry ==
    ASSUME Supported, NEW S, NEW e, NEW k, NEW t \in Nat, Home(S, e, k)
    PROVE  Expired(e.ts, e.ttl, t) <=> SeenAt(t, Stored(S, e)) = None
<1> DEFINE p == Stored(S, e)
<1>1. p \in Payloads /\ e = EntryFor(e.seg, e.off, p)
  BY DEF Home
<1> HIDE DEF p
<1>2. p.ttl \in Nat /\ p.ttl < 16777216 /\ p # None
  BY <1>1, Parameters, ModelValues DEF Supported
<1>3. p.ttl % 16777216 = p.ttl
  BY <1>2
<1>4. e.ts = p.ts /\ e.ttl = p.ttl
  BY <1>1, <1>3 DEF EntryFor
<1>5. Expired(e.ts, e.ttl, t) <=> SeenAt(t, p) = None
  BY <1>2, <1>4 DEF SeenAt
<1> QED BY <1>5 DEF p

\* The passing of time changes an entry and the value it stands for alike.
LEMMA FitsLater ==
    ASSUME NEW S, NEW e, NEW k, NEW d \in Value, NEW t \in Nat, Fits(S, t, e, k, d)
    PROVE  Fits(S, t + 1, e, k, d)
<1>1. CASE e = None
  BY <1>1, SeenFacts DEF Fits
<1>2. CASE e # None
  <2>1. Stored(S, e) \in Value /\ SeenAt(t, Stored(S, e)) = SeenAt(t, d) /\ Home(S, e, k)
    BY <1>2 DEF Fits, Home, Value
  <2>2. SeenAt(t + 1, Stored(S, e)) = SeenAt(t + 1, d)
    BY <2>1, SeenFacts
  <2> QED BY <1>2, <2>1, <2>2 DEF Fits
<1> QED BY <1>1, <1>2

\* Every record of S is in T where it was.
Keeps(S, T) ==
    \A s \in Segments : S[s] # NoFile =>
        /\ T[s] # NoFile /\ Len(S[s]) <= Len(T[s])
        /\ \A i \in 1..Len(S[s]) : T[s][i] = S[s][i]

Files == [Segments -> File \cup {NoFile}]

\* Then an entry still points home, at the same record.
LEMMA HomeKept ==
    ASSUME NEW S \in Files, NEW T \in Files, Keeps(S, T),
           NEW e \in Entry, NEW k, Home(S, e, k)
    PROVE  Home(T, e, k) /\ Stored(T, e) = Stored(S, e)
<1>1. e.seg \in Segments /\ e.off \in Nat
  BY DEF Entry
<1>2. S[e.seg] # NoFile /\ e.off < Len(S[e.seg]) /\ S[e.seg][e.off + 1] # Torn
  BY DEF Home, Readable
<1>3. S[e.seg] \in File /\ T[e.seg] \in File \cup {NoFile}
  BY <1>1, <1>2 DEF Files
<1>4. T[e.seg] # NoFile /\ Len(S[e.seg]) <= Len(T[e.seg])
      /\ \A i \in 1..Len(S[e.seg]) : T[e.seg][i] = S[e.seg][i]
  BY <1>1, <1>2 DEF Keeps
<1>5. Len(S[e.seg]) \in Nat /\ Len(T[e.seg]) \in Nat
  BY <1>3, <1>4 DEF File
<1>6. e.off + 1 \in 1..Len(S[e.seg])
  BY <1>1, <1>2, <1>5
<1>7. T[e.seg][e.off + 1] = S[e.seg][e.off + 1]
  BY <1>4, <1>6
<1>8. Readable(T[e.seg], e.off)
  BY <1>1, <1>2, <1>4, <1>5, <1>7 DEF Readable
<1> QED BY <1>7, <1>8 DEF Home, Stored

\* ... and goes on telling the same value.
LEMMA FitsKept ==
    ASSUME NEW S \in Files, NEW T \in Files, Keeps(S, T), NEW t,
           NEW e \in Entry \cup {None}, NEW k, NEW d, Fits(S, t, e, k, d)
    PROVE  Fits(T, t, e, k, d)
BY HomeKept DEF Fits

\* Nothing moves where nothing is written, and open_segment() and an append
\* leave every record in its place.
LEMMA KeepsSame == \A S : Keeps(S, S) \/ S \notin Files
<1> SUFFICES ASSUME NEW S \in Files PROVE Keeps(S, S)
  OBVIOUS
<1> SUFFICES ASSUME NEW s \in Segments, S[s] # NoFile PROVE Len(S[s]) <= Len(S[s])
  BY DEF Keeps
<1>1. Len(S[s]) \in Nat
  BY DEF Files, File
<1> QED BY <1>1

\* open_segment() creates the file or leaves it as it is, and positions at its end.
LEMMA KeepsOpen ==
    ASSUME DiskTypeOK, NEW id \in Segments, OpenSegment(id)
    PROVE  /\ segs \in Files /\ segs' \in Files /\ Keeps(segs, segs')
           /\ active_file' = id /\ current_segment' = id /\ segs'[id] # NoFile
           /\ current_offset' = Len(segs'[id])
<1>1. segs \in Files /\ segs' \in Files
  BY OpenType DEF DiskTypeOK, Files
<1>2. \A s \in Segments : segs[s] # NoFile => segs'[s] = segs[s]
  BY OpenType DEF DiskTypeOK
<1>3. Keeps(segs, segs')
  BY <1>1, <1>2, KeepsSame DEF Keeps
<1>4. current_offset' = Len(segs'[id])
  <2>1. CASE segs[id] = NoFile
    <3>1. segs'[id] = <<>>
      BY <2>1, <1>1 DEF OpenSegment, Files
    <3> QED BY <2>1, <3>1 DEF OpenSegment
  <2>2. CASE segs[id] # NoFile
    BY <2>2, <1>2 DEF OpenSegment
  <2> QED BY <2>1, <2>2
<1> QED BY <1>1, <1>3, <1>4, OpenType DEF DiskTypeOK

\* A record is written behind all others.
LEMMA KeepsAppend ==
    ASSUME segs \in Files, NEW a \in Segments, segs[a] # NoFile, NEW c \in Cell \cup {Torn},
           segs' = [segs EXCEPT ![a] = Append(@, c)]
    PROVE  /\ segs' \in Files /\ Keeps(segs, segs')
           /\ segs'[a] # NoFile /\ Len(segs'[a]) = Len(segs[a]) + 1
           /\ segs'[a][Len(segs[a]) + 1] = c
<1>1. segs[a] \in File /\ segs[a] \in Seq(Cell \cup {Torn}) /\ Len(segs[a]) \in Nat
  BY DEF Files, File
<1>2. segs'[a] = Append(segs[a], c) /\ \A s \in Segments \ {a} : segs'[s] = segs[s]
  BY DEF Files
<1>3. Append(segs[a], c) \in File /\ Append(segs[a], c) # NoFile
  BY <1>1, AppendType
<1>4. segs' \in Files
  BY <1>3 DEF Files
<1>5. /\ Len(segs'[a]) = Len(segs[a]) + 1
      /\ segs'[a][Len(segs[a]) + 1] = c
      /\ \A i \in 1..Len(segs[a]) : segs'[a][i] = segs[a][i]
  BY <1>1, <1>2
<1>6. Keeps(segs, segs')
  BY <1>1, <1>2, <1>3, <1>5, KeepsSame DEF Keeps
<1> QED BY <1>2, <1>3, <1>4, <1>5, <1>6

\* The scan of a file without half-written records finds all of them, so the
\* index that finalize_compaction() builds of compact.tmp gives what it holds.
LEMMA Segment0Fits ==
    ASSUME Supported, NEW S \in Files, NEW f \in File, S[0] = f, NEW t \in Nat,
           NEW k \in Keys, NEW d \in Value, Carries(f, t, k, d)
    PROVE  Fits(S, t, IndexOfSegment0(f)[k], k, d)
<1> DEFINE P == PutsOf(f, k)
<1>1. f # NoFile /\ Len(f) \in Nat /\ DOMAIN f = 1..Len(f)
  BY ModelValues DEF File
<1>2. \A i \in DOMAIN f : i \in Scanned(f)
  BY <1>1, ModelValues DEF Carries, Scanned, Supported
<1>3. \A i \in DOMAIN f : f[i].key = k => f[i] \in Cell /\ f[i].data = d /\ d \in Payloads
  BY DEF Carries
<1>4. P = {i \in DOMAIN f : f[i].key = k}
  BY <1>1, <1>2, <1>3, ModelValues DEF PutsOf, RecordsOf, Scanned
<1>5. CASE P = {}
  <2>1. IndexOfSegment0(f)[k] = None
    BY <1>5 DEF IndexOfSegment0
  <2>2. ~ Holds(f, k, d)
    BY <1>4, <1>5 DEF Holds
  <2> QED BY <2>1, <2>2 DEF Fits, Carries
<1>6. CASE P # {}
  <2> DEFINE i == Max(P)
             e == EntryFor(0, i - 1, f[i].data)
  <2>1. i \in P /\ i - 1 \in Nat
    BY <1>6, PutsType
  <2>2. IndexOfSegment0(f)[k] = e
    BY <1>6 DEF IndexOfSegment0
  <2> HIDE DEF i
  <2>3. i \in 1..Len(f) /\ f[i].key = k /\ f[i].data = d /\ d \in Payloads /\ f[i] \in Cell
    BY <2>1, <1>1, <1>3, <1>4
  <2>4. e.seg = 0 /\ e.off = i - 1 /\ e.off + 1 = i
    BY <2>1, <2>3 DEF EntryFor
  <2>5. Readable(S[0], i - 1)
    BY <2>1, <2>3, <1>1, ModelValues DEF Readable
  <2>6. Home(S, e, k) /\ Stored(S, e) = d
    BY <2>3, <2>4, <2>5 DEF Home, Stored
  <2>7. e # None
    <3>1. e \in Entry
      BY <2>1, <2>3, SegmentFacts, EntryType
    <3> QED BY <3>1, ModelValues
  <2> QED BY <2>2, <2>6, <2>7 DEF Fits
<1> QED BY <1>5, <1>6

\* What get() returns.
LEMMA ViewFits ==
    ASSUME Supported, TypeOK, NEW k \in Keys, NEW d \in Value,
           Fits(segs, now, index[k], k, d)
    PROVE  View(k) = SeenAt(now, d)
<1> DEFINE e == index[k]
<1>1. CASE e = None
  BY <1>1 DEF View, Fits
<1>2. CASE e # None
  <2>1. Home(segs, e, k) /\ SeenAt(now, Stored(segs, e)) = SeenAt(now, d) /\ now \in Nat
    BY <1>2 DEF Fits, TypeOK, OutsideTypeOK
  <2>2. Expired(e.ts, e.ttl, now) <=> SeenAt(now, Stored(segs, e)) = None
    BY <2>1, HomeExpiry
  <2>3. Stored(segs, e) \in Value /\ Readable(segs[e.seg], e.off)
    BY <2>1 DEF Home, Value
  <2> QED BY <1>2, <2>1, <2>2, <2>3, SeenFacts DEF View, Stored
<1> QED BY <1>1, <1>2

\* An entry that get() drops stood for nothing any more.
LEMMA ExpiredFits ==
    ASSUME Supported, NEW S, NEW t \in Nat, NEW e, NEW k, NEW d, e # None,
           Fits(S, t, e, k, d), Expired(e.ts, e.ttl, t)
    PROVE  Fits(S, t, None, k, d)
BY HomeExpiry DEF Fits

\* No entry fits where there are no segments.
LEMMA BlankFits ==
    ASSUME Blank, NEW e \in Entry \cup {None}, NEW k, NEW t, NEW d, Fits(segs, t, e, k, d)
    PROVE  e = None
BY DEF Blank, Fits, Home, Readable, Entry

\* A scan of no segments finds nothing.
LEMMA RebuiltBlank == Blank => RebuiltIndex = EmptyIndex
<1> SUFFICES ASSUME Blank, NEW k \in Keys PROVE RebuiltIndex[k] = None
  BY DEF RebuiltIndex, EmptyIndex
<1>1. \A s \in Segments : RecordsOf(segs[s], k) = {}
  BY DEF Blank, RecordsOf
<1>2. {s \in Segments : RecordsOf(segs[s], k) # {}} = {}
  BY <1>1
<1> QED BY <1>2 DEF RebuiltIndex

\* Nothing is evicted without a limit, or from an empty index.
LEMMA NoVictims ==
    ASSUME NEW ix \in Index, MaxRecs = 0 \/ (\A k \in Keys : ix[k] = None),
           NEW E \in Victims(ix)
    PROVE  E = {} /\ Without(ix, E) = ix
<1>1. E = {}
  <2>1. CASE MaxRecs = 0
    <3>1. E \in SUBSET Keys /\ IsFiniteSet(E) /\ Cardinality(E) = 0
      BY <2>1, Parameters, FS_Subset DEF Victims, Indexed, Excess
    <3> QED BY <3>1, FS_EmptySet
  <2>2. CASE \A k \in Keys : ix[k] = None
    BY <2>2 DEF Victims, Indexed
  <2> QED BY <2>1, <2>2
<1>2. \A k \in Keys : Without(ix, {})[k] = ix[k]
  BY DEF Without
<1>3. Without(ix, {}) = ix
  BY <1>2 DEF Without, Index
<1> QED BY <1>1, <1>3

\* What a key may hold is a value or nothing.
LEMMA DueType ==
    ASSUME ControlTypeOK, OutsideTypeOK, NEW k \in Keys, NEW done
    PROVE  Due(k, done) \in Value /\ May(k, done) \in SUBSET Value
BY DEF ControlTypeOK, OutsideTypeOK, Operation, Due, May, Value

---------------------------------------------------------------------------
(* The steps that are left                                                 *)

USE DEF TypeOK, disk, ram, handles, control, outside, Goto

Inv == IInv /\ DInv

Calls ==
    \/ \E k \in Keys, d \in Payloads : StartPut(k, d)
    \/ \E k \in Keys : StartRemove(k) \/ Get(k)
    \/ StartClear \/ Close
Gathering ==
    \/ JournalCopying \/ OpenTmp \/ OpenTmpFails
    \/ CopyRecord \/ JournalSegment \/ DropSource \/ JournalCommit
Exchanging ==
    \/ RemoveAll \/ RenameTmp \/ RemoveIndex \/ WriteIndex
    \/ ClearJournal \/ Reopen
Erasing == ClearSegment \/ ClearIndex \/ ClearReopen
Recovering ==
    \/ Boot /\ pc' = "recover" /\ UNCHANGED op
    \/ RecoverNothing \/ RecoverCommitted \/ RecoverBack
    \/ LoadIndex \/ RebuildIndex \/ WriteBootIndex \/ PruneAtBoot \/ OpenFiles
Stopping == Crash \/ Shutdown \/ CooldownEnds \/ Tick \/ LoseIndex

\* Under the assumptions the code never gives up a compaction half-way, and
\* recovery never finds one whose sources are partly deleted.
LEMMA PossibleSteps ==
    ASSUME Supported, Inv, Next
    PROVE  \/ Calls \/ AppendRecord \/ PersistEntry \/ Gathering
           \/ Exchanging \/ Erasing \/ Recovering \/ Stopping
<1> USE DEF Inv, DInv
<1>1. ~ StartCompact /\ ~ CopyFailsEarly /\ ~ CopyFailsLate
  BY DEF Supported, StartCompact, CopyFailsEarly, CopyFailsLate
<1>2. ~ ClearAborted /\ ~ AppendRefused
  <2>1. pc = "append" => active_file # Closed
    BY SegmentFacts DEF AppendOK, Ready
  <2> QED BY <2>1 DEF TurnOK, ClearAborted, AppendRefused
<1>3. ~ RecoverPartial
  BY JournalFacts DEF StageOK, RecoverPartial, Committed, Copying0
<1>4. Boot => pc' = "recover" /\ UNCHANGED op
  BY DEF Boot, Supported
<1>5. CASE Call
  BY <1>1, <1>5 DEF Call, Calls
<1>6. CASE Compacting
  BY <1>1, <1>2, <1>6 DEF Compacting, Gathering, Exchanging
<1>7. CASE Booting
  BY <1>3, <1>4, <1>7 DEF Booting, Recovering
<1>8. CASE Outage
  BY <1>1, <1>8 DEF Outage, Stopping
<1> QED BY <1>2, <1>5, <1>6, <1>7, <1>8 DEF Next, Proceed, Erasing

\* What is written to the segments, where.
LEMMA AppendStep ==
    ASSUME Supported, Inv, AppendRecord
    PROVE  LET c == [key |-> op.key,
                     data |-> IF op.name = "put" THEN op.data ELSE Tombstone]
           IN /\ c \in Cell /\ active_file \in Segments /\ segs[active_file] # NoFile
              /\ segs' = [segs EXCEPT ![active_file] = Append(@, c)]
              /\ current_offset = Len(segs[active_file])
<1> USE DEF Inv, DInv, IInv
<1>1. active_file \in Segments /\ segs[active_file] # NoFile
      /\ current_offset = Len(segs[active_file])
  BY DEF AppendRecord, AppendOK, Ready
<1>2. [key |-> op.key, data |-> IF op.name = "put" THEN op.data ELSE Tombstone] \in Cell
  BY DEF AppendRecord, CallOK, Cell
<1> QED BY <1>1, <1>2 DEF AppendRecord, WriteRecord, Supported

\* A failed compaction returns to put(), or to its caller with the call done.
LEMMA GiveUpStep ==
    ASSUME Supported, Inv, OpenTmpFails
    PROVE  \/ /\ caller = "rotate" /\ caller' = "none" /\ pc' = "append"
              /\ OpenSegment(SegCount - 1) /\ UNCHANGED <<op, outside>>
           \/ /\ caller = "threshold" /\ Return
              /\ UNCHANGED <<segs, current_segment, current_offset, active_file>>
BY DEF OpenTmpFails, GiveUp, Inv, DInv, TurnOK

\* The index after an append: the new entry, the old ones, and nothing for
\* the keys E that the limit evicts.
LEMMA AppendEffect ==
    ASSUME Supported, Inv, AppendRecord
    PROVE  /\ op'.name = op.name /\ op'.key = op.key /\ op'.data = op.data
           /\ op.name \in {"put", "remove"} /\ op.key \in Keys
           /\ op.name = "put" => op.data \in Payloads
           /\ \E E \in SUBSET Keys :
                 /\ MaxRecs = 0 => E = {}
                 /\ op'.evicted = IF op.name = "put" THEN (op.evicted \ {op.key}) \cup E
                                  ELSE op.evicted
                 /\ op.name = "remove" => E = {}
                 /\ \A k \in Keys :
                       index'[k] = IF k \in E THEN None
                                   ELSE IF k # op.key THEN index[k]
                                   ELSE IF op.name = "remove" THEN None
                                   ELSE EntryFor(current_segment, current_offset, op.data)
<1> USE DEF Inv, IInv
<1>1. op.name \in {"put", "remove"} /\ op.key \in Keys /\ (op.name = "put" => op.data \in Payloads)
  BY DEF AppendRecord, CallOK
<1>2. op \in Operation /\ index \in Index
  BY DEF ControlTypeOK, RamTypeOK
<1>3. CASE op.name = "remove"
  <2>1. op' = op /\ index' = [index EXCEPT ![op.key] = None]
    BY <1>3 DEF AppendRecord
  <2>2. \A k \in Keys : index'[k] = IF k # op.key THEN index[k] ELSE None
    BY <1>1, <1>2, <2>1 DEF Index
  <2> DEFINE Gone(E) ==
               /\ MaxRecs = 0 => E = {}
               /\ op'.evicted = op.evicted
               /\ E = {}
               /\ \A k \in Keys : index'[k] = IF k \in E THEN None
                                             ELSE IF k # op.key THEN index[k] ELSE None
  <2>3. Gone({})
    BY <2>1, <2>2
  <2>4. \E E \in SUBSET Keys : Gone(E)
    <3> HIDE DEF Gone
    <3>1. {} \in SUBSET Keys
      OBVIOUS
    <3> QED BY <2>3, <3>1
  <2> QED BY <1>1, <1>3, <2>1, <2>4
<1>4. CASE op.name = "put"
  <2> DEFINE e == EntryFor(current_segment, current_offset, op.data)
             ix == [index EXCEPT ![op.key] = e]
  <2>1. e \in Entry
    <3>1. current_segment \in Segments /\ current_offset \in Nat
      BY DEF AppendRecord, CallOK, RamTypeOK
    <3> QED BY <1>1, <1>4, <3>1, EntryType
  <2>2. PICK E \in Victims(ix) : index' = Without(ix, E)
                                /\ op' = [op EXCEPT !.evicted = (@ \ {op.key}) \cup E]
    BY <1>4 DEF AppendRecord
  <2> HIDE DEF e
  <2>3. ix \in Index /\ \A k \in Keys : ix[k] = IF k = op.key THEN e ELSE index[k]
    BY <1>1, <1>2, <2>1 DEF Index
  <2> HIDE DEF ix
  <2>4. E \in SUBSET Keys /\ (MaxRecs = 0 => E = {})
    BY <2>2, <2>3, NoVictims, VictimsType
  <2>5. op' = [op EXCEPT !.evicted = (op.evicted \ {op.key}) \cup E]
    BY <2>2
  <2>6. op'.name = op.name /\ op'.key = op.key /\ op'.data = op.data
        /\ op'.evicted = (op.evicted \ {op.key}) \cup E
    BY <1>2, <2>5 DEF Operation
  <2>7. \A k \in Keys : index'[k] = IF k \in E THEN None ELSE ix[k]
    BY <2>2 DEF Without
  <2> QED BY <1>1, <1>4, <2>3, <2>4, <2>6, <2>7 DEF e
<1> QED BY <1>1, <1>3, <1>4

\* compact() prunes the index first.
LEMMA OpenTmpEffect ==
    ASSUME Supported, Inv, OpenTmp
    PROVE  /\ op'.name = op.name /\ op'.key = op.key /\ op'.data = op.data
           /\ \E E \in SUBSET Keys :
                 /\ MaxRecs = 0 => E = {}
                 /\ op'.evicted = op.evicted \cup E
                 /\ index' = Without(index, E)
<1> USE DEF Inv, IInv
<1>1. op \in Operation /\ index \in Index
  BY DEF ControlTypeOK, RamTypeOK
<1>2. PICK E \in Victims(index) :
         index' = Without(index, E) /\ op' = [op EXCEPT !.evicted = op.evicted \cup E]
  BY DEF OpenTmp
<1>3. E \in SUBSET Keys /\ (MaxRecs = 0 => E = {})
  BY <1>1, <1>2, NoVictims, VictimsType
<1>4. op'.name = op.name /\ op'.key = op.key /\ op'.data = op.data
      /\ op'.evicted = op.evicted \cup E
  BY <1>1, <1>2 DEF Operation
<1> QED BY <1>2, <1>3, <1>4

\* init() has nothing to prune: the limit was met when index.dat was written,
\* or nothing has been.
LEMMA PruneEffect ==
    ASSUME Supported, Inv, PruneAtBoot
    PROVE  pc' = "open" /\ UNCHANGED <<disk, index, op, caller, cs, todo>>
<1> USE DEF Inv, IInv, DInv
<1>1. index \in Index /\ op \in Operation
  BY DEF RamTypeOK, ControlTypeOK
<1>2. MaxRecs = 0 \/ (\A k \in Keys : index[k] = None)
  <2> SUFFICES ASSUME MaxRecs # 0, NEW k \in Keys PROVE index[k] = None
    OBVIOUS
  <2>1. Blank
    <3>1. MaxRecs > 0 /\ Starting
      BY Parameters DEF PruneAtBoot, TurnOK, Loading, Starting
    <3> QED BY <3>1 DEF FirstBootOK
  <2>2. \E d \in May(k, InRam) : Fits(segs, now, index[k], k, d)
    BY DEF PruneAtBoot, RamOK, RamTells, IndexFits
  <2>3. index[k] \in Entry \cup {None}
    BY <1>1 DEF Index
  <2> QED BY <2>1, <2>2, <2>3, BlankFits
<1>3. PICK E \in Victims(index) :
         /\ index' = Without(index, E) /\ op' = [op EXCEPT !.evicted = E]
         /\ index_dat' = IF E = {} THEN index_dat ELSE NoFile
         /\ pc' = IF E = {} THEN "open" ELSE "write_pruned"
  BY DEF PruneAtBoot
<1>4. E = {} /\ index' = index
  BY <1>1, <1>2, <1>3, NoVictims
<1>5. op.evicted = {}
  <2>1. CASE MaxRecs = 0
    BY <2>1 DEF TurnOK
  <2>2. CASE MaxRecs > 0
    BY <2>2 DEF FirstBootOK, PruneAtBoot, TurnOK, Loading, Starting, NoOp
  <2> QED BY <2>1, <2>2, Parameters
<1>6. op' = op
  BY <1>1, <1>3, <1>4, <1>5 DEF Operation
<1> QED BY <1>3, <1>4, <1>6 DEF PruneAtBoot

\* What a power cut, or the end of the program, leaves of the call.
LEMMA PowerOffEffect ==
    ASSUME Inv, PowerOff
    PROVE  /\ op'.name = op.name /\ op'.key = op.key /\ op'.data = op.data
           /\ op'.evicted = {} /\ pc' = "down" /\ caller' = "none"
           /\ UNCHANGED <<now, promised>>
BY DEF Inv, IInv, ControlTypeOK, Operation, PowerOff

---------------------------------------------------------------------------
(* The turn                                                                *)

\* No call starts before the last one has returned or power has cut it short,
\* and only init() and compact() run inside another.
LEMMA TurnKept ==
    ASSUME Supported, Inv, Next
    PROVE  TurnOK'
<1> USE DEF Inv, DInv, TurnOK, Loading, Swapping, Copying, Clearing, Starting, NoOp
<1>1. CASE Calls
  <2>1. CASE \E k \in Keys, d \in Payloads : StartPut(k, d)
    BY <2>1 DEF StartPut
  <2>2. CASE \E k \in Keys : StartRemove(k) \/ Get(k)
    BY <2>2 DEF StartRemove, Get
  <2>3. CASE StartClear
    <3>1. pc = "idle" /\ caller = "none" /\ UNCHANGED caller /\ pc' = "clear_segment"
      BY <2>3 DEF StartClear, IInv, CallOK
    <3>2. op' = [name |-> "clear", key |-> None, data |-> None, evicted |-> {}]
      BY <2>3 DEF StartClear
    <3> QED BY <3>1, <3>2
  <2>4. CASE Close
    BY <2>4 DEF Close
  <2> QED BY <1>1, <2>1, <2>2, <2>3, <2>4 DEF Calls
<1>2. CASE AppendRecord
  <2>1. pc' = "persist" /\ pc = "append" /\ UNCHANGED caller
    BY <1>2 DEF AppendRecord
  <2> QED BY <1>2, <2>1, AppendEffect
<1>3. CASE PersistEntry
  BY <1>3 DEF PersistEntry, Return
<1>4. CASE Gathering
  <2>1. CASE JournalCopying \/ CopyRecord \/ JournalSegment \/ DropSource \/ JournalCommit
    BY <2>1 DEF JournalCopying, CopyRecord, JournalSegment, DropSource, JournalCommit
  <2>2. CASE OpenTmp
    <3>1. pc' = "copy" /\ pc = "open_tmp" /\ UNCHANGED caller
      BY <2>2 DEF OpenTmp
    <3> QED BY <2>2, <3>1, OpenTmpEffect
  <2>3. CASE OpenTmpFails
    BY <2>3, GiveUpStep DEF OpenTmpFails, Return
  <2> QED BY <1>4, <2>1, <2>2, <2>3 DEF Gathering
<1>5. CASE Exchanging
  BY <1>5 DEF Exchanging, RemoveAll, RenameTmp, RemoveIndex, WriteIndex,
                ClearJournal, Reopen, Return
<1>6. CASE Erasing
  BY <1>6 DEF Erasing, ClearSegment, ClearIndex, ClearReopen, Return
<1>7. CASE Recovering
  <2>1. CASE Boot /\ pc' = "recover" /\ UNCHANGED op
    BY <2>1 DEF Boot
  <2>2. CASE RecoverNothing \/ RecoverCommitted \/ RecoverBack
    BY <2>2 DEF RecoverNothing, RecoverCommitted, RecoverBack
  <2>3. CASE LoadIndex \/ RebuildIndex \/ WriteBootIndex
    BY <2>3 DEF LoadIndex, RebuildIndex, WriteBootIndex
  <2>4. CASE PruneAtBoot
    BY <2>4, PruneEffect DEF PruneAtBoot
  <2>5. CASE OpenFiles
    BY <2>5 DEF OpenFiles
  <2> QED BY <1>7, <2>1, <2>2, <2>3, <2>4, <2>5 DEF Recovering
<1>8. CASE Stopping
  <2>1. CASE Crash \/ Shutdown
    <3>1. PowerOff /\ (pc \notin Clearing)
      BY <2>1, JournalFacts DEF Crash, Shutdown, Phase, Supported
    <3> QED BY <3>1, PowerOffEffect
  <2>2. CASE CooldownEnds \/ Tick \/ LoseIndex
    BY <2>2 DEF CooldownEnds, Tick, LoseIndex
  <2> QED BY <1>8, <2>1, <2>2 DEF Stopping
<1> QED BY <1>1, <1>2, <1>3, <1>4, <1>5, <1>6, <1>7, <1>8, PossibleSteps

---------------------------------------------------------------------------
(* The stage of a compaction                                               *)

\* When power fails, the journal says nothing, or that no source has been
\* deleted, or that compact.tmp is complete.
LEMMA CrashStage ==
    ASSUME Supported, Inv, Crash
    PROVE  /\ pc \notin Clearing /\ pc # "down" /\ PowerOff /\ MaxRecs = 0
           /\ \/ journal \in {NoFile, Torn, Copying0}
              \/ Committed /\ compact_tmp # NoFile
           /\ \/ UNCHANGED disk
              \/ /\ pc = "append" /\ UNCHANGED <<compact_tmp, journal, index_dat>>
                 /\ active_file \in Segments
                 /\ segs' = [segs EXCEPT ![active_file] = Append(@, Torn)]
              \/ journal' = Torn /\ UNCHANGED <<segs, compact_tmp, index_dat>>
                 /\ pc \in {"journal_copying", "copy", "journal_commit"}
              \/ pc = "copy" /\ UNCHANGED <<segs, journal, index_dat>>
<1>1. Phase \in {"quiet", "copying", "committed"} /\ PowerOff /\ pc # "down"
  BY DEF Crash, Supported
<1>2. MaxRecs = 0
  BY Parameters DEF Crash, Supported
<1>3. journal \in JournalEntry \cup {NoFile, Torn}
  BY DEF Inv, IInv, DiskTypeOK
<1>4. /\ pc \notin Clearing
      /\ \/ journal \in {NoFile, Torn}
         \/ journal \in JournalEntry /\ journal.state = "COMMIT" /\ compact_tmp # NoFile
         \/ journal \in JournalEntry /\ journal.state = "COMPACTING" /\ journal.next = 0
  BY <1>1, <1>3 DEF Phase, Clearing, JournalEntry
<1>5. \/ journal \in {NoFile, Torn, Copying0}
      \/ Committed /\ compact_tmp # NoFile
  BY <1>4, JournalFacts DEF Committed, Copying0, JournalEntry
<1>6. UNCHANGED disk \/ TornWrite
  BY DEF Crash
<1>7. ~ ("index" \in TornWrites \/ "bulk" \in TornWrites)
  BY DEF Supported
<1>8. TornWrite =>
        \/ /\ pc = "append" /\ UNCHANGED <<compact_tmp, journal, index_dat>>
           /\ active_file \in Segments
           /\ segs' = [segs EXCEPT ![active_file] = Append(@, Torn)]
        \/ journal' = Torn /\ UNCHANGED <<segs, compact_tmp, index_dat>>
           /\ pc \in {"journal_copying", "copy", "journal_commit"}
        \/ pc = "copy" /\ UNCHANGED <<segs, journal, index_dat>>
  BY <1>7 DEF TornWrite
<1> QED BY <1>1, <1>2, <1>4, <1>5, <1>6, <1>8

\* The journal says how far the compaction has come, at every step of it and
\* after a power cut.
LEMMA StageKept ==
    ASSUME Supported, Inv, Next
    PROVE  StageOK'
<1> USE DEF Inv, DInv
<1> USE DEF StageOK, Clearing, Committed, InJournal, Copying0
<1>0. 0 \in Segments
  BY SegmentFacts
<1>1. CASE Calls
  <2>1. CASE \E k \in Keys, d \in Payloads : StartPut(k, d)
    BY <2>1 DEF StartPut
  <2>2. CASE \E k \in Keys : StartRemove(k) \/ Get(k)
    BY <2>2 DEF StartRemove, Get
  <2>3. CASE StartClear \/ Close
    BY <2>3 DEF StartClear, Close
  <2> QED BY <1>1, <2>1, <2>2, <2>3 DEF Calls
<1>2. CASE AppendRecord \/ PersistEntry
  BY <1>2 DEF AppendRecord, PersistEntry, Return
<1>3. CASE Gathering
  <2>1. CASE JournalCopying \/ CopyRecord \/ OpenTmp
    BY <2>1 DEF JournalCopying, CopyRecord, OpenTmp, WriteJournal, Supported
  <2>2. CASE OpenTmpFails
    BY <2>2, GiveUpStep DEF OpenTmpFails, Return
  <2>3. CASE JournalSegment
    BY <2>3 DEF JournalSegment, WriteJournal, Supported
  <2>4. CASE DropSource
    <3>1. cs \in Segments /\ SegCount \in Nat
      BY SegmentFacts DEF IInv, ControlTypeOK
    <3>2. cs + 1 < SegCount \/ cs = SegCount - 1
      BY <3>1 DEF Segments
    <3>5. compact_tmp # NoFile
      BY <2>4 DEF DropSource, IInv, FilesOK
    <3>3. CASE cs + 1 < SegCount
      BY <2>4, <3>3 DEF DropSource
    <3>4. CASE cs = SegCount - 1
      <4>1. ~ (cs + 1 < SegCount) /\ cs + 1 = SegCount
        BY <3>1, <3>4
      <4> QED BY <2>4, <3>4, <3>5, <4>1 DEF DropSource
    <3> QED BY <3>2, <3>3, <3>4
  <2>5. CASE JournalCommit
    BY <2>5, JournalFacts DEF JournalCommit, WriteJournal, Supported
  <2> QED BY <1>3, <2>1, <2>2, <2>3, <2>4, <2>5 DEF Gathering
<1>4. CASE Exchanging
  <2>1. CASE RemoveAll
    <3>1. Blank'
      BY <2>1 DEF RemoveAll, RemoveSegments, Blank
    <3> QED BY <2>1, <3>1 DEF RemoveAll
  <2>2. CASE RenameTmp
    <3>1. compact_tmp # NoFile /\ segs' = [segs EXCEPT ![0] = compact_tmp]
          /\ pc' = "remove_index" /\ compact_tmp' = NoFile /\ UNCHANGED journal
      BY <2>2 DEF RenameTmp, Supported
    <3>2. segs'[0] = compact_tmp /\ \A s \in Segments \ {0} : segs'[s] = NoFile
      BY <1>0, <2>2, <3>1 DEF RenameTmp, Blank, IInv, DiskTypeOK
    <3> QED BY <2>2, <3>1, <3>2 DEF RenameTmp
  <2>3. CASE RemoveIndex \/ WriteIndex
    BY <2>3 DEF RemoveIndex, WriteIndex
  <2>4. CASE ClearJournal
    BY <2>4 DEF ClearJournal, TurnOK
  <2>5. CASE Reopen
    BY <2>5 DEF Reopen, Return
  <2> QED BY <1>4, <2>1, <2>2, <2>3, <2>4, <2>5 DEF Exchanging
<1>5. CASE Erasing
  BY <1>5 DEF Erasing, ClearSegment, ClearIndex, ClearReopen, Return, TurnOK
<1>6. CASE Recovering
  <2>1. CASE Boot /\ pc' = "recover" /\ UNCHANGED op
    BY <2>1 DEF Boot
  <2>2. CASE RecoverNothing
    BY <2>2 DEF RecoverNothing
  <2>3. CASE RecoverCommitted
    BY <2>3 DEF RecoverCommitted
  <2>4. CASE RecoverBack
    BY <2>4 DEF RecoverBack, TurnOK, Loading
  <2>5. CASE LoadIndex \/ RebuildIndex \/ WriteBootIndex
    <3>1. pc' \in {"prune", "open", "write_rebuilt"} /\ journal = NoFile /\ UNCHANGED journal
      BY <2>5 DEF LoadIndex, RebuildIndex, WriteBootIndex, TurnOK
    <3> QED BY <3>1
  <2>6. CASE PruneAtBoot
    BY <2>6, PruneEffect DEF PruneAtBoot
  <2>7. CASE OpenFiles
    BY <2>7 DEF OpenFiles
  <2> QED BY <1>6, <2>1, <2>2, <2>3, <2>4, <2>5, <2>6, <2>7 DEF Recovering
<1>7. CASE Stopping
  <2>1. CASE Crash
    <3>1. \/ journal' \in {NoFile, Torn, Copying0}
          \/ Committed' /\ compact_tmp' # NoFile
      BY <2>1, CrashStage
    <3> QED BY <2>1, <3>1, CrashStage, PowerOffEffect
  <2>2. CASE Shutdown
    BY <2>2, PowerOffEffect DEF Shutdown
  <2>3. CASE CooldownEnds \/ Tick \/ LoseIndex
    BY <2>3 DEF CooldownEnds, Tick, LoseIndex
  <2> QED BY <1>7, <2>1, <2>2, <2>3 DEF Stopping
<1> QED BY <1>1, <1>2, <1>3, <1>4, <1>5, <1>6, <1>7, PossibleSteps

---------------------------------------------------------------------------
(* The handles, index.dat and the first boot                               *)

\* An index that is written in one go is whole.
LEMMA WholeIndex ==
    \A ix \in Index : [map |-> ix, torn |-> FALSE] # NoFile /\ [map |-> ix, torn |-> FALSE] \in IndexLog
BY IndexLogFacts

\* A put finds the files open and leaves its record where its entry says.
LEMMA AppendKept ==
    ASSUME Supported, Inv, Next
    PROVE  AppendOK'
<1> USE DEF Inv, DInv, AppendOK, Ready
<1>0. segs \in Files /\ caller \in Callers
  BY DEF IInv, DiskTypeOK, ControlTypeOK, Files
<1>1. CASE Calls
  <2>1. ASSUME NEW k \in Keys, NEW d \in Payloads, StartPut(k, d) PROVE AppendOK'
    <3>1. pc = "idle" /\ active_file # Closed /\ caller = "none" /\ UNCHANGED index_file
      BY <2>1 DEF StartPut, Usable, Supported, IInv, CallOK
    <3>2. CASE UNCHANGED <<disk, ram, caller>> /\ pc' = "append"
      BY <3>1, <3>2
    <3>3. ASSUME NEW id \in Segments, OpenSegment(id), pc' = "append" PROVE AppendOK'
      BY <3>1, <3>3, KeepsOpen DEF IInv
    <3>4. CASE caller' = "rotate" /\ pc' = "journal_copying"
      BY <3>1, <3>4
    <3>5. SegCount - 1 \in Segments
          /\ (current_segment + 1 < SegCount => current_segment + 1 \in Segments)
      BY SegmentFacts DEF Segments, IInv, RamTypeOK
    <3> QED BY <2>1, <3>2, <3>3, <3>4, <3>5 DEF StartPut
  <2>2. CASE \E k \in Keys : StartRemove(k)
    BY <2>2 DEF StartRemove, Usable, Supported
  <2>3. CASE (\E k \in Keys : Get(k)) \/ StartClear \/ Close
    BY <2>3 DEF Get, StartClear, Close, Clearing
  <2> QED BY <1>1, <2>1, <2>2, <2>3 DEF Calls
<1>2. CASE AppendRecord
  <2> DEFINE c == [key |-> op.key, data |-> IF op.name = "put" THEN op.data ELSE Tombstone]
             e == EntryFor(current_segment, current_offset, op.data)
  <2>1. /\ c \in Cell /\ active_file \in Segments /\ segs[active_file] # NoFile
        /\ segs' = [segs EXCEPT ![active_file] = Append(@, c)]
        /\ current_offset = Len(segs[active_file])
    BY <1>2, AppendStep
  <2>2. /\ segs'[active_file] # NoFile /\ Len(segs'[active_file]) = Len(segs[active_file]) + 1
        /\ segs'[active_file][current_offset + 1] = c
    <3>1. segs \in Files /\ c \in Cell \cup {Torn}
      BY <1>0, <2>1
    <3> HIDE DEF c
    <3> QED BY <3>1, <2>1, KeepsAppend
  <2>3. /\ pc' = "persist" /\ active_file = current_segment /\ index_file
        /\ UNCHANGED <<current_segment, current_offset, active_file, index_file>>
    BY <1>2 DEF AppendRecord
  <2>4. PICK E \in SUBSET Keys :
           /\ op'.evicted = IF op.name = "put" THEN (op.evicted \ {op.key}) \cup E
                            ELSE op.evicted
           /\ op.name = "remove" => E = {}
           /\ \A k \in Keys :
                 index'[k] = IF k \in E THEN None
                             ELSE IF k # op.key THEN index[k]
                             ELSE IF op.name = "remove" THEN None ELSE e
    BY <1>2, AppendEffect
  <2>5. op'.name = op.name /\ op'.key = op.key /\ op'.data = op.data /\ op.key \in Keys
        /\ (op.name = "put" => op.data \in Payloads)
    BY <1>2, AppendEffect
  <2>6. ASSUME op.name = "put"
        PROVE  Home(segs', e, op.key) /\ Stored(segs', e) = op.data
    <3>1. e.seg = active_file /\ e.off = current_offset
      BY <2>3 DEF EntryFor
    <3>2. current_offset < Len(segs'[active_file])
      BY <2>1, <2>2, <1>0 DEF Files, File
    <3>3. c.key = op.key /\ c.data = op.data /\ c # Torn
      BY <2>1, <2>6, ModelValues
    <3>4. Readable(segs'[e.seg], e.off) /\ Stored(segs', e) = op.data
      BY <2>2, <3>1, <3>2, <3>3 DEF Readable, Stored
    <3>5. e = EntryFor(e.seg, e.off, op.data)
      BY <2>3, <3>1
    <3> HIDE DEF e, c
    <3> QED BY <2>2, <2>5, <2>6, <3>1, <3>3, <3>4, <3>5 DEF Home
  <2>7. op.name = "put" /\ op.key \notin op'.evicted => index'[op.key] = e
    <3>1. op.name = "put" => E \subseteq op'.evicted
      BY <2>4
    <3>2. index'[op.key] = IF op.key \in E THEN None
                           ELSE IF op.name = "remove" THEN None ELSE e
      BY <2>4, <2>5
    <3> HIDE DEF e
    <3> QED BY <3>1, <3>2
  <2>8. op.name = "remove" => index'[op.key] = None
    BY <2>4, <2>5
  <2> HIDE DEF c
  <2>9. (e)' = EntryFor(current_segment, current_offset, op.data)
    BY <2>3, <2>5 DEF EntryFor
  <2>10. current_offset' + 1 = Len(segs'[active_file'])
    BY <2>1, <2>2, <2>3
  <2>11. ~ (Ready')
    BY <2>3
  <2> QED BY <2>1, <2>2, <2>3, <2>5, <2>6, <2>7, <2>8, <2>9, <2>10, <2>11
<1>3. CASE PersistEntry
  <2>1. /\ pc = "persist" /\ current_offset' = current_offset + 1
        /\ UNCHANGED <<segs, active_file, current_segment, index_file>>
        /\ pc' \in {"idle", "journal_copying"}
    BY <1>3 DEF PersistEntry, Return
  <2> QED BY <2>1
<1>4. CASE Gathering
  <2>1. CASE JournalCopying
    BY <2>1 DEF JournalCopying
  <2>2. CASE OpenTmp \/ CopyRecord \/ JournalSegment \/ DropSource \/ JournalCommit
    <3>1. pc' \in {"copy", "drop_source", "journal_commit", "remove_all"}
      BY <2>2 DEF OpenTmp, CopyRecord, JournalSegment, DropSource, JournalCommit
    <3> QED BY <3>1
  <2>3. CASE OpenTmpFails
    <3>1. CASE OpenSegment(SegCount - 1) /\ pc' = "append"
      BY <2>3, <3>1, KeepsOpen, SegmentFacts DEF OpenTmpFails, IInv
    <3>2. CASE caller = "threshold" /\ Return
               /\ UNCHANGED <<segs, current_segment, current_offset, active_file>>
      BY <2>3, <3>2 DEF OpenTmpFails, Return
    <3> QED BY <2>3, <3>1, <3>2, GiveUpStep
  <2> QED BY <1>4, <2>1, <2>2, <2>3 DEF Gathering
<1>5. CASE Exchanging
  <2>1. CASE RemoveAll \/ RenameTmp \/ RemoveIndex
    <3>1. pc' \in {"rename_tmp", "remove_index", "write_index"}
      BY <2>1 DEF RemoveAll, RenameTmp, RemoveIndex, StageOK, Supported
    <3> QED BY <3>1
  <2>2. CASE WriteIndex
    BY <2>2 DEF WriteIndex
  <2>3. CASE ClearJournal
    BY <2>3 DEF ClearJournal, TurnOK
  <2>4. CASE Reopen
    <3>1. OpenSegment(1) /\ pc' \in {"idle", "append"} /\ pc = "reopen" /\ UNCHANGED index_file
      BY <2>4 DEF Reopen, Return
    <3> QED BY <3>1, KeepsOpen, SegmentFacts DEF IInv
  <2> QED BY <1>5, <2>1, <2>2, <2>3, <2>4 DEF Exchanging
<1>6. CASE Erasing
  <2>1. CASE ClearSegment \/ ClearIndex
    <3>1. pc' \in Clearing
      BY <2>1 DEF ClearSegment, ClearIndex, Clearing
    <3> QED BY <3>1 DEF Clearing
  <2>2. CASE ClearReopen
    <3>1. OpenSegment(0) /\ index_file /\ pc' = "idle" /\ UNCHANGED index_file
      BY <2>2 DEF ClearReopen, ClearOK, Clearing, TurnOK, Return
    <3> QED BY <3>1, KeepsOpen, SegmentFacts DEF IInv
  <2> QED BY <1>6, <2>1, <2>2 DEF Erasing
<1>7. CASE Recovering
  <2>1. CASE OpenFiles
    <3>1. PICK id \in Segments : OpenSegment(id)
      BY <2>1, OpenFilesSegment DEF OpenFiles, IInv
    <3> QED BY <2>1, <3>1, KeepsOpen DEF OpenFiles, IInv
  <2>2. CASE ~ OpenFiles
    <3>1. pc' \in Loading \cup {"remove_all", "clear_journal", "write_pruned"}
          /\ caller' = "boot"
      BY <1>7, <2>2 DEF Recovering, Boot, RecoverNothing, RecoverCommitted, RecoverBack,
              LoadIndex, RebuildIndex, WriteBootIndex, PruneAtBoot, Loading, TurnOK
    <3> QED BY <3>1 DEF Loading
  <2> QED BY <2>1, <2>2
<1>8. CASE Stopping
  <2>1. CASE Crash \/ Shutdown
    BY <2>1 DEF Crash, Shutdown, PowerOff
  <2>2. CASE CooldownEnds \/ Tick \/ LoseIndex
    BY <2>2 DEF CooldownEnds, Tick, LoseIndex
  <2> QED BY <1>8, <2>1, <2>2 DEF Stopping
<1> QED BY <1>1, <1>2, <1>3, <1>4, <1>5, <1>6, <1>7, <1>8, PossibleSteps

\* index.dat is only ever missing where the code has just removed it.
LEMMA IndexFileKept ==
    ASSUME Supported, Inv, Next
    PROVE  IndexFileOK'
<1> USE DEF Inv, DInv, IndexFileOK, Starting, Committed, InJournal, Clearing
<1>0. index_dat \in IndexLog \cup {NoFile} /\ index \in Index
  BY DEF IInv, DiskTypeOK, RamTypeOK
<1>1. CASE Calls
  <2>1. pc = "idle" /\ caller = "none" /\ UNCHANGED index_dat /\ caller' # "boot"
        /\ pc' \in {"idle", "append", "journal_copying", "clear_segment"}
    BY <1>1 DEF Calls, StartPut, StartRemove, Get, StartClear, Close, IInv, CallOK
  <2> QED BY <2>1
<1>2. CASE AppendRecord
  BY <1>2 DEF AppendRecord, IInv, CallOK
<1>3. CASE PersistEntry
  <2>1. index_file /\ index_dat # NoFile /\ op.key \in Keys
    BY <1>3 DEF PersistEntry, AppendOK, IInv, CallOK
  <2>0. op.name = "put" => EntryFor(current_segment, current_offset, op.data) \in Entry
    BY <1>3, EntryType DEF PersistEntry, IInv, CallOK, RamTypeOK
  <2>2. PICK x \in Entry \cup {None} : index_dat' = Logged(index_dat, op.key, x)
    BY <1>3, <2>0, <2>1 DEF PersistEntry
  <2>3. index_dat' = [index_dat EXCEPT !.map = [@ EXCEPT ![op.key] = x]]
    BY <2>1, <2>2 DEF Logged
  <2>4. ~ index_dat'.torn
    BY <1>0, <2>1, <2>3 DEF IndexLog
  <2>5. index_dat' # NoFile
    BY <1>0, <2>1, <2>2, LoggedType, ModelValues
  <2> QED BY <1>3, <2>4, <2>5 DEF PersistEntry, Return, IInv, CallOK
<1>4. CASE Gathering
  <2>1. UNCHANGED index_dat /\ caller \in {"rotate", "threshold"}
        /\ pc' \in {"open_tmp", "copy", "drop_source", "journal_commit", "remove_all",
                    "append", "idle"}
        /\ pc \notin {"write_index"} \cup Clearing /\ pc # "down" /\ caller' # "boot"
    BY <1>4, GiveUpStep DEF Gathering, JournalCopying, OpenTmp, OpenTmpFails, CopyRecord,
                JournalSegment, DropSource, JournalCommit, Return, TurnOK, Copying
  <2> QED BY <2>1
<1>5. CASE Exchanging
  <2>1. CASE RemoveAll \/ RenameTmp
    <3>1. Committed /\ UNCHANGED <<index_dat, journal, caller>>
          /\ pc' \in {"rename_tmp", "remove_index"} /\ pc \in {"remove_all", "rename_tmp"}
      BY <2>1 DEF RemoveAll, RenameTmp, StageOK, Supported
    <3> QED BY <3>1
  <2>2. CASE RemoveIndex
    BY <2>2 DEF RemoveIndex, StageOK
  <2>3. CASE WriteIndex
    BY <1>0, <2>3, WholeIndex DEF WriteIndex
  <2>4. CASE ClearJournal
    <3>1. UNCHANGED <<segs, index_dat, caller>> /\ pc = "clear_journal"
          /\ pc' \in {"load", "reopen"} /\ caller # "call"
      BY <2>4 DEF ClearJournal, TurnOK
    <3>2. Committed \/ (caller = "boot" /\ ~ Committed)
      BY <3>1 DEF StageOK, Copying0
    <3>3. CASE Committed
      BY <3>1, <3>3
    <3>4. CASE caller = "boot" /\ ~ Committed
      BY <3>1, <3>4 DEF Blank
    <3> QED BY <3>2, <3>3, <3>4
  <2>5. CASE Reopen
    BY <2>5 DEF Reopen, Return, TurnOK, Copying
  <2> QED BY <1>5, <2>1, <2>2, <2>3, <2>4, <2>5 DEF Exchanging
<1>6. CASE Erasing
  <2>1. CASE ClearSegment \/ ClearIndex
    BY <2>1 DEF ClearSegment, ClearIndex, TurnOK
  <2>2. CASE ClearReopen
    <3>1. index_file /\ caller = "none" /\ EmptyIndex \in Index
      BY <2>2, IndexLogFacts DEF ClearReopen, ClearOK, TurnOK
    <3> QED BY <2>2, <3>1, WholeIndex DEF ClearReopen, Return
  <2> QED BY <1>6, <2>1, <2>2 DEF Erasing
<1>7. CASE Recovering
  <2>1. CASE Boot /\ pc' = "recover" /\ UNCHANGED op
    BY <2>1 DEF Boot, Blank
  <2>2. CASE RecoverNothing \/ RecoverCommitted \/ RecoverBack
    <3>1. caller = "boot" /\ UNCHANGED <<segs, index_dat, caller>>
          /\ pc' \in {"load", "remove_all", "clear_journal"}
      BY <2>2 DEF RecoverNothing, RecoverCommitted, RecoverBack, TurnOK, Loading
    <3>2. RecoverCommitted => Committed'
      BY ModelValues DEF RecoverCommitted
    <3>3. RecoverNothing \/ RecoverBack => ~ Committed /\ ~ Committed'
      BY DEF RecoverNothing, RecoverBack
    <3>4. RecoverCommitted => pc' = "remove_all"
      BY DEF RecoverCommitted
    <3> QED BY <2>2, <3>1, <3>2, <3>3, <3>4 DEF Blank
  <2>3. CASE LoadIndex
    BY <2>3 DEF LoadIndex, Blank
  <2>4. CASE RebuildIndex
    BY <2>4 DEF RebuildIndex, Blank
  <2>5. CASE WriteBootIndex
    BY <1>0, <2>5, WholeIndex DEF WriteBootIndex, TurnOK
  <2>6. CASE PruneAtBoot
    BY <2>6, PruneEffect DEF PruneAtBoot, Blank
  <2>7. CASE OpenFiles
    BY <2>7 DEF OpenFiles, IInv, FilesOK
  <2> QED BY <1>7, <2>1, <2>2, <2>3, <2>4, <2>5, <2>6, <2>7 DEF Recovering
<1>8. CASE Stopping
  <2>1. CASE Crash
    <3>1. index_dat = NoFile /\ ~ Committed => Starting
      <4>1. pc # "write_index" \/ Committed
        BY DEF StageOK
      <4> QED BY <2>1, <4>1, CrashStage
    <3>2. index_dat = NoFile => ~ (pc = "append" \/ pc \in {"journal_copying", "copy", "journal_commit"})
      BY DEF IInv, CallOK, TurnOK, Loading, Swapping
    <3>3. UNCHANGED index_dat /\ (index_dat = NoFile => UNCHANGED <<segs, journal>>)
      BY <2>1, <3>2, CrashStage
    <3>4. pc' = "down"
      BY <2>1 DEF Crash, PowerOff
    <3> QED BY <3>1, <3>3, <3>4 DEF Blank
  <2>2. CASE Shutdown
    BY <2>2 DEF Shutdown, PowerOff, IInv, CallOK
  <2>3. CASE CooldownEnds \/ Tick \/ LoseIndex
    BY <2>3 DEF CooldownEnds, Tick, LoseIndex, Blank
  <2> QED BY <1>8, <2>1, <2>2, <2>3 DEF Stopping
<1> QED BY <1>1, <1>2, <1>3, <1>4, <1>5, <1>6, <1>7, <1>8, PossibleSteps

\* clear() deletes one segment after the other and then the index.
LEMMA ClearKept ==
    ASSUME Supported, Inv, Next
    PROVE  ClearOK'
<1> USE DEF Inv, DInv, ClearOK, Clearing
<1>1. CASE StartClear
  BY <1>1, SegmentFacts DEF StartClear, Usable, Supported, AppendOK, Ready, Segments
<1>2. CASE ClearSegment
  <2>1. cs \in Segments /\ SegCount \in Nat
    BY SegmentFacts DEF IInv, ControlTypeOK
  <2>2. \A s \in Segments : s < cs + 1 => segs'[s] = NoFile
    BY <1>2, <2>1 DEF ClearSegment, IInv, DiskTypeOK, Segments
  <2>3. ~ (cs + 1 < SegCount) => Blank'
    BY <2>1, <2>2 DEF Segments, Blank
  <2> QED BY <1>2, <2>2, <2>3 DEF ClearSegment
<1>3. CASE ClearIndex
  BY <1>3 DEF ClearIndex, Blank
<1>4. CASE ~ (StartClear \/ ClearSegment \/ ClearIndex)
  <2>1. pc' \notin Clearing
    <3>1. CASE Calls
      BY <1>4, <3>1 DEF Calls, StartPut, StartRemove, Get, Close
    <3>2. CASE AppendRecord \/ PersistEntry
      BY <3>2 DEF AppendRecord, PersistEntry, Return
    <3>3. CASE Gathering
      BY <3>3, GiveUpStep DEF Gathering, JournalCopying, OpenTmp, OpenTmpFails, CopyRecord,
                JournalSegment, DropSource, JournalCommit, Return
    <3>4. CASE Exchanging
      BY <3>4 DEF Exchanging, RemoveAll, RenameTmp, RemoveIndex, WriteIndex,
                ClearJournal, Reopen, Return
    <3>5. CASE ClearReopen
      BY <3>5 DEF ClearReopen, Return, TurnOK
    <3>6. CASE Recovering
      BY <3>6 DEF Recovering, Boot, RecoverNothing, RecoverCommitted, RecoverBack,
              LoadIndex, RebuildIndex, WriteBootIndex, PruneAtBoot, OpenFiles
    <3>7. CASE Stopping
      BY <3>7 DEF Stopping, Crash, Shutdown, CooldownEnds, Tick, LoseIndex, PowerOff
    <3> QED BY <1>4, <3>1, <3>2, <3>3, <3>4, <3>5, <3>6, <3>7, PossibleSteps DEF Erasing
  <2> QED BY <2>1
<1> QED BY <1>1, <1>2, <1>3, <1>4

\* With a record limit nothing has been stored before the first boot ends.
LEMMA FirstBootKept ==
    ASSUME Supported, Inv, Next
    PROVE  FirstBootOK'
<1> SUFFICES ASSUME MaxRecs > 0, Starting'
             PROVE  /\ op' = NoOp /\ journal' = NoFile /\ Blank'
                    /\ \A k \in Keys : promised'[k] = None
  BY DEF FirstBootOK
<1> USE DEF Inv, DInv, Starting
<1>1. Crashes = {} /\ "reboot" \notin Ops
  BY DEF Supported
<1>2. ~ Crash /\ ~ Shutdown
  BY <1>1 DEF Crash, Shutdown
<1>3. Starting
  <2>1. CASE Calls \/ AppendRecord \/ PersistEntry
    <3>1. caller' # "boot" /\ pc' # "down"
      BY <2>1 DEF Calls, StartPut, StartRemove, Get, StartClear, Close, AppendRecord,
                PersistEntry, Return, IInv, CallOK
    <3> QED BY <3>1
  <2>2. CASE Gathering
    <3>1. caller' # "boot" /\ pc' # "down"
      BY <2>2, GiveUpStep DEF Gathering, JournalCopying, OpenTmp, OpenTmpFails, CopyRecord,
                JournalSegment, DropSource, JournalCommit, Return, TurnOK, Copying
    <3> QED BY <3>1
  <2>3. CASE Exchanging
    <3>1. (caller' # "boot" \/ caller = "boot") /\ pc' # "down"
      BY <2>3 DEF Exchanging, RemoveAll, RenameTmp, RemoveIndex, WriteIndex,
                ClearJournal, Reopen, Return
    <3> QED BY <3>1
  <2>4. CASE Erasing
    <3>1. caller' # "boot" /\ pc' # "down"
      BY <2>4 DEF Erasing, ClearSegment, ClearIndex, ClearReopen, Return, TurnOK, Clearing
    <3> QED BY <3>1
  <2>5. CASE Recovering
    BY <2>5 DEF Recovering, Boot, RecoverNothing, RecoverCommitted, RecoverBack,
              LoadIndex, RebuildIndex, WriteBootIndex, PruneAtBoot, OpenFiles, TurnOK, Loading
  <2>6. CASE CooldownEnds \/ Tick \/ LoseIndex
    BY <2>6 DEF CooldownEnds, Tick, LoseIndex
  <2> QED BY <1>2, <2>1, <2>2, <2>3, <2>4, <2>5, <2>6, PossibleSteps DEF Stopping
<1>4. /\ op = NoOp /\ journal = NoFile /\ Blank
      /\ \A k \in Keys : promised[k] = None
  BY <1>3 DEF FirstBootOK
<1>5. ~ Committed /\ journal # Copying0
  BY <1>4, JournalFacts, ModelValues DEF Committed, InJournal, Copying0
<1>6. pc \in {"down", "recover", "load", "write_rebuilt", "prune", "open"}
  BY <1>3, <1>5 DEF TurnOK, StageOK, Loading, Swapping
<1>7. CASE Recovering
  <2>1. CASE OpenFiles
    BY <2>1 DEF OpenFiles
  <2>2. CASE PruneAtBoot
    BY <1>4, <2>2, PruneEffect DEF PruneAtBoot, Blank
  <2>3. CASE RecoverCommitted \/ RecoverBack
    BY <1>4, <2>3 DEF RecoverCommitted, RecoverBack
  <2>4. CASE RecoverNothing
    BY <1>4, <2>4 DEF RecoverNothing, Blank
  <2>5. CASE (Boot /\ UNCHANGED op) \/ LoadIndex \/ RebuildIndex \/ WriteBootIndex
    <3>1. UNCHANGED <<segs, journal, op, promised>>
      BY <2>5 DEF Boot, LoadIndex, RebuildIndex, WriteBootIndex
    <3> QED BY <1>4, <3>1 DEF Blank
  <2> QED BY <1>7, <2>1, <2>2, <2>3, <2>4, <2>5 DEF Recovering
<1>8. CASE Tick
  BY <1>4, <1>8 DEF Tick, Blank
<1>9. CASE LoseIndex
  BY <1>4, <1>9 DEF LoseIndex, Blank
<1>10. ~ (Calls \/ AppendRecord \/ PersistEntry \/ Gathering \/ Exchanging \/ Erasing
         \/ CooldownEnds)
  BY <1>6 DEF Calls, StartPut, StartRemove, Get, StartClear, Close, AppendRecord,
              PersistEntry, Gathering, JournalCopying, OpenTmp, OpenTmpFails, CopyRecord,
              JournalSegment, DropSource, JournalCommit, Exchanging, RemoveAll, RenameTmp,
              RemoveIndex, WriteIndex, ClearJournal, Reopen, Erasing, ClearSegment,
              ClearIndex, ClearReopen, CooldownEnds
<1> QED BY <1>2, <1>7, <1>8, <1>9, <1>10, PossibleSteps DEF Stopping

---------------------------------------------------------------------------
(* The index in RAM                                                        *)

\* Where every record stays in its place and no key may hold less than
\* before, the entry of a key goes on telling its value.
LEMMA RamSame ==
    ASSUME Inv, RamTells, segs' \in Files, Keeps(segs, segs'), now' = now,
           NEW k \in Keys, index'[k] = index[k], May(k, InRam) \subseteq May(k, InRam)'
    PROVE  \E d \in May(k, InRam)' : Fits(segs', now', index'[k], k, d)
<1>1. PICK d \in May(k, InRam) : Fits(segs, now, index[k], k, d)
  BY DEF Inv, DInv, RamOK, IndexFits
<1>2. index[k] \in Entry \cup {None} /\ segs \in Files
  BY DEF Inv, IInv, RamTypeOK, Index, DiskTypeOK, Files
<1>3. Fits(segs', now, index[k], k, d)
  BY <1>1, <1>2, FitsKept
<1> QED BY <1>1, <1>3

\* A step that only moves the call along.
LEMMA RamOnward ==
    ASSUME Inv, RamTells, segs' \in Files, Keeps(segs, segs'), now' = now,
           NEW k \in Keys, index'[k] = index[k],
           UNCHANGED <<op, promised>>, InRam' <=> InRam, Starting' <=> Starting
    PROVE  \E d \in May(k, InRam)' : Fits(segs', now', index'[k], k, d)
<1>1. May(k, InRam) \subseteq May(k, InRam)'
  BY DEF May, Due
<1> QED BY <1>1, RamSame

\* The call returns with its effect in the index.
LEMMA RamReturn ==
    ASSUME Inv, RamTells, segs' \in Files, Keeps(segs, segs'), InRam, ~ Starting,
           Return, NEW k \in Keys, index'[k] = index[k]
    PROVE  \E d \in May(k, InRam)' : Fits(segs', now', index'[k], k, d)
<1>1. op.name # "clear"
  BY DEF Inv, DInv, TurnOK, RamTells, Clearing
<1>2. promised'[k] = After(k) /\ op'.evicted = {} /\ op'.key = None /\ k # None /\ now' = now
      /\ pc' = "idle" /\ caller' = "none"
  BY Parameters DEF Return, NoOp
<1>3. May(k, InRam) \subseteq May(k, InRam)'
  BY <1>1, <1>2 DEF May, Due, After, InRam, Starting
<1> QED BY <1>2, <1>3, RamSame

\* The start of a call changes nothing a caller can see; get() drops an entry
\* only if it stands for nothing.
LEMMA RamCalls ==
    ASSUME Supported, Inv, Calls, RamTells', NEW k \in Keys
    PROVE  \E d \in May(k, InRam)' : Fits(segs', now', index'[k], k, d)
<1> USE DEF Inv, DInv
<1>0. /\ pc = "idle" /\ caller = "none" /\ op = NoOp /\ RamTells
      /\ segs \in Files /\ Keeps(segs, segs)
  <2>1. pc = "idle"
    BY DEF Calls, StartPut, StartRemove, Get, StartClear, Close
  <2>2. segs \in Files
    BY DEF IInv, DiskTypeOK, Files
  <2> QED BY <2>1, <2>2, KeepsSame DEF RamTells, IInv, CallOK, TurnOK
<1>1. May(k, InRam) = {promised[k]}
  BY <1>0, Parameters DEF May, Due, InRam, Starting, NoOp
<1>2. CASE \E x \in Keys, d \in Payloads : StartPut(x, d)
  <2>1. PICK x \in Keys, d \in Payloads : StartPut(x, d)
    BY <1>2
  <2>2. pc' \in {"append", "journal_copying"} /\ caller' \in {"none", "rotate"}
        /\ op'.evicted = {} /\ UNCHANGED <<promised, index, now>>
    BY <1>0, <2>1 DEF StartPut
  <2>3. May(k, InRam)' = {promised[k]}
    BY <2>2 DEF May, Due, InRam, Starting
  <2>4. segs' \in Files /\ Keeps(segs, segs')
    <3>1. SegCount - 1 \in Segments
          /\ (current_segment + 1 < SegCount => current_segment + 1 \in Segments)
      BY SegmentFacts DEF Segments, IInv, RamTypeOK
    <3>2. UNCHANGED segs \/ \E id \in Segments : OpenSegment(id)
      BY <2>1, <3>1 DEF StartPut
    <3> QED BY <1>0, <3>2, KeepsOpen DEF IInv
  <2> QED BY <1>0, <1>1, <2>2, <2>3, <2>4, RamSame
<1>3. CASE \E x \in Keys : StartRemove(x)
  <2>1. pc' = "append" /\ caller' = "none" /\ op'.evicted = {}
        /\ UNCHANGED <<promised, index, now, segs>>
    BY <1>0, <1>3 DEF StartRemove
  <2>2. May(k, InRam)' = {promised[k]}
    BY <2>1 DEF May, Due, InRam, Starting
  <2> QED BY <1>0, <1>1, <2>1, <2>2, RamSame
<1>4. CASE \E x \in Keys : Get(x)
  <2>1. PICK x \in Keys : Get(x)
    BY <1>4
  <2>2. /\ UNCHANGED <<pc, caller, op, promised, now, segs>>
        /\ index[x] # None /\ Expired(index[x].ts, index[x].ttl, now)
        /\ index' = [index EXCEPT ![x] = None]
    BY <2>1 DEF Get
  <2>3. index'[x] = None /\ (k # x => index'[k] = index[k])
    BY <2>2 DEF IInv, RamTypeOK, Index
  <2>4. May(k, InRam)' = {promised[k]}
    BY <1>0, <2>2, Parameters DEF May, Due, InRam, Starting, NoOp
  <2>5. CASE k # x
    BY <1>0, <1>1, <2>2, <2>3, <2>4, <2>5, RamSame
  <2>6. CASE k = x
    <3>1. Fits(segs, now, index[k], k, promised[k])
      BY <1>0, <1>1 DEF RamOK, IndexFits
    <3>2. Fits(segs, now, None, k, promised[k])
      BY <2>2, <2>6, <3>1, ExpiredFits DEF IInv, OutsideTypeOK
    <3> QED BY <2>2, <2>3, <2>4, <2>6, <3>2
  <2> QED BY <2>5, <2>6
<1>5. CASE StartClear
  BY <1>5 DEF StartClear, RamTells
<1>6. CASE Close
  BY <1>0, <1>6, RamOnward DEF Close, InRam, Starting
<1> QED BY <1>2, <1>3, <1>4, <1>5, <1>6 DEF Calls

\* put() and remove(): after the append the index tells what the call means
\* to do, and for the others what it did.
LEMMA RamAppend ==
    ASSUME Supported, Inv, AppendRecord, NEW k \in Keys
    PROVE  \E d \in May(k, InRam)' : Fits(segs', now', index'[k], k, d)
<1> USE DEF Inv, DInv
<1> DEFINE e == EntryFor(current_segment, current_offset, op.data)
<1>1. PICK E \in SUBSET Keys :
         /\ op'.evicted = IF op.name = "put" THEN (op.evicted \ {op.key}) \cup E
                          ELSE op.evicted
         /\ op.name = "remove" => E = {}
         /\ \A x \in Keys :
               index'[x] = IF x \in E THEN None
                           ELSE IF x # op.key THEN index[x]
                           ELSE IF op.name = "remove" THEN None ELSE e
  BY AppendEffect
<1> HIDE DEF e
<1>2. /\ op'.name = op.name /\ op'.key = op.key /\ op'.data = op.data
      /\ op.name \in {"put", "remove"} /\ (op.name = "remove" => op.data = None)
      /\ op.name = "put" => op.data \in Payloads
  BY AppendEffect DEF TurnOK
<1>3. /\ pc = "append" /\ caller = "none" /\ pc' = "persist" /\ caller' = "none"
      /\ UNCHANGED <<now, promised, current_segment, current_offset>>
  BY DEF AppendRecord, IInv, CallOK
<1>4. InRam' /\ ~ Starting' /\ ~ InRam /\ ~ Starting /\ RamTells
  BY <1>3 DEF InRam, Starting, RamTells
<1>5. segs \in Files /\ segs' \in Files /\ Keeps(segs, segs')
  BY AppendStep, KeepsAppend DEF IInv, DiskTypeOK, Files
<1>6. CASE k \in E
  <2>1. index'[k] = None /\ k \in op'.evicted
    BY <1>1, <1>2, <1>6
  <2>2. May(k, InRam)' = {None}
    BY <1>4, <2>1 DEF May, Due
  <2> QED BY <2>1, <2>2 DEF Fits, SeenAt
<1>7. CASE k \notin E /\ k # op.key
  <2>1. index'[k] = index[k] /\ (k \in op'.evicted <=> k \in op.evicted)
    BY <1>1, <1>7
  <2>2. May(k, InRam)' = May(k, InRam)
    BY <1>2, <1>3, <1>4, <1>7, <2>1 DEF May, Due
  <2> QED BY <1>3, <1>4, <1>5, <2>1, <2>2, RamSame
<1>8. CASE k \notin E /\ k = op.key /\ op.name = "put"
  <2>1. index'[k] = e /\ k \notin op'.evicted
    BY <1>1, <1>8
  <2>2. May(k, InRam)' = {op.data}
    BY <1>2, <1>3, <1>4, <1>8, <2>1 DEF May, Due
  <2>3. AppendOK'
    BY AppendKept DEF Next, Proceed
  <2>4. Home(segs', e, k) /\ Stored(segs', e) = op.data
    BY <1>2, <1>3, <1>8, <2>3 DEF AppendOK, e
  <2>5. e # None
    <3>1. current_segment \in Segments /\ current_offset \in Nat
      BY <1>3 DEF IInv, CallOK, RamTypeOK
    <3> QED BY <1>2, <1>8, <3>1, EntryType, ModelValues DEF e
  <2> QED BY <2>1, <2>2, <2>4, <2>5 DEF Fits
<1>9. CASE k = op.key /\ op.name = "remove"
  <2>1. index'[k] = None /\ op'.evicted = op.evicted
    BY <1>1, <1>9
  <2>2. May(k, InRam)' = {None}
    BY <1>2, <1>3, <1>4, <1>9, <2>1 DEF May, Due
  <2> QED BY <2>1, <2>2 DEF Fits, SeenAt
<1> QED BY <1>2, <1>6, <1>7, <1>8, <1>9

\* The rest of put() and remove(), the compaction, clear() and init().
LEMMA RamKept ==
    ASSUME Supported, Inv, Next
    PROVE  RamOK'
<1> SUFFICES ASSUME RamTells', NEW k \in Keys
             PROVE  \E d \in May(k, InRam)' : Fits(segs', now', index'[k], k, d)
  BY DEF RamOK, IndexFits
<1> USE DEF Inv, DInv
<1>0. segs \in Files /\ Keeps(segs, segs) /\ caller \in Callers
  <2>1. segs \in Files
    BY DEF IInv, DiskTypeOK, Files
  <2> QED BY <2>1, KeepsSame DEF IInv, ControlTypeOK
<1>1. CASE Calls
  BY <1>1, RamCalls
<1>2. CASE AppendRecord
  BY <1>2, RamAppend
<1>3. CASE PersistEntry
  <2>1. pc = "persist" /\ caller = "none" /\ UNCHANGED <<segs, index>> /\ RamTells
        /\ InRam /\ ~ Starting
    BY <1>3 DEF PersistEntry, IInv, CallOK, RamTells, InRam, Starting
  <2>2. CASE Return
    BY <1>0, <2>1, <2>2, RamReturn
  <2>3. CASE pc' = "journal_copying" /\ caller' = "threshold" /\ UNCHANGED <<op, outside>>
    BY <1>0, <2>1, <2>3, RamOnward DEF InRam, Starting
  <2> QED BY <1>3, <2>2, <2>3 DEF PersistEntry
<1>4. CASE Gathering
  <2>1. CASE JournalCopying
    BY <1>0, <2>1, RamOnward DEF JournalCopying, InRam, Starting, RamTells
  <2>2. CASE OpenTmp \/ CopyRecord \/ JournalSegment \/ DropSource \/ JournalCommit
    <3>1. pc' \in {"copy", "drop_source", "journal_commit", "remove_all"}
      BY <2>2 DEF OpenTmp, CopyRecord, JournalSegment, DropSource, JournalCommit
    <3> QED BY <3>1 DEF RamTells
  <2>3. CASE OpenTmpFails
    <3>1. pc = "open_tmp" /\ UNCHANGED index /\ RamTells
      BY <2>3 DEF OpenTmpFails, RamTells
    <3>2. CASE caller = "rotate" /\ caller' = "none" /\ pc' = "append"
               /\ OpenSegment(SegCount - 1) /\ UNCHANGED <<op, outside>>
      BY <3>1, <3>2, KeepsOpen, SegmentFacts, RamOnward DEF IInv, InRam, Starting
    <3>3. CASE caller = "threshold" /\ Return /\ UNCHANGED segs
      BY <1>0, <3>1, <3>3, RamReturn DEF InRam, Starting
    <3> QED BY <2>3, <3>2, <3>3, GiveUpStep
  <2> QED BY <1>4, <2>1, <2>2, <2>3 DEF Gathering
<1>5. CASE Exchanging
  <2>1. CASE RemoveAll
    BY <2>1 DEF RemoveAll, RamTells
  <2>2. CASE RenameTmp
    <3>1. /\ compact_tmp \in File /\ segs' = [segs EXCEPT ![0] = compact_tmp]
          /\ index' = IndexOfSegment0(compact_tmp)
          /\ pc = "rename_tmp" /\ pc' = "remove_index" /\ UNCHANGED <<op, caller, now, promised>>
      BY <2>2 DEF RenameTmp, StageOK, IInv, DiskTypeOK, Supported
    <3>2. segs' \in Files /\ segs'[0] = compact_tmp
      BY <1>0, <3>1, SegmentFacts DEF Files
    <3>3. PICK d \in May(k, InRam) : Carries(compact_tmp, now, k, d)
      BY <3>1 DEF CommitOK, TmpTells
    <3>4. d \in Value /\ now \in Nat
      BY <3>3, DueType DEF IInv, OutsideTypeOK
    <3>5. Fits(segs', now, index'[k], k, d)
      BY <3>1, <3>2, <3>3, <3>4, Segment0Fits
    <3>6. d \in May(k, InRam)'
      BY <3>1, <3>3 DEF May, Due, InRam, Starting
    <3> QED BY <3>1, <3>5, <3>6
  <2>3. CASE RemoveIndex \/ WriteIndex
    <3>1. UNCHANGED <<segs, index, op, caller, outside>> /\ pc \in {"remove_index", "write_index"}
          /\ pc' \in {"write_index", "clear_journal"}
      BY <2>3 DEF RemoveIndex, WriteIndex
    <3> QED BY <1>0, <3>1, RamOnward DEF InRam, Starting, RamTells
  <2>4. CASE ClearJournal
    BY <1>0, <2>4, RamOnward DEF ClearJournal, InRam, Starting, RamTells, TurnOK
  <2>5. CASE Reopen
    <3>1. pc = "reopen" /\ OpenSegment(1) /\ UNCHANGED index /\ RamTells
          /\ caller \in {"rotate", "threshold"}
      BY <2>5 DEF Reopen, RamTells
    <3>2. segs' \in Files /\ Keeps(segs, segs')
      BY <3>1, KeepsOpen, SegmentFacts DEF IInv
    <3>3. CASE caller = "rotate" /\ caller' = "none" /\ pc' = "append" /\ UNCHANGED <<op, outside>>
      BY <3>1, <3>2, <3>3, RamOnward DEF InRam, Starting
    <3>4. CASE caller = "threshold" /\ Return
      BY <3>1, <3>2, <3>4, RamReturn DEF InRam, Starting
    <3> QED BY <2>5, <3>3, <3>4 DEF Reopen
  <2> QED BY <1>5, <2>1, <2>2, <2>3, <2>4, <2>5 DEF Exchanging
<1>6. CASE Erasing
  <2>1. CASE ClearSegment \/ ClearIndex
    BY <2>1 DEF ClearSegment, ClearIndex, RamTells
  <2>2. CASE ClearReopen
    <3>1. index'[k] = None /\ Return /\ op.name = "clear"
      BY <2>2 DEF ClearReopen, ClearOK, TurnOK, Clearing, EmptyIndex
    <3>2. promised'[k] = None /\ op'.evicted = {} /\ op'.key = None /\ k # None
          /\ pc' = "idle" /\ caller' = "none"
      BY <3>1, Parameters DEF Return, NoOp, After
    <3>3. May(k, InRam)' = {None}
      BY <3>2 DEF May, Due, InRam, Starting
    <3> QED BY <3>1, <3>3 DEF Fits, SeenAt
  <2> QED BY <1>6, <2>1, <2>2 DEF Erasing
<1>7. CASE Recovering
  <2>1. CASE Boot \/ RecoverNothing \/ RecoverCommitted \/ RecoverBack
    <3>1. pc' \in {"recover", "clear_segment", "load", "remove_all"} \/
          (pc' = "clear_journal" /\ caller' = "boot")
      BY <2>1 DEF Boot, RecoverNothing, RecoverCommitted, RecoverBack, TurnOK, Loading
    <3> QED BY <3>1 DEF RamTells
  <2>2. CASE LoadIndex
    <3>1. pc = "load" /\ caller = "boot" /\ index' = DiskMap /\ pc' = "prune"
          /\ UNCHANGED <<segs, op, caller, outside>>
      BY <2>2 DEF LoadIndex, TurnOK, Loading, DiskMap
    <3>2. PICK d \in May(k, OnDisk) : Fits(segs, now, DiskMap[k], k, d)
      BY <3>1 DEF DiskOK, DiskTells, IndexFits, Starting, Clearing
    <3>3. d \in May(k, InRam)'
      BY <3>1, <3>2 DEF May, Due, InRam, OnDisk, Starting
    <3> QED BY <3>1, <3>2, <3>3
  <2>3. CASE RebuildIndex
    <3>1. pc = "load" /\ caller = "boot" /\ index_dat = NoFile /\ index' = RebuiltIndex
          /\ pc' = "write_rebuilt" /\ UNCHANGED <<segs, op, caller, outside>>
      BY <2>3 DEF RebuildIndex, TurnOK, Loading
    <3>2. PICK d \in May(k, OnDisk) : Fits(segs, now, DiskMap[k], k, d)
      BY <3>1 DEF DiskOK, DiskTells, IndexFits, Starting, Clearing
    <3>3. index' = DiskMap
      BY <3>1 DEF DiskMap
    <3>4. d \in May(k, InRam)'
      BY <3>1, <3>2 DEF May, Due, InRam, OnDisk, Starting
    <3> QED BY <3>1, <3>2, <3>3, <3>4
  <2>4. CASE WriteBootIndex
    BY <1>0, <2>4, RamOnward DEF WriteBootIndex, InRam, Starting, RamTells, TurnOK
  <2>5. CASE PruneAtBoot
    <3>1. pc = "prune" /\ pc' = "open" /\ UNCHANGED <<segs, index, op, caller, outside>>
      BY <2>5, PruneEffect DEF PruneAtBoot
    <3> QED BY <1>0, <3>1, RamOnward DEF InRam, Starting, RamTells
  <2>6. CASE OpenFiles
    <3>1. pc = "open" /\ caller = "boot" /\ pc' = "idle" /\ caller' = "none" /\ op' = NoOp
          /\ UNCHANGED <<index, now>> /\ promised'[k] = Resolved(k)
      BY <2>6 DEF OpenFiles, TurnOK, Loading
    <3>2. segs' \in Files /\ Keeps(segs, segs')
      BY <2>6, OpenFilesSegment, KeepsOpen DEF IInv
    <3>3. PICK d \in May(k, InRam) : Fits(segs, now, index[k], k, d)
      BY <3>1 DEF RamOK, RamTells, IndexFits
    <3>4. d \in Value /\ index[k] \in Entry \cup {None}
      BY <3>3, DueType DEF IInv, RamTypeOK, Index
    <3>5. View(k) = Seen(d)
      BY <3>3, <3>4, ViewFits DEF IInv, Seen, SeenAt
    <3>6. d \in {promised[k], After(k)} \cup (IF k = op.key THEN {op.data} ELSE {})
      <4>1. op.evicted = {}
        <5>1. CASE MaxRecs = 0
          BY <5>1 DEF TurnOK
        <5>2. CASE MaxRecs > 0
          BY <3>1, <5>2 DEF FirstBootOK, Starting, NoOp
        <5> QED BY <5>1, <5>2, Parameters
      <4> QED BY <3>1, <3>3, <4>1 DEF May, Due, InRam
    <3>7. Seen(Resolved(k)) = View(k)
      <4> DEFINE may == {promised[k], After(k)} \cup (IF k = op.key THEN {op.data} ELSE {})
                 fits == {x \in may : Seen(x) = View(k)}
      <4>1. d \in fits
        BY <3>5, <3>6
      <4>2. Resolved(k) = CHOOSE x \in fits : TRUE
        BY <4>1 DEF Resolved
      <4> HIDE DEF fits
      <4>3. Resolved(k) \in fits
        BY <4>1, <4>2
      <4> QED BY <4>3 DEF fits
    <3>8. Fits(segs, now, index[k], k, Resolved(k))
      BY <3>3, <3>5, <3>7 DEF Fits, Seen, SeenAt
    <3>9. Fits(segs', now', index'[k], k, Resolved(k))
      BY <1>0, <3>1, <3>2, <3>4, <3>8, FitsKept
    <3>10. Resolved(k) \in May(k, InRam)'
      BY <3>1 DEF May, Due, InRam, Starting, NoOp
    <3> QED BY <3>9, <3>10
  <2> QED BY <1>7, <2>1, <2>2, <2>3, <2>4, <2>5, <2>6 DEF Recovering
<1>8. CASE Stopping
  <2>1. CASE Crash \/ Shutdown \/ LoseIndex
    BY <2>1 DEF Crash, Shutdown, LoseIndex, PowerOff, RamTells
  <2>2. CASE CooldownEnds
    BY <1>0, <2>2, RamOnward DEF CooldownEnds, InRam, Starting, RamTells
  <2>3. CASE Tick
    <3>1. now' = now + 1 /\ now \in Nat
          /\ UNCHANGED <<segs, index, pc, caller, op, promised>>
      BY <2>3 DEF Tick, IInv, OutsideTypeOK
    <3>2. PICK d \in May(k, InRam) : Fits(segs, now, index[k], k, d)
      BY <3>1 DEF RamOK, RamTells, IndexFits
    <3>3. d \in Value
      BY <3>2, DueType DEF IInv
    <3>4. Fits(segs, now + 1, index[k], k, d)
      BY <3>1, <3>2, <3>3, FitsLater
    <3>5. d \in May(k, InRam)'
      BY <3>1, <3>2 DEF May, Due, InRam, Starting
    <3> QED BY <3>1, <3>4, <3>5
  <2> QED BY <1>8, <2>1, <2>2, <2>3 DEF Stopping
<1> QED BY <1>1, <1>2, <1>3, <1>4, <1>5, <1>6, <1>7, <1>8, PossibleSteps

---------------------------------------------------------------------------
(* index.dat                                                               *)

\* What load_index() gives is an index, and so is what a scan gives instead.
LEMMA DiskMapType ==
    ASSUME Inv
    PROVE  DiskMap \in Index
<1>1. RebuiltIndex \in Index
  BY RebuiltType DEF Inv, IInv, DiskTypeOK
<1> QED BY <1>1, IndexLogFacts DEF Inv, IInv, DiskTypeOK, DiskMap, IndexLog

\* It stays what it is while index.dat does, or while the segments do where
\* index.dat is missing.
LEMMA SameSource ==
    ASSUME UNCHANGED index_dat, index_dat # NoFile \/ UNCHANGED segs
    PROVE  DiskMap' = DiskMap
BY SameLog DEF DiskMap

\* Where every record stays in its place and no key may hold less than
\* before, the entry of a key in index.dat goes on telling its value.
LEMMA DiskSame ==
    ASSUME Inv, DiskTells, segs' \in Files, Keeps(segs, segs'), now' = now,
           NEW k \in Keys, DiskMap'[k] = DiskMap[k], May(k, OnDisk) \subseteq May(k, OnDisk)'
    PROVE  \E d \in May(k, OnDisk)' : Fits(segs', now', DiskMap'[k], k, d)
<1>1. PICK d \in May(k, OnDisk) : Fits(segs, now, DiskMap[k], k, d)
  BY DEF Inv, DInv, DiskOK, IndexFits
<1>2. DiskMap[k] \in Entry \cup {None} /\ segs \in Files
  BY DiskMapType DEF Inv, IInv, Index, DiskTypeOK, Files
<1>3. Fits(segs', now, DiskMap[k], k, d)
  BY <1>1, <1>2, FitsKept
<1> QED BY <1>1, <1>3

\* A step that leaves index.dat and the call as they are.
LEMMA DiskOnward ==
    ASSUME Inv, DiskTells, segs' \in Files, Keeps(segs, segs'), now' = now,
           NEW k \in Keys, UNCHANGED <<index_dat, op, promised>>,
           index_dat # NoFile \/ UNCHANGED segs,
           OnDisk' <=> OnDisk, Starting' <=> Starting
    PROVE  \E d \in May(k, OnDisk)' : Fits(segs', now', DiskMap'[k], k, d)
<1>1. May(k, OnDisk) \subseteq May(k, OnDisk)'
  BY DEF May, Due
<1>2. DiskMap' = DiskMap
  BY SameSource
<1> QED BY <1>1, <1>2, DiskSame

\* The call returns with its effect in index.dat.
LEMMA DiskReturn ==
    ASSUME Inv, DiskTells, segs' \in Files, Keeps(segs, segs'), OnDisk, ~ Starting,
           Return, NEW k \in Keys, UNCHANGED index_dat, index_dat # NoFile \/ UNCHANGED segs
    PROVE  \E d \in May(k, OnDisk)' : Fits(segs', now', DiskMap'[k], k, d)
<1>1. op.name # "clear"
  BY DEF Inv, DInv, TurnOK, DiskTells
<1>2. promised'[k] = After(k) /\ op'.evicted = {} /\ op'.key = None /\ k # None /\ now' = now
      /\ pc' = "idle" /\ caller' = "none"
  BY Parameters DEF Return, NoOp
<1>3. May(k, OnDisk) \subseteq May(k, OnDisk)'
  BY <1>1, <1>2 DEF May, Due, After, OnDisk, Starting
<1>4. DiskMap' = DiskMap
  BY SameSource
<1> QED BY <1>2, <1>3, <1>4, DiskSame

\* persist_index_entry(): index.dat learns what the index in RAM knows.
LEMMA DiskPersist ==
    ASSUME Supported, Inv, PersistEntry, DiskTells', NEW k \in Keys
    PROVE  \E d \in May(k, OnDisk)' : Fits(segs', now', DiskMap'[k], k, d)
<1> USE DEF Inv, DInv
<1>1. /\ pc = "persist" /\ caller = "none" /\ UNCHANGED <<segs, now>> /\ ~ Starting
      /\ op.name \in {"put", "remove"} /\ op.key \in Keys
      /\ op.name = "put" => op.data \in Payloads
      /\ op.name = "remove" => op.data = None
  BY DEF PersistEntry, Return, IInv, CallOK, Starting, TurnOK
<1>2. ~ Starting' /\ MaxRecs = 0 /\ op.evicted = {} /\ DiskTells
  <2>1. ~ Starting'
    BY <1>1 DEF PersistEntry, Return, Starting
  <2>2. MaxRecs = 0
    BY <2>1 DEF DiskTells
  <2> QED BY <1>1, <2>1, <2>2 DEF TurnOK, DiskTells, Clearing
<1> DEFINE e == EntryFor(current_segment, current_offset, op.data)
           x == IF op.name = "put" THEN e ELSE None
<1>3. index_file /\ index_dat \in IndexLog /\ ~ index_dat.torn
  BY <1>1 DEF AppendOK, IndexFileOK, Clearing, IInv, DiskTypeOK
<1>4. DiskMap'[k] = IF k = op.key THEN x ELSE DiskMap[k]
  <2>1. op.name = "put" => e \in Entry
    BY <1>1, EntryType DEF IInv, CallOK, RamTypeOK
  <2> HIDE DEF e
  <2>2. index_dat' = Logged(index_dat, op.key, x)
    BY <1>3 DEF PersistEntry, e
  <2>3. index_dat' = [index_dat EXCEPT !.map = [@ EXCEPT ![op.key] = x]]
    BY <1>3, <2>2 DEF Logged
  <2>4. index_dat' # NoFile /\ index_dat # NoFile
    BY <1>1, <1>3, <2>1, <2>2, LoggedType, ModelValues
  <2>5. index_dat'.map = [index_dat.map EXCEPT ![op.key] = x]
    BY <1>3, <2>3 DEF IndexLog
  <2> HIDE DEF x
  <2> QED BY <1>1, <1>3, <2>4, <2>5 DEF DiskMap, IndexLog, Index
<1> HIDE DEF e
<1>5. May(k, OnDisk)' = {IF k = op.key THEN op.data ELSE promised[k]}
  <2>1. CASE Return
    <3>1. promised'[k] = After(k) /\ op'.evicted = {} /\ op'.key = None /\ k # None
          /\ caller' = "none"
      BY <2>1, Parameters DEF Return, NoOp
    <3> QED BY <1>1, <1>2, <3>1 DEF May, Due, After, OnDisk
  <2>2. CASE caller' = "threshold" /\ UNCHANGED <<op, outside>>
    BY <1>2, <2>2 DEF May, Due, OnDisk
  <2> QED BY <2>1, <2>2 DEF PersistEntry
<1>6. CASE k = op.key
  <2>1. CASE op.name = "put"
    <3>1. Home(segs, e, k) /\ Stored(segs, e) = op.data
      BY <1>1, <1>6, <2>1 DEF AppendOK, e
    <3>2. e # None
      BY <1>1, <2>1, EntryType, ModelValues DEF IInv, CallOK, RamTypeOK, e
    <3> QED BY <1>1, <1>4, <1>5, <1>6, <2>1, <3>1, <3>2 DEF Fits
  <2>2. CASE op.name = "remove"
    BY <1>1, <1>4, <1>5, <1>6, <2>2 DEF Fits, SeenAt
  <2> QED BY <1>1, <2>1, <2>2
<1>7. CASE k # op.key
  <2>1. May(k, OnDisk) = {promised[k]}
    BY <1>1, <1>2, <1>7 DEF May, Due
  <2>2. Keeps(segs, segs') /\ segs' \in Files
    BY <1>1, KeepsSame DEF IInv, DiskTypeOK, Files
  <2> QED BY <1>1, <1>2, <1>4, <1>5, <1>7, <2>1, <2>2, DiskSame
<1> QED BY <1>6, <1>7

\* Whatever call power cuts short, index.dat has it or has it not.
LEMMA DiskCrash ==
    ASSUME Supported, Inv, Crash, DiskTells', NEW k \in Keys
    PROVE  \E d \in May(k, OnDisk)' : Fits(segs', now', DiskMap'[k], k, d)
<1> USE DEF Inv, DInv
<1>1. /\ pc' = "down" /\ caller' = "none" /\ op'.key = op.key /\ op'.data = op.data
      /\ op'.evicted = {} /\ op.evicted = {} /\ UNCHANGED <<now, promised>> /\ MaxRecs = 0
      /\ pc \notin Clearing
  BY CrashStage, PowerOffEffect DEF TurnOK
<1>2. May(k, OnDisk) \subseteq May(k, OnDisk)'
  BY <1>1 DEF May, Due, OnDisk, Starting
<1>3. segs \in Files
  BY DEF IInv, DiskTypeOK, Files
<1>4. UNCHANGED index_dat /\ segs' \in Files /\ Keeps(segs, segs')
      /\ (UNCHANGED segs \/ pc = "append")
  <2>1. CASE UNCHANGED segs
    BY <1>3, <2>1, KeepsSame, CrashStage
  <2>2. CASE pc = "append" /\ segs' = [segs EXCEPT ![active_file] = Append(@, Torn)]
    BY <1>3, <2>2, KeepsAppend, CrashStage DEF AppendOK, Ready
  <2> QED BY <2>1, <2>2, CrashStage
<1>5. DiskTells
  <2>1. ~ Committed
    <3>1. ~ Committed'
      BY <1>1 DEF DiskTells
    <3>2. journal' = Torn => pc \in {"journal_copying", "copy", "journal_commit"}
                             \/ UNCHANGED journal
      BY CrashStage
    <3>3. UNCHANGED journal => (Committed' <=> Committed)
      BY DEF Committed, InJournal
    <3>4. pc \in {"journal_copying", "copy", "journal_commit"} => ~ Committed
      BY ModelValues DEF StageOK, Committed, InJournal
    <3> QED BY <3>1, <3>2, <3>3, <3>4, CrashStage
  <2>2. journal \in {NoFile, Torn, Copying0}
    BY <2>1, CrashStage
  <2>3. pc \notin {"remove_all", "rename_tmp", "remove_index", "write_index"}
    BY <2>1 DEF StageOK
  <2>4. pc \notin {"drop_source", "journal_commit"} /\ (pc = "copy" => cs = 0)
    <3>1. cs \in Nat /\ cs + 1 # 0 /\ SegCount # 0
      BY Parameters DEF IInv, ControlTypeOK, Segments
    <3>2. \A n \in Nat : [state |-> "COMPACTING", next |-> n] \in {NoFile, Torn, Copying0} /\ n <= SegCount => n = 0
      BY ModelValues, SegmentFacts DEF Copying0, JournalEntry
    <3>3. cs <= SegCount /\ cs + 1 <= SegCount /\ SegCount \in Nat
      BY SegmentFacts DEF IInv, ControlTypeOK, Segments
    <3> QED BY <2>2, <3>1, <3>2, <3>3 DEF StageOK
  <2> QED BY <1>1, <2>1, <2>3, <2>4 DEF DiskTells
<1>6. DiskMap' = DiskMap
  <2>1. pc = "append" => index_dat # NoFile
    BY DEF IndexFileOK, Starting, Clearing, IInv, CallOK
  <2> QED BY <1>4, <2>1, SameSource
<1> QED BY <1>1, <1>2, <1>4, <1>5, <1>6, DiskSame

\* The compaction writes index.dat anew when it is done, and clear() and
\* init() when they come to it.
LEMMA DiskKept ==
    ASSUME Supported, Inv, Next
    PROVE  DiskOK'
<1> SUFFICES ASSUME DiskTells', NEW k \in Keys
             PROVE  \E d \in May(k, OnDisk)' : Fits(segs', now', DiskMap'[k], k, d)
  BY DEF DiskOK, IndexFits
<1> USE DEF Inv, DInv
<1>0. segs \in Files /\ Keeps(segs, segs) /\ caller \in Callers
  <2>1. segs \in Files
    BY DEF IInv, DiskTypeOK, Files
  <2> QED BY <2>1, KeepsSame DEF IInv, ControlTypeOK
<1>1. CASE Calls
  <2>1. /\ pc = "idle" /\ caller = "none" /\ op = NoOp /\ caller' \in {"none", "rotate"}
        /\ op'.evicted = {} /\ pc' # "down" /\ UNCHANGED <<index_dat, promised, now>>
    BY <1>1 DEF Calls, StartPut, StartRemove, Get, StartClear, Close, TurnOK, NoOp, IInv, CallOK
  <2>2. May(k, OnDisk)' = {promised[k]} /\ May(k, OnDisk) = {promised[k]}
    BY <2>1, Parameters DEF May, Due, OnDisk, Starting, NoOp
  <2>3. segs' \in Files /\ Keeps(segs, segs')
    <3>1. SegCount - 1 \in Segments
          /\ (current_segment + 1 < SegCount => current_segment + 1 \in Segments)
      BY SegmentFacts DEF Segments, IInv, RamTypeOK
    <3>2. UNCHANGED segs \/ \E id \in Segments : OpenSegment(id)
      BY <1>1, <3>1 DEF Calls, StartPut, StartRemove, Get, StartClear, Close
    <3> QED BY <1>0, <3>2, KeepsOpen DEF IInv
  <2>4. DiskTells
    BY <2>1 DEF DiskTells, Clearing, Starting
  <2>5. DiskMap' = DiskMap
    BY <2>1, SameSource DEF IndexFileOK, Starting, Clearing
  <2> QED BY <2>1, <2>2, <2>3, <2>4, <2>5, DiskSame
<1>2. CASE AppendRecord
  <2>1. /\ pc = "append" /\ caller = "none" /\ pc' = "persist" /\ caller' = "none"
        /\ UNCHANGED <<index_dat, promised, now>>
    BY <1>2 DEF AppendRecord, IInv, CallOK
  <2>2. DiskTells /\ MaxRecs = 0 /\ op.evicted = {}
    BY <2>1 DEF DiskTells, Starting, TurnOK, Clearing
  <2>3. op'.evicted = {}
    BY <1>2, <2>2, AppendEffect
  <2>4. May(k, OnDisk)' = {promised[k]} /\ May(k, OnDisk) = {promised[k]}
    BY <2>1, <2>2, <2>3 DEF May, Due, OnDisk, Starting
  <2>5. segs' \in Files /\ Keeps(segs, segs')
    BY <1>0, <1>2, AppendStep, KeepsAppend
  <2>6. DiskMap' = DiskMap
    BY <2>1, SameSource DEF IndexFileOK, Starting, Clearing
  <2> QED BY <2>1, <2>2, <2>4, <2>5, <2>6, DiskSame
<1>3. CASE PersistEntry
  BY <1>3, DiskPersist
<1>4. CASE Gathering
  <2>1. CASE JournalCopying
    BY <1>0, <2>1, DiskOnward DEF JournalCopying, OnDisk, Starting, DiskTells, Clearing
  <2>2. CASE OpenTmp
    <3>1. /\ pc = "open_tmp" /\ UNCHANGED <<segs, index_dat, caller, promised, now>>
          /\ pc' = "copy" /\ caller # "boot"
      BY <2>2 DEF OpenTmp, TurnOK, Loading, Swapping
    <3>2. DiskTells /\ MaxRecs = 0
      BY <3>1 DEF DiskTells, Starting, Clearing
    <3>3. op'.evicted = {} /\ op.evicted = {} /\ op'.key = op.key /\ op'.data = op.data
      BY <2>2, <3>2, OpenTmpEffect DEF TurnOK
    <3>4. May(k, OnDisk)' = May(k, OnDisk)
      BY <3>1, <3>3 DEF May, Due, OnDisk, Starting
    <3>5. DiskMap' = DiskMap
      BY <3>1, SameSource
    <3> QED BY <1>0, <3>1, <3>2, <3>4, <3>5, DiskSame
  <2>3. CASE OpenTmpFails
    <3>1. pc = "open_tmp" /\ UNCHANGED index_dat /\ caller # "boot" /\ index_dat # NoFile
      BY <2>3 DEF OpenTmpFails, TurnOK, Loading, Swapping, IndexFileOK, Starting, Clearing
    <3>2. CASE caller = "rotate" /\ caller' = "none" /\ pc' = "append"
               /\ OpenSegment(SegCount - 1) /\ UNCHANGED <<op, outside>>
      <4>1. DiskTells
        BY <3>1, <3>2 DEF DiskTells, Starting, Clearing
      <4> QED BY <3>1, <3>2, <4>1, KeepsOpen, SegmentFacts, DiskOnward DEF IInv, OnDisk, Starting
    <3>3. CASE caller = "threshold" /\ Return /\ UNCHANGED segs
      <4>1. DiskTells
        BY <3>1, <3>3 DEF DiskTells, Starting, Clearing, Return
      <4> QED BY <1>0, <3>1, <3>3, <4>1, DiskReturn DEF OnDisk, Starting
    <3> QED BY <2>3, <3>2, <3>3, GiveUpStep
  <2>4. CASE CopyRecord
    BY <1>0, <2>4, DiskOnward DEF CopyRecord, OnDisk, Starting, DiskTells, Clearing
  <2>5. CASE JournalSegment \/ JournalCommit
    BY <2>5 DEF JournalSegment, JournalCommit, DiskTells
  <2>6. CASE DropSource
    <3>1. cs \in Nat
      BY DEF IInv, ControlTypeOK, Segments
    <3> QED BY <2>6, <3>1 DEF DropSource, DiskTells
  <2> QED BY <1>4, <2>1, <2>2, <2>3, <2>4, <2>5, <2>6 DEF Gathering
<1>5. CASE Exchanging
  <2>1. CASE RemoveAll \/ RenameTmp \/ RemoveIndex
    <3>1. pc' \in {"rename_tmp", "remove_index", "write_index"}
      BY <2>1 DEF RemoveAll, RenameTmp, RemoveIndex, StageOK, Supported
    <3> QED BY <3>1 DEF DiskTells
  <2>2. CASE WriteIndex
    <3>1. /\ pc = "write_index" /\ pc' = "clear_journal" /\ UNCHANGED <<segs, op, caller, outside>>
          /\ index_dat' = [map |-> index, torn |-> FALSE]
      BY <2>2 DEF WriteIndex
    <3>2. DiskMap' = index
      BY <3>1, WholeIndex DEF DiskMap, IInv, RamTypeOK
    <3>3. PICK d \in May(k, InRam) : Fits(segs, now, index[k], k, d)
      BY <3>1 DEF RamOK, RamTells, IndexFits
    <3>4. d \in May(k, OnDisk)'
      BY <3>1, <3>3 DEF May, Due, InRam, OnDisk, Starting
    <3> QED BY <3>1, <3>2, <3>3, <3>4
  <2>3. CASE ClearJournal
    <3>1. /\ pc = "clear_journal" /\ pc' \in {"load", "reopen"}
          /\ UNCHANGED <<segs, index_dat, op, caller, outside>>
      BY <2>3 DEF ClearJournal, TurnOK
    <3>2. DiskTells
      BY <3>1 DEF DiskTells, Starting, Clearing
    <3> QED BY <1>0, <3>1, <3>2, DiskOnward DEF OnDisk, Starting
  <2>4. CASE Reopen
    <3>1. pc = "reopen" /\ OpenSegment(1) /\ UNCHANGED index_dat
          /\ caller \in {"rotate", "threshold"} /\ index_dat # NoFile
      BY <2>4 DEF Reopen, IndexFileOK, Starting, Clearing
    <3>2. segs' \in Files /\ Keeps(segs, segs')
      BY <3>1, KeepsOpen, SegmentFacts DEF IInv
    <3>3. CASE caller = "rotate" /\ caller' = "none" /\ pc' = "append" /\ UNCHANGED <<op, outside>>
      <4>1. DiskTells
        BY <3>1, <3>3 DEF DiskTells, Starting, Clearing
      <4> QED BY <3>1, <3>2, <3>3, <4>1, DiskOnward DEF OnDisk, Starting
    <3>4. CASE caller = "threshold" /\ Return
      <4>1. DiskTells
        BY <3>1, <3>4 DEF DiskTells, Starting, Clearing, Return
      <4> QED BY <3>1, <3>2, <3>4, <4>1, DiskReturn DEF OnDisk, Starting
    <3> QED BY <2>4, <3>3, <3>4 DEF Reopen
  <2> QED BY <1>5, <2>1, <2>2, <2>3, <2>4 DEF Exchanging
<1>6. CASE Erasing
  <2>1. CASE ClearSegment \/ ClearIndex
    BY <2>1 DEF ClearSegment, ClearIndex, DiskTells, Clearing
  <2>2. CASE ClearReopen
    <3>1. index_file /\ Return /\ op.name = "clear"
      BY <2>2 DEF ClearReopen, ClearOK, TurnOK, Clearing
    <3>2. promised'[k] = None /\ op'.evicted = {} /\ op'.key = None /\ k # None
          /\ pc' = "idle" /\ caller' = "none"
      BY <3>1, Parameters DEF Return, NoOp, After
    <3>3. May(k, OnDisk)' = {None}
      BY <3>2 DEF May, Due, OnDisk, Starting
    <3>4. DiskMap'[k] = None
      <4>1. index_dat' = [map |-> EmptyIndex, torn |-> FALSE]
        BY <2>2, <3>1 DEF ClearReopen
      <4>2. DiskMap' = EmptyIndex
        BY <4>1, WholeIndex, IndexLogFacts DEF DiskMap
      <4> QED BY <4>2 DEF EmptyIndex
    <3> QED BY <3>3, <3>4 DEF Fits, SeenAt
  <2> QED BY <1>6, <2>1, <2>2 DEF Erasing
<1>7. CASE Recovering
  <2>1. CASE Boot /\ pc' = "recover" /\ UNCHANGED op
    <3>1. pc = "down" /\ caller' = "boot" /\ pc' = "recover" /\ caller # "threshold"
          /\ UNCHANGED <<segs, index_dat, journal, op, outside>>
      BY <2>1 DEF Boot, IInv, CallOK
    <3>2. DiskTells
      BY <3>1 DEF DiskTells, Starting, Clearing, Committed, InJournal
    <3> QED BY <1>0, <3>1, <3>2, DiskOnward DEF OnDisk, Starting
  <2>2. CASE RecoverNothing \/ RecoverBack
    <3>1. pc = "recover" /\ pc' \in {"load", "clear_journal"} /\ ~ Committed
          /\ UNCHANGED <<segs, index_dat, op, caller, outside>>
      BY <2>2 DEF RecoverNothing, RecoverBack, Committed, InJournal
    <3>2. DiskTells
      BY <3>1 DEF DiskTells, Starting, Clearing, TurnOK, Loading
    <3> QED BY <1>0, <3>1, <3>2, DiskOnward DEF OnDisk, Starting
  <2>3. CASE RecoverCommitted
    BY <2>3 DEF RecoverCommitted, DiskTells
  <2>4. CASE LoadIndex \/ RebuildIndex
    <3>1. pc = "load" /\ caller = "boot" /\ pc' \in {"prune", "write_rebuilt"}
          /\ UNCHANGED <<segs, index_dat, op, caller, outside>>
      BY <2>4 DEF LoadIndex, RebuildIndex, TurnOK, Loading
    <3>2. DiskTells
      BY <3>1 DEF DiskTells, Starting, Clearing
    <3> QED BY <1>0, <3>1, <3>2, DiskOnward DEF OnDisk, Starting
  <2>5. CASE WriteBootIndex
    <3>1. /\ pc = "write_rebuilt" /\ pc' = "prune" /\ UNCHANGED <<segs, op, caller, outside>>
          /\ index_dat' = [map |-> index, torn |-> FALSE]
      BY <2>5 DEF WriteBootIndex, TurnOK
    <3>2. DiskMap' = index
      BY <3>1, WholeIndex DEF DiskMap, IInv, RamTypeOK
    <3>3. PICK d \in May(k, InRam) : Fits(segs, now, index[k], k, d)
      BY <3>1 DEF RamOK, RamTells, IndexFits
    <3>4. d \in May(k, OnDisk)'
      BY <3>1, <3>3 DEF May, Due, InRam, OnDisk, Starting
    <3> QED BY <3>1, <3>2, <3>3, <3>4
  <2>6. CASE PruneAtBoot
    <3>1. pc = "prune" /\ pc' = "open" /\ UNCHANGED <<segs, index_dat, op, caller, outside>>
      BY <2>6, PruneEffect DEF PruneAtBoot
    <3>2. DiskTells
      BY <3>1 DEF DiskTells, Starting, Clearing, TurnOK, Loading
    <3> QED BY <1>0, <3>1, <3>2, DiskOnward DEF OnDisk, Starting
  <2>7. CASE OpenFiles
    <3>1. pc = "open" /\ pc' = "idle" /\ caller' = "none" /\ UNCHANGED <<index, index_dat>>
      BY <2>7 DEF OpenFiles
    <3>2. DiskMap' = index'
      BY <3>1 DEF DiskMap, IndexFileOK, IInv, FilesOK
    <3>3. RamOK' /\ RamTells'
      BY <2>7, <3>1, RamKept DEF Next, Proceed, Booting, RamTells
    <3>4. PICK d \in May(k, InRam)' : Fits(segs', now', index'[k], k, d)
      BY <3>3 DEF RamOK, IndexFits
    <3>5. d \in May(k, OnDisk)'
      BY <3>1, <3>4 DEF May, Due, InRam, OnDisk, Starting
    <3> QED BY <3>2, <3>4, <3>5
  <2> QED BY <1>7, <2>1, <2>2, <2>3, <2>4, <2>5, <2>6, <2>7 DEF Recovering
<1>8. CASE Stopping
  <2>1. CASE Crash
    BY <2>1, DiskCrash
  <2>2. CASE Shutdown
    <3>1. /\ pc = "idle" /\ caller = "none" /\ op = NoOp /\ UNCHANGED <<segs, index_dat, now, promised>>
          /\ op'.evicted = {} /\ op'.key = op.key /\ pc' = "down" /\ caller' = "none"
      BY <2>2, PowerOffEffect DEF Shutdown, IInv, CallOK, TurnOK
    <3>2. May(k, OnDisk)' = May(k, OnDisk)
      BY <3>1, Parameters DEF May, Due, OnDisk, Starting, NoOp
    <3>3. MaxRecs = 0
      BY <2>2, Parameters DEF Shutdown, Supported
    <3>4. DiskTells /\ DiskMap' = DiskMap
      BY <3>1, <3>3, SameSource DEF DiskTells, Clearing
    <3> QED BY <1>0, <3>1, <3>2, <3>4, DiskSame
  <2>3. CASE CooldownEnds
    BY <1>0, <2>3, DiskOnward DEF CooldownEnds, OnDisk, Starting, DiskTells, Clearing
  <2>4. CASE Tick
    <3>1. now' = now + 1 /\ now \in Nat
          /\ UNCHANGED <<segs, index_dat, journal, pc, cs, caller, op, promised>>
      BY <2>4 DEF Tick, IInv, OutsideTypeOK
    <3>2. DiskTells /\ DiskMap' = DiskMap
      BY <3>1, SameSource DEF DiskTells, Starting, Committed, InJournal
    <3>3. PICK d \in May(k, OnDisk) : Fits(segs, now, DiskMap[k], k, d)
      BY <3>2 DEF DiskOK, IndexFits
    <3>4. d \in Value
      BY <3>3, DueType DEF IInv
    <3>5. Fits(segs, now + 1, DiskMap[k], k, d)
      BY <3>1, <3>3, <3>4, FitsLater
    <3>6. d \in May(k, OnDisk)'
      BY <3>1, <3>3 DEF May, Due, OnDisk, Starting
    <3> QED BY <3>1, <3>2, <3>5, <3>6
  <2>5. CASE LoseIndex
    <3>1. /\ pc = "down" /\ MaxRecs = 0 /\ Replaying /\ index_dat' = NoFile
          /\ UNCHANGED <<segs, journal, pc, cs, caller, op, promised, now>>
      BY <2>5 DEF LoseIndex, Supported, Replaying
    <3>2. DiskTells /\ May(k, OnDisk)' = May(k, OnDisk)
      BY <3>1 DEF DiskTells, Starting, Committed, InJournal, May, Due, OnDisk
    <3>3. DiskMap'[k] = DiskMap[k]
      <4>1. DiskMap' = RebuiltIndex
        BY <3>1 DEF DiskMap, RebuiltIndex
      <4>2. index_dat # NoFile => RebuiltIndex[k] = index_dat.map[k]
        BY <3>1 DEF LogOK, SameEntries, LogTells, Clearing, Copying
      <4> QED BY <4>1, <4>2 DEF DiskMap
    <3> QED BY <1>0, <3>1, <3>2, <3>3, DiskSame
  <2> QED BY <1>8, <2>1, <2>2, <2>3, <2>4, <2>5 DEF Stopping
<1> QED BY <1>1, <1>2, <1>3, <1>4, <1>5, <1>6, <1>7, <1>8, PossibleSteps

---------------------------------------------------------------------------
(* compact.tmp                                                             *)

\* An entry whose record has not expired leads to what the key holds, and one
\* whose record has stands for nothing.
LEMMA LiveHome ==
    ASSUME Supported, TypeOK, NEW k \in Keys, NEW d \in Value,
           Fits(segs, now, index[k], k, d)
    PROVE  /\ Live(k) => /\ d \in Payloads
                         /\ Home(segs, index[k], k) /\ Stored(segs, index[k]) = d
           /\ ~ Live(k) => SeenAt(now, d) = None
<1> DEFINE e == index[k]
           p == Stored(segs, e)
<1>1. CASE e = None
  BY <1>1 DEF Fits, Live
<1>2. CASE e # None
  <2>1. Home(segs, e, k) /\ SeenAt(now, p) = SeenAt(now, d) /\ now \in Nat
    BY <1>2 DEF Fits, OutsideTypeOK
  <2>2. p \in Payloads /\ p \in Value /\ p # None
    BY <2>1, ModelValues DEF Home, Value
  <2>3. Live(k) <=> SeenAt(now, p) # None
    BY <1>2, <2>1, HomeExpiry DEF Live
  <2> HIDE DEF p
  <2>4. SeenAt(now, p) # None => p = d
    BY <2>1, <2>2, SeenFacts
  <2> QED BY <2>1, <2>2, <2>3, <2>4 DEF p
<1> QED BY <1>1, <1>2

\* At the start no record has been copied, and none needs to be that is not
\* where the index says.
LEMMA CopyOpenTmp ==
    ASSUME Supported, Inv, OpenTmp
    PROVE  CopyOK'
<1> USE DEF Inv, DInv
<1>1. /\ pc = "open_tmp" /\ pc' = "copy" /\ cs' = 0 /\ todo' = LiveIn(0, index')
      /\ compact_tmp' = <<>> /\ UNCHANGED <<segs, caller, now, promised>>
      /\ caller # "boot"
  BY DEF OpenTmp, TurnOK, Loading, Swapping
<1>2. PICK E \in SUBSET Keys : op'.evicted = op.evicted \cup E /\ index' = Without(index, E)
  BY OpenTmpEffect
<1>3. op'.key = op.key /\ op'.data = op.data
  BY OpenTmpEffect
<1>4. ASSUME NEW k \in Keys
      PROVE  Accounted(k)'
  <2> DEFINE d == Due(k, InRam)
  <2>1. Fits(segs, now, index[k], k, d) /\ d \in Value
    <3>1. May(k, InRam) = {d}
      BY <1>1 DEF May, Starting
    <3> QED BY <1>1, <3>1, DueType DEF RamOK, RamTells, IndexFits, IInv
  <2>2. /\ Live(k) => /\ d \in Payloads
                      /\ Home(segs, index[k], k) /\ Stored(segs, index[k]) = d
        /\ ~ Live(k) => SeenAt(now, d) = None
    <3> HIDE DEF d
    <3> QED BY <2>1, LiveHome DEF IInv
  <2>3. Due(k, InRam)' = IF k \in E THEN None ELSE d
    BY <1>1, <1>2, <1>3 DEF Due, InRam
  <2>4. index'[k] = IF k \in E THEN None ELSE index[k]
    BY <1>2 DEF Without
  <2> HIDE DEF d
  <2>5. CASE k \in E
    BY <2>3, <2>4, <2>5 DEF Accounted, Live, SeenAt
  <2>6. CASE k \notin E
    <3>1. Live(k)' <=> Live(k)
      BY <1>1, <2>4, <2>6 DEF Live
    <3>2. Live(k)' => ~ Copied(k)'
      <4>1. SUFFICES ASSUME Live(k)', Copied(k)' PROVE FALSE
        OBVIOUS
      <4>2. index[k] \in Entry /\ index'[k] = index[k]
        BY <2>4, <2>6, <4>1 DEF Live, IInv, RamTypeOK, Index
      <4>3. index[k].seg \in Nat
        BY <4>2, SegmentFacts DEF Entry, Segments
      <4>4. index'[k].seg = 0 /\ k \notin todo'
        BY <1>1, <4>1, <4>2, <4>3 DEF Copied
      <4> QED BY <1>1, <4>1, <4>4 DEF LiveIn, Live
    <3> QED BY <1>1, <2>2, <2>3, <2>4, <2>6, <3>1, <3>2 DEF Accounted
  <2> QED BY <2>5, <2>6
<1>5. DOMAIN compact_tmp' = {}
  BY <1>1
<1>6. todo' \subseteq LiveIn(cs, index)'
  BY <1>1 DEF LiveIn
<1> QED BY <1>1, <1>4, <1>5, <1>6 DEF CopyOK

\* The record copied is that of the key: the index leads to it, it can be
\* read, and nothing else is in its place.
LEMMA CopyEffect ==
    ASSUME Supported, Inv, CopyRecord
    PROVE  \E k \in Keys :
              LET c == [key |-> k, data |-> Due(k, InRam)] IN
              /\ Live(k) /\ index[k].seg = cs /\ ~ Copied(k)
              /\ todo' = todo \ {k}
              /\ c \in Cell /\ c.data \in Payloads
              /\ compact_tmp' = Append(compact_tmp, c)
<1> USE DEF Inv, DInv
<1>1. pc = "copy" /\ cs \in Segments
  BY DEF CopyRecord, IInv, ControlTypeOK
<1>2. PICK k \in Keys :
         /\ First(k) /\ todo' = todo \ {k}
         /\ compact_tmp' = IF Readable(segs[cs], index[k].off)
                           THEN Append(compact_tmp, segs[cs][index[k].off + 1])
                           ELSE compact_tmp
  BY DEF CopyRecord
<1> DEFINE d == Due(k, InRam)
           c == [key |-> k, data |-> d]
<1>3. k \in todo /\ Live(k) /\ index[k].seg = cs /\ index[k] \in Entry
  BY <1>1, <1>2 DEF First, CopyOK, Copying, LiveIn, Live, IInv, RamTypeOK, Index
<1>4. ~ Copied(k)
  BY <1>1, <1>3 DEF Copied, Segments
<1>5. d \in Payloads /\ Home(segs, index[k], k) /\ Stored(segs, index[k]) = d
  BY <1>1, <1>3, <1>4 DEF CopyOK, Copying, Accounted
<1>6. compact_tmp' = Append(compact_tmp, c) /\ c \in Cell
  <2>1. Readable(segs[cs], index[k].off) /\ segs[cs][index[k].off + 1].key = k
        /\ segs[cs][index[k].off + 1].data = d
    BY <1>3, <1>5 DEF Home, Stored
  <2>2. segs[cs] \in File \cup {NoFile} /\ index[k].off \in Nat
    BY <1>1, <1>3 DEF IInv, DiskTypeOK, Entry
  <2>3. segs[cs][index[k].off + 1] \in Cell
    BY <2>1, <2>2, ReadType
  <2> HIDE DEF d
  <2>4. segs[cs][index[k].off + 1] = c
    BY <2>1, <2>3 DEF Cell
  <2> QED BY <1>2, <2>1, <2>3, <2>4
<1>7. c.data \in Payloads
  BY <1>5
<1> HIDE DEF d
<1> QED BY <1>2, <1>3, <1>4, <1>6, <1>7 DEF d

\* So compact.tmp gains the record of one key.
LEMMA CopyCopyRecord ==
    ASSUME Supported, Inv, CopyRecord
    PROVE  CopyOK'
<1> USE DEF Inv, DInv
<1>1. /\ pc = "copy" /\ UNCHANGED <<segs, index, pc, op, caller, cs, now, promised>>
      /\ compact_tmp \in File
  BY DEF CopyRecord, IInv, FilesOK, DiskTypeOK
<1>2. PICK k \in Keys :
         LET c == [key |-> k, data |-> Due(k, InRam)] IN
         /\ Live(k) /\ index[k].seg = cs /\ todo' = todo \ {k}
         /\ c \in Cell /\ compact_tmp' = Append(compact_tmp, c)
  BY CopyEffect
<1> DEFINE d == Due(k, InRam)
           c == [key |-> k, data |-> d]
<1>3. Live(k) /\ index[k].seg = cs
  BY <1>2
<1>5. compact_tmp' = Append(compact_tmp, c) /\ c \in Cell
  BY <1>2
<1>6. \A j \in Keys : Due(j, InRam)' = Due(j, InRam) /\ (Live(j)' <=> Live(j))
  BY <1>1 DEF Due, InRam, Live
<1>7. \A j \in Keys : Copied(j)' <=> Copied(j) \/ j = k
  <2>1. todo' = todo \ {k}
    BY <1>2
  <2> QED BY <1>1, <1>3, <2>1 DEF Copied
<1> HIDE DEF c
<1>8. /\ DOMAIN compact_tmp' = 1..(Len(compact_tmp) + 1) /\ Len(compact_tmp) \in Nat
      /\ compact_tmp'[Len(compact_tmp) + 1] = c
      /\ \A i \in DOMAIN compact_tmp : i \in DOMAIN compact_tmp' /\ compact_tmp'[i] = compact_tmp[i]
      /\ DOMAIN compact_tmp = 1..Len(compact_tmp)
  BY <1>1, <1>5 DEF File
<1>9. ASSUME NEW j \in Keys
      PROVE  Accounted(j)'
  <2>1. Accounted(j)
    BY <1>1 DEF CopyOK, Copying
  <2> DEFINE b == Due(j, InRam)
  <2> HIDE DEF b
  <2>2. Holds(compact_tmp, j, b) => Holds(compact_tmp', j, b)
    BY <1>8 DEF Holds
  <2>3. j = k => Holds(compact_tmp', j, b)
    <3>1. Len(compact_tmp) + 1 \in DOMAIN compact_tmp'
      BY <1>8
    <3> QED BY <1>8, <3>1 DEF Holds, c, b
  <2> QED BY <1>1, <1>6, <1>7, <2>1, <2>2, <2>3 DEF b, Accounted
<1>10. ASSUME NEW i \in DOMAIN compact_tmp'
       PROVE  IsCopy(compact_tmp[i])'
  <2>1. CASE i \in DOMAIN compact_tmp
    <3> DEFINE r == compact_tmp[i]
    <3>1. r \in Cell /\ Live(r.key) /\ Copied(r.key) /\ r.data = Due(r.key, InRam)
      BY <1>1, <2>1 DEF CopyOK, Copying, IsCopy
    <3>2. r.key \in Keys /\ compact_tmp'[i] = r
      BY <1>8, <2>1, <3>1 DEF Cell
    <3> HIDE DEF r
    <3> QED BY <1>6, <1>7, <3>1, <3>2 DEF IsCopy
  <2>2. CASE i = Len(compact_tmp) + 1
    <3>1. compact_tmp'[i] = c /\ c.key = k /\ c.data = d
      BY <1>8, <2>2 DEF c
    <3> HIDE DEF d
    <3> QED BY <1>3, <1>5, <1>6, <1>7, <3>1 DEF d, IsCopy
  <2> QED BY <1>8, <2>1, <2>2
<1>11. todo' \subseteq LiveIn(cs, index)' /\ (pc' # "copy" => todo' = {})
  BY <1>1, <1>2 DEF CopyOK, Copying, LiveIn
<1> QED BY <1>9, <1>10, <1>11 DEF CopyOK

\* When a source segment goes, its live records have been copied.
LEMMA CopyDropSource ==
    ASSUME Supported, Inv, DropSource
    PROVE  CopyOK'
<1> USE DEF Inv, DInv
<1>1. /\ pc = "drop_source" /\ RemoveSegments({cs}) /\ cs \in Segments
      /\ UNCHANGED <<compact_tmp, index, op, caller, now, promised>>
      /\ todo = {}
  BY DEF DropSource, IInv, ControlTypeOK, CopyOK, Copying
<1>2. \/ pc' = "copy" /\ cs' = cs + 1 /\ todo' = LiveIn(cs + 1, index)
      \/ pc' = "journal_commit" /\ UNCHANGED <<cs, todo>>
  BY DEF DropSource
<1>3. \A j \in Keys : Due(j, InRam)' = Due(j, InRam) /\ (Live(j)' <=> Live(j))
  BY <1>1, <1>2 DEF Due, InRam, Live
<1>4. ASSUME NEW j \in Keys, Live(j)
      PROVE  /\ Copied(j)' <=> Copied(j)
             /\ ~ Copied(j) => segs'[index[j].seg] = segs[index[j].seg]
  <2>1. index[j] \in Entry
    BY <1>4 DEF Live, IInv, RamTypeOK, Index
  <2>2. index[j].seg \in Segments /\ index[j].seg \in Nat /\ cs \in Nat
    BY <1>1, <2>1, SegmentFacts DEF Entry, Segments
  <2>3. Copied(j) <=> index[j].seg <= cs
    BY <1>1, <2>2 DEF Copied
  <2>4. Copied(j)' <=> index[j].seg <= cs
    <3>1. CASE pc' = "journal_commit" /\ UNCHANGED <<cs, todo>>
      BY <1>1, <2>2, <3>1 DEF Copied
    <3>2. CASE pc' = "copy" /\ cs' = cs + 1 /\ todo' = LiveIn(cs + 1, index)
      <4>1. index[j].seg = cs + 1 => j \in todo'
        BY <1>4, <3>2 DEF LiveIn, Live
      <4> QED BY <1>1, <2>2, <3>2, <4>1 DEF Copied
    <3> QED BY <1>2, <3>1, <3>2
  <2>5. ~ Copied(j) => index[j].seg # cs
    BY <2>2, <2>3
  <2> QED BY <1>1, <2>2, <2>3, <2>4, <2>5 DEF RemoveSegments
<1>5. ASSUME NEW j \in Keys
      PROVE  Accounted(j)'
  <2>1. Accounted(j)
    BY <1>1 DEF CopyOK, Copying
  <2> QED BY <1>1, <1>3, <1>4, <2>1 DEF Home, Stored, Accounted
<1>6. ASSUME NEW i \in DOMAIN compact_tmp'
      PROVE  IsCopy(compact_tmp[i])'
  <2> DEFINE r == compact_tmp[i]
  <2>1. r \in Cell /\ Live(r.key) /\ Copied(r.key) /\ r.data = Due(r.key, InRam)
    BY <1>1, <1>6 DEF CopyOK, Copying, IsCopy
  <2>2. r.key \in Keys /\ compact_tmp'[i] = r
    BY <1>1, <2>1 DEF Cell
  <2> HIDE DEF r
  <2> QED BY <1>3, <1>4, <2>1, <2>2 DEF IsCopy
<1>7. todo' \subseteq LiveIn(cs, index)' /\ (pc' # "copy" => todo' = {})
  BY <1>1, <1>2 DEF LiveIn
<1> QED BY <1>5, <1>6, <1>7 DEF CopyOK

\* The other steps of the loop move no record, and outside it there is
\* nothing to keep.
LEMMA CopyKept ==
    ASSUME Supported, Inv, Next
    PROVE  CopyOK'
<1> USE DEF Inv, DInv
<1>1. CASE OpenTmp \/ CopyRecord \/ DropSource
  BY <1>1, CopyOpenTmp, CopyCopyRecord, CopyDropSource
<1>2. CASE JournalSegment
  <2>1. /\ pc = "copy" /\ pc' = "drop_source" /\ todo = {}
        /\ UNCHANGED <<segs, compact_tmp, index, op, caller, cs, todo, now, promised>>
    BY <1>2 DEF JournalSegment
  <2>2. UNCHANGED InRam
    BY <2>1 DEF InRam
  <2>3. CopyOK
    OBVIOUS
  <2> QED BY <2>1, <2>2, <2>3 DEF CopyOK, Copying, Accounted, IsCopy, Due, Live, Copied, LiveIn
<1>3. CASE Calls \/ AppendRecord \/ PersistEntry
  <2>1. pc' \in {"idle", "append", "persist", "journal_copying", "clear_segment"}
    BY <1>3 DEF Calls, StartPut, StartRemove, Get, StartClear, Close, AppendRecord, PersistEntry, Return
  <2> QED BY <2>1 DEF CopyOK, Copying
<1>4. CASE JournalCopying \/ OpenTmpFails \/ JournalCommit \/ Exchanging
  <2>1. pc' \notin Copying
    BY <1>4 DEF JournalCopying, OpenTmpFails, GiveUp, JournalCommit, Exchanging, RemoveAll,
                RenameTmp, RemoveIndex, WriteIndex, ClearJournal, Reopen, Return, Copying
  <2> QED BY <2>1 DEF CopyOK
<1>5. CASE Erasing \/ Recovering
  <2>1. pc' \notin Copying
    BY <1>5 DEF Erasing, ClearSegment, ClearIndex, ClearReopen, Return, Recovering, RecoverNothing,
                RecoverCommitted, RecoverBack, LoadIndex, RebuildIndex, WriteBootIndex,
                PruneAtBoot, OpenFiles, Copying
  <2> QED BY <2>1 DEF CopyOK
<1>6. CASE Stopping
  <2>1. pc' \notin Copying
    BY <1>6 DEF Stopping, Crash, Shutdown, PowerOff, CooldownEnds, Tick, LoseIndex, Copying
  <2> QED BY <2>1 DEF CopyOK
<1> QED BY <1>1, <1>2, <1>3, <1>4, <1>5, <1>6, PossibleSteps DEF Gathering

\* When compact.tmp is complete it has the record of every key that holds
\* something, and nothing else.
LEMMA CommitTells ==
    ASSUME Supported, Inv, pc = "journal_commit", NEW k \in Keys
    PROVE  Carries(compact_tmp, now, k, Due(k, InRam))
<1> DEFINE d == Due(k, InRam)
<1> USE DEF Inv, DInv
<1>1. Accounted(k) /\ (\A i \in DOMAIN compact_tmp : IsCopy(compact_tmp[i])) /\ todo = {}
      /\ cs = SegCount - 1
  BY DEF CopyOK, Copying, StageOK
<1>2. \A j \in Keys : Live(j) => Copied(j) /\ Accounted(j)
  <2> SUFFICES ASSUME NEW j \in Keys, Live(j) PROVE Copied(j)
    BY DEF CopyOK, Copying
  <2>1. index[j].seg \in Segments
    BY DEF Live, IInv, RamTypeOK, Index, Entry
  <2> QED BY <1>1, <2>1, Parameters DEF Copied, Segments
<1>3. SeenAt(now, d) # None => Holds(compact_tmp, k, d)
  BY <1>1, <1>2 DEF Accounted
<1>4. ASSUME NEW i \in DOMAIN compact_tmp
      PROVE  compact_tmp[i] \in Cell
             /\ (compact_tmp[i].key = k => compact_tmp[i].data = d /\ d \in Payloads)
  <2> DEFINE c == compact_tmp[i]
  <2>1. c \in Cell /\ Live(c.key) /\ c.data = Due(c.key, InRam)
    BY <1>1 DEF IsCopy
  <2> HIDE DEF c
  <2>2. c.key = k => Live(k) /\ Due(c.key, InRam) = d
    BY <2>1
  <2>3. Live(k) => d \in Payloads
    BY <1>1 DEF Accounted
  <2> QED BY <2>1, <2>2, <2>3 DEF c
<1> QED BY <1>3, <1>4 DEF Carries

\* From then on nothing changes compact.tmp until it is segment 0.
LEMMA CommitKept ==
    ASSUME Supported, Inv, Next
    PROVE  CommitOK'
<1> SUFFICES ASSUME TmpTells', NEW k \in Keys
             PROVE  \E d \in May(k, InRam)' : Carries(compact_tmp', now', k, d)
  BY DEF CommitOK
<1> USE DEF Inv, DInv
<1>1. CASE JournalCommit
  <2>1. /\ pc = "journal_commit" /\ pc' = "remove_all"
        /\ UNCHANGED <<compact_tmp, now, op, caller, promised>>
    BY <1>1 DEF JournalCommit
  <2>2. Due(k, InRam)' = Due(k, InRam)
    BY <2>1 DEF Due, InRam
  <2>3. Carries(compact_tmp, now, k, Due(k, InRam))
    BY <2>1, CommitTells
  <2> QED BY <2>1, <2>2, <2>3 DEF May
<1>2. CASE RemoveAll \/ RecoverCommitted \/ (Boot /\ pc' = "recover" /\ UNCHANGED op)
  <2>1. /\ UNCHANGED <<compact_tmp, now, op, promised>>
        /\ \/ pc = "remove_all" /\ pc' = "rename_tmp" /\ UNCHANGED caller
           \/ pc = "recover" /\ pc' = "remove_all" /\ UNCHANGED caller /\ Committed
           \/ pc = "down" /\ pc' = "recover" /\ caller' = "boot" /\ UNCHANGED journal
    BY <1>2 DEF RemoveAll, RecoverCommitted, Boot, Committed, InJournal
  <2>2. pc = "down" => caller # "threshold"
    BY DEF IInv, CallOK
  <2>3. May(k, InRam)' = May(k, InRam)
    BY <2>1, <2>2 DEF May, Due, InRam, Starting, TurnOK, Loading
  <2>4. TmpTells
    BY <2>1 DEF TmpTells, Committed, InJournal
  <2> QED BY <2>1, <2>3, <2>4 DEF CommitOK
<1>3. CASE Crash
  <2>1. /\ pc' = "down" /\ caller' = "none" /\ op'.key = op.key /\ op'.data = op.data
        /\ op'.evicted = {} /\ op.evicted = {} /\ UNCHANGED <<now, promised>>
    BY <1>3, CrashStage, PowerOffEffect DEF TurnOK
  <2>2. May(k, InRam) \subseteq May(k, InRam)'
    BY <2>1 DEF May, Due, InRam, Starting
  <2>3. Committed'
    BY <2>1 DEF TmpTells
  <2>4. Committed /\ UNCHANGED <<journal, compact_tmp>> /\ compact_tmp # NoFile
    <3>1. journal' # Torn
      BY <2>3 DEF Committed, InJournal
    <3>2. UNCHANGED journal
      BY <1>3, <3>1, CrashStage
    <3>3. Committed
      BY <2>3, <3>2 DEF Committed, InJournal
    <3>4. journal \notin {NoFile, Torn, Copying0}
      BY <3>3 DEF Committed, InJournal, Copying0
    <3>5. pc # "copy"
      BY <3>3, CrashStage DEF StageOK, Committed
    <3> QED BY <1>3, <3>1, <3>2, <3>3, <3>4, <3>5, CrashStage
  <2>5. TmpTells
    <3>1. pc \in Labels /\ pc # "down" /\ pc \notin Clearing
      BY <1>3, CrashStage DEF IInv, ControlTypeOK
    <3>2. journal # NoFile /\ journal.state # "COMPACTING"
      BY <2>4 DEF Committed, InJournal
    <3> QED BY <2>4, <3>1, <3>2 DEF StageOK, TmpTells, Labels, TurnOK, Clearing, Copying0
  <2>6. PICK d \in May(k, InRam) : Carries(compact_tmp, now, k, d)
    BY <2>5 DEF CommitOK
  <2> QED BY <2>1, <2>2, <2>4, <2>6
<1>4. CASE Tick
  <2>1. /\ pc \in {"idle", "down"} /\ now' = now + 1 /\ now \in Nat
        /\ UNCHANGED <<pc, op, caller, promised, journal, compact_tmp>>
    BY <1>4 DEF Tick, IInv, OutsideTypeOK
  <2>2. TmpTells /\ May(k, InRam)' = May(k, InRam)
    BY <2>1 DEF TmpTells, Committed, InJournal, May, Due, InRam, Starting
  <2>3. PICK d \in May(k, InRam) : Carries(compact_tmp, now, k, d)
    BY <2>2 DEF CommitOK
  <2>4. d \in Value
    BY <2>3, DueType DEF IInv
  <2>5. SeenAt(now, d) = None => SeenAt(now + 1, d) = None
    BY <2>1, <2>4, SeenFacts
  <2>6. Carries(compact_tmp, now + 1, k, d)
    BY <2>3, <2>5 DEF Carries
  <2> QED BY <2>1, <2>2, <2>3, <2>6
<1>5. CASE Calls \/ AppendRecord \/ PersistEntry
  <2>1. pc' \in {"idle", "append", "persist", "journal_copying", "clear_segment"}
    BY <1>5 DEF Calls, StartPut, StartRemove, Get, StartClear, Close, AppendRecord, PersistEntry, Return
  <2> QED BY <2>1 DEF TmpTells
<1>6. CASE \/ JournalCopying \/ OpenTmp \/ OpenTmpFails \/ CopyRecord \/ JournalSegment
           \/ DropSource \/ (Exchanging /\ ~ RemoveAll)
  <2>1. pc' \in {"open_tmp", "copy", "append", "idle", "drop_source", "journal_commit",
                 "remove_index", "write_index", "clear_journal", "load", "reopen"}
    BY <1>6 DEF JournalCopying, OpenTmp, OpenTmpFails, GiveUp, CopyRecord, JournalSegment,
                DropSource, Exchanging, RenameTmp, RemoveIndex, WriteIndex, ClearJournal,
                Reopen, Return
  <2> QED BY <2>1 DEF TmpTells
<1>7. CASE Erasing \/ (Recovering /\ ~ RecoverCommitted /\ pc' # "recover")
  <2>1. pc' \notin {"down", "recover", "remove_all", "rename_tmp"}
    BY <1>7 DEF Erasing, ClearSegment, ClearIndex, ClearReopen, Return, TurnOK, Clearing,
                Recovering, Boot, RecoverNothing, RecoverBack, LoadIndex, RebuildIndex,
                WriteBootIndex, PruneAtBoot, OpenFiles
  <2> QED BY <2>1 DEF TmpTells
<1>8. CASE Shutdown \/ CooldownEnds
  <2>1. pc = "idle" /\ UNCHANGED journal
    BY <1>8 DEF Shutdown, CooldownEnds
  <2>2. ~ Committed' /\ pc' \in {"idle", "down"}
    BY <1>8, <2>1 DEF StageOK, Committed, InJournal, Shutdown, PowerOff, CooldownEnds
  <2> QED BY <2>2 DEF TmpTells
<1>9. Recovering /\ pc' = "recover" => Boot /\ UNCHANGED op
  BY DEF Recovering, Boot, RecoverNothing, RecoverCommitted, RecoverBack, LoadIndex,
         RebuildIndex, WriteBootIndex, PruneAtBoot, OpenFiles
<1>10. CASE Gathering \/ Exchanging
  BY <1>1, <1>2, <1>6, <1>10 DEF Gathering
<1>11. CASE Recovering
  BY <1>2, <1>7, <1>9, <1>11
<1>12. CASE LoseIndex
  <2>1. UNCHANGED <<pc, compact_tmp, journal, now, op, caller, promised>>
    BY <1>12 DEF LoseIndex
  <2>2. TmpTells /\ May(k, InRam)' = May(k, InRam)
    BY <2>1 DEF TmpTells, Committed, InJournal, May, Due, InRam, Starting
  <2> QED BY <2>1, <2>2 DEF CommitOK
<1>13. CASE Stopping
  BY <1>3, <1>4, <1>8, <1>12, <1>13 DEF Stopping
<1>14. \/ Calls \/ AppendRecord \/ PersistEntry \/ Gathering
       \/ Exchanging \/ Erasing \/ Recovering \/ Stopping
  BY PossibleSteps
<1> QED BY <1>5, <1>7, <1>10, <1>11, <1>13, <1>14

\* Every record of compact.tmp belongs to another key, and so does every entry
\* of the index that is made of it.
LEMMA IndexedOnce ==
    ASSUME Supported, NEW f \in File, OnePerKey(f)
    PROVE  Len(f) = Cardinality(Indexed(IndexOfSegment0(f)))
<1> DEFINE I == Indexed(IndexOfSegment0(f))
           key == [i \in 1..Len(f) |-> f[i].key]
<1>1. f # NoFile /\ Len(f) \in Nat /\ DOMAIN f = 1..Len(f)
  BY ModelValues DEF File
<1>2. \A k \in Keys : PutsOf(f, k) = {i \in 1..Len(f) : f[i].key = k}
  BY <1>1, ModelValues DEF PutsOf, RecordsOf, Scanned, Supported, OnePerKey
<1>3. I = {k \in Keys : PutsOf(f, k) # {}}
  <2> SUFFICES ASSUME NEW k \in Keys
               PROVE  IndexOfSegment0(f)[k] # None <=> PutsOf(f, k) # {}
    BY DEF Indexed
  <2>1. CASE PutsOf(f, k) = {}
    BY <2>1 DEF IndexOfSegment0
  <2>2. CASE PutsOf(f, k) # {}
    <3> DEFINE e == EntryFor(0, Max(PutsOf(f, k)) - 1, f[Max(PutsOf(f, k))].data)
    <3>1. e \in Entry
      BY <2>2, PutsType, EntryType, SegmentFacts
    <3>2. IndexOfSegment0(f)[k] = e
      BY <2>2 DEF IndexOfSegment0
    <3> QED BY <2>2, <3>1, <3>2, ModelValues
  <2> QED BY <2>1, <2>2
<1>4. key \in Bijection(1..Len(f), I)
  <2>1. \A i \in 1..Len(f) : key[i] \in I
    BY <1>1, <1>2, <1>3 DEF Cell, OnePerKey
  <2>2. \A k \in I : \E i \in 1..Len(f) : key[i] = k
    BY <1>2, <1>3
  <2>3. \A i, j \in 1..Len(f) : key[i] = key[j] => i = j
    BY <1>1 DEF OnePerKey
  <2> HIDE DEF key, I
  <2>4. key \in [1..Len(f) -> I]
    BY <2>1 DEF key
  <2> QED BY <2>2, <2>3, <2>4 DEF Bijection, Injection, Surjection, IsInjective
<1> HIDE DEF key, I
<1>5. ExistsBijection(1..Len(f), I)
  BY <1>4 DEF ExistsBijection
<1>6. Cardinality(I) = Len(f)
  BY <1>1, <1>5, FS_CountingElements
<1> QED BY <1>6 DEF I

\* The loop copies a key once, so compact.tmp and the index of it agree.
LEMMA DistinctKept ==
    ASSUME Supported, Inv, Next
    PROVE  DistinctOK'
<1> USE DEF Inv, DInv, DistinctOK, Copying
<1>1. CASE OpenTmp
  <2>1. pc' = "copy" /\ compact_tmp' = <<>>
    BY <1>1 DEF OpenTmp
  <2> QED BY <2>1 DEF OnePerKey
<1>2. CASE CopyRecord
  <2>1. pc = "copy" /\ pc' = "copy" /\ compact_tmp \in File /\ caller # "boot"
    BY <1>2 DEF CopyRecord, IInv, FilesOK, DiskTypeOK, TurnOK, Loading, Swapping
  <2>2. PICK k \in Keys :
           LET c == [key |-> k, data |-> Due(k, InRam)] IN
           /\ ~ Copied(k) /\ c \in Cell /\ c.data \in Payloads
           /\ compact_tmp' = Append(compact_tmp, c)
    BY <1>2, CopyEffect
  <2> DEFINE c == [key |-> k, data |-> Due(k, InRam)]
             n == Len(compact_tmp)
  <2>3. c.key = k /\ c \in Cell /\ c.data \in Payloads /\ compact_tmp' = Append(compact_tmp, c)
    BY <2>2
  <2> HIDE DEF c
  <2>4. /\ DOMAIN compact_tmp' = 1..(n + 1) /\ DOMAIN compact_tmp = 1..n /\ n \in Nat
        /\ compact_tmp'[n + 1] = c /\ \A i \in 1..n : compact_tmp'[i] = compact_tmp[i]
    BY <2>1, <2>3 DEF File
  <2>5. \A i \in 1..n : compact_tmp[i].key # k
    BY <2>1, <2>2, <2>4 DEF CopyOK, IsCopy
  <2>6. OnePerKey(compact_tmp)
    BY <2>1
  <2> HIDE DEF n
  <2>7. ASSUME NEW i \in 1..(n + 1)
        PROVE  /\ compact_tmp'[i] \in Cell /\ compact_tmp'[i].data \in Payloads
               /\ \A j \in 1..(n + 1) : compact_tmp'[i].key = compact_tmp'[j].key => i = j
    <3>1. i \in 1..n \/ i = n + 1
      BY <2>4
    <3>2. \A j \in 1..(n + 1) : j \in 1..n \/ j = n + 1
      BY <2>4
    <3> QED BY <2>3, <2>4, <2>5, <2>6, <3>1, <3>2 DEF OnePerKey
  <2> QED BY <2>1, <2>4, <2>7 DEF OnePerKey
<1>3. CASE JournalSegment \/ DropSource \/ JournalCommit \/ RemoveAll
  <2>1. /\ pc \in Copying \cup {"remove_all"} /\ pc' \in Copying \cup {"remove_all", "rename_tmp"}
        /\ UNCHANGED <<compact_tmp, caller>>
    BY <1>3 DEF JournalSegment, DropSource, JournalCommit, RemoveAll
  <2> QED BY <2>1
<1>4. CASE RenameTmp
  <2>1. /\ pc = "rename_tmp" /\ pc' = "remove_index" /\ UNCHANGED caller
        /\ segs' = [segs EXCEPT ![0] = compact_tmp] /\ compact_tmp \in File
        /\ index' = IndexOfSegment0(compact_tmp)
    BY <1>4 DEF RenameTmp, StageOK, IInv, DiskTypeOK, Supported
  <2>2. segs'[0] = compact_tmp
    BY <2>1, SegmentFacts DEF IInv, DiskTypeOK
  <2> QED BY <2>1, <2>2, IndexedOnce
<1>5. CASE RemoveIndex \/ WriteIndex
  BY <1>5 DEF RemoveIndex, WriteIndex
<1>6. CASE ClearJournal \/ Reopen \/ JournalCopying \/ OpenTmpFails
  <2>1. pc' \in {"load", "reopen", "idle", "append", "open_tmp"}
    BY <1>6 DEF ClearJournal, Reopen, JournalCopying, OpenTmpFails, GiveUp, Return
  <2> QED BY <2>1
<1>7. CASE Calls \/ AppendRecord \/ PersistEntry \/ Erasing \/ Stopping
  <2>1. pc' \in {"idle", "append", "persist", "journal_copying", "down"} \cup Clearing
    BY <1>7 DEF Calls, StartPut, StartRemove, Get, StartClear, Close, AppendRecord, PersistEntry,
                Erasing, ClearSegment, ClearIndex, ClearReopen, Return, TurnOK, Clearing,
                Stopping, Crash, Shutdown, PowerOff, CooldownEnds, Tick, LoseIndex
  <2> QED BY <2>1 DEF Clearing
<1>8. CASE Recovering
  <2>1. caller' = "boot" \/ pc' = "idle"
    BY <1>8 DEF Recovering, Boot, RecoverNothing, RecoverCommitted, RecoverBack, LoadIndex,
                RebuildIndex, WriteBootIndex, PruneAtBoot, OpenFiles, TurnOK, Loading
  <2> QED BY <2>1
<1>9. CASE Gathering \/ Exchanging
  BY <1>1, <1>2, <1>3, <1>4, <1>5, <1>6, <1>9 DEF Gathering, Exchanging
<1> QED BY <1>7, <1>8, <1>9, PossibleSteps

---------------------------------------------------------------------------
(* index.dat and the index in RAM                                          *)

\* A step that touches neither keeps them in agreement.
LEMMA MirrorSame ==
    ASSUME Inv, UNCHANGED <<index, index_dat, now>>, Mirrored' => Mirrored,
           pc # "persist"
    PROVE  MirrorOK'
BY DEF Inv, DInv, MirrorOK, Mirrors, Mirrored

\* An expired entry stays expired.
LEMMA ExpiredLater ==
    ASSUME NEW e \in Entry, NEW t \in Nat, Expired(e.ts, e.ttl, t)
    PROVE  Expired(e.ts, e.ttl, t + 1)
<1>1. e.ts \in Nat /\ EffectiveTTL(e.ttl) \in Nat
  BY Parameters DEF Entry, EffectiveTTL
<1> QED BY <1>1 DEF Expired

\* A put or remove writes its entry to index.dat before it returns.
LEMMA MirrorPersist ==
    ASSUME Supported, Inv, PersistEntry
    PROVE  MirrorOK'
<1> SUFFICES ASSUME Mirrored', NEW k \in Keys PROVE Mirrors(index_dat.map, k)'
  BY DEF MirrorOK
<1> USE DEF Inv, DInv
<1> DEFINE e == EntryFor(current_segment, current_offset, op.data)
           x == IF op.name = "put" THEN e ELSE None
<1>1. /\ pc = "persist" /\ index_file /\ MaxRecs = 0 /\ UNCHANGED <<index, now>>
      /\ op.name \in {"put", "remove"} /\ op.key \in Keys
      /\ index_dat' = Logged(index_dat, op.key, x)
      /\ pc' \in {"idle", "journal_copying"}
  BY DEF PersistEntry, Return, AppendOK, Mirrored, IInv, CallOK
<1>2. index_dat \in IndexLog /\ ~ index_dat.torn
  BY <1>1 DEF IInv, DiskTypeOK, FilesOK, Rewriting, Clearing, IndexFileOK
<1>3. index[op.key] = x
  <2>1. op.evicted = {}
    BY <1>1 DEF TurnOK
  <2> HIDE DEF e
  <2>2. op.name = "put" => index[op.key] = EntryFor(current_segment, current_offset, op.data)
    BY <1>1, <2>1 DEF AppendOK
  <2>3. op.name = "remove" => index[op.key] = None
    BY <1>1 DEF AppendOK
  <2> QED BY <1>1, <2>2, <2>3 DEF e
<1> HIDE DEF x
<1>4. index_dat'.map = [index_dat.map EXCEPT ![op.key] = x]
  BY <1>1, <1>2 DEF Logged, IndexLog
<1>5. index_dat.map \in Index
  BY <1>2 DEF IndexLog
<1>6. k # op.key => Mirrors(index_dat.map, k)
  BY <1>1 DEF MirrorOK, Mirrored
<1>7. index_dat'.map[k] = IF k = op.key THEN x ELSE index_dat.map[k]
  BY <1>4, <1>5 DEF Index
<1> QED BY <1>1, <1>3, <1>6, <1>7 DEF Mirrors

\* So it replays what callers see.
LEMMA MirrorKept ==
    ASSUME Supported, Inv, Next
    PROVE  MirrorOK'
<1> USE DEF Inv, DInv
<1>1. CASE Calls
  <2>1. ASSUME NEW k \in Keys, Get(k) PROVE MirrorOK'
    <3>1. /\ pc = "idle" /\ pc' = "idle" /\ UNCHANGED <<index_dat, now>>
          /\ index' = [index EXCEPT ![k] = None] /\ index[k] # None
          /\ Expired(index[k].ts, index[k].ttl, now)
      BY <2>1 DEF Get
    <3>2. \A j \in Keys : index'[j] = IF j = k THEN None ELSE index[j]
      BY <3>1 DEF IInv, RamTypeOK, Index
    <3>3. ASSUME NEW j \in Keys, Mirrored' PROVE Mirrors(index_dat.map, j)'
      <4>1. Mirrors(index_dat.map, j)
        BY <3>1, <3>3 DEF MirrorOK, Mirrored
      <4> QED BY <3>1, <3>2, <4>1 DEF Mirrors
    <3> QED BY <3>3 DEF MirrorOK
  <2>2. CASE ~ (\E k \in Keys : Get(k))
    <3>1. /\ pc = "idle" /\ UNCHANGED <<index, index_dat, now>>
      BY <1>1, <2>2 DEF Calls, StartPut, StartRemove, StartClear, Close
    <3> QED BY <3>1, MirrorSame DEF Mirrored
  <2> QED BY <2>1, <2>2
<1>2. CASE AppendRecord
  <2>1. /\ pc = "append" /\ pc' = "persist" /\ UNCHANGED <<index_dat, now>>
    BY <1>2 DEF AppendRecord
  <2>2. ASSUME Mirrored', NEW k \in Keys, k # op.key PROVE Mirrors(index_dat.map, k)'
    <3>1. MaxRecs = 0 /\ Mirrors(index_dat.map, k)
      BY <2>1, <2>2 DEF MirrorOK, Mirrored
    <3>2. index'[k] = index[k]
      BY <1>2, <2>2, <3>1, AppendEffect
    <3> QED BY <2>1, <3>1, <3>2 DEF Mirrors
  <2>3. op'.key = op.key
    BY <1>2, AppendEffect
  <2> QED BY <2>1, <2>2, <2>3 DEF MirrorOK
<1>3. CASE PersistEntry
  BY <1>3, MirrorPersist
<1>4. CASE WriteIndex
  <2>1. pc' = "clear_journal" /\ index_dat' = [map |-> index, torn |-> FALSE] /\ UNCHANGED index
    BY <1>4 DEF WriteIndex
  <2> QED BY <2>1 DEF MirrorOK, Mirrors
<1>5. CASE JournalCopying \/ OpenTmpFails \/ ClearJournal \/ Reopen
  <2>1. /\ pc \in {"journal_copying", "open_tmp", "clear_journal", "reopen"}
        /\ UNCHANGED <<index, index_dat, now>>
        /\ pc = "clear_journal" => pc' \in {"load", "reopen"}
        /\ pc' = "reopen" => caller # "boot"
    BY <1>5 DEF JournalCopying, OpenTmpFails, GiveUp, ClearJournal, Reopen, Return, TurnOK
  <2>2. Mirrored' => Mirrored
    BY <2>1 DEF Mirrored
  <2> QED BY <2>1, <2>2, MirrorSame
<1>6. CASE ClearReopen
  <2>1. /\ index_dat' = [map |-> EmptyIndex, torn |-> FALSE] /\ index' = EmptyIndex
    BY <1>6 DEF ClearReopen, ClearOK, Clearing
  <2> QED BY <2>1, <1>6 DEF MirrorOK, Mirrors, ClearReopen, TurnOK, Return, Clearing
<1>7. CASE OpenFiles
  <2>1. pc = "open" /\ pc' = "idle" /\ UNCHANGED <<index, index_dat>>
    BY <1>7 DEF OpenFiles
  <2> QED BY <2>1 DEF MirrorOK, Mirrors, IndexFileOK
<1>8. CASE Tick
  <2>1. /\ pc \in {"idle", "down"} /\ now' = now + 1 /\ now \in Nat
        /\ UNCHANGED <<pc, index, index_dat, op, caller>>
    BY <1>8 DEF Tick, IInv, OutsideTypeOK
  <2>2. ASSUME Mirrored', NEW k \in Keys PROVE Mirrors(index_dat.map, k)'
    <3>1. pc = "idle" /\ Mirrored
      BY <2>1, <2>2 DEF Mirrored
    <3>2. Mirrors(index_dat.map, k) /\ index_dat \in IndexLog
      BY <3>1 DEF MirrorOK, IndexFileOK, IInv, DiskTypeOK, Starting, TurnOK, CallOK, Clearing
    <3>3. index_dat.map[k] \in Entry \cup {None}
      BY <3>2 DEF IndexLog, Index
    <3> QED BY <2>1, <3>2, <3>3, ExpiredLater DEF Mirrors
  <2> QED BY <2>2 DEF MirrorOK
<1>9. CASE CooldownEnds \/ LoseIndex
  BY <1>9, MirrorSame DEF CooldownEnds, LoseIndex, Mirrored, MirrorOK, IInv, CallOK
<1>10. CASE \/ OpenTmp \/ CopyRecord \/ JournalSegment \/ DropSource \/ JournalCommit
            \/ RemoveAll \/ RenameTmp \/ RemoveIndex \/ ClearSegment \/ ClearIndex
            \/ Crash \/ Shutdown
  <2>1. pc' \in Copying \cup Clearing \cup {"remove_all", "rename_tmp", "remove_index",
                                           "write_index", "down"}
    BY <1>10 DEF OpenTmp, CopyRecord, JournalSegment, DropSource, JournalCommit, RemoveAll,
                 RenameTmp, StageOK, RemoveIndex, ClearSegment, ClearIndex, Crash, Shutdown,
                 PowerOff, Copying, Clearing, Supported
  <2> QED BY <2>1 DEF MirrorOK, Mirrored, Copying, Clearing
<1>11. CASE Recovering /\ ~ OpenFiles
  <2>1. /\ pc' \notin {"idle", "append", "persist", "journal_copying", "open_tmp", "reopen"}
        /\ caller' = "boot"
    BY <1>11 DEF Recovering, Boot, RecoverNothing, RecoverCommitted, RecoverBack, LoadIndex,
                 RebuildIndex, WriteBootIndex, PruneAtBoot, TurnOK, Loading
  <2> QED BY <2>1 DEF MirrorOK, Mirrored
<1>12. CASE Gathering \/ Exchanging \/ Erasing \/ Stopping
  BY <1>4, <1>5, <1>6, <1>8, <1>9, <1>10, <1>12 DEF Gathering, Exchanging, Erasing, Stopping
<1> QED BY <1>1, <1>2, <1>3, <1>7, <1>11, <1>12, PossibleSteps

---------------------------------------------------------------------------
(* The segments and index.dat                                              *)

\* What the segments alone tell cannot change where neither they nor index.dat do,
\* or where open_segment() adds an empty one.
LEMMA LogOnward ==
    ASSUME Inv, Replaying, LogTells, pc # "persist", ~ Starting', UNCHANGED index_dat,
           UNCHANGED segs \/ \E id \in Segments : OpenSegment(id),
           pc' \notin {"persist", "remove_index", "write_index", "write_rebuilt"},
           InOrder'
    PROVE  LogOK'
<1> USE DEF Inv, DInv, LogOK
<1>0. segs \in SegmentFiles
  BY DEF IInv, DiskTypeOK, SegmentFiles
<1>1. RebuiltIndex' = RebuiltIndex
  BY <1>0, SameLog, ReplayedOpen
<1>2. Whole'
  <2>1. CASE UNCHANGED segs
    BY <2>1 DEF Whole
  <2>2. ASSUME NEW id \in Segments, OpenSegment(id) PROVE Whole'
    <3>1. \A s \in Segments : segs'[s] = segs[s] \/ segs'[s] = <<>>
      BY <1>0, <2>2 DEF OpenSegment, SegmentFiles
    <3> QED BY <3>1 DEF Whole
  <2> QED BY <2>1, <2>2
<1>3. SameEntries'
  BY <1>1 DEF SameEntries
<1> QED BY <1>2, <1>3 DEF AtRest, ScanIndex, LastEntry

\* The steps after which index.dat is not asked, or is about to be written.
LEMMA LogMoving ==
    ASSUME Inv, Replaying, ~ LogTells', Whole', ~ Starting', ScanIndex'
    PROVE  LogOK'
BY DEF LogOK, InOrder, AtRest, SameEntries, LastEntry, LogTells, Clearing, Copying

\* A segment that goes takes nothing half-written with it.
LEMMA WholeRemoved ==
    ASSUME Inv, Whole, \A s \in Segments : segs'[s] = segs[s] \/ segs'[s] = NoFile
    PROVE  Whole'
BY DEF Whole

\* A call opens the segment that follows, or the last one.
LEMMA LogCalls ==
    ASSUME Supported, Inv, Replaying, Calls
    PROVE  LogOK'
<1> USE DEF Inv, DInv, LogOK
<1>1. /\ pc = "idle" /\ caller = "none" /\ UNCHANGED index_dat
      /\ pc' \in {"idle", "append", "journal_copying", "clear_segment"}
      /\ caller' \in {"none", "rotate"}
  BY DEF Calls, StartPut, StartRemove, Get, StartClear, Close, IInv, CallOK
<1>2. current_segment \in Segments /\ SegCount - 1 \in Segments /\ segs \in Files
      /\ (current_segment + 1 < SegCount => current_segment + 1 \in Segments)
      /\ \A s \in Segments : s \in Int /\ s <= SegCount - 1 /\ SegCount - 1 \in Int
  BY <1>1, SegmentFacts, Parameters DEF IInv, CallOK, DiskTypeOK, Files, Segments, RamTypeOK
<1>3. \/ UNCHANGED segs /\ current_segment' \in {current_segment, current_segment + 1}
      \/ current_segment + 1 < SegCount /\ OpenSegment(current_segment + 1)
      \/ OpenSegment(SegCount - 1)
  BY DEF Calls, StartPut, StartRemove, Get, StartClear, Close
<1>4. \A s \in Segments : s > current_segment => segs[s] = NoFile
  BY <1>1 DEF InOrder
<1>5. \A s \in Segments : s > current_segment' => segs'[s] = NoFile
  <2>1. CASE UNCHANGED segs /\ current_segment' \in {current_segment, current_segment + 1}
    <3>1. \A s \in Segments : s > current_segment' => s > current_segment
      BY <1>2, <2>1
    <3> QED BY <1>4, <2>1, <3>1
  <2>2. CASE current_segment + 1 < SegCount /\ OpenSegment(current_segment + 1)
    <3>1. current_segment' = current_segment + 1
          /\ \A s \in Segments : s # current_segment + 1 => segs'[s] = segs[s]
      BY <1>2, <2>2 DEF OpenSegment, Files
    <3>2. \A s \in Segments : s > current_segment + 1 =>
                                 s > current_segment /\ s # current_segment + 1
      BY <1>2
    <3> QED BY <1>4, <3>1, <3>2
  <2>3. CASE OpenSegment(SegCount - 1)
    BY <1>2, <2>3 DEF OpenSegment
  <2> QED BY <1>3, <2>1, <2>2, <2>3
<1>6. InOrder'
  BY <1>1, <1>5 DEF InOrder
<1>7. UNCHANGED segs \/ \E id \in Segments : OpenSegment(id)
  BY <1>2, <1>3
<1>8. LogTells /\ ~ Starting'
  BY <1>1 DEF LogTells, Clearing, Copying, Starting
<1> QED BY <1>1, <1>6, <1>7, <1>8, LogOnward

\* A record is appended behind all others, so a scan finds it last.
LEMMA LogAppend ==
    ASSUME Supported, Inv, Replaying, AppendRecord
    PROVE  LogOK'
<1> USE DEF Inv, DInv, LogOK
<1> DEFINE c == [key |-> op.key, data |-> IF op.name = "put" THEN op.data ELSE Tombstone]
<1>1. /\ c \in Cell /\ active_file \in Segments /\ segs[active_file] # NoFile
      /\ segs' = [segs EXCEPT ![active_file] = Append(@, c)]
      /\ current_offset = Len(segs[active_file])
  BY AppendStep
<1>2. /\ pc = "append" /\ pc' = "persist" /\ caller = "none" /\ caller' = "none"
      /\ UNCHANGED <<index_dat, current_segment, current_offset>>
      /\ active_file = current_segment /\ segs \in SegmentFiles
  BY DEF AppendRecord, IInv, CallOK, AppendOK, Ready, DiskTypeOK, SegmentFiles
<1>3. /\ op'.name = op.name /\ op'.key = op.key /\ op'.data = op.data
      /\ op.name \in {"put", "remove"} /\ op.key \in Keys
      /\ op.name = "put" => op.data \in Payloads
  BY AppendEffect
<1>4. c.key = op.key /\ c.data = IF op.name = "put" THEN op.data ELSE Tombstone
  OBVIOUS
<1> HIDE DEF c
<1>5. \A s \in Segments : s > active_file => segs[s] = NoFile
  BY <1>2 DEF InOrder
<1>6. \A i \in DOMAIN segs[active_file] : segs[active_file][i] # Torn
  BY <1>1 DEF Whole
<1>7. \A k \in Keys :
         RebuiltIndex'[k] =
             IF k # op.key THEN RebuiltIndex[k]
             ELSE IF op.name = "put" THEN EntryFor(current_segment, current_offset, op.data)
             ELSE None
  <2>1. EmptyKeys = {}
    BY DEF Supported
  <2>2. \A k \in Keys :
           RebuiltIndex'[k] = IF k # c.key THEN RebuiltIndex[k]
                              ELSE IF c.data = Tombstone THEN None
                              ELSE EntryFor(active_file, Len(segs[active_file]), c.data)
    BY <1>1, <1>2, <1>5, <1>6, <2>1, ReplayedAppend
  <2>3. op.name = "put" => c.data # Tombstone
    BY <1>3, <1>4, ModelValues
  <2>4. "put" # "remove"
    OBVIOUS
  <2> QED BY <1>1, <1>2, <1>3, <1>4, <2>2, <2>3, <2>4
<1>8. Whole'
  <2>1. segs[active_file] \in Seq(Cell \cup {Torn}) /\ c # Torn
    BY <1>1, <1>2, ModelValues DEF SegmentFiles, File
  <2>2. segs'[active_file] = Append(segs[active_file], c)
        /\ \A s \in Segments \ {active_file} : segs'[s] = segs[s]
    BY <1>1, <1>2 DEF SegmentFiles
  <2>3. \A i \in DOMAIN Append(segs[active_file], c) : Append(segs[active_file], c)[i] # Torn
    BY <1>1, <1>6, <2>1
  <2> QED BY <2>2, <2>3 DEF Whole
<1>9. InOrder'
  <2>1. \A s \in Segments : s > active_file => s # active_file
    BY <1>1 DEF Segments
  <2> QED BY <1>1, <1>2, <1>5, <2>1 DEF InOrder, SegmentFiles
<1>10. SameEntries'
  BY <1>2, <1>3, <1>7 DEF SameEntries, LogTells, Clearing, Copying
<1>11. LastEntry'
  BY <1>2, <1>3, <1>7 DEF LastEntry
<1> QED BY <1>2, <1>8, <1>9, <1>10, <1>11 DEF AtRest, ScanIndex, Starting

\* persist_index_entry() gives index.dat the entry that a scan would give.
LEMMA LogPersist ==
    ASSUME Supported, Inv, Replaying, PersistEntry
    PROVE  LogOK'
<1> USE DEF Inv, DInv, LogOK
<1>1. /\ pc = "persist" /\ pc' \in {"idle", "journal_copying"} /\ caller = "none"
      /\ caller' \in {"none", "threshold"} /\ UNCHANGED <<segs, current_segment>>
      /\ op.name \in {"put", "remove"} /\ op.key \in Keys
      /\ op.name = "put" => op.data \in Payloads
  BY DEF PersistEntry, Return, IInv, CallOK
<1>2. index_file /\ index_dat \in IndexLog /\ ~ index_dat.torn /\ index_dat # NoFile
  BY <1>1 DEF AppendOK, IndexFileOK, Clearing, IInv, DiskTypeOK, Starting
<1> DEFINE x == IF op.name = "put" THEN EntryFor(current_segment, current_offset, op.data)
                ELSE None
<1>3. RebuiltIndex' = RebuiltIndex /\ RebuiltIndex[op.key] = x
  BY <1>1, SameLog DEF LastEntry
<1>4. index_dat' = [index_dat EXCEPT !.map = [@ EXCEPT ![op.key] = x]]
  BY <1>2 DEF PersistEntry, Logged
<1> HIDE DEF x
<1>5. index_dat'.map = [index_dat.map EXCEPT ![op.key] = x]
  BY <1>2, <1>4 DEF IndexLog
<1>6. \A k \in Keys : RebuiltIndex'[k] = index_dat'.map[k]
  <2>1. \A k \in Keys : k = op.key \/ RebuiltIndex[k] = index_dat.map[k]
    BY <1>1, <1>2 DEF SameEntries, LogTells, Clearing, Copying
  <2> QED BY <1>1, <1>2, <1>3, <1>5, <2>1 DEF IndexLog, Index
<1>7. Whole' /\ InOrder'
  BY <1>1 DEF Whole, InOrder
<1> QED BY <1>1, <1>6, <1>7 DEF AtRest, ScanIndex, SameEntries, LastEntry, Starting

\* The compaction moves everything into segment 0, where a scan finds what
\* finalize_compaction() indexes.
LEMMA LogCompact ==
    ASSUME Supported, Inv, Replaying, Gathering \/ Exchanging
    PROVE  LogOK'
<1> USE DEF Inv, DInv, LogOK
<1>0. segs \in SegmentFiles /\ caller # "boot" /\ pc # "down"
  BY DEF IInv, DiskTypeOK, SegmentFiles, Gathering, JournalCopying, OpenTmp, OpenTmpFails,
         CopyRecord, JournalSegment, DropSource, JournalCommit, Exchanging, RemoveAll,
         RenameTmp, RemoveIndex, WriteIndex, ClearJournal, Reopen, AtRest, Starting, Loading
<1>1. CASE JournalCopying
  BY <1>0, <1>1, LogOnward DEF JournalCopying, LogTells, Clearing, Copying, Starting, InOrder
<1>2. CASE OpenTmpFails
  <2>1. pc = "open_tmp" /\ UNCHANGED index_dat /\ LogTells
    BY <1>2 DEF OpenTmpFails, LogTells, Clearing, Copying
  <2>2. CASE caller = "rotate" /\ caller' = "none" /\ pc' = "append" /\ OpenSegment(SegCount - 1)
    <3>1. SegCount - 1 \in Segments /\ current_segment' = SegCount - 1
          /\ \A s \in Segments : ~ (s > SegCount - 1)
      BY <2>2, SegmentFacts, Parameters DEF OpenSegment, Segments
    <3>2. InOrder'
      BY <2>2, <3>1 DEF InOrder
    <3> QED BY <2>1, <2>2, <3>1, <3>2, LogOnward DEF Starting
  <2>3. CASE caller = "threshold" /\ Return /\ UNCHANGED <<segs, current_segment>>
    <3>1. InOrder' /\ pc' = "idle" /\ ~ Starting'
      BY <2>1, <2>3 DEF InOrder, Return, Starting
    <3> QED BY <2>1, <2>3, <3>1, LogOnward
  <2> QED BY <1>2, <2>2, <2>3, GiveUpStep
<1>3. CASE OpenTmp \/ CopyRecord \/ JournalSegment \/ JournalCommit
  <2>1. UNCHANGED <<segs, caller>> /\ pc' \in Copying \cup {"remove_all"}
    BY <1>3 DEF OpenTmp, CopyRecord, JournalSegment, JournalCommit, Copying
  <2>2. Whole' /\ ~ LogTells' /\ ~ Starting' /\ ScanIndex'
    BY <1>0, <2>1 DEF Whole, LogTells, Starting, Copying, ScanIndex
  <2> QED BY <2>2, LogMoving
<1>4. CASE DropSource \/ RemoveAll
  <2>1. /\ UNCHANGED caller /\ pc' \in {"copy", "journal_commit", "rename_tmp"}
        /\ \E S : RemoveSegments(S)
    BY <1>4 DEF DropSource, RemoveAll
  <2>2. Whole'
    <3>1. \A s \in Segments : segs'[s] = segs[s] \/ segs'[s] = NoFile
      BY <2>1 DEF RemoveSegments
    <3> QED BY <3>1, WholeRemoved
  <2>3. ~ LogTells' /\ ~ Starting' /\ ScanIndex'
    BY <1>0, <2>1 DEF LogTells, Starting, Copying, ScanIndex
  <2> QED BY <2>2, <2>3, LogMoving
<1>5. CASE RenameTmp
  <2>1. /\ pc = "rename_tmp" /\ compact_tmp # NoFile /\ pc' = "remove_index" /\ UNCHANGED caller
        /\ segs' = [segs EXCEPT ![0] = compact_tmp] /\ index' = IndexOfSegment0(compact_tmp)
        /\ Blank
    BY <1>5 DEF RenameTmp, StageOK, Supported
  <2>2. compact_tmp \in File /\ 0 \in Segments
    BY <2>1, SegmentFacts DEF IInv, DiskTypeOK
  <2>3. \A i \in DOMAIN compact_tmp :
           /\ compact_tmp[i] \in Cell /\ compact_tmp[i] # Torn
           /\ compact_tmp[i].data # Tombstone
    <3> SUFFICES ASSUME NEW i \in DOMAIN compact_tmp
                 PROVE  /\ compact_tmp[i] \in Cell /\ compact_tmp[i] # Torn
                        /\ compact_tmp[i].data # Tombstone
      OBVIOUS
    <3>1. OnePerKey(compact_tmp)
      BY <1>0, <2>1 DEF DistinctOK
    <3> QED BY <3>1, ModelValues DEF OnePerKey
  <2>4. segs' \in SegmentFiles /\ segs'[0] = compact_tmp
        /\ \A s \in Segments \ {0} : segs'[s] = NoFile
    BY <1>0, <2>1, <2>2 DEF SegmentFiles, Blank
  <2>5. RebuiltIndex' = index'
    <3>1. EmptyKeys = {}
      BY DEF Supported
    <3> DEFINE T == segs'
    <3>2. T \in SegmentFiles /\ T[0] = compact_tmp /\ \A s \in Segments \ {0} : T[s] = NoFile
      BY <2>4
    <3> HIDE DEF T
    <3>3. Replayed(T) = IndexOfSegment0(compact_tmp)
      BY <2>2, <2>3, <3>1, <3>2, ReplayedSegment0
    <3> QED BY <2>1, <3>3, RebuiltReplays DEF T
  <2>6. Whole'
    BY <2>3, <2>4 DEF Whole
  <2> QED BY <1>0, <2>1, <2>5, <2>6, LogMoving DEF LogTells, Starting, ScanIndex
<1>6. CASE RemoveIndex
  <2>1. /\ pc = "remove_index" /\ pc' = "write_index" /\ UNCHANGED <<segs, index, caller>>
    BY <1>6 DEF RemoveIndex
  <2>2. Whole' /\ ScanIndex'
    BY <2>1, SameLog DEF Whole, ScanIndex
  <2> QED BY <1>0, <2>1, <2>2, LogMoving DEF LogTells, Starting
<1>7. CASE WriteIndex
  <2>1. /\ pc = "write_index" /\ pc' = "clear_journal" /\ UNCHANGED <<segs, index, caller>>
        /\ index_dat' = [map |-> index, torn |-> FALSE]
    BY <1>7 DEF WriteIndex
  <2>2. Whole' /\ RebuiltIndex' = index_dat'.map
    BY <2>1, SameLog DEF Whole, ScanIndex
  <2> QED BY <1>0, <2>1, <2>2 DEF InOrder, AtRest, ScanIndex, SameEntries, LastEntry, Starting
<1>8. CASE ClearJournal
  <2>1. /\ pc = "clear_journal" /\ pc' = "reopen" /\ UNCHANGED <<segs, index_dat, caller>>
    BY <1>0, <1>8 DEF ClearJournal, TurnOK
  <2>2. InOrder'
    BY <1>0, <2>1 DEF InOrder, StageOK
  <2> QED BY <1>0, <2>1, <2>2, LogOnward DEF LogTells, Clearing, Copying, Starting
<1>9. CASE Reopen
  <2>1. /\ pc = "reopen" /\ pc' \in {"append", "idle"} /\ UNCHANGED index_dat /\ OpenSegment(1)
        /\ caller' = "none" /\ current_segment' = 1 /\ 1 \in Segments
    BY <1>9, SegmentFacts DEF Reopen, Return, OpenSegment
  <2>2. \A s \in Segments : s > 1 => s # 1 /\ s # 0 /\ segs'[s] = segs[s]
    BY <1>0, <2>1 DEF OpenSegment, SegmentFiles
  <2>3. InOrder'
    BY <2>1, <2>2 DEF InOrder
  <2> QED BY <1>0, <2>1, <2>3, LogOnward DEF LogTells, Clearing, Copying, Starting
<1> QED BY <1>1, <1>2, <1>3, <1>4, <1>5, <1>6, <1>7, <1>8, <1>9 DEF Gathering, Exchanging

\* clear() leaves an empty log and an empty index.dat.
LEMMA LogClear ==
    ASSUME Supported, Inv, Replaying, Erasing
    PROVE  LogOK'
<1> USE DEF Inv, DInv, LogOK
<1>0. segs \in SegmentFiles /\ caller = "none" /\ pc \in Clearing
  BY DEF IInv, DiskTypeOK, SegmentFiles, Erasing, ClearSegment, ClearIndex, ClearReopen,
         Clearing, TurnOK
<1>1. CASE ClearSegment \/ ClearIndex
  <2>1. pc' \in Clearing /\ UNCHANGED caller
        /\ \A s \in Segments : segs'[s] = segs[s] \/ segs'[s] = NoFile
    BY <1>0, <1>1 DEF ClearSegment, ClearIndex, Clearing, SegmentFiles
  <2>2. Whole'
    BY <2>1, WholeRemoved
  <2> QED BY <1>0, <2>1, <2>2, LogMoving DEF LogTells, Clearing, Starting, ScanIndex
<1>2. CASE ClearReopen
  <2>1. /\ index_file /\ OpenSegment(0) /\ Return /\ Blank /\ 0 \in Segments
        /\ index_dat' = [map |-> EmptyIndex, torn |-> FALSE]
    BY <1>0, <1>2, SegmentFacts DEF ClearReopen, ClearOK, Clearing
  <2>2. RebuiltIndex' = index_dat'.map
    BY <1>0, <2>1, RebuiltBlank, ReplayedOpen
  <2>3. \A s \in Segments : segs'[s] = IF s = 0 THEN <<>> ELSE NoFile
    BY <1>0, <2>1 DEF OpenSegment, Blank, SegmentFiles
  <2>4. Whole'
    BY <2>3 DEF Whole
  <2>5. InOrder'
    <3>1. current_segment' = 0 /\ \A s \in Segments : s > 0 => s # 0
      BY <2>1 DEF OpenSegment
    <3> QED BY <2>1, <2>3, <3>1 DEF InOrder, Return
  <2> QED BY <2>1, <2>2, <2>4, <2>5
          DEF AtRest, ScanIndex, SameEntries, LastEntry, Starting, Return
<1> QED BY <1>1, <1>2 DEF Erasing

\* init() finds a log and an index.dat that agree, or makes them agree.
LEMMA LogBoot ==
    ASSUME Supported, Inv, Replaying, Recovering
    PROVE  LogOK'
<1> USE DEF Inv, DInv, LogOK
<1>0. segs \in SegmentFiles /\ Starting /\ journal = NoFile
      /\ pc \in Loading \cup {"down"} /\ LogTells
  <2>1. pc = "down" \/ pc \in Loading
    BY DEF Recovering, Boot, RecoverNothing, RecoverCommitted, RecoverBack, LoadIndex,
           RebuildIndex, WriteBootIndex, PruneAtBoot, OpenFiles, Loading, TurnOK
  <2> QED BY <2>1 DEF TurnOK, Loading, AtRest, Starting, IInv, DiskTypeOK, SegmentFiles,
                      LogTells, Clearing, Copying
<1>1. CASE OpenFiles
  <2> DEFINE found == {s \in Segments : segs[s] # NoFile}
             id == IF found = {} THEN 0 ELSE Max(found)
  <2>1. pc' = "idle" /\ caller' = "none" /\ UNCHANGED index_dat /\ OpenSegment(id)
    BY <1>1 DEF OpenFiles
  <2>2. id \in Segments /\ \A s \in Segments : s > id => segs[s] = NoFile
    <3>1. CASE found = {}
      BY <3>1, SegmentFacts
    <3>2. CASE found # {}
      <4>1. found \in SUBSET Segments
        OBVIOUS
      <4> HIDE DEF found
      <4>2. Max(found) \in found /\ \A t \in Segments : t > Max(found) => t \notin found
        BY <3>2, <4>1, LastOfSegments
      <4> QED BY <3>2, <4>1, <4>2 DEF found
    <3> QED BY <3>1, <3>2
  <2> HIDE DEF id
  <2>3. current_segment' = id /\ \A s \in Segments : s > id => s # id /\ segs'[s] = segs[s]
    BY <1>0, <2>1, <2>2 DEF OpenSegment, SegmentFiles, Segments
  <2>4. InOrder'
    BY <2>1, <2>2, <2>3 DEF InOrder
  <2> QED BY <1>0, <2>1, <2>2, <2>4, LogOnward DEF Starting, Loading
<1>2. CASE ~ OpenFiles
  <2>1. UNCHANGED segs /\ journal' = NoFile /\ caller' = "boot"
        /\ pc' \in {"recover", "load", "prune", "write_rebuilt", "open"}
    BY <1>0, <1>2, PruneEffect DEF Recovering, Boot, RecoverNothing, RecoverCommitted,
           RecoverBack, LoadIndex, RebuildIndex, WriteBootIndex, PruneAtBoot, TurnOK, Loading
  <2>2. RebuiltIndex' = RebuiltIndex /\ Whole'
    BY <2>1, SameLog DEF Whole
  <2>3. InOrder' /\ AtRest' /\ LastEntry'
    BY <2>1 DEF InOrder, AtRest, LastEntry, Starting, Loading
  <2>4. ScanIndex'
    BY <1>0, <1>2, <2>1, <2>2, PruneEffect DEF Recovering, Boot, RecoverNothing, RecoverCommitted,
           RecoverBack, LoadIndex, RebuildIndex, WriteBootIndex, PruneAtBoot, TurnOK, ScanIndex
  <2>5. SameEntries'
    <3>1. CASE UNCHANGED index_dat
      BY <1>0, <2>1, <2>2, <3>1 DEF SameEntries, Loading
    <3>2. CASE WriteBootIndex
      BY <1>0, <2>2, <3>2 DEF WriteBootIndex, TurnOK, ScanIndex, SameEntries
    <3>3. UNCHANGED index_dat \/ WriteBootIndex
      BY <1>2, PruneEffect DEF Recovering, Boot, RecoverNothing, RecoverCommitted,
           RecoverBack, LoadIndex, RebuildIndex
    <3> QED BY <3>1, <3>2, <3>3
  <2> QED BY <2>2, <2>3, <2>4, <2>5
<1> QED BY <1>1, <1>2

\* Wherever the log tells, it tells what index.dat tells: a compaction moves the
\* records, a boot may have lost index.dat, and a scan still finds the same.
LEMMA LogKept ==
    ASSUME Supported, Inv, Next
    PROVE  LogOK'
<1> SUFFICES ASSUME Replaying PROVE LogOK'
  BY DEF LogOK, Replaying
<1> USE DEF Inv, DInv, LogOK
<1>1. CASE Stopping
  <2>1. ~ Crash
    BY DEF Crash, Replaying
  <2>2. UNCHANGED <<segs, journal>> /\ RebuiltIndex' = RebuiltIndex /\ Whole'
    BY <1>1, <2>1, SameLog DEF Stopping, Shutdown, CooldownEnds, Tick, LoseIndex, Whole
  <2>3. CASE Shutdown
    <3>1. pc = "idle" /\ pc' = "down" /\ caller' = "none" /\ UNCHANGED index_dat
      BY <2>3 DEF Shutdown, PowerOff
    <3> QED BY <2>2, <3>1 DEF InOrder, AtRest, ScanIndex, SameEntries, LastEntry, LogTells,
                              Clearing, Copying, StageOK
  <2>4. CASE CooldownEnds \/ Tick \/ LoseIndex
    <3>1. /\ UNCHANGED <<pc, caller, op, current_segment, current_offset, index>>
          /\ index_dat' = NoFile \/ UNCHANGED index_dat
          /\ pc \in {"idle", "down"}
      BY <2>4 DEF CooldownEnds, Tick, LoseIndex
    <3> QED BY <2>2, <3>1 DEF InOrder, AtRest, ScanIndex, SameEntries, LastEntry, LogTells,
                              Starting
  <2> QED BY <1>1, <2>1, <2>3, <2>4 DEF Stopping
<1> QED BY <1>1, LogCalls, LogAppend, LogPersist, LogCompact, LogClear, LogBoot, PossibleSteps

---------------------------------------------------------------------------
(* The invariant                                                           *)

\* A store that has never been started has promised nothing.
LEMMA InitDurable == Init => DInv
<1> SUFFICES ASSUME Init PROVE DInv
  OBVIOUS
<1>1. /\ pc = "down" /\ caller = "none" /\ op = NoOp /\ Blank
      /\ journal = NoFile /\ index_dat = NoFile /\ active_file = Closed
      /\ \A k \in Keys : promised[k] = None
      /\ Starting /\ ~ Committed
  BY DEF Init, Blank, Starting, Committed, InJournal
<1>2. TurnOK /\ StageOK /\ FirstBootOK
  BY <1>1 DEF TurnOK, StageOK, FirstBootOK, Loading, Swapping, Copying, Clearing, NoOp
<1>3. IndexFileOK /\ AppendOK /\ ClearOK
  BY <1>1 DEF IndexFileOK, AppendOK, Ready, ClearOK, Clearing
<1>4. RamOK /\ CopyOK /\ CommitOK /\ DistinctOK /\ MirrorOK
  BY <1>1 DEF RamOK, RamTells, CopyOK, Copying, CommitOK, TmpTells, DistinctOK, MirrorOK, Mirrored
<1>5. DiskOK
  <2> SUFFICES ASSUME NEW k \in Keys
               PROVE  \E d \in May(k, OnDisk) : Fits(segs, now, DiskMap[k], k, d)
    BY DEF DiskOK, IndexFits
  <2>1. DiskMap[k] = None
    BY <1>1, RebuiltBlank DEF DiskMap, EmptyIndex
  <2>2. None \in May(k, OnDisk)
    BY <1>1, Parameters DEF May, Due, OnDisk, NoOp
  <2> QED BY <2>1, <2>2 DEF Fits, SeenAt
<1>6. LogOK
  BY <1>1 DEF LogOK, Whole, InOrder, AtRest, ScanIndex, SameEntries, LastEntry, Blank
<1> QED BY <1>2, <1>3, <1>4, <1>5, <1>6 DEF DInv

\* Every step that the assumptions leave keeps every part of the invariant.
LEMMA NextDurable ==
    ASSUME Supported, Inv, [Next]_vars
    PROVE  DInv'
<1>1. CASE Next
  BY <1>1, TurnKept, StageKept, IndexFileKept, FirstBootKept, AppendKept, ClearKept, RamKept,
     DiskKept, CopyKept, CommitKept, DistinctKept, MirrorKept, LogKept DEF DInv
<1>2. CASE UNCHANGED vars
  <2>1. UNCHANGED <<segs, compact_tmp, journal, index_dat, index, current_segment,
                    current_offset, active_file, index_file, pc, op, caller, cs, todo, now,
                    promised>>
    BY <1>2 DEF vars
  <2>2. UNCHANGED <<Starting, Committed, Blank, InRam, OnDisk, DiskMap, RebuiltIndex, Ready>>
    BY <2>1, SameLog, SameSource DEF Starting, Committed, InJournal, Blank, InRam, OnDisk, Ready
  <2>3. \A k \in Keys, b \in BOOLEAN : May(k, b)' = May(k, b) /\ Due(k, b)' = Due(k, b)
    BY <2>1, <2>2 DEF May, Due
  <2>4. (TurnOK /\ StageOK /\ IndexFileOK /\ FirstBootOK)'
    BY <2>1, <2>2 DEF Inv, DInv, TurnOK, StageOK, IndexFileOK, FirstBootOK
  <2>5. (AppendOK /\ ClearOK)'
    BY <2>1, <2>2 DEF Inv, DInv, AppendOK, ClearOK
  <2>6. RamOK'
    BY <2>1, <2>2, <2>3 DEF Inv, DInv, RamOK, RamTells, IndexFits, InRam, May, Due
  <2>7. DiskOK'
    BY <2>1, <2>2, <2>3 DEF Inv, DInv, DiskOK, DiskTells, IndexFits, OnDisk, May, Due
  <2>8. CopyOK'
    BY <2>1, <2>2 DEF Inv, DInv, CopyOK, Accounted, IsCopy, Live, Copied, LiveIn, Due, InRam
  <2>9. CommitOK'
    BY <2>1, <2>2, <2>3 DEF Inv, DInv, CommitOK, TmpTells, InRam, May, Due
  <2>10. (DistinctOK /\ MirrorOK)'
    BY <2>1 DEF Inv, DInv, DistinctOK, MirrorOK, Mirrored, Mirrors
  <2>11. LogOK'
    BY <2>1, <2>2 DEF Inv, DInv, LogOK, Whole, InOrder, AtRest, ScanIndex, SameEntries,
                      LogTells, LastEntry
  <2> QED BY <2>4, <2>5, <2>6, <2>7, <2>8, <2>9, <2>10, <2>11 DEF DInv
<1> QED BY <1>1, <1>2

\* In every state of every run of a supported instance, what the store has
\* promised can be read back by whoever comes next: by get() from the index in
\* RAM, by the next boot from index.dat, by the rest of the compaction from
\* the segments and compact.tmp.
THEOREM DurabilityInvariant ==
    ASSUME Supported
    PROVE  Spec => []DInv
<1>1. Init => Inv
  BY InitInvariant, InitDurable DEF Inv
<1>2. Inv /\ [Next]_vars => Inv'
  BY NextInvariant, NextDurable DEF Inv
<1>3. Inv => DInv
  BY DEF Inv
<1> QED BY <1>1, <1>2, <1>3, PTL DEF Spec

---------------------------------------------------------------------------
(* What follows from it                                                    *)

\* Both invariants hold together, in every state.
LEMMA BothInvariants ==
    ASSUME Supported
    PROVE  Spec => []Inv
BY Invariant, DurabilityInvariant, PTL DEF Inv

\* Between two calls the index in RAM tells what has been promised.
LEMMA IdleFits ==
    ASSUME Inv, pc = "idle", NEW k \in Keys
    PROVE  Fits(segs, now, index[k], k, promised[k]) /\ promised[k] \in Value
<1> USE DEF Inv, DInv
<1>1. op = NoOp /\ caller = "none" /\ k # None
  BY Parameters DEF TurnOK, IInv, CallOK
<1>2. May(k, InRam) = {promised[k]}
  BY <1>1 DEF May, Due, Starting, NoOp
<1>3. promised[k] \in Value
  BY DEF IInv, OutsideTypeOK, Value
<1> QED BY <1>2, <1>3 DEF RamOK, RamTells, IndexFits

\* get() returns, for every key, the value that the answers given so far
\* promise, whatever calls, compactions, power cuts and reboots lie between.
THEOREM DurableAlways ==
    ASSUME Supported
    PROVE  Spec => []Durable
<1>1. Inv => Durable
  <2> SUFFICES ASSUME Inv, pc = "idle", NEW k \in Keys PROVE View(k) = Seen(promised[k])
    BY DEF Durable
  <2>1. View(k) = SeenAt(now, promised[k])
    BY IdleFits, ViewFits DEF Inv, IInv
  <2> QED BY <2>1 DEF Seen, SeenAt
<1> QED BY <1>1, BothInvariants, PTL

\* No entry of the index ever leads get() or an iterator to another key's
\* record, to a deletion, or to metadata that differ from the record's.
THEOREM IndexSoundAlways ==
    ASSUME Supported
    PROVE  Spec => []IndexSound
<1>1. Inv => IndexSound
  <2> SUFFICES ASSUME Inv, pc = "idle", NEW k \in Keys, index[k] # None
               PROVE  PointsHome(k)
    BY DEF IndexSound, PointsHome
  <2>1. Home(segs, index[k], k)
    BY IdleFits DEF Fits
  <2> QED BY <2>1, ModelValues DEF PointsHome, Home, Stored
<1> QED BY <1>1, BothInvariants, PTL

\* The next record lands at the offset its entry will name: the offset counter
\* and the end of the file never part.
THEOREM AppendsWhereIndexedAlways ==
    ASSUME Supported
    PROVE  Spec => []AppendsWhereIndexed
<1>1. Inv => AppendsWhereIndexed
  BY DEF Inv, DInv, AppendOK, Ready, AppendsWhereIndexed
<1> QED BY <1>1, BothInvariants, PTL

\* An entry that stands for what counts leads to a copy of it.
LEMMA HomeCopy ==
    ASSUME Inv, NEW k \in Keys, NEW e \in Entry \cup {None}, NEW d \in Value,
           Fits(segs, now, e, k, d), SeenAt(now, d) # None
    PROVE  \E s \in Segments : HasCopy(segs[s], k, d)
<1>1. e # None /\ Home(segs, e, k) /\ SeenAt(now, Stored(segs, e)) = SeenAt(now, d)
  BY DEF Fits
<1>2. now \in Nat /\ Stored(segs, e) \in Value /\ e \in Entry
  BY <1>1 DEF Inv, IInv, OutsideTypeOK, Home, Value
<1>3. Stored(segs, e) = d
  <2> DEFINE p == Stored(segs, e)
  <2> HIDE DEF p
  <2>1. p \in Value /\ SeenAt(now, p) = SeenAt(now, d)
    BY <1>1, <1>2 DEF p
  <2>2. p = d
    BY <1>2, <2>1, SeenFacts
  <2> QED BY <2>2 DEF p
<1> DEFINE f == segs[e.seg]
<1>4. e.seg \in Segments /\ e.off \in Nat /\ f \in File \cup {NoFile} /\ Readable(f, e.off)
  BY <1>1, <1>2 DEF Inv, IInv, DiskTypeOK, Entry, Home
<1>5. f[e.off + 1] \in Cell /\ f # NoFile /\ e.off < Len(f)
  BY <1>4, ReadType DEF Readable
<1>6. f[e.off + 1].key = k /\ f[e.off + 1].data = d
  BY <1>1, <1>3 DEF Home, Stored
<1>7. f \in File
  BY <1>4, <1>5
<1> HIDE DEF f
<1>8. e.off + 1 \in DOMAIN f
  BY <1>4, <1>5, <1>7 DEF File
<1>9. f[e.off + 1] = [key |-> k, data |-> d]
  BY <1>5, <1>6 DEF Cell
<1>10. HasCopy(f, k, d)
  BY <1>5, <1>8, <1>9 DEF HasCopy, Range
<1> QED BY <1>4, <1>10 DEF f

\* At every step of every call, and while the store is down, some file holds
\* what a key that the call does not touch is worth.
THEOREM NothingLostAlways ==
    ASSUME Supported
    PROVE  Spec => []NothingLost
<1>1. Inv => NothingLost
  <2> SUFFICES ASSUME Inv, op.name # "clear", NEW k \in Keys \ (op.evicted \cup {op.key}),
                      Seen(promised[k]) # None
               PROVE  \/ HasCopy(compact_tmp, k, promised[k])
                      \/ \E s \in Segments : HasCopy(segs[s], k, promised[k])
    BY DEF NothingLost
  <2> USE DEF Inv, DInv
  <2> DEFINE d == promised[k]
  <2>1. d \in Value /\ SeenAt(now, d) # None
    BY DEF IInv, OutsideTypeOK, Value, Seen, SeenAt
  <2>2. \A b \in BOOLEAN : Due(k, b) = d /\ May(k, b) = {d}
    BY DEF Due, May
  <2>3. InRam \in BOOLEAN /\ OnDisk \in BOOLEAN
    BY DEF InRam, OnDisk
  <2> HIDE DEF d
  <2>4. CASE RamTells
    <3>1. Fits(segs, now, index[k], k, d) /\ index[k] \in Entry \cup {None}
      BY <2>2, <2>3, <2>4 DEF RamOK, IndexFits, IInv, RamTypeOK, Index
    <3> QED BY <2>1, <3>1, HomeCopy DEF d
  <2>5. CASE DiskTells
    <3>1. Fits(segs, now, DiskMap[k], k, d) /\ DiskMap \in Index
      BY <2>2, <2>3, <2>5, DiskMapType DEF DiskOK, IndexFits
    <3>2. DiskMap[k] \in Entry \cup {None}
      BY <3>1 DEF Index
    <3> QED BY <2>1, <3>1, <3>2, HomeCopy DEF d
  <2>6. Holds(compact_tmp, k, d) /\ compact_tmp # NoFile => HasCopy(compact_tmp, k, d)
    BY DEF Holds, HasCopy, Range
  <2>7. CASE TmpTells
    <3>1. Carries(compact_tmp, now, k, d)
      BY <2>2, <2>3, <2>7 DEF CommitOK
    <3>2. compact_tmp # NoFile
      BY <2>7 DEF TmpTells, StageOK, Copying0, Committed, InJournal
    <3> QED BY <2>1, <2>6, <3>1, <3>2 DEF Carries, d
  <2>8. CASE pc \in Copying
    <3>1. Due(k, InRam) = d
      BY <2>2, <2>3
    <3>2. /\ Live(k)
          /\ IF Copied(k) THEN Holds(compact_tmp, k, d)
             ELSE Home(segs, index[k], k) /\ Stored(segs, index[k]) = d
      BY <2>1, <2>8, <3>1 DEF CopyOK, Accounted
    <3>3. compact_tmp # NoFile
      BY <2>8 DEF Copying, IInv, FilesOK, StageOK
    <3>4. CASE Copied(k)
      BY <2>6, <3>2, <3>3, <3>4 DEF d
    <3>5. CASE ~ Copied(k)
      <4>1. index[k] \in Entry /\ index[k] # None
        BY <3>2 DEF Live, IInv, RamTypeOK, Index
      <4>2. Fits(segs, now, index[k], k, d)
        BY <3>2, <3>5, <4>1 DEF Fits
      <4> QED BY <2>1, <4>1, <4>2, HomeCopy DEF d
    <3> QED BY <3>4, <3>5
  <2>9. RamTells \/ DiskTells \/ TmpTells \/ pc \in Copying
    <3>1. pc \in Labels /\ pc \notin Clearing /\ pc \notin {"clear_aborted", "write_pruned"}
      BY DEF IInv, ControlTypeOK, TurnOK
    <3>2. pc \in {"load", "recover"} => Starting
      BY DEF TurnOK, Loading, Starting
    <3>3. pc = "down" => Starting
      BY DEF Starting
    <3>4. pc = "clear_journal" /\ caller = "boot" => Starting
      BY DEF Starting
    <3> QED BY <3>1, <3>2, <3>3, <3>4 DEF RamTells, DiskTells, TmpTells, Copying, Labels, Clearing
  <2> QED BY <2>4, <2>5, <2>7, <2>8, <2>9
<1> QED BY <1>1, BothInvariants, PTL

\* index.dat alone gives back what callers see, whenever the store is idle.
\* Without a record limit only: put() does not log its evictions there.
THEOREM IndexFileReplaysAlways ==
    ASSUME Supported, MaxRecs = 0
    PROVE  Spec => []IndexFileReplays
<1>1. Inv => IndexFileReplays
  BY DEF Inv, DInv, MirrorOK, Mirrored, Mirrors, IndexFileReplays, SameAnswers
<1> QED BY <1>1, BothInvariants, PTL

\* So does a scan of the segments, whatever has been put, removed, cleared and
\* compacted: init() may lose index.dat at any boot. Without power cuts and
\* without a record limit only: the segments keep a record whose put was cut
\* short before it reached index.dat, and those that put() has evicted.
THEOREM LogReplaysAlways ==
    ASSUME Supported, Crashes = {}, MaxRecs = 0
    PROVE  Spec => []LogReplays
<1>1. Inv => LogReplays
  <2> SUFFICES ASSUME Inv, pc = "idle" PROVE SameAnswers(RebuiltIndex)
    BY DEF LogReplays
  <2> USE DEF Inv, DInv
  <2>1. index_dat # NoFile
    BY DEF IndexFileOK, Starting, Clearing, IInv, CallOK
  <2>2. \A k \in Keys : RebuiltIndex[k] = index_dat.map[k]
    BY <2>1 DEF LogOK, Replaying, SameEntries, LogTells, Clearing, Copying
  <2>3. \A k \in Keys : Mirrors(index_dat.map, k)
    BY DEF MirrorOK, Mirrored
  <2> QED BY <2>2, <2>3 DEF SameAnswers, Mirrors
<1> QED BY <1>1, BothInvariants, PTL

\* A compaction ends with one record per indexed key in segment 0, and no
\* other segment.
THEOREM CompactedAlways ==
    ASSUME Supported
    PROVE  Spec => []Compacted
<1>1. Inv => Compacted
  BY DEF Inv, DInv, DistinctOK, StageOK, Compacted
<1> QED BY <1>1, BothInvariants, PTL

\* A step that changes the journal after a source has gone.
LEMMA JournalStep ==
    ASSUME Supported, Inv, Next, Covered(0), journal' # journal
    PROVE  \/ journal' = NoFile /\ compact_tmp = NoFile /\ segs[0] # NoFile
           \/ /\ InJournal(journal') /\ journal.state = "COMPACTING"
              /\ journal'.state = "COMPACTING" => journal'.next = journal.next + 1
              /\ journal'.state = "COMMIT" => journal.next = SegCount
<1> USE DEF Inv, DInv
<1>1. InJournal(journal) /\ journal # Copying0 /\ journal \notin {NoFile, Torn}
  BY Parameters DEF Covered, Copying0, InJournal
<1>2. CASE JournalSegment
  <2>1. /\ journal' = [state |-> "COMPACTING", next |-> cs + 1]
        /\ journal = [state |-> "COMPACTING", next |-> cs] /\ cs \in Segments
    BY <1>2 DEF JournalSegment, StageOK, IInv, ControlTypeOK, WriteJournal, Supported
  <2>2. InJournal(journal')
    BY <2>1, JournalFacts
  <2> QED BY <2>1, <2>2
<1>3. CASE JournalCommit
  BY <1>3, JournalFacts DEF JournalCommit, StageOK, WriteJournal, Supported
<1>4. CASE ClearJournal
  BY <1>1, <1>4 DEF ClearJournal, StageOK
<1>5. CASE JournalCopying \/ OpenTmpFails \/ RecoverNothing
  BY <1>1, <1>5 DEF JournalCopying, OpenTmpFails, RecoverNothing, StageOK
<1>6. CASE Crash
  <2>1. Committed
    BY <1>1, <1>6, CrashStage
  <2>2. pc \in {"journal_copying", "copy", "journal_commit"}
    BY <1>6, CrashStage
  <2> QED BY <1>1, <2>1, <2>2 DEF StageOK, Committed
<1>7. UNCHANGED journal \/ JournalSegment \/ JournalCommit \/ ClearJournal \/ JournalCopying
      \/ OpenTmpFails \/ RecoverNothing \/ Crash
  <2>1. CASE Calls \/ AppendRecord \/ PersistEntry \/ Erasing
    BY <2>1 DEF Calls, StartPut, StartRemove, Get, StartClear, Close, AppendRecord, PersistEntry,
                OpenSegment, Erasing, ClearSegment, ClearIndex, ClearReopen
  <2>2. CASE Gathering \/ Exchanging
    BY <2>2 DEF Gathering, OpenTmp, CopyRecord, DropSource, Exchanging, RemoveAll, RenameTmp,
                RemoveIndex, WriteIndex, Reopen
  <2>3. CASE Recovering \/ Stopping
    BY <2>3 DEF Recovering, Boot, RecoverCommitted, RecoverBack, LoadIndex, RebuildIndex,
                WriteBootIndex, PruneAtBoot, OpenFiles, Stopping, Shutdown, CooldownEnds, Tick, LoseIndex
  <2> QED BY <2>1, <2>2, <2>3, PossibleSteps
<1> QED BY <1>2, <1>3, <1>4, <1>5, <1>6, <1>7

\* From the first deletion on, the journal never goes back, and it goes away
\* only when compact.tmp has become segment 0.
THEOREM JournalMovesForwardAlways ==
    ASSUME Supported
    PROVE  Spec => JournalMovesForward
<1>1. Inv /\ [Next]_vars =>
         [Covered(0) /\ journal' # journal =>
            \/ journal' = NoFile /\ compact_tmp = NoFile /\ segs[0] # NoFile
            \/ /\ InJournal(journal') /\ journal.state = "COMPACTING"
               /\ journal'.state = "COMPACTING" => journal'.next = journal.next + 1
               /\ journal'.state = "COMMIT" => journal.next = SegCount]_vars
  BY JournalStep
<1> QED BY <1>1, BothInvariants, PTL DEF Spec, JournalMovesForward

---------------------------------------------------------------------------
(* The counter of dead records                                             *)

\* The values in the segments S, by their places.
ValuesAt(S) == UNION {{s} \X ValuesIn(S[s]) : s \in Segments}

\* A place holds a value if the record there is whole and no deletion.
LEMMA ValuesMember ==
    ASSUME NEW S
    PROVE  \A p : p \in ValuesAt(S) <=>
                     \E s \in Segments : \E i \in ValuesIn(S[s]) : p = <<s, i>>
BY DEF ValuesAt

\* Before and after a step, Values are those of the segments.
LEMMA ValuesNow == Values = ValuesAt(segs) /\ Values' = ValuesAt(segs')
BY DEF Values, ValuesAt

\* They can be counted.
LEMMA ValuesFinite ==
    ASSUME NEW S \in SegmentFiles
    PROVE  IsFiniteSet(ValuesAt(S)) /\ Cardinality(ValuesAt(S)) \in Nat
<1> DEFINE f == [s \in Segments |-> {s} \X ValuesIn(S[s])]
           T == {f[s] : s \in Segments}
<1>1. IsFiniteSet(Segments)
  BY Parameters, FS_Interval DEF Segments
<1>2. IsFiniteSet(T)
  <2>1. f \in Surjection(Segments, T)
    BY DEF Surjection
  <2> HIDE DEF f, T
  <2> QED BY <1>1, <2>1, FS_Surjection
<1>3. ASSUME NEW s \in Segments PROVE IsFiniteSet(f[s])
  <2>1. IsFiniteSet(ValuesIn(S[s]))
    <3>1. CASE S[s] = NoFile
      BY <3>1, FS_EmptySet DEF ValuesIn
    <3>2. CASE S[s] # NoFile
      <4>1. S[s] \in File
        BY <3>2 DEF SegmentFiles
      <4>2. Len(S[s]) \in Nat /\ DOMAIN S[s] = 1..Len(S[s])
        BY <4>1 DEF File
      <4>3. IsFiniteSet(DOMAIN S[s])
        BY <4>2, FS_Interval
      <4>4. ValuesIn(S[s]) \in SUBSET DOMAIN S[s]
        BY <3>2 DEF ValuesIn
      <4> QED BY <4>3, <4>4, FS_Subset
    <3> QED BY <3>1, <3>2
  <2>2. IsFiniteSet({s} \X ValuesIn(S[s]))
    BY <2>1, FS_Singleton, FS_Product
  <2> QED BY <2>2
<1>4. ValuesAt(S) = UNION T
  BY DEF ValuesAt
<1> HIDE DEF f
<1>5. IsFiniteSet(UNION T)
  <2>1. \A X \in T : IsFiniteSet(X)
    BY <1>3
  <2> HIDE DEF T
  <2> QED BY <1>2, <2>1, FS_UNION
<1> QED BY <1>4, <1>5, FS_CardinalityType

\* As many keys are indexed as the index has entries, and no more than there
\* are keys.
LEMMA IndexedFinite ==
    ASSUME NEW ix
    PROVE  IsFiniteSet(Indexed(ix)) /\ Cardinality(Indexed(ix)) \in Nat
BY Parameters, FS_Subset, FS_CardinalityType DEF Indexed

\* Entries that lead to records of their own keys lead to different values.
LEMMA EntriesFit ==
    ASSUME NEW S \in SegmentFiles, NEW ix \in Index,
           \A k \in Keys : ix[k] # None => Home(S, ix[k], k)
    PROVE  Cardinality(Indexed(ix)) <= Cardinality(ValuesAt(S))
<1> DEFINE at == [k \in Indexed(ix) |-> <<ix[k].seg, ix[k].off + 1>>]
<1>1. ASSUME NEW k \in Indexed(ix)
      PROVE  /\ at[k] \in ValuesAt(S) /\ S[ix[k].seg][ix[k].off + 1].key = k
             /\ ix[k].seg \in Segments /\ ix[k].off \in Nat
  <2>1. k \in Keys /\ ix[k] \in Entry /\ Home(S, ix[k], k)
    BY DEF Indexed, Index
  <2>2. ix[k].seg \in Segments /\ ix[k].off \in Nat
    BY <2>1 DEF Entry
  <2> DEFINE f == S[ix[k].seg]
             i == ix[k].off + 1
  <2>3. f # NoFile /\ ix[k].off < Len(f) /\ f[i] # Torn /\ f[i].key = k /\ f[i].data \in Payloads
    BY <2>1 DEF Home, Readable, Stored
  <2>4. f \in File
    BY <2>2, <2>3 DEF SegmentFiles
  <2>5. i \in DOMAIN f
    <3>1. DOMAIN f = 1..Len(f) /\ Len(f) \in Nat
      BY <2>4 DEF File
    <3> HIDE DEF f
    <3> QED BY <2>2, <2>3, <3>1
  <2>6. i \in ValuesIn(f)
    BY <2>3, <2>5, ModelValues DEF ValuesIn
  <2>7. <<ix[k].seg, i>> \in ValuesAt(S)
    BY <2>2, <2>6, ValuesMember
  <2> QED BY <2>2, <2>3, <2>7
<1>2. at \in Injection(Indexed(ix), ValuesAt(S))
  <2>1. at \in [Indexed(ix) -> ValuesAt(S)]
    BY <1>1
  <2>2. \A j, k \in Indexed(ix) : at[j] = at[k] => j = k
    BY <1>1
  <2> HIDE DEF at
  <2> QED BY <2>1, <2>2 DEF Injection, IsInjective
<1> HIDE DEF at
<1> QED BY <1>2, ValuesFinite, FS_Injection

\* An append adds one value, or none if it is a deletion.
LEMMA ValuesAppend ==
    ASSUME NEW S \in SegmentFiles, NEW a \in Segments, S[a] # NoFile, NEW c \in Cell,
           NEW T, T = [S EXCEPT ![a] = Append(@, c)]
    PROVE  Cardinality(ValuesAt(T)) =
               Cardinality(ValuesAt(S)) + (IF c.data = Tombstone THEN 0 ELSE 1)
<1> DEFINE f == S[a]
           n == Len(f)
           g == Append(f, c)
<1>1. f \in File /\ n \in Nat /\ DOMAIN f = 1..n
  BY DEF SegmentFiles, File
<1>2. g # NoFile /\ DOMAIN g = 1..(n + 1) /\ g[n + 1] = c /\ \A i \in 1..n : g[i] = f[i]
  BY <1>1, AppendType DEF File
<1>3. T[a] = g /\ \A s \in Segments \ {a} : T[s] = S[s]
  BY DEF SegmentFiles
<1>4. c # Torn
  BY ModelValues
<1> HIDE DEF g, n
<1>5. ValuesIn(g) = IF c.data = Tombstone THEN ValuesIn(f) ELSE ValuesIn(f) \cup {n + 1}
  <2>1. ValuesIn(g) = {i \in 1..(n + 1) : g[i] # Torn /\ g[i].data # Tombstone}
    BY <1>2 DEF ValuesIn
  <2>2. ValuesIn(f) = {i \in 1..n : f[i] # Torn /\ f[i].data # Tombstone}
    BY <1>1 DEF ValuesIn
  <2>3. \A i : i \in 1..(n + 1) <=> i \in 1..n \/ i = n + 1
    BY <1>1
  <2> QED BY <1>2, <1>4, <2>1, <2>2, <2>3
<1>6. n + 1 \notin ValuesIn(f)
  <2>1. ValuesIn(f) \subseteq 1..n /\ n + 1 \notin 1..n
    BY <1>1 DEF ValuesIn
  <2> QED BY <2>1
<1> HIDE DEF f
<1>7. CASE c.data = Tombstone
  <2>1. \A s \in Segments : ValuesIn(T[s]) = ValuesIn(S[s])
    BY <1>3, <1>5, <1>7 DEF f
  <2>2. ValuesAt(T) = ValuesAt(S)
    BY <2>1 DEF ValuesAt
  <2> QED BY <1>7, <2>2, ValuesFinite
<1>8. CASE c.data # Tombstone
  <2> DEFINE p == <<a, n + 1>>
  <2>1. p \notin ValuesAt(S)
    BY <1>6, ValuesMember DEF f
  <2>2. ASSUME NEW s \in Segments
        PROVE  ValuesIn(T[s]) = ValuesIn(S[s]) \cup (IF s = a THEN {n + 1} ELSE {})
    <3>1. CASE s = a
      BY <3>1, <1>3, <1>5, <1>8 DEF f
    <3>2. CASE s # a
      <4>1. T[s] = S[s]
        BY <3>2, <1>3
      <4> QED BY <3>2, <4>1
    <3> QED BY <3>1, <3>2
  <2>3. ValuesAt(T) = ValuesAt(S) \cup {p}
    <3> SUFFICES ASSUME NEW q PROVE q \in ValuesAt(T) <=> q \in ValuesAt(S) \/ q = p
      OBVIOUS
    <3>1. q \in ValuesAt(T) <=> \E s \in Segments : \E i \in ValuesIn(T[s]) : q = <<s, i>>
      BY ONLY ValuesMember
    <3>2. q \in ValuesAt(S) <=> \E s \in Segments : \E i \in ValuesIn(S[s]) : q = <<s, i>>
      BY ValuesMember
    <3> QED BY <2>2, <3>1, <3>2
  <2> HIDE DEF p
  <2> QED BY <1>8, <2>1, <2>3, ValuesFinite, FS_AddElement
<1> QED BY <1>7, <1>8

\* A segment that open_segment() creates holds none.
LEMMA ValuesOpen ==
    ASSUME segs \in SegmentFiles, NEW id \in Segments, OpenSegment(id)
    PROVE  Values' = Values
<1>1. \A s \in Segments : segs'[s] = segs[s] \/ (segs[s] = NoFile /\ segs'[s] = <<>>)
  BY DEF OpenSegment, SegmentFiles
<1>2. ValuesIn(<<>>) = {} /\ ValuesIn(NoFile) = {}
  BY DEF ValuesIn
<1>3. \A s \in Segments : ValuesIn(segs'[s]) = ValuesIn(segs[s])
  BY <1>1, <1>2
<1> QED BY <1>3 DEF Values

\* An eviction takes as many entries as it counts.
LEMMA EvictedCount ==
    ASSUME NEW ix \in Index, NEW E \in Victims(ix)
    PROVE  /\ Cardinality(Indexed(Without(ix, E))) = Cardinality(Indexed(ix)) - Cardinality(E)
           /\ Cardinality(E) \in Nat /\ Cardinality(Indexed(ix)) \in Nat
<1>1. E \in SUBSET Indexed(ix) /\ IsFiniteSet(Indexed(ix)) /\ Cardinality(Indexed(ix)) \in Nat
  BY IndexedFinite DEF Victims
<1>2. Indexed(Without(ix, E)) = Indexed(ix) \ E
  BY DEF Indexed, Without
<1>3. Indexed(ix) \cap E = E /\ Cardinality(E) \in Nat
  BY <1>1, FS_Subset, FS_CardinalityType
<1> QED BY <1>1, <1>2, <1>3, FS_Difference

\* While the index in RAM tells the values, each entry leads to its own.
LEMMA IndexFitsLog ==
    ASSUME Inv, pc \in Counting
    PROVE  Cardinality(Indexed(index)) <= Cardinality(Values)
<1>1. ASSUME NEW k \in Keys, index[k] # None PROVE Home(segs, index[k], k)
  BY <1>1 DEF Inv, DInv, RamOK, RamTells, IndexFits, Counting, Fits
<1>2. segs \in SegmentFiles /\ index \in Index
  BY DEF Inv, IInv, DiskTypeOK, RamTypeOK, SegmentFiles
<1>3. Cardinality(Indexed(index)) <= Cardinality(ValuesAt(segs))
  BY <1>1, <1>2, EntriesFit
<1> QED BY <1>3, ValuesNow

\* The same after a step.
LEMMA IndexFitsLogNext ==
    ASSUME Inv', pc' \in Counting
    PROVE  Cardinality(Indexed(index')) <= Cardinality(Values')
<1>1. ASSUME NEW k \in Keys, index'[k] # None PROVE Home(segs', index'[k], k)
  BY <1>1 DEF Inv, DInv, RamOK, RamTells, IndexFits, Counting, Fits
<1>2. segs' \in SegmentFiles /\ index' \in Index
  BY DEF Inv, IInv, DiskTypeOK, RamTypeOK, SegmentFiles
<1>3. Cardinality(Indexed(index')) <= Cardinality(ValuesAt(segs'))
  BY <1>1, <1>2, EntriesFit
<1> QED BY <1>3, ValuesNow

\* A step that leaves counter, index and values alone, or sets the counter back,
\* keeps what it counts.
LEMMA SameCount ==
    ASSUME Inv, Inv', DeadOK, pc' \in Counting,
           \/ dead_since_compact' = 0
           \/ pc \in Counting /\ UNCHANGED <<dead_since_compact, index>> /\ Values' = Values
    PROVE  dead_since_compact' + Cardinality(Indexed(index')) <= Cardinality(Values')
<1>1. CASE dead_since_compact' = 0
  BY <1>1, IndexFitsLogNext, IndexedFinite
<1>2. CASE pc \in Counting /\ UNCHANGED <<dead_since_compact, index>> /\ Values' = Values
  BY <1>2 DEF DeadOK
<1> QED BY <1>1, <1>2

\* A put adds a value, and an entry or a dead record; a remove() makes an entry
\* a dead record; so does an eviction.
LEMMA AppendCount ==
    ASSUME Supported, Inv, DeadOK, AppendRecord
    PROVE  dead_since_compact' + Cardinality(Indexed(index')) <= Cardinality(Values')
<1> DEFINE c == [key |-> op.key,
                 data |-> IF op.name = "put" THEN op.data ELSE Tombstone]
           e == EntryFor(current_segment, current_offset, op.data)
           k == op.key
           ix == [index EXCEPT ![k] = IF op.name = "put" THEN e ELSE None]
           dead == dead_since_compact + (IF index[k] # None THEN 1 ELSE 0)
           I == Indexed(index)
           V == Cardinality(Values)
<1> USE DEF Inv, IInv
<1>1. /\ c \in Cell /\ active_file \in Segments /\ segs[active_file] # NoFile
      /\ segs' = [segs EXCEPT ![active_file] = Append(@, c)]
      /\ segs \in SegmentFiles /\ index \in Index
      /\ k \in Keys /\ op.name \in {"put", "remove"}
      /\ op.name = "put" => op.data \in Payloads
      /\ pc = "append" /\ dead_since_compact \in Nat
  BY AppendStep DEF AppendRecord, CallOK, DiskTypeOK, RamTypeOK, SegmentFiles
<1>2. Cardinality(Values') = V + (IF op.name = "put" THEN 1 ELSE 0) /\ V \in Nat
  <2>1. Cardinality(ValuesAt(segs')) =
           Cardinality(ValuesAt(segs)) + (IF c.data = Tombstone THEN 0 ELSE 1)
    <3> HIDE DEF c
    <3> QED BY <1>1, ValuesAppend
  <2>2. c.data = Tombstone <=> op.name # "put"
    <3>1. c.data = IF op.name = "put" THEN op.data ELSE Tombstone
      OBVIOUS
    <3> HIDE DEF c
    <3> QED BY <1>1, <3>1, ModelValues
  <2> HIDE DEF c
  <2> QED BY <1>1, <2>1, <2>2, ValuesNow, ValuesFinite
<1>3. dead_since_compact + Cardinality(I) <= V
  BY <1>1 DEF DeadOK, Counting
<1>4. op.name = "put" => e \in Entry /\ e # None
  <2>1. current_segment \in Segments /\ current_offset \in Nat
    BY <1>1 DEF CallOK, RamTypeOK
  <2> HIDE DEF Inv, IInv
  <2>2. op.name = "put" => e \in Entry
    BY <1>1, <2>1, EntryType
  <2> HIDE DEF e
  <2> QED BY <2>2, ModelValues
<1> HIDE DEF Inv, IInv
<1>5. ix \in Index /\ Indexed(ix) = IF op.name = "put" THEN I \cup {k} ELSE I \ {k}
  <2> HIDE DEF e
  <2> QED BY <1>1, <1>4 DEF Index, Indexed
<1>6. dead + Cardinality(Indexed(ix)) <= Cardinality(Values') /\ dead \in Nat
  <2>1. IsFiniteSet(I) /\ Cardinality(I) \in Nat /\ (k \in I <=> index[k] # None)
    BY <1>1, IndexedFinite DEF Indexed
  <2> HIDE DEF I, ix, V
  <2>2. CASE op.name = "put"
    <3>1. Cardinality(I \cup {k}) = IF k \in I THEN Cardinality(I) ELSE Cardinality(I) + 1
      BY <2>1, FS_AddElement
    <3> QED BY <1>1, <1>2, <1>3, <1>5, <2>1, <2>2, <3>1
  <2>3. CASE op.name = "remove"
    <3>1. Cardinality(I \ {k}) = IF k \in I THEN Cardinality(I) - 1 ELSE Cardinality(I)
      BY <2>1, FS_RemoveElement
    <3> QED BY <1>1, <1>2, <1>3, <1>5, <2>1, <2>3, <3>1
  <2> QED BY <1>1, <2>2, <2>3
<1>7. CASE op.name = "remove"
  <2>1. index' = ix /\ dead_since_compact' = dead
    BY <1>7 DEF AppendRecord
  <2> QED BY <1>6, <2>1
<1>8. CASE op.name = "put"
  <2>1. PICK E \in Victims(ix) :
           index' = Without(ix, E) /\ dead_since_compact' = dead + Cardinality(E)
    BY <1>8 DEF AppendRecord
  <2> HIDE DEF ix, dead
  <2>2. Cardinality(Indexed(index')) = Cardinality(Indexed(ix)) - Cardinality(E)
        /\ Cardinality(E) \in Nat /\ Cardinality(Indexed(ix)) \in Nat
    BY <1>5, <2>1, EvictedCount
  <2> QED BY <1>2, <1>6, <2>1, <2>2
<1> QED BY <1>1, <1>7, <1>8

\* With a record limit, the first boot finds nothing.
LEMMA EmptyFirst ==
    ASSUME Inv, pc = "prune"
    PROVE  MaxRecs = 0 \/ \A k \in Keys : index[k] = None
<1> SUFFICES ASSUME MaxRecs # 0, NEW k \in Keys PROVE index[k] = None
  OBVIOUS
<1>1. caller = "boot" /\ MaxRecs > 0
  BY Parameters DEF Inv, DInv, TurnOK, Loading
<1>2. Blank
  BY <1>1 DEF Inv, DInv, FirstBootOK, Starting
<1>3. \E d : Fits(segs, now, index[k], k, d)
  BY DEF Inv, DInv, RamOK, RamTells, IndexFits
<1>4. index[k] \in Entry \cup {None}
  BY DEF Inv, IInv, RamTypeOK, Index
<1> QED BY <1>2, <1>3, <1>4, BlankFits

\* No step counts a record twice.
LEMMA DeadKeptOK ==
    ASSUME Supported, Inv, Inv', DeadOK, [Next]_vars
    PROVE  DeadOK'
<1> USE DEF DeadOK, Starting, Counting, Clearing
<1>0. /\ segs \in SegmentFiles /\ index \in Index /\ dead_since_compact \in Nat
      /\ dead_since_compact' \in Nat /\ TurnOK /\ TurnOK' /\ CallOK
  BY DEF Inv, DInv, IInv, DiskTypeOK, RamTypeOK, SegmentFiles
<1>1. ASSUME Starting' \/ pc' \in {"reopen", "clear_reopen"} => dead_since_compact' = 0,
             \/ pc' \notin Counting
             \/ dead_since_compact' = 0
             \/ pc \in Counting /\ UNCHANGED <<dead_since_compact, index>> /\ Values' = Values
      PROVE  DeadOK'
  BY <1>1, SameCount
<1>2. UNCHANGED segs => Values' = Values
  BY DEF Values
<1>3. CASE Calls
  <2>1. CASE \E k \in Keys : Get(k)
    <3>1. PICK k \in Keys : Get(k)
      BY <2>1
    <3>2. /\ pc = "idle" /\ UNCHANGED <<pc, caller, segs, dead_since_compact>>
          /\ index' = [index EXCEPT ![k] = None]
      BY <3>1 DEF Get
    <3>3. Indexed(index') \in SUBSET Indexed(index)
      BY <3>2, <1>0 DEF Indexed, Index
    <3>4. Cardinality(Indexed(index')) <= Cardinality(Indexed(index))
      BY <3>3, IndexedFinite, FS_Subset
    <3> QED BY <1>0, <1>2, <3>2, <3>4, IndexedFinite, ValuesNow, ValuesFinite DEF CallOK
  <2>2. CASE \E k \in Keys, d \in Payloads : StartPut(k, d)
    <3>1. PICK k \in Keys, d \in Payloads : StartPut(k, d)
      BY <2>2
    <3>2. /\ pc = "idle" /\ pc' \in {"append", "journal_copying"}
          /\ UNCHANGED <<index, dead_since_compact>> /\ caller' \in {caller, "rotate"}
          /\ \/ UNCHANGED segs \/ OpenSegment(SegCount - 1)
             \/ OpenSegment(current_segment + 1) /\ current_segment + 1 < SegCount
      BY <3>1 DEF StartPut
    <3>3. Values' = Values
      <4>1. current_segment + 1 < SegCount => current_segment + 1 \in Segments
        BY Parameters DEF Segments, Inv, IInv, RamTypeOK
      <4> QED BY <1>0, <1>2, <3>2, <4>1, ValuesOpen, SegmentFacts
    <3> QED BY <1>0, <1>1, <3>2, <3>3 DEF CallOK
  <2>3. CASE (\E k \in Keys : StartRemove(k)) \/ StartClear \/ Close
    <3>1. /\ pc = "idle" /\ pc' \in {"append", "clear_segment", "idle"}
          /\ UNCHANGED <<segs, index, dead_since_compact, caller>>
      BY <2>3 DEF StartRemove, StartClear, Close
    <3> QED BY <1>0, <1>1, <1>2, <3>1 DEF CallOK
  <2> QED BY <1>3, <2>1, <2>2, <2>3 DEF Calls
<1>4. CASE AppendRecord
  <2>1. pc = "append" /\ pc' = "persist" /\ caller' = caller
    BY <1>4 DEF AppendRecord
  <2> QED BY <1>0, <1>4, <2>1, AppendCount DEF CallOK
<1>5. CASE PersistEntry
  <2>1. /\ pc = "persist" /\ pc' \in {"journal_copying", "idle"}
        /\ UNCHANGED <<segs, index, dead_since_compact>> /\ caller' \in {"threshold", "none"}
    BY <1>5 DEF PersistEntry, Return
  <2> QED BY <1>1, <1>2, <2>1
<1>6. CASE Gathering
  <2>1. CASE OpenTmpFails
    <3>1. pc = "open_tmp" /\ UNCHANGED <<index, dead_since_compact>>
      BY <2>1 DEF OpenTmpFails
    <3>2. caller' = "none" /\ pc' \in {"append", "idle"} /\ Values' = Values
      BY <1>0, <1>2, <2>1, GiveUpStep, ValuesOpen, SegmentFacts DEF Return
    <3> QED BY <1>1, <3>1, <3>2
  <2>2. CASE JournalCopying
    <3>1. /\ pc = "journal_copying" /\ pc' = "open_tmp"
          /\ UNCHANGED <<segs, index, dead_since_compact, caller>>
      BY <2>2 DEF JournalCopying
    <3> QED BY <1>0, <1>1, <1>2, <3>1
  <2>3. CASE OpenTmp
    <3>1. pc' = "copy"
      BY <2>3 DEF OpenTmp
    <3> QED BY <1>0, <1>1, <3>1 DEF TurnOK, Loading, Swapping, Copying
  <2>4. CASE CopyRecord \/ JournalSegment \/ DropSource \/ JournalCommit
    <3>1. /\ pc' \in {"copy", "drop_source", "journal_commit", "remove_all"}
          /\ UNCHANGED <<dead_since_compact, caller>>
      BY <2>4 DEF CopyRecord, JournalSegment, DropSource, JournalCommit
    <3> QED BY <1>1, <3>1
  <2> QED BY <1>6, <2>1, <2>2, <2>3, <2>4 DEF Gathering
<1>7. CASE Exchanging
  <2>1. CASE ClearJournal
    <3>1. /\ pc' \in {"load", "reopen"} /\ caller' = caller
          /\ caller = "boot" \/ dead_since_compact' = 0
          /\ dead_since_compact' \in {0, dead_since_compact}
      BY <1>0, <2>1 DEF ClearJournal, DeadAfterCompact, TurnOK
    <3> QED BY <1>1, <3>1
  <2>2. CASE Reopen
    <3>1. pc = "reopen" /\ UNCHANGED dead_since_compact
      BY <2>2 DEF Reopen
    <3> QED BY <1>1, <3>1
  <2>3. CASE RemoveAll \/ RenameTmp \/ RemoveIndex \/ WriteIndex
    <3>1. /\ pc' \in {"rename_tmp", "remove_index", "write_index", "clear_journal"}
          /\ UNCHANGED <<dead_since_compact, caller>>
      BY <2>3 DEF RemoveAll, RenameTmp, RemoveIndex, WriteIndex
    <3> QED BY <1>1, <3>1
  <2> QED BY <1>7, <2>1, <2>2, <2>3 DEF Exchanging
<1>8. CASE Erasing
  <2>1. CASE ClearSegment
    <3>1. pc' \in {"clear_segment", "clear_index"} /\ UNCHANGED <<dead_since_compact, caller>>
      BY <2>1 DEF ClearSegment
    <3> QED BY <1>1, <3>1
  <2>2. CASE ClearIndex
    BY <1>1, <2>2 DEF ClearIndex
  <2>3. CASE ClearReopen
    <3>1. pc = "clear_reopen" /\ UNCHANGED dead_since_compact
      BY <2>3 DEF ClearReopen
    <3> QED BY <1>1, <3>1
  <2> QED BY <1>8, <2>1, <2>2, <2>3 DEF Erasing
<1>9. CASE Recovering
  <2>1. dead_since_compact = 0
    <3>1. pc = "down" \/ pc \in Loading \cup {"write_pruned"}
      BY <1>9 DEF Recovering, Boot, RecoverNothing, RecoverCommitted, RecoverBack, LoadIndex,
                  RebuildIndex, WriteBootIndex, PruneAtBoot, OpenFiles, Loading
    <3> QED BY <1>0, <3>1 DEF TurnOK
  <2>2. dead_since_compact' = 0
    <3>1. CASE PruneAtBoot
      <4>1. pc = "prune" /\ \E E \in Victims(index) :
                 dead_since_compact' = dead_since_compact + Cardinality(E)
        BY <3>1 DEF PruneAtBoot
      <4>2. MaxRecs = 0 \/ \A k \in Keys : index[k] = None
        BY <4>1, EmptyFirst
      <4>3. PICK E \in Victims(index) : dead_since_compact' = dead_since_compact + Cardinality(E)
        BY <4>1
      <4>4. E = {}
        BY <1>0, <4>2, NoVictims
      <4> QED BY <2>1, <4>3, <4>4, FS_EmptySet
    <3>2. CASE ~ PruneAtBoot
      BY <1>9, <2>1, <3>2 DEF Recovering, Boot, RecoverNothing, RecoverCommitted, RecoverBack,
                  LoadIndex, RebuildIndex, WriteBootIndex, OpenFiles
    <3> QED BY <3>1, <3>2
  <2> QED BY <1>1, <2>2
<1>10. CASE Stopping
  <2>1. CASE Crash \/ Shutdown
    BY <1>1, <2>1 DEF Crash, Shutdown, PowerOff
  <2>2. CASE CooldownEnds \/ Tick \/ LoseIndex
    <3>1. UNCHANGED <<segs, index, dead_since_compact, pc, caller>>
      BY <2>2 DEF CooldownEnds, Tick, LoseIndex
    <3> QED BY <1>1, <1>2, <3>1
  <2> QED BY <1>10, <2>1, <2>2 DEF Stopping
<1>11. CASE UNCHANGED vars
  <2>1. UNCHANGED <<segs, index, dead_since_compact, pc, caller>>
    BY <1>11 DEF vars
  <2> QED BY <1>1, <1>2, <2>1
<1> QED BY <1>3, <1>4, <1>5, <1>6, <1>7, <1>8, <1>9, <1>10, <1>11, PossibleSteps

\* The counter of dead records never promises more than a compaction can
\* reclaim, whatever was put, removed, evicted, expired or cut short.
THEOREM DeadCounterAlways ==
    ASSUME Supported
    PROVE  Spec => []DeadCounterHonest
<1>1. Inv /\ Init => DeadOK
  BY DEF Init, DeadOK, Starting, Counting
<1>2. Inv /\ Inv' /\ DeadOK /\ [Next]_vars => DeadOK'
  BY DeadKeptOK
<1>3. DeadOK => DeadCounterHonest
  BY DEF DeadOK, Counting, DeadCounterHonest
<1> QED BY <1>1, <1>2, <1>3, BothInvariants, PTL DEF Spec

=============================================================================
