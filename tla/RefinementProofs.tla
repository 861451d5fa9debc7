------------------------- MODULE RefinementProofs -------------------------
(***************************************************************************)
(* FileStore implements KVStore, for every value of its constants that     *)
(* Supported allows: each of its steps is one call of the abstract store,  *)
(* or none.                                                                *)
(***************************************************************************)
EXTENDS Eviction, DurabilityProofs

USE DEF TypeOK, disk, ram, handles, control, outside, Goto

Known == Inv /\ EInv

\* The invariant of Durability goes on holding.
LEMMA InvKept ==
    ASSUME Supported, Inv, Next
    PROVE  Inv'
BY NextInvariant, NextDurable DEF Inv

---------------------------------------------------------------------------
(* The limit                                                               *)

\* What is indexed is finite; less of it is within the limit still.
LEMMA Fewer ==
    ASSUME NEW ix \in Index, NEW iy, NEW n \in Nat, Cardinality(Indexed(ix)) <= n,
           Indexed(iy) \subseteq Indexed(ix)
    PROVE  Cardinality(Indexed(iy)) <= n
<1>1. IsFiniteSet(Indexed(ix))
  BY Parameters, FS_Subset DEF Indexed
<1>2. /\ IsFiniteSet(Indexed(iy)) /\ Cardinality(Indexed(iy)) <= Cardinality(Indexed(ix))
      /\ Cardinality(Indexed(iy)) \in Nat /\ Cardinality(Indexed(ix)) \in Nat
  BY <1>1, FS_Subset, FS_CardinalityType
<1> QED BY <1>2

\* Nothing is evicted from an index within the limit.
LEMMA NothingToEvict ==
    ASSUME Inv, LimitOK, NEW E \in Victims(index)
    PROVE  E = {} /\ Without(index, E) = index
<1>1. index \in Index
  BY DEF Inv, IInv, RamTypeOK
<1>2. CASE MaxRecs = 0
  BY <1>1, <1>2, NoVictims
<1>3. CASE MaxRecs # 0
  <2>1. Excess(index) = 0
    BY <1>3, Parameters DEF LimitOK, Excess
  <2>2. E \in SUBSET Keys /\ IsFiniteSet(E) /\ Cardinality(E) = 0
    BY <2>1, Parameters, FS_Subset DEF Victims, Indexed
  <2>3. E = {}
    BY <2>2, FS_EmptySet
  <2>4. \A k \in Keys : Without(index, {})[k] = index[k]
    BY DEF Without
  <2> QED BY <1>1, <2>3, <2>4 DEF Without, Index
<1> QED BY <1>2, <1>3

\* Under a limit there is nothing in the index until the store has started.
LEMMA FirstIndex ==
    ASSUME Supported, Inv, Next, MaxRecs > 0, Starting', RamTells', NEW k \in Keys
    PROVE  index'[k] = None
<1> USE DEF Inv, DInv
<1>1. Inv'
  BY InvKept
<1>2. \A s \in Segments : segs'[s] = NoFile
  BY <1>1 DEF FirstBootOK, Blank
<1>3. PICK d \in May(k, InRam)' : Fits(segs', now', index'[k], k, d)
  BY <1>1 DEF RamOK, IndexFits
<1>4. index'[k] \in Entry \cup {None}
  BY <1>1 DEF IInv, RamTypeOK, Index
<1> QED BY <1>2, <1>3, <1>4 DEF Fits, Home, Readable, Entry

\* A put that evicts down to the limit.
LEMMA LimitAppend ==
    ASSUME Known, AppendRecord, MaxRecs > 0
    PROVE  Cardinality(Indexed(index')) <= MaxRecs
<1> USE DEF Known, Inv, IInv, EInv
<1>1. index \in Index /\ op.key \in Keys /\ op.name \in {"put", "remove"}
      /\ op \in Operation /\ (op.name = "put" => op.data \in Payloads)
  BY DEF RamTypeOK, ControlTypeOK, AppendRecord, CallOK
<1>2. CASE op.name = "remove"
  <2>1. index' = [index EXCEPT ![op.key] = None]
    BY <1>2 DEF AppendRecord
  <2>2. Indexed(index') \subseteq Indexed(index)
    BY <1>1, <2>1 DEF Indexed, Index
  <2> QED BY <1>1, <2>2, Fewer, Parameters DEF LimitOK
<1>3. CASE op.name = "put"
  <2> DEFINE e == EntryFor(current_segment, current_offset, op.data)
             ix == [index EXCEPT ![op.key] = e]
  <2>1. PICK E \in Victims(ix) : index' = Without(ix, E)
    BY <1>3 DEF AppendRecord
  <2> HIDE DEF ix
  <2> DEFINE I == Indexed(ix)
             J == Indexed(index')
  <2>2. E \in SUBSET I /\ Cardinality(E) = Excess(ix) /\ IsFiniteSet(I)
    BY <2>1, Parameters, FS_Subset DEF Victims, Indexed
  <2>3. J = I \ E
    BY <2>1 DEF Without, Indexed
  <2>4. I \cap E = E
    BY <2>2
  <2> HIDE DEF I, J
  <2>5. Cardinality(I) \in Nat /\ Cardinality(J) = Cardinality(I) - Cardinality(E)
    <3>1. Cardinality(I \ E) = Cardinality(I) - Cardinality(I \cap E)
      BY <2>2, FS_Difference
    <3>2. Cardinality(I) \in Nat
      BY <2>2, FS_CardinalityType
    <3> QED BY <2>3, <2>4, <3>1, <3>2
  <2>6. Excess(ix) = IF Cardinality(I) <= MaxRecs THEN 0 ELSE Cardinality(I) - MaxRecs
    BY Parameters DEF Excess, I
  <2>7. Cardinality(J) <= MaxRecs
    BY <2>2, <2>5, <2>6, Parameters
  <2> QED BY <2>7 DEF J
<1> QED BY <1>1, <1>2, <1>3

\* What compact() puts into the index was in it before.
LEMMA RenameEffect ==
    ASSUME Supported, Known, MaxRecs > 0, RenameTmp
    PROVE  /\ caller # "boot" /\ pc = "rename_tmp" /\ compact_tmp \in File
           /\ segs' = [segs EXCEPT ![0] = compact_tmp]
           /\ index' = IndexOfSegment0(compact_tmp)
           /\ pc' = "remove_index" /\ UNCHANGED <<caller, op, now, promised>>
           /\ \A k \in Keys : index'[k] # None =>
                 /\ index[k] # None
                 /\ Stored(segs', index'[k]) = Due(k, InRam)
<1> USE DEF Known, Inv, DInv, IInv
<1>1. /\ pc = "rename_tmp" /\ compact_tmp # NoFile /\ compact_tmp \in File
      /\ segs' = [segs EXCEPT ![0] = compact_tmp]
      /\ index' = IndexOfSegment0(compact_tmp)
      /\ pc' = "remove_index" /\ UNCHANGED <<caller, op, now, promised>>
  BY DEF RenameTmp, StageOK, DiskTypeOK, Supported
<1>2. caller # "boot"
  BY <1>1 DEF FirstBootOK, Starting, StageOK, Committed, InJournal
<1>3. \A i \in DOMAIN compact_tmp :
         LET c == compact_tmp[i] IN
         c \in Cell /\ index[c.key] # None /\ c.data = Due(c.key, InRam)
  BY <1>1, <1>2 DEF EInv, CarriedOK
<1>4. segs'[0] = compact_tmp
  BY <1>1, SegmentFacts DEF DiskTypeOK
<1>5. ASSUME NEW k \in Keys, index'[k] # None
      PROVE  index[k] # None /\ Stored(segs', index'[k]) = Due(k, InRam)
  <2> DEFINE i == Max(PutsOf(compact_tmp, k))
             e == EntryFor(0, i - 1, compact_tmp[i].data)
  <2>1. PutsOf(compact_tmp, k) # {} /\ index'[k] = e
    BY <1>1, <1>5 DEF IndexOfSegment0
  <2>2. i \in PutsOf(compact_tmp, k) /\ i - 1 \in Nat
    BY <1>1, <2>1, PutsType
  <2> HIDE DEF i
  <2>3. i \in DOMAIN compact_tmp /\ compact_tmp[i].key = k /\ i \in Nat
    BY <1>1, <2>2 DEF PutsOf, RecordsOf, Scanned, File
  <2>4. e.seg = 0 /\ e.off + 1 = i
    BY <2>2, <2>3 DEF EntryFor
  <2>5. Stored(segs', e) = compact_tmp[i].data
    BY <1>4, <2>4 DEF Stored
  <2> QED BY <1>3, <2>1, <2>3, <2>5
<1> QED BY <1>1, <1>2, <1>5

\* No step but a put brings a key into the index.
LEMMA LimitKept ==
    ASSUME Supported, Known, Next
    PROVE  LimitOK'
<1> SUFFICES ASSUME MaxRecs > 0 PROVE Cardinality(Indexed(index')) <= MaxRecs
  BY DEF LimitOK
<1> USE DEF Known, Inv
<1>1. index \in Index /\ Cardinality(Indexed(index)) <= MaxRecs /\ MaxRecs \in Nat
  BY Parameters DEF IInv, RamTypeOK, EInv, LimitOK
<1>2. CASE \A k \in Keys : index'[k] # None => index[k] # None
  <2>1. Indexed(index') \subseteq Indexed(index)
    BY <1>2 DEF Indexed
  <2> QED BY <1>1, <2>1, Fewer
<1>3. CASE \A k \in Keys : index'[k] = None
  BY <1>2, <1>3
<1>4. CASE UNCHANGED index
  BY <1>1, <1>4
<1>5. CASE AppendRecord
  BY <1>5, LimitAppend
<1>6. CASE Calls
  <2>1. CASE \E x \in Keys : Get(x)
    <3>1. \A k \in Keys : index'[k] # None => index[k] # None
      BY <1>1, <2>1 DEF Get, Index
    <3> QED BY <1>2, <3>1
  <2> QED BY <1>4, <1>6, <2>1 DEF Calls, StartPut, StartRemove, StartClear, Close, OpenSegment
<1>7. CASE OpenTmp \/ PruneAtBoot
  <2>1. PICK E \in Victims(index) : index' = Without(index, E)
    BY <1>7 DEF OpenTmp, PruneAtBoot
  <2>2. index' = index
    BY <2>1, NothingToEvict DEF EInv
  <2> QED BY <1>4, <2>2
<1>8. CASE RenameTmp
  BY <1>2, <1>8, RenameEffect
<1>9. CASE ClearIndex \/ Crash \/ Shutdown
  <2>1. \A k \in Keys : index'[k] = None
    BY <1>9 DEF ClearIndex, Crash, Shutdown, PowerOff, EmptyIndex
  <2> QED BY <1>3, <2>1
<1>10. CASE LoadIndex \/ RebuildIndex
  <2>1. Starting' /\ RamTells'
    BY <1>10 DEF LoadIndex, RebuildIndex, DInv, TurnOK, Loading, Starting, RamTells
  <2> QED BY <1>3, <2>1, FirstIndex
<1>11. CASE PersistEntry \/ (Gathering /\ ~ OpenTmp) \/ (Exchanging /\ ~ RenameTmp)
            \/ (Erasing /\ ~ ClearIndex) \/ CooldownEnds \/ Tick \/ LoseIndex
            \/ (Recovering /\ ~ LoadIndex /\ ~ RebuildIndex /\ ~ PruneAtBoot)
  BY <1>4, <1>11 DEF PersistEntry, Gathering, JournalCopying, OpenTmpFails, CopyRecord,
     JournalSegment, DropSource, JournalCommit, Exchanging, RemoveAll, RemoveIndex, WriteIndex,
     ClearJournal, Reopen, Erasing, ClearSegment, ClearReopen, CooldownEnds, Tick, LoseIndex, Recovering,
     Boot, RecoverNothing, RecoverCommitted, RecoverBack, WriteBootIndex, OpenFiles
<1>12. \/ Calls \/ AppendRecord \/ PersistEntry \/ Gathering
       \/ Exchanging \/ Erasing \/ Recovering \/ Stopping
  BY PossibleSteps
<1> QED BY <1>5, <1>6, <1>7, <1>8, <1>9, <1>10, <1>11, <1>12 DEF Stopping

---------------------------------------------------------------------------
(* What the entries lead to                                                *)

\* An entry that stays, on records that stay, leads to the same record.
LEMMA ToldSame ==
    ASSUME Known, MaxRecs > 0, RamTells, segs' \in Files, Keeps(segs, segs'),
           NEW k \in Keys, index'[k] = index[k], index[k] # None,
           Due(k, InRam)' = Due(k, InRam)
    PROVE  Stored(segs', index'[k]) = Due(k, InRam)'
<1> USE DEF Known, Inv
<1>1. index[k] \in Entry /\ segs \in Files
  BY DEF IInv, RamTypeOK, Index, DiskTypeOK, Files
<1>2. Home(segs, index[k], k)
  BY DEF DInv, RamOK, IndexFits, Fits
<1>3. Stored(segs', index[k]) = Stored(segs, index[k])
  BY <1>1, <1>2, HomeKept
<1> QED BY <1>3 DEF EInv, ToldOK

\* A step that only moves the call along.
LEMMA ToldOnward ==
    ASSUME Known, MaxRecs > 0, RamTells, segs' \in Files, Keeps(segs, segs'),
           NEW k \in Keys, index'[k] = index[k], index[k] # None,
           UNCHANGED <<op, promised>>, InRam' <=> InRam
    PROVE  Stored(segs', index'[k]) = Due(k, InRam)'
<1>1. Due(k, InRam)' = Due(k, InRam)
  BY DEF Due
<1> QED BY <1>1, ToldSame

\* The call returns with its effect in the index.
LEMMA ToldReturn ==
    ASSUME Known, MaxRecs > 0, RamTells, segs' \in Files, Keeps(segs, segs'),
           NEW k \in Keys, index'[k] = index[k], index[k] # None, InRam, Return
    PROVE  Stored(segs', index'[k]) = Due(k, InRam)'
<1>1. op.name # "clear"
  BY DEF Known, Inv, DInv, TurnOK, RamTells, Clearing
<1>2. promised'[k] = After(k) /\ op'.evicted = {} /\ op'.key = None /\ k # None
  BY Parameters DEF Return, NoOp
<1>3. Due(k, InRam)' = Due(k, InRam)
  BY <1>1, <1>2 DEF Due, After
<1> QED BY <1>3, ToldSame

\* put() and remove(): the new entry leads to the new record.
LEMMA ToldAppend ==
    ASSUME Supported, Known, MaxRecs > 0, AppendRecord, NEW k \in Keys, index'[k] # None
    PROVE  Stored(segs', index'[k]) = Due(k, InRam)'
<1> USE DEF Known, Inv, DInv
<1> DEFINE e == EntryFor(current_segment, current_offset, op.data)
<1>1. PICK E \in SUBSET Keys :
         /\ op'.evicted = IF op.name = "put" THEN (op.evicted \ {op.key}) \cup E
                          ELSE op.evicted
         /\ op.name = "remove" => E = {}
         /\ \A x \in Keys :
               index'[x] = IF x \in E THEN None
                           ELSE IF x # op.key THEN index[x]
                           ELSE IF op.name = "remove" THEN None ELSE e
  BY AppendEffect
<1> HIDE DEF e
<1>2. /\ op'.name = op.name /\ op'.key = op.key /\ op'.data = op.data
      /\ op.name \in {"put", "remove"}
  BY AppendEffect
<1>3. /\ pc = "append" /\ caller = "none" /\ pc' = "persist" /\ caller' = "none"
      /\ UNCHANGED <<now, promised, current_segment, current_offset>>
  BY DEF AppendRecord, IInv, CallOK
<1>4. InRam' /\ ~ InRam /\ RamTells
  BY <1>3 DEF InRam, RamTells
<1>5. segs \in Files /\ segs' \in Files /\ Keeps(segs, segs')
  BY AppendStep, KeepsAppend DEF IInv, DiskTypeOK, Files
<1>6. k \notin E
  BY <1>1
<1>7. CASE k # op.key
  <2>1. index'[k] = index[k] /\ (k \in op'.evicted <=> k \in op.evicted)
    BY <1>1, <1>6, <1>7
  <2>2. Due(k, InRam)' = Due(k, InRam)
    BY <1>2, <1>3, <1>7, <2>1 DEF Due
  <2> QED BY <1>4, <1>5, <2>1, <2>2, ToldSame
<1>8. CASE k = op.key
  <2>1. op.name = "put" /\ index'[k] = e /\ k \notin op'.evicted
    BY <1>1, <1>2, <1>6, <1>8
  <2>2. Due(k, InRam)' = op.data
    BY <1>2, <1>4, <1>8, <2>1 DEF Due
  <2>3. AppendOK'
    BY AppendKept DEF Next, Proceed
  <2>4. Stored(segs', e) = op.data
    BY <1>2, <1>3, <2>1, <2>3 DEF AppendOK, e
  <2> QED BY <2>1, <2>2, <2>4
<1> QED BY <1>7, <1>8

\* The calls that touch no record, and what put() does before it writes.
LEMMA ToldCalls ==
    ASSUME Supported, Known, MaxRecs > 0, Calls, RamTells', NEW k \in Keys, index'[k] # None
    PROVE  Stored(segs', index'[k]) = Due(k, InRam)'
<1> USE DEF Known, Inv, DInv
<1>0. /\ pc = "idle" /\ caller = "none" /\ op = NoOp /\ RamTells
      /\ segs \in Files /\ Keeps(segs, segs)
  <2>1. pc = "idle"
    BY DEF Calls, StartPut, StartRemove, Get, StartClear, Close
  <2>2. segs \in Files
    BY DEF IInv, DiskTypeOK, Files
  <2> QED BY <2>1, <2>2, KeepsSame DEF RamTells, IInv, CallOK, TurnOK
<1>1. Due(k, InRam) = promised[k]
  BY <1>0, Parameters DEF Due, InRam, NoOp
<1>2. CASE \E x \in Keys, d \in Payloads : StartPut(x, d)
  <2>1. PICK x \in Keys, d \in Payloads : StartPut(x, d)
    BY <1>2
  <2>2. pc' \in {"append", "journal_copying"} /\ caller' \in {"none", "rotate"}
        /\ op'.evicted = {} /\ UNCHANGED <<promised, index>>
    BY <1>0, <2>1 DEF StartPut
  <2>3. Due(k, InRam)' = promised[k]
    BY <2>2 DEF Due, InRam
  <2>4. segs' \in Files /\ Keeps(segs, segs')
    <3>1. SegCount - 1 \in Segments
          /\ (current_segment + 1 < SegCount => current_segment + 1 \in Segments)
      BY SegmentFacts DEF Segments, IInv, RamTypeOK
    <3>2. UNCHANGED segs \/ \E id \in Segments : OpenSegment(id)
      BY <2>1, <3>1 DEF StartPut
    <3> QED BY <1>0, <3>2, KeepsOpen DEF IInv
  <2> QED BY <1>0, <1>1, <2>2, <2>3, <2>4, ToldSame
<1>3. CASE \E x \in Keys : StartRemove(x)
  <2>1. pc' = "append" /\ caller' = "none" /\ op'.evicted = {}
        /\ UNCHANGED <<promised, index, segs>>
    BY <1>0, <1>3 DEF StartRemove
  <2>2. Due(k, InRam)' = promised[k]
    BY <2>1 DEF Due, InRam
  <2> QED BY <1>0, <1>1, <2>1, <2>2, ToldSame
<1>4. CASE \E x \in Keys : Get(x)
  <2>1. PICK x \in Keys : Get(x)
    BY <1>4
  <2>2. UNCHANGED <<pc, caller, op, promised, segs>> /\ index' = [index EXCEPT ![x] = None]
    BY <2>1 DEF Get
  <2>3. index'[k] = index[k]
    BY <2>2 DEF IInv, RamTypeOK, Index
  <2> QED BY <1>0, <2>2, <2>3, ToldOnward DEF InRam
<1>5. CASE StartClear
  BY <1>5 DEF StartClear, RamTells
<1>6. CASE Close
  BY <1>0, <1>6, ToldOnward DEF Close, InRam
<1> QED BY <1>2, <1>3, <1>4, <1>5, <1>6 DEF Calls

\* The rest of put() and remove(), the compaction, clear() and init().
LEMMA ToldKept ==
    ASSUME Supported, Known, Next
    PROVE  ToldOK'
<1> SUFFICES ASSUME MaxRecs > 0, RamTells', NEW k \in Keys, index'[k] # None
             PROVE  Stored(segs', index'[k]) = Due(k, InRam)'
  BY DEF ToldOK
<1> USE DEF Known, Inv, DInv
<1>0. segs \in Files /\ Keeps(segs, segs) /\ caller \in Callers
  <2>1. segs \in Files
    BY DEF IInv, DiskTypeOK, Files
  <2> QED BY <2>1, KeepsSame DEF IInv, ControlTypeOK
<1>1. CASE Calls
  BY <1>1, ToldCalls
<1>2. CASE AppendRecord
  BY <1>2, ToldAppend
<1>3. CASE PersistEntry
  <2>1. pc = "persist" /\ UNCHANGED <<segs, index>> /\ RamTells /\ InRam
    BY <1>3 DEF PersistEntry, RamTells, InRam
  <2>2. CASE Return
    BY <1>0, <2>1, <2>2, ToldReturn
  <2>3. CASE pc' = "journal_copying" /\ caller' = "threshold" /\ UNCHANGED <<op, outside>>
    BY <1>0, <2>1, <2>3, ToldOnward DEF InRam
  <2> QED BY <1>3, <2>2, <2>3 DEF PersistEntry
<1>4. CASE Gathering
  <2>1. CASE JournalCopying
    BY <1>0, <2>1, ToldOnward DEF JournalCopying, InRam, RamTells
  <2>2. CASE OpenTmp \/ CopyRecord \/ JournalSegment \/ DropSource \/ JournalCommit
    <3>1. pc' \in {"copy", "drop_source", "journal_commit", "remove_all"}
      BY <2>2 DEF OpenTmp, CopyRecord, JournalSegment, DropSource, JournalCommit
    <3> QED BY <3>1 DEF RamTells
  <2>3. CASE OpenTmpFails
    <3>1. pc = "open_tmp" /\ UNCHANGED index /\ RamTells
      BY <2>3 DEF OpenTmpFails, RamTells
    <3>2. CASE caller = "rotate" /\ caller' = "none" /\ pc' = "append"
               /\ OpenSegment(SegCount - 1) /\ UNCHANGED <<op, outside>>
      BY <3>1, <3>2, KeepsOpen, SegmentFacts, ToldOnward DEF IInv, InRam
    <3>3. CASE caller = "threshold" /\ Return /\ UNCHANGED segs
      BY <1>0, <3>1, <3>3, ToldReturn DEF InRam
    <3> QED BY <2>3, <3>2, <3>3, GiveUpStep
  <2> QED BY <1>4, <2>1, <2>2, <2>3 DEF Gathering
<1>5. CASE Exchanging
  <2>1. CASE RemoveAll
    BY <2>1 DEF RemoveAll, RamTells
  <2>2. CASE RenameTmp
    <3>1. pc = "rename_tmp" /\ pc' = "remove_index" /\ UNCHANGED <<op, caller, promised>>
      BY <2>2, RenameEffect
    <3>2. Due(k, InRam)' = Due(k, InRam)
      BY <3>1 DEF Due, InRam
    <3> QED BY <2>2, <3>2, RenameEffect
  <2>3. CASE RemoveIndex \/ WriteIndex
    <3>1. UNCHANGED <<segs, index, op, caller, outside>> /\ pc \in {"remove_index", "write_index"}
          /\ pc' \in {"write_index", "clear_journal"}
      BY <2>3 DEF RemoveIndex, WriteIndex
    <3> QED BY <1>0, <3>1, ToldOnward DEF InRam, RamTells
  <2>4. CASE ClearJournal
    BY <1>0, <2>4, ToldOnward DEF ClearJournal, InRam, RamTells, TurnOK
  <2>5. CASE Reopen
    <3>1. pc = "reopen" /\ OpenSegment(1) /\ UNCHANGED index /\ RamTells
          /\ caller \in {"rotate", "threshold"}
      BY <2>5 DEF Reopen, RamTells
    <3>2. segs' \in Files /\ Keeps(segs, segs')
      BY <3>1, KeepsOpen, SegmentFacts DEF IInv
    <3>3. CASE caller = "rotate" /\ caller' = "none" /\ pc' = "append" /\ UNCHANGED <<op, outside>>
      BY <3>1, <3>2, <3>3, ToldOnward DEF InRam
    <3>4. CASE caller = "threshold" /\ Return
      BY <3>1, <3>2, <3>4, ToldReturn DEF InRam
    <3> QED BY <2>5, <3>3, <3>4 DEF Reopen
  <2> QED BY <1>5, <2>1, <2>2, <2>3, <2>4, <2>5 DEF Exchanging
<1>6. CASE Erasing
  <2>1. CASE ClearSegment \/ ClearIndex
    BY <2>1 DEF ClearSegment, ClearIndex, RamTells
  <2>2. CASE ClearReopen
    BY <2>2 DEF ClearReopen, ClearOK, EmptyIndex
  <2> QED BY <1>6, <2>1, <2>2 DEF Erasing
<1>7. CASE Recovering
  <2>1. CASE OpenFiles
    <3>1. pc = "open" /\ caller = "boot" /\ UNCHANGED index
      BY <2>1 DEF OpenFiles, TurnOK, Loading
    <3>2. PICK d \in May(k, InRam) : Fits(segs, now, index[k], k, d)
      BY <3>1 DEF RamOK, RamTells, IndexFits
    <3>3. Blank /\ index[k] \in Entry \cup {None}
      BY <3>1 DEF FirstBootOK, Starting, IInv, RamTypeOK, Index
    <3> QED BY <3>1, <3>2, <3>3, BlankFits
  <2>2. CASE ~ OpenFiles
    <3>1. Starting'
      BY <1>7, <2>2 DEF Recovering, Boot, RecoverNothing, RecoverCommitted, RecoverBack, LoadIndex,
         RebuildIndex, WriteBootIndex, PruneAtBoot, TurnOK, Loading, Starting
    <3> QED BY <3>1, FirstIndex
  <2> QED BY <2>1, <2>2
<1>8. CASE Stopping
  <2>1. CASE Crash \/ Shutdown
    BY <2>1 DEF Crash, Shutdown, PowerOff, RamTells
  <2>2. CASE CooldownEnds \/ Tick \/ LoseIndex
    <3>1. UNCHANGED <<segs, index, pc, caller, op, promised>>
      BY <2>2 DEF CooldownEnds, Tick, LoseIndex
    <3> QED BY <1>0, <3>1, ToldOnward DEF InRam, RamTells
  <2> QED BY <1>8, <2>1, <2>2 DEF Stopping
<1> QED BY <1>1, <1>2, <1>3, <1>4, <1>5, <1>6, <1>7, <1>8, PossibleSteps

\* The records in compact.tmp stay those of the index until it is replaced.
LEMMA CarriedKept ==
    ASSUME Supported, Known, Next
    PROVE  CarriedOK'
<1> SUFFICES ASSUME caller' # "boot", pc' \in Copying \cup {"remove_all", "rename_tmp"},
                    NEW i \in DOMAIN compact_tmp'
             PROVE  (LET c == compact_tmp[i] IN
                     c \in Cell /\ index[c.key] # None /\ c.data = Due(c.key, InRam))'
  BY DEF CarriedOK
<1>1. CASE pc' \in Copying
  <2>1. Inv'
    BY InvKept DEF Known
  <2>2. IsCopy(compact_tmp[i])'
    BY <1>1, <2>1 DEF Inv, DInv, CopyOK
  <2> QED BY <2>2 DEF IsCopy, Live
<1>2. CASE pc' \in {"remove_all", "rename_tmp"}
  <2>1. JournalCommit \/ RemoveAll
    <3>1. ~ (Calls \/ AppendRecord \/ PersistEntry \/ Erasing \/ Stopping)
      BY <1>2 DEF Calls, StartPut, StartRemove, Get, StartClear, Close, AppendRecord,
         PersistEntry, Return, Erasing, ClearSegment, ClearIndex, ClearReopen, Known, Inv, DInv,
         TurnOK, Clearing, Stopping, Crash, Shutdown, PowerOff, CooldownEnds, Tick, LoseIndex
    <3>2. ~ Recovering
      BY <1>2 DEF Recovering, Boot, RecoverNothing, RecoverCommitted, RecoverBack, LoadIndex,
         RebuildIndex, WriteBootIndex, PruneAtBoot, OpenFiles, Known, Inv, DInv, TurnOK, Loading
    <3>3. Gathering => JournalCommit
      BY <1>2 DEF Gathering, JournalCopying, OpenTmp, OpenTmpFails, GiveUp, Return, CopyRecord,
         JournalSegment, DropSource
    <3>4. Exchanging => RemoveAll
      BY <1>2 DEF Exchanging, RenameTmp, RemoveIndex, WriteIndex, ClearJournal, Reopen, Return
    <3> QED BY <3>1, <3>2, <3>3, <3>4, PossibleSteps DEF Known
  <2>2. /\ UNCHANGED <<compact_tmp, index, op, caller, promised>>
        /\ pc \in Copying \cup {"remove_all"}
    BY <2>1 DEF JournalCommit, RemoveAll, Copying
  <2>3. LET c == compact_tmp[i] IN
        c \in Cell /\ index[c.key] # None /\ c.data = Due(c.key, InRam)
    BY <2>2 DEF Known, EInv, CarriedOK
  <2>4. InRam' <=> InRam
    BY <1>2, <2>2 DEF InRam, Copying
  <2> QED BY <2>2, <2>3, <2>4 DEF Due
<1> QED BY <1>1, <1>2

---------------------------------------------------------------------------
(* What is evicted                                                         *)

\* The ranking puts like records in the order of their age.
LEMMA RanksByAge ==
    ASSUME Supported, NEW p \in Payloads, NEW q \in Payloads, KV!Alike(p, q),
           NEW s, NEW o, NEW t, NEW u, Score(EntryFor(s, o, p)) <= Score(EntryFor(t, u, q))
    PROVE  p.ts <= q.ts
<1> DEFINE Cost(d) == (EffectiveTTL(d.ttl) \div (d.prio + 3)) * d.prio * 10
<1>1. ASSUME NEW d \in Payloads, NEW a, NEW b
      PROVE  Score(EntryFor(a, b, d)) = d.ts - Cost(d)
  <2>1. d.ttl \in Nat /\ d.ttl < 16777216
    BY Parameters DEF Supported
  <2>2. d.ttl % 16777216 = d.ttl
    BY <2>1
  <2>3. EntryFor(a, b, d).ts = d.ts /\ EntryFor(a, b, d).ttl = d.ttl
        /\ EntryFor(a, b, d).prio = d.prio
    BY <2>2 DEF EntryFor
  <2> QED BY <2>3 DEF Score
<1>2. ASSUME NEW d \in Payloads
      PROVE  /\ d.ts \in Nat /\ d.prio \in Nat /\ EffectiveTTL(d.ttl) \in Nat
             /\ EffectiveTTL(d.ttl) \div (d.prio + 3) \in Nat
             /\ Cost(d) \in Int
  <2>1. d.ts \in Nat /\ d.prio \in Nat /\ EffectiveTTL(d.ttl) \in Nat
    BY Parameters DEF EffectiveTTL
  <2>2. EffectiveTTL(d.ttl) \div (d.prio + 3) \in Nat
    BY <2>1
  <2> QED BY <2>1, <2>2
<1>3. ASSUME NEW d \in Payloads, KV!Plain(d)
      PROVE  Cost(d) = 0
  <2>1. CASE d.prio = 0
    BY <1>2, <2>1
  <2>2. CASE EffectiveTTL(d.ttl) = 0
    <3>1. 0 \div (d.prio + 3) = 0
      BY <1>2
    <3> QED BY <1>2, <2>2, <3>1
  <2> QED BY <1>3, <2>1, <2>2 DEF KV!Plain, EffectiveTTL, KV!EffectiveTTL
<1>4. Cost(p) = Cost(q)
  <2>1. CASE KV!Plain(p) /\ KV!Plain(q)
    BY <1>3, <2>1
  <2>2. CASE p.prio = q.prio /\ EffectiveTTL(p.ttl) = EffectiveTTL(q.ttl)
    BY <2>2
  <2> QED BY <2>1, <2>2 DEF KV!Alike, EffectiveTTL, KV!EffectiveTTL
<1>5. p.ts - Cost(p) <= q.ts - Cost(q)
  BY <1>1
<1> HIDE DEF Cost
<1> QED BY <1>2, <1>4, <1>5

\* Both modules count alike.
LEMMA SameCardinality == \A S : KV!Cardinality(S) = Cardinality(S)
BY DEF KV!Cardinality, Cardinality

\* Where the index holds the entries of the records callers count on, what the
\* ranking evicts is what may go.
LEMMA SameVictims ==
    ASSUME Supported, NEW ix, NEW m, Indexed(ix) = KV!Held(m),
           \A k \in Indexed(ix) :
              m[k] \in Payloads /\ \E s, o : ix[k] = EntryFor(s, o, m[k])
    PROVE  Victims(ix) \subseteq KV!Victims(m)
<1> SUFFICES ASSUME NEW E \in Victims(ix) PROVE E \in KV!Victims(m)
  OBVIOUS
<1> DEFINE n == Cardinality(Indexed(ix))
           excess == IF MaxRecs = 0 THEN 0 ELSE n - MaxRecs
<1>1. E \in SUBSET Indexed(ix) /\ Cardinality(E) = Excess(ix)
      /\ \A e \in E, r \in Indexed(ix) \ E : Score(ix[e]) <= Score(ix[r])
  BY DEF Victims
<1>2. n \in Nat /\ MaxRecs \in Nat
  BY Parameters, FS_Subset, FS_CardinalityType DEF Indexed
<1>3. Excess(ix) = IF excess > 0 THEN excess ELSE 0
  <2>1. Excess(ix) = IF MaxRecs = 0 \/ n <= MaxRecs THEN 0 ELSE n - MaxRecs
    BY DEF Excess
  <2> HIDE DEF n
  <2> QED BY <1>2, <2>1
<1>4. ASSUME NEW e \in E, NEW r \in KV!Held(m) \ E, KV!Alike(m[e], m[r])
      PROVE  m[e].ts <= m[r].ts
  <2>1. Score(ix[e]) <= Score(ix[r]) /\ e \in Indexed(ix) /\ r \in Indexed(ix)
    BY <1>1
  <2>2. PICK s, o : ix[e] = EntryFor(s, o, m[e])
    BY <2>1
  <2>3. PICK t, u : ix[r] = EntryFor(t, u, m[r])
    BY <2>1
  <2> QED BY <1>4, <2>1, <2>2, <2>3, RanksByAge
<1> QED BY <1>1, <1>3, <1>4, SameCardinality DEF KV!Victims

\* A put evicts what KVStore may evict once the keys that the index has
\* dropped are gone from it, as their records have expired.
LEMMA PutEvicts ==
    ASSUME Supported, Known, AppendRecord, op.name = "put"
    PROVE  \E D \in SUBSET {j \in Keys : Seen(promised[j]) = None} :
              op'.evicted \in KV!Victims([Without(promised, D) EXCEPT ![op.key] = op.data])
<1> USE DEF Known, Inv, DInv
<1> DEFINE e == EntryFor(current_segment, current_offset, op.data)
           ix == [index EXCEPT ![op.key] = e]
           D == {j \in Keys \ {op.key} : index[j] = None /\ Seen(promised[j]) = None}
           m == [Without(promised, D) EXCEPT ![op.key] = op.data]
<1>1. /\ op.key \in Keys /\ op.data \in Payloads /\ op \in Operation /\ index \in Index
      /\ pc = "append" /\ caller = "none" /\ ~ InRam /\ ~ Starting /\ RamTells
      /\ op.evicted = {}
  BY DEF AppendRecord, IInv, CallOK, ControlTypeOK, RamTypeOK, InRam, Starting, RamTells,
         EInv, RankOK
<1>2. PICK E \in Victims(ix) : op' = [op EXCEPT !.evicted = (@ \ {op.key}) \cup E]
  BY DEF AppendRecord
<1>3. op'.evicted = E
  BY <1>1, <1>2 DEF Operation
<1>4. D \in SUBSET {j \in Keys : Seen(promised[j]) = None}
  OBVIOUS
<1>5. e \in Entry /\ e # None /\ op.data # None
  <2>1. e \in Entry
    <3>1. current_segment \in Segments /\ current_offset \in Nat
      BY <1>1 DEF IInv, CallOK, RamTypeOK
    <3> QED BY <1>1, <3>1, EntryType
  <2> QED BY <1>1, <2>1, ModelValues
<1>6. /\ \A j \in Keys : ix[j] = IF j = op.key THEN e ELSE index[j]
      /\ \A j \in Keys : m[j] = IF j = op.key THEN op.data ELSE IF j \in D THEN None ELSE promised[j]
  BY <1>1 DEF Index, Without
<1>7. CASE MaxRecs = 0
  <2>1. ix \in Index
    BY <1>1, <1>5 DEF Index
  <2>2. E = {}
    BY <1>2, <1>7, <2>1, NoVictims
  <2>3. {} \in KV!Victims(m)
    BY <1>7, FS_EmptySet, SameCardinality DEF KV!Victims
  <2> QED BY <1>3, <1>4, <2>2, <2>3
<1>8. CASE MaxRecs # 0
  <2>1. ASSUME NEW j \in Keys, j # op.key
        PROVE  /\ index[j] = None => j \in D
               /\ index[j] # None => /\ promised[j] \in Payloads
                                     /\ index[j] = EntryFor(index[j].seg, index[j].off, promised[j])
    <3>1. Due(j, InRam) = promised[j] /\ May(j, InRam) = {promised[j]}
      BY <1>1, <2>1 DEF Due, May
    <3>2. Fits(segs, now, index[j], j, promised[j])
      BY <1>1, <3>1 DEF RamOK, IndexFits
    <3>3. CASE index[j] = None
      BY <2>1, <3>2, <3>3 DEF Fits, SeenAt, Seen
    <3>4. CASE index[j] # None
      <4>1. Stored(segs, index[j]) = promised[j]
        BY <1>1, <1>8, <3>1, <3>4, Parameters DEF EInv, ToldOK
      <4> QED BY <3>2, <3>4, <4>1 DEF Fits, Home
    <3> QED BY <3>3, <3>4
  <2> HIDE DEF D, ix, m
  <2>2. Indexed(ix) = KV!Held(m)
    <3>1. ASSUME NEW j \in Keys PROVE ix[j] # None <=> m[j] # None
      <4>1. CASE j = op.key
        BY <1>5, <1>6, <4>1
      <4>2. CASE j # op.key /\ index[j] = None
        BY <1>6, <2>1, <4>2
      <4>3. CASE j # op.key /\ index[j] # None
        BY <1>6, <2>1, <4>3, ModelValues DEF D
      <4> QED BY <4>1, <4>2, <4>3
    <3> QED BY <3>1 DEF Indexed, KV!Held
  <2>3. ASSUME NEW j \in Indexed(ix)
        PROVE  m[j] \in Payloads /\ \E s, o : ix[j] = EntryFor(s, o, m[j])
    <3>1. j \in Keys /\ ix[j] # None
      BY DEF Indexed
    <3>2. CASE j = op.key
      BY <1>1, <1>6, <3>1, <3>2 DEF e
    <3>3. CASE j # op.key
      <4>1. index[j] # None /\ j \notin D /\ ix[j] = index[j] /\ m[j] = promised[j]
        BY <1>6, <3>1, <3>3 DEF D
      <4> QED BY <2>1, <3>1, <3>3, <4>1
    <3> QED BY <3>2, <3>3
  <2>4. E \in KV!Victims(m)
    BY <1>2, <2>2, <2>3, SameVictims
  <2> QED BY <1>3, <1>4, <2>4 DEF m
<1> QED BY <1>7, <1>8

\* A step that leaves the call as it is.
LEMMA RankSame ==
    ASSUME RankOK, UNCHANGED <<op, promised, now>>, InRam' <=> InRam
    PROVE  RankOK'
BY DEF RankOK, Seen, Without

\* Nothing but the append of a put evicts, and what it has evicted stays on
\* record until the call returns.
LEMMA RankKept ==
    ASSUME Supported, Known, Next
    PROVE  RankOK'
<1> USE DEF Known, Inv, DInv
<1>0. RankOK
  BY DEF EInv
<1>1. CASE op'.evicted = {} /\ (op'.name # "put" \/ ~ InRam')
  BY <1>1 DEF RankOK
<1>2. CASE Return
  <2>1. op' = NoOp
    BY <1>2 DEF Return
  <2> QED BY <1>1, <2>1 DEF NoOp
<1>3. CASE Calls
  <2>1. CASE \E x \in Keys, d \in Payloads : StartPut(x, d)
    <3>1. op'.evicted = {} /\ pc' \in {"append", "journal_copying"}
          /\ caller' \in {"none", "rotate"}
      BY <2>1 DEF StartPut, IInv, CallOK
    <3> QED BY <1>1, <3>1 DEF InRam
  <2>2. CASE StartClear \/ \E x \in Keys : StartRemove(x)
    <3>1. op'.evicted = {} /\ op'.name # "put"
      BY <2>2 DEF StartClear, StartRemove, NoOp
    <3> QED BY <1>1, <3>1
  <2>3. CASE Close \/ \E x \in Keys : Get(x)
    <3>1. UNCHANGED <<op, promised, now, pc, caller>>
      BY <2>3 DEF Close, Get
    <3> QED BY <1>0, <3>1, RankSame DEF InRam
  <2> QED BY <1>3, <2>1, <2>2, <2>3 DEF Calls
<1>4. CASE AppendRecord
  <2>1. op'.name = op.name /\ op'.key = op.key /\ op'.data = op.data
        /\ op.name \in {"put", "remove"} /\ pc' = "persist" /\ UNCHANGED <<promised, now>>
        /\ (op.name = "remove" => op' = op)
    <3>1. op.name = "remove" => op' = op
      BY <1>4 DEF AppendRecord
    <3> QED BY <1>4, <3>1, AppendEffect DEF AppendRecord
  <2>2. CASE op.name = "remove"
    BY <1>0, <1>1, <2>1, <2>2 DEF RankOK
  <2>3. CASE op.name = "put"
    <3>1. PICK D \in SUBSET {j \in Keys : Seen(promised[j]) = None} :
             op'.evicted \in KV!Victims([Without(promised, D) EXCEPT ![op.key] = op.data])
      BY <1>4, <2>3, PutEvicts
    <3>2. D \in SUBSET {j \in Keys : Seen(promised[j])' = None}
      BY <2>1, <3>1 DEF Seen
    <3>3. op'.evicted \in KV!Victims([Without(promised', D) EXCEPT ![op'.key] = op'.data])
      BY <2>1, <3>1
    <3>4. InRam'
      BY <2>1 DEF InRam
    <3> QED BY <2>1, <2>3, <3>2, <3>3, <3>4 DEF RankOK
  <2> QED BY <2>1, <2>2, <2>3
<1>5. CASE PersistEntry
  <2>1. CASE pc = "persist" /\ caller' = "threshold" /\ UNCHANGED <<op, outside>>
    BY <1>0, <2>1, RankSame DEF InRam
  <2> QED BY <1>2, <1>5, <2>1 DEF PersistEntry
<1>6. CASE Gathering
  <2>1. CASE OpenTmp
    <3>1. PICK E \in Victims(index) : op' = [op EXCEPT !.evicted = @ \cup E]
      BY <2>1 DEF OpenTmp
    <3>2. E = {}
      BY <3>1, NothingToEvict DEF EInv
    <3>3. op' = op
      BY <3>1, <3>2 DEF IInv, ControlTypeOK, Operation
    <3>4. pc = "open_tmp" /\ pc' = "copy" /\ UNCHANGED <<caller, promised, now>>
      BY <2>1 DEF OpenTmp
    <3> QED BY <1>0, <3>3, <3>4, RankSame DEF InRam
  <2>2. CASE OpenTmpFails
    <3>1. CASE pc = "open_tmp" /\ caller = "rotate" /\ caller' = "none" /\ pc' = "append"
               /\ UNCHANGED <<op, outside>>
      BY <1>0, <3>1, RankSame DEF InRam
    <3> QED BY <1>2, <2>2, <3>1, GiveUpStep DEF OpenTmpFails
  <2>3. CASE JournalCopying \/ CopyRecord \/ JournalSegment \/ DropSource \/ JournalCommit
    <3>1. UNCHANGED <<op, promised, now, caller>> /\ pc # "persist" /\ pc' # "persist"
      BY <2>3 DEF JournalCopying, CopyRecord, JournalSegment, DropSource, JournalCommit
    <3> QED BY <1>0, <3>1, RankSame DEF InRam
  <2> QED BY <1>6, <2>1, <2>2, <2>3 DEF Gathering
<1>7. CASE Exchanging
  <2>1. CASE Return
    BY <1>2, <2>1
  <2>2. CASE UNCHANGED <<op, promised, now, caller>> /\ pc # "persist" /\ pc' # "persist"
    BY <1>0, <2>2, RankSame DEF InRam
  <2>3. CASE pc = "reopen" /\ caller = "rotate" /\ caller' = "none" /\ pc' = "append"
             /\ UNCHANGED <<op, outside>>
    BY <1>0, <2>3, RankSame DEF InRam
  <2> QED BY <1>7, <2>1, <2>2, <2>3 DEF Exchanging, RemoveAll, RenameTmp, RemoveIndex,
          WriteIndex, ClearJournal, Reopen
<1>8. CASE Erasing
  <2>1. CASE ClearSegment \/ ClearIndex
    <3>1. UNCHANGED <<op, promised, now, caller>> /\ pc # "persist" /\ pc' # "persist"
      BY <2>1 DEF ClearSegment, ClearIndex
    <3> QED BY <1>0, <3>1, RankSame DEF InRam
  <2>2. CASE ClearReopen
    <3>1. Return
      BY <2>2 DEF ClearReopen, TurnOK, Clearing
    <3> QED BY <1>2, <3>1
  <2> QED BY <1>8, <2>1, <2>2 DEF Erasing
<1>9. CASE Recovering
  <2>1. CASE OpenFiles
    <3>1. op' = NoOp
      BY <2>1 DEF OpenFiles
    <3> QED BY <1>1, <3>1 DEF NoOp
  <2>2. CASE ~ OpenFiles
    <3>1. UNCHANGED <<op, promised, now>> /\ pc # "persist" /\ pc' # "persist"
          /\ caller # "threshold" /\ caller' # "threshold"
      BY <1>9, <2>2, PruneEffect DEF Recovering, Boot, RecoverNothing, RecoverCommitted,
         RecoverBack, LoadIndex, RebuildIndex, WriteBootIndex, PruneAtBoot, IInv, CallOK,
         TurnOK, Loading
    <3> QED BY <1>0, <3>1, RankSame DEF InRam
  <2> QED BY <2>1, <2>2
<1>10. CASE Stopping
  <2>1. CASE Crash \/ Shutdown
    <3>1. op'.evicted = {} /\ pc' = "down" /\ caller' = "none"
      BY <2>1, PowerOffEffect DEF Crash, Shutdown
    <3> QED BY <1>1, <3>1 DEF InRam
  <2>2. CASE CooldownEnds \/ LoseIndex
    <3>1. UNCHANGED <<op, promised, now, pc, caller>>
      BY <2>2 DEF CooldownEnds, LoseIndex
    <3> QED BY <1>0, <3>1, RankSame DEF InRam
  <2>3. CASE Tick
    <3>1. UNCHANGED <<op, pc, caller>> /\ ~ InRam
      BY <2>3 DEF Tick, InRam, IInv, CallOK
    <3>2. op'.evicted = {} /\ ~ InRam'
      BY <1>0, <3>1 DEF RankOK, InRam
    <3> QED BY <1>1, <3>2
  <2> QED BY <1>10, <2>1, <2>2, <2>3 DEF Stopping
<1> QED BY <1>3, <1>4, <1>5, <1>6, <1>7, <1>8, <1>9, <1>10, PossibleSteps

---------------------------------------------------------------------------
(* The invariant                                                           *)

\* In every state of every run of a supported instance the limit is met, and
\* what the call in progress has evicted is what KVStore lets it evict.
THEOREM EvictionInvariant ==
    ASSUME Supported
    PROVE  Spec => []EInv
<1>1. Init => Known
  <2> SUFFICES ASSUME Init PROVE Known
    OBVIOUS
  <2>1. Inv
    BY InitInvariant, InitDurable DEF Inv
  <2>2. LimitOK
    <3>1. Indexed(index) = {}
      BY DEF Init, EmptyIndex, Indexed
    <3> QED BY <3>1, FS_EmptySet, Parameters DEF LimitOK
  <2>3. ToldOK /\ CarriedOK /\ RankOK
    BY DEF Init, ToldOK, RamTells, CarriedOK, Copying, RankOK, NoOp
  <2> QED BY <2>1, <2>2, <2>3 DEF Known, EInv
<1>2. Known /\ [Next]_vars => Known'
  <2> SUFFICES ASSUME Known, [Next]_vars PROVE Known'
    OBVIOUS
  <2>1. Inv'
    BY NextInvariant, NextDurable DEF Known, Inv
  <2>2. CASE Next
    BY <2>1, <2>2, LimitKept, ToldKept, CarriedKept, RankKept DEF Known, EInv
  <2>3. CASE UNCHANGED vars
    <3>1. UNCHANGED <<segs, compact_tmp, index, pc, op, caller, now, promised>>
      BY <2>3 DEF vars
    <3>2. InRam' <=> InRam
      BY <3>1 DEF InRam
    <3>3. LimitOK'
      BY <3>1 DEF Known, EInv, LimitOK
    <3>4. (ToldOK /\ CarriedOK)'
      BY <3>1, <3>2 DEF Known, EInv, ToldOK, RamTells, CarriedOK, Due
    <3>5. RankOK'
      BY <3>1, <3>2, RankSame DEF Known, EInv
    <3> QED BY <2>1, <3>3, <3>4, <3>5 DEF Known, EInv
  <2> QED BY <2>2, <2>3
<1>3. Known => EInv
  BY DEF Known
<1> QED BY <1>1, <1>2, <1>3, PTL DEF Spec

---------------------------------------------------------------------------
(* The refinement                                                          *)

\* What the abstract store may do to the values expected.
Stays == UNCHANGED <<promised, now>>
Puts ==
    /\ \E k \in Keys, d \in Payloads :
          \E D \in SUBSET {j \in Keys : Seen(promised[j]) = None} :
             \E E \in KV!Victims([Without(promised, D) EXCEPT ![k] = d]) :
                promised' = Without([promised EXCEPT ![k] = d], E)
    /\ UNCHANGED now
Removes == (\E k \in Keys : promised' = [promised EXCEPT ![k] = None]) /\ UNCHANGED now
Clears == promised' = [k \in Keys |-> None] /\ UNCHANGED now
Passes == now' = now + 1 /\ UNCHANGED promised

\* A call that returns true has done what its name says, and evicted no more
\* than KVStore lets it.
LEMMA ReturnStep ==
    ASSUME Supported, Known, Return, op.name # "none", op.name = "put" => InRam
    PROVE  Puts \/ Removes \/ Clears
<1> USE DEF Known, Inv, DInv
<1>1. /\ promised \in [Keys -> Payloads \cup {None}]
      /\ promised' = [k \in Keys |-> After(k)] /\ now' = now
      /\ op.name \in {"put", "remove", "clear"} /\ op \in Operation
  BY DEF Return, IInv, OutsideTypeOK, ControlTypeOK, TurnOK
<1>2. CASE op.name = "clear"
  <2>1. promised' = [k \in Keys |-> None]
    BY <1>1, <1>2 DEF After
  <2> QED BY <1>1, <2>1 DEF Clears
<1>3. CASE op.name = "remove"
  <2>1. op.key \in Keys /\ op.data = None /\ op.evicted = {}
    BY <1>3 DEF IInv, CallOK, TurnOK, EInv, RankOK
  <2>2. promised' = [promised EXCEPT ![op.key] = None]
    BY <1>1, <1>3, <2>1 DEF After
  <2> QED BY <1>1, <2>1, <2>2 DEF Removes
<1>4. CASE op.name = "put"
  <2>1. op.key \in Keys /\ op.data \in Payloads
    BY <1>4 DEF IInv, CallOK
  <2>2. PICK D \in SUBSET {j \in Keys : Seen(promised[j]) = None} :
           op.evicted \in KV!Victims([Without(promised, D) EXCEPT ![op.key] = op.data])
    BY <1>4 DEF EInv, RankOK
  <2>3. promised' = Without([promised EXCEPT ![op.key] = op.data], op.evicted)
    BY <1>1, <1>4, <2>1 DEF After, Without
  <2> QED BY <1>1, <2>1, <2>2, <2>3 DEF Puts
<1> QED BY <1>1, <1>2, <1>3, <1>4

\* A reboot makes of the call that power cut short all of it or nothing.
LEMMA ResolveStep ==
    ASSUME Supported, Known, OpenFiles
    PROVE  Stays \/ Puts \/ Removes
<1> USE DEF Known, Inv, DInv
<1>1. /\ promised \in [Keys -> Payloads \cup {None}]
      /\ promised' = [k \in Keys |-> Resolved(k)] /\ now' = now /\ op \in Operation
  BY DEF OpenFiles, IInv, OutsideTypeOK, ControlTypeOK
<1>2. caller = "boot" /\ op.name # "clear" /\ op.evicted = {}
  BY DEF OpenFiles, TurnOK, Loading, Clearing, EInv, RankOK, InRam
<1>3. ASSUME NEW k \in Keys PROVE Resolved(k) \in {promised[k], IF k = op.key THEN op.data ELSE promised[k]}
  <2> DEFINE may == {promised[k], After(k)} \cup (IF k = op.key THEN {op.data} ELSE {})
             fits == {d \in may : Seen(d) = View(k)}
  <2>1. may = {promised[k], IF k = op.key THEN op.data ELSE promised[k]}
    BY <1>2 DEF After
  <2>2. After(k) \in may
    OBVIOUS
  <2> HIDE DEF may
  <2>3. Resolved(k) = IF fits = {} THEN After(k) ELSE CHOOSE d \in fits : TRUE
    BY DEF Resolved, may
  <2>4. fits # {} => (CHOOSE d \in fits : TRUE) \in fits
    OBVIOUS
  <2> QED BY <2>1, <2>2, <2>3, <2>4
<1>4. CASE op.key \notin Keys \/ Resolved(op.key) = promised[op.key]
  <2>1. promised' = promised
    BY <1>1, <1>3, <1>4
  <2> QED BY <1>1, <2>1 DEF Stays
<1>5. CASE op.key \in Keys /\ Resolved(op.key) = op.data
  <2>1. promised' = [promised EXCEPT ![op.key] = op.data]
    BY <1>1, <1>3, <1>5
  <2>2. CASE op.data = None
    BY <1>1, <1>5, <2>1, <2>2 DEF Removes
  <2>3. CASE op.data \in Payloads
    <3>1. MaxRecs = 0
      <4>1. op.data # None
        BY <2>3, ModelValues
      <4> QED BY <1>2, <4>1, Parameters DEF FirstBootOK, Starting, NoOp
    <3> DEFINE m == [Without(promised, {}) EXCEPT ![op.key] = op.data]
    <3>2. {} \in KV!Victims(m)
      BY <3>1, FS_EmptySet, SameCardinality DEF KV!Victims
    <3>3. promised' = Without([promised EXCEPT ![op.key] = op.data], {})
      BY <1>1, <2>1 DEF Without
    <3>4. {} \in SUBSET {j \in Keys : Seen(promised[j]) = None}
      OBVIOUS
    <3> QED BY <1>1, <1>5, <2>3, <3>2, <3>3, <3>4 DEF Puts
  <2>4. op.data \in Payloads \cup {None}
    BY <1>1 DEF Operation
  <2> QED BY <2>2, <2>3, <2>4
<1> QED BY <1>3, <1>4, <1>5

\* Of all steps only the return of a call, the end of a reboot and the clock
\* change what callers expect.
LEMMA AbstractStep ==
    ASSUME Supported, Known, Next
    PROVE  Stays \/ Puts \/ Removes \/ Clears \/ Passes
<1> USE DEF Known, Inv, DInv
<1>1. CASE PersistEntry
  <2>1. CASE Return
    <3>1. op.name # "none" /\ InRam
      BY <1>1 DEF PersistEntry, IInv, CallOK, InRam
    <3> QED BY <2>1, <3>1, ReturnStep
  <2> QED BY <1>1, <2>1 DEF PersistEntry, Stays
<1>2. CASE OpenTmpFails \/ Reopen
  <2>1. CASE caller = "threshold" /\ Return
    <3>1. op.name # "none" /\ InRam
      BY <1>2, <2>1 DEF OpenTmpFails, Reopen, TurnOK, Starting, InRam
    <3> QED BY <2>1, <3>1, ReturnStep
  <2>2. CASE UNCHANGED outside
    BY <2>2 DEF Stays
  <2> QED BY <1>2, <2>1, <2>2, GiveUpStep DEF Reopen
<1>3. CASE ClearReopen
  <2>1. Return /\ op.name = "clear"
    BY <1>3 DEF ClearReopen, TurnOK, Clearing
  <2> QED BY <2>1, ReturnStep
<1>4. CASE ClearJournal
  BY <1>4 DEF ClearJournal, TurnOK, Stays
<1>5. CASE OpenFiles
  BY <1>5, ResolveStep
<1>6. CASE Tick
  BY <1>6 DEF Tick, Passes
<1>7. CASE Calls \/ AppendRecord \/ (Gathering /\ ~ OpenTmpFails)
           \/ (Exchanging /\ ~ ClearJournal /\ ~ Reopen)
  BY <1>7 DEF Calls, StartPut, StartRemove, Get, StartClear, Close, AppendRecord, Gathering,
     JournalCopying, OpenTmp, CopyRecord, JournalSegment, DropSource, JournalCommit, Exchanging,
     RemoveAll, RenameTmp, RemoveIndex, WriteIndex, Stays
<1>8. CASE ClearSegment \/ ClearIndex \/ (Recovering /\ ~ OpenFiles)
           \/ Crash \/ Shutdown \/ CooldownEnds \/ LoseIndex
  BY <1>8 DEF ClearSegment, ClearIndex, Recovering, Boot, RecoverNothing, RecoverCommitted,
     RecoverBack, LoadIndex, RebuildIndex, WriteBootIndex, PruneAtBoot, Crash, Shutdown,
     PowerOff, CooldownEnds, LoseIndex, Stays
<1> QED BY <1>1, <1>2, <1>3, <1>4, <1>5, <1>6, <1>7, <1>8, PossibleSteps DEF Exchanging,
           Erasing, Stopping

\* The map of KVStore is what callers expect of the store.
AsPromised == Contents = promised

\* It is so between two calls, because get() then answers as the last calls
\* promised, and during a call by definition.
LEMMA ContentsPromised ==
    ASSUME Supported
    PROVE  Inv => AsPromised
<1> SUFFICES ASSUME Inv PROVE Contents = promised
  BY DEF AsPromised
<1>1. promised \in [Keys -> Payloads \cup {None}]
  BY DEF Inv, IInv, OutsideTypeOK
<1>2. ASSUME NEW k \in Keys, pc = "idle" PROVE View(k) = Seen(promised[k])
  <2>1. View(k) = SeenAt(now, promised[k])
    BY <1>2, IdleFits, ViewFits DEF Inv, IInv
  <2> QED BY <2>1 DEF Seen, SeenAt
<1>3. \A k \in Keys : Contents[k] = promised[k]
  BY <1>2 DEF Contents
<1> QED BY <1>1, <1>3 DEF Contents

\* The two modules agree on which records have expired.
LEMMA SameVisible ==
    ASSUME NEW d
    PROVE  KV!Visible(d, now) = Seen(d)
BY DEF KV!Visible, Seen, KV!Expired, Expired, KV!EffectiveTTL, EffectiveTTL

\* Every step of FileStore is one of KVStore, or changes nothing it shows.
LEMMA StepImplements ==
    ASSUME Supported, Known, [Next]_vars, AsPromised, AsPromised'
    PROVE  [KV!Next]_(KV!vars)
<1>1. Contents = promised /\ Contents' = promised'
  BY DEF AsPromised
<1>2. CASE Stays \/ UNCHANGED vars
  <2>1. UNCHANGED <<Contents, now>>
    BY <1>1, <1>2 DEF Stays, vars
  <2> QED BY <2>1 DEF KV!vars
<1>3. CASE Puts
  <2>1. PICK k \in Keys, d \in Payloads :
           \E D \in SUBSET {j \in Keys : Seen(promised[j]) = None} :
              \E E \in KV!Victims([Without(promised, D) EXCEPT ![k] = d]) :
                 promised' = Without([promised EXCEPT ![k] = d], E)
    BY <1>3 DEF Puts
  <2>2. PICK D \in SUBSET {j \in Keys : Seen(promised[j]) = None} :
           \E E \in KV!Victims([Without(promised, D) EXCEPT ![k] = d]) :
              promised' = Without([promised EXCEPT ![k] = d], E)
    BY <2>1
  <2>3. D \in SUBSET {j \in Keys : KV!Visible(Contents[j], now) = None}
    BY <1>1, <2>2, SameVisible
  <2>4. \A m, S : KV!Without(m, S) = Without(m, S)
    BY DEF KV!Without, Without
  <2>5. \E E \in KV!Victims([KV!Without(Contents, D) EXCEPT ![k] = d]) :
           Contents' = KV!Without([Contents EXCEPT ![k] = d], E)
    BY <1>1, <2>2, <2>4
  <2>6. KV!Put(k, d)
    BY <1>3, <2>3, <2>5 DEF KV!Put, Puts
  <2> QED BY <2>6 DEF KV!Next
<1>4. CASE Removes
  <2>1. \E k \in Keys : KV!Remove(k)
    BY <1>1, <1>4 DEF Removes, KV!Remove
  <2> QED BY <2>1 DEF KV!Next
<1>5. CASE Clears
  BY <1>1, <1>5 DEF Clears, KV!Clear, KV!Next
<1>6. CASE Passes
  BY <1>1, <1>6 DEF Passes, KV!Tick, KV!Next
<1> QED BY <1>2, <1>3, <1>4, <1>5, <1>6, AbstractStep

\* FileStore is a key-value store: whatever a call does on its way, in the
\* middle of compactions, evictions, power cuts and reboots, what callers can
\* see changes as by one call on a map, or not at all.
THEOREM Implements ==
    ASSUME Supported
    PROVE  Spec => ImplementsKVStore
<1>1. Init => KV!Init
  <2> SUFFICES ASSUME Init PROVE KV!Init
    OBVIOUS
  <2>1. Inv
    BY InitInvariant, InitDurable DEF Inv
  <2>2. Contents = promised
    BY <2>1, ContentsPromised DEF AsPromised
  <2> QED BY <2>2 DEF Init, KV!Init
<1>2. Spec => []Known
  BY BothInvariants, EvictionInvariant, PTL DEF Known
<1>3. Known => AsPromised
  BY ContentsPromised DEF Known
<1>4. Known /\ AsPromised /\ AsPromised' /\ [Next]_vars => [KV!Next]_(KV!vars)
  BY StepImplements
<1> QED BY <1>1, <1>2, <1>3, <1>4, PTL DEF Spec, ImplementsKVStore, KV!Spec
=============================================================================
