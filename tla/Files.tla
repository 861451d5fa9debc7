------------------------------- MODULE Files --------------------------------
(***************************************************************************)
(* FileSystem and File (src/include/microStore/FileSystem.h, File.h) over  *)
(* one of the adapters: files with names, handles that share them, and     *)
(* power cuts.  A handle stands for a FileImpl and all its File copies.    *)
(*                                                                         *)
(* The medium beneath is external.  Of each file it keeps what was last    *)
(* synchronised and may lose what came after; names are kept at once.      *)
(***************************************************************************)
EXTENDS Adapters, Integers, Sequences, FiniteSets, Functions

CONSTANTS
    Names,       \* of the files
    Inodes,      \* numbers of the files, named or only open
    Handles,     \* the FileImpls a program has at once
    Bytes, Zero, \* what is written, and what fills gaps
    Drivers,     \* the adapters, of which the program uses one
    Modes,       \* the modes that files are opened with
    Capacity,    \* bytes the medium has
    TestLen,     \* 4, the length of "test" in init()
    SizeWrap,    \* 2^w, the modulus of size_t
    MaxPos,      \* bound on positions, some past the end of every file
    MaxBuffered, \* bound on what C's library keeps in its buffer
    MaxWriters,  \* bound on the handles that write one file
    None

ASSUME FilesParameters ==
    /\ IsFiniteSet(Inodes) /\ Inodes \subseteq Nat /\ None \notin Inodes
    /\ Drivers \subseteq Adapters /\ Drivers # {}
    /\ Modes \subseteq {"ModeRead", "ModeWrite", "ModeAppend", "ModeReadWrite", "ModeReadAppend"}
    /\ Capacity \in Nat /\ TestLen \in Nat /\ MaxBuffered \in Nat /\ MaxWriters \in Nat
    /\ MaxPos \in Nat /\ MaxPos >= Capacity
    /\ SizeWrap \in Nat /\ SizeWrap > 2 * Capacity

VARIABLES
    adapter,
    mounted,     \* init() has answered true since the power came on
    tree,        \* name -> inode or None
    content,     \* inode -> bytes
    durable,     \* inode -> the bytes that survive a power cut
    handle,      \* handle -> what its FileImpl keeps, or None
    flushed      \* history: the inodes not written since flush() synced them

files == <<tree, content, durable>>
vars == <<adapter, mounted, files, handle, flushed>>

Driver == FileImpls[adapter]
Opened == {h \in Handles : handle[h] # None}
OpenAt(i) == {h \in Opened : handle[h].ino = i}
Writers(i) == {h \in OpenAt(i) : "writes" \in handle[h].can}
Linked(t) == {t[n] : n \in Names} \ {None}
Live(t, hs) == Linked(t) \cup {hs[h].ino : h \in {g \in Handles : hs[g] # None}}

\* The libraries do not write, remove or replace a file that is open.
Removable(n) == adapter \in Native \/ tree[n] = None \/ OpenAt(tree[n]) = {}

\* A file that is neither named nor open is freed.
Freed(c, t, hs) == [i \in Inodes |-> IF i \in Live(t, hs) THEN c[i] ELSE <<>>]
Become(t, c, d, hs, f) ==
    /\ tree' = t /\ handle' = hs
    /\ content' = Freed(c, t, hs)
    /\ durable' = Freed(d, t, hs)
    /\ flushed' = f \cap Live(t, hs)
    /\ UNCHANGED adapter

Used(c) == FoldFunction(LAMBDA s, n : Len(s) + n, 0, c)
Room == Capacity - Used(content)
Unused == {i \in Inodes : i \notin Live(tree, handle)}
Fresh == CHOOSE i \in Unused : \A j \in Unused : i <= j

\* s with the bytes b from position p on, over a gap of zeros if need be.
Overwritten(s, p, b) ==
    [k \in 1..IF Len(s) < p + Len(b) THEN p + Len(b) ELSE Len(s) |->
        CASE k > p /\ k <= p + Len(b) -> b[k - p]
          [] k > Len(s) /\ k <= p -> Zero
          [] OTHER -> s[k]]

\* Where the handle's next write goes; the bytes of b there is room for.
Start(r) == IF "appends" \in r.can THEN Len(content[r.ino]) ELSE r.pos
Fit(r, b) ==
    LET more == Start(r) + Len(b) - Len(content[r.ino])
    IN  IF more <= Room THEN b
        ELSE SubSeq(b, 1, IF more - Room < Len(b) THEN Len(b) - more + Room ELSE 0)
Stored(r, b) ==
    IF Fit(r, b) = <<>> THEN content[r.ino]
    ELSE Overwritten(content[r.ino], Start(r), Fit(r, b))

---------------------------------------------------------------------------
(* Handles.                                                                *)

\* (bug) the counter runs on below zero
CountedOn(available, n) == available - n

\* FileImpl's counter after a write of n bytes.
Counted(available, n) == IF n <= available THEN available - n ELSE 0

\* Other handles on file i learn nothing of what h does to it.
Shared(hs, h, i) == [g \in Handles |->
    IF g # h /\ g \in OpenAt(i)
    THEN [hs[g] EXCEPT !.alone = FALSE, !.version = None] ELSE hs[g]]

\* FileImpl(): a new handle, at the beginning.
NewImpl(i, can, s) ==
    [ino |-> i, can |-> can, pos |-> 0, pending |-> <<>>,
     available |-> IF Driver.counts THEN Len(s) ELSE 0,
     alone |-> TRUE, version |-> IF can = {"reads"} THEN s ELSE None]

Open(h, n, mode) ==
    LET can == Opens[adapter][mode]
        new == tree[n] = None \/ "removes" \in can
        i == IF new THEN Fresh ELSE tree[n]
        s == IF new \/ "truncates" \in can THEN <<>> ELSE content[i]
    IN  /\ mounted /\ handle[h] = None
        /\ tree[n] = None => "creates" \in can
        /\ new => Unused # {}
        /\ "writes" \in can => Removable(n) /\ Cardinality(Writers(tree[n])) < MaxWriters
        /\ Become([tree EXCEPT ![n] = i],
                  [content EXCEPT ![i] = s],
                  IF new THEN [durable EXCEPT ![i] = <<>>] ELSE durable,
                  [Shared(handle, h, IF "truncates" \in can THEN i ELSE None)
                    EXCEPT ![h] = NewImpl(i, can, s)],
                  IF new \/ "truncates" \in can THEN flushed \ {i} ELSE flushed)
        /\ UNCHANGED mounted

\* open() answers an invalid File.  What it removed stays removed.
OpenFails(n, mode) ==
    /\ mounted /\ tree[n] # None
    /\ "removes" \in Opens[adapter][mode] /\ Removable(n)
    /\ Become([tree EXCEPT ![n] = None], content, durable, handle, flushed)
    /\ UNCHANGED mounted

\* C wants a flush or a seek between a write and a read.
MayRead(r) == "reads" \in r.can /\ r.pending = <<>>

\* read(), of one byte: only if available() is positive, as an int.
ReadByte(h) ==
    LET r == handle[h] IN
    /\ MayRead(r)
    /\ Driver.counts => r.available \in 1..SizeWrap \div 2 - 1
    /\ r.pos < Len(content[r.ino])
    /\ handle' = [handle EXCEPT ![h].pos = @ + 1,
                    ![h].available = IF Driver.counts THEN @ - 1 ELSE @]
    /\ UNCHANGED <<adapter, mounted, files, flushed>>

\* read() into a buffer of k bytes.
Read(h, k) ==
    LET r == handle[h]
        left == Len(content[r.ino]) - r.pos
        n == IF left < k THEN left ELSE k
    IN  /\ MayRead(r)
        /\ n > 0
        /\ handle' = [handle EXCEPT ![h].pos = @ + n,
                        ![h].available = IF Driver.counts THEN (@ - n) % SizeWrap ELSE @]
        /\ UNCHANGED <<adapter, mounted, files, flushed>>

\* write() to the file.
Write(h, b) ==
    LET r == handle[h] IN
    /\ "writes" \in r.can /\ ~Driver.buffers
    /\ Become(tree, [content EXCEPT ![r.ino] = Stored(r, b)], durable,
              Shared([handle EXCEPT
                        ![h].pos = Start(r) + Len(Fit(r, b)),
                        ![h].available = IF Driver.counts THEN Counted(@, Len(Fit(r, b))) ELSE @],
                     h, r.ino),
              flushed \ {r.ino})
    /\ UNCHANGED mounted

\* write() of StdioFileSystem: fwrite() into the buffer.
BufferedWrite(h, b) ==
    LET r == handle[h] IN
    /\ "writes" \in r.can /\ Driver.buffers
    /\ Len(r.pending \o b) <= MaxBuffered
    /\ Become(tree, content, durable,
              Shared([handle EXCEPT ![h].pending = @ \o b,
                                    ![h].available = Counted(@, Len(b))], h, r.ino),
              flushed \ {r.ino})
    /\ UNCHANGED mounted

\* The handle when C's library has written its buffer.
Emptied(r) == IF r.pending = <<>> THEN r
    ELSE [r EXCEPT !.pos = Start(r) + Len(Fit(r, r.pending)), !.pending = <<>>]
Written(h) == [content EXCEPT ![handle[h].ino] =
    IF handle[h].pending = <<>> THEN @ ELSE Stored(handle[h], handle[h].pending)]
Drained(h, r) == [Shared(handle, h, IF handle[h].pending = <<>> THEN None ELSE handle[h].ino)
    EXCEPT ![h] = r]

\* Where seek() goes from p; InternalFS works it out itself.
SeekTarget(r, size, p, mode) ==
    CASE mode = "SeekModeSet" -> p
      [] mode = "SeekModeCur" -> r.pos + p
      [] mode = "SeekModeEnd" -> size + p

\* (bug) a position past the end wraps round
WrappedAhead(size, target) == (size - target) % SizeWrap

\* FileImpl's counter after a seek: past the end there is nothing.
Ahead(size, target) == IF target <= size THEN size - target ELSE 0

Seek(h, p, mode) ==
    LET r == Emptied(handle[h])
        size == Len(Written(h)[r.ino])
        target == SeekTarget(r, size, p, mode)
    IN  /\ target <= MaxPos
        /\ Become(tree, Written(h), durable,
                  Drained(h, [r EXCEPT
                    !.pos = target, !.alone = TRUE,
                    !.available = IF Driver.counts THEN Ahead(size, target) ELSE @]),
                  flushed)
        /\ UNCHANGED mounted

\* The position stays where it is, the counter too; C's library has written
\* its buffer by then.
SeekFails(h) ==
    /\ Become(tree, Written(h), durable, Drained(h, Emptied(handle[h])), flushed)
    /\ UNCHANGED mounted

\* (bug) flush() leaves the file with the operating system
FlushOnly(h) ==
    /\ "writes" \in handle[h].can
    /\ Become(tree, Written(h), durable, Drained(h, Emptied(handle[h])),
              IF Driver.syncs THEN flushed \cup {handle[h].ino} ELSE flushed)
    /\ UNCHANGED mounted

Flush(h) ==
    /\ "writes" \in handle[h].can
    /\ Become(tree, Written(h),
              IF Driver.syncs
              THEN [durable EXCEPT ![handle[h].ino] = content[handle[h].ino]]
              ELSE durable,
              Drained(h, Emptied(handle[h])),
              IF Driver.syncs THEN flushed \cup {handle[h].ino} ELSE flushed)
    /\ UNCHANGED mounted

Close(h) ==
    /\ Become(tree, Written(h), durable, Drained(h, None), flushed)
    /\ UNCHANGED mounted

---------------------------------------------------------------------------
(* Names.                                                                  *)

Remove(n) ==
    /\ mounted /\ tree[n] # None /\ Removable(n)
    /\ Become([tree EXCEPT ![n] = None], content, durable, handle, flushed)
    /\ UNCHANGED mounted

\* The libraries differ on a target that exists: replaced, or an error.
Rename(n, m) ==
    /\ mounted /\ tree[n] # None /\ n # m /\ Removable(n) /\ Removable(m)
    /\ Become([tree EXCEPT ![n] = None, ![m] = tree[n]], content, durable, handle,
              flushed)
    /\ UNCHANGED mounted

\* (bug) writeFile() leaves it to the open to truncate the file
WriteInPlace(n, b) ==
    /\ mounted /\ Removable(n) /\ Unused # {}
    /\ LET i == IF tree[n] = None THEN Fresh ELSE tree[n]
           room == Room + Len(content[i])
       IN  Become([tree EXCEPT ![n] = i],
                  [content EXCEPT ![i] = SubSeq(b, 1, IF Len(b) < room THEN Len(b) ELSE room)],
                  durable,
                  [h \in Handles |-> IF h \in OpenAt(i)
                                     THEN [handle[h] EXCEPT !.alone = FALSE] ELSE handle[h]],
                  flushed \ {i})
    /\ UNCHANGED mounted

\* writeFile(): removes the file, then writes a new one, as far as it fits.
writeFile(n, b) ==
    /\ mounted /\ Removable(n) /\ Unused # {}
    /\ LET gone == Freed(content, [tree EXCEPT ![n] = None], handle)
           room == Capacity - Used(gone)
       IN  Become([tree EXCEPT ![n] = Fresh],
                  [content EXCEPT ![Fresh] = SubSeq(b, 1, IF Len(b) < room THEN Len(b) ELSE room)],
                  [durable EXCEPT ![Fresh] = <<>>],
                  handle, flushed \ {Fresh})
    /\ UNCHANGED mounted

\* Its open fails after the remove and it answers 0. Of a file that is open the
\* libraries refuse both.
writeFileFails(n) == Remove(n)

---------------------------------------------------------------------------
(* Power on and off.                                                       *)

\* init()'s test file could be opened, and written, or so it seems.
Verified(opens) == opens /\ (Inits[adapter].verifies => Room >= TestLen)

Mount(reformatOnFail) ==
    /\ ~mounted /\ mounted' = TRUE
    /\ \E opens \in BOOLEAN :
        IF reformatOnFail /\ ~Verified(opens) /\ Inits[adapter].formats
        THEN Become([n \in Names |-> None], content, durable, handle, {})
        ELSE UNCHANGED <<adapter, files, handle, flushed>>

Closed == [h \in Handles |-> None]

\* The power goes, outside of writeFile() or in the middle of it.  What it
\* leaves fits on the medium.
PowerCut ==
    /\ mounted /\ mounted' = FALSE
    /\ \E lost \in SUBSET Linked(tree), w \in SUBSET Names :
        LET after == [i \in Inodes |-> IF i \in lost THEN durable[i] ELSE content[i]] IN
        /\ \A i \in lost : durable[i] # content[i]
        /\ w = {} \/ \E n \in Names : w = {n} /\ Removable(n)
        /\ Become([n \in Names |-> IF n \in w THEN None ELSE tree[n]],
                  after, after, Closed, flushed)
        /\ Used(content') <= Capacity

Init ==
    /\ adapter \in Drivers /\ mounted = FALSE
    /\ tree = [n \in Names |-> None]
    /\ content = [i \in Inodes |-> <<>>] /\ durable = content
    /\ handle = Closed
    /\ flushed = {}

Next ==
    \/ \E n \in Names, mode \in Modes :
        \/ \E h \in Handles : Open(h, n, mode)
        \/ OpenFails(n, mode)
    \/ \E h \in Opened :
        \/ ReadByte(h)
        \/ \E k \in 1..Capacity : Read(h, k)
        \/ \E b \in Bytes : Write(h, <<b>>) \/ BufferedWrite(h, <<b>>)
        \/ \E p \in 0..MaxPos, mode \in {"SeekModeSet", "SeekModeCur", "SeekModeEnd"} :
            Seek(h, p, mode)
        \/ SeekFails(h)
        \/ Flush(h)
        \/ Close(h)
    \/ \E n \in Names :
        \/ Remove(n)
        \/ \E m \in Names : Rename(n, m)
        \/ \E b \in Bytes : writeFile(n, <<b, b>>)
        \/ writeFileFails(n)
    \/ \E reformatOnFail \in BOOLEAN : Mount(reformatOnFail)
    \/ PowerCut

Spec == Init /\ [][Next]_vars

=============================================================================
