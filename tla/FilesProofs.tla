----------------------------- MODULE FilesProofs -----------------------------
(***************************************************************************)
(* Theorems about Files for every value of its constants: any number of    *)
(* names, files and handles, every adapter, any capacity.                  *)
(***************************************************************************)
EXTENDS FilesProperties, FiniteSetTheorems, WellFoundedInduction, TLAPS

\* A handle has the fields of NewImpl.
HasFields(r) ==
    DOMAIN r = {"ino", "can", "pos", "pending", "available", "alone", "version"}

\* A handle is on a file; only a writer of a buffering adapter has bytes that
\* are not in it, and only a reader vouches for what it holds.
HandleOK(r) ==
    /\ HasFields(r)
    /\ r.ino \in Inodes
    /\ r.pending # <<>> => "writes" \in r.can /\ Driver.buffers
    /\ r.version # None => "writes" \notin r.can

Reads(r, c) == r.version # None => c[r.ino] = r.version

OnInodes(c) == c = [i \in Inodes |-> c[i]]

\* What has been flushed is on the medium.
OnMedium(c, d, f) == adapter # "Stdio" => \A i \in f : d[i] = c[i]

IInv ==
    /\ adapter \in Adapters
    /\ tree \in [Names -> Inodes \cup {None}]
    /\ OnInodes(content) /\ OnInodes(durable)
    /\ handle = [h \in Handles |-> handle[h]]
    /\ \A h \in Opened : HandleOK(handle[h]) /\ Reads(handle[h], content)
    /\ flushed \subseteq Inodes
    /\ OnMedium(content, durable, flushed)

---------------------------------------------------------------------------
(* What the steps are built from                                           *)

Less == {ss \in Nat \X Nat : ss[1] < ss[2]}

\* open() and writeFile() create a file that nothing refers to.
LEMMA FreshUnused ==
    ASSUME Unused # {}
    PROVE  Fresh \in Inodes /\ Fresh \notin Live(tree, handle)
<1>1. Unused \subseteq Inodes /\ Inodes \subseteq Nat
  BY FilesParameters DEF Unused
<1>2. PICK i \in Unused : \A j \in Unused : ~ (<<j, i>> \in Less)
  <2>1. IsWellFoundedOn(Less, Nat)
    BY NatLessThanWellFounded DEF OpToRel, Less
  <2> QED BY <1>1, <2>1, WFMin
<1>3. ASSUME NEW j \in Unused PROVE i <= j
  <2>1. i \in Nat /\ j \in Nat
    BY <1>1
  <2>2. ~ (j < i)
    BY <1>2, <2>1 DEF Less
  <2> QED BY <2>1, <2>2
<1>4. Fresh \in Unused
  BY <1>3 DEF Fresh
<1> QED BY <1>4 DEF Unused

\* Names and handles refer to files of the medium.
LEMMA LiveInodes == IInv => Live(tree, handle) \subseteq Inodes
BY DEF IInv, Live, Linked, Opened, HandleOK

\* An adapter other than StdioFileSystem writes to the file and syncs it.
LEMMA DriverFacts ==
    ASSUME adapter \in Adapters, adapter # "Stdio"
    PROVE  Driver.syncs /\ ~ Driver.buffers
BY DEF Adapters, Driver, FileImpls, PosixFile, StdioFile, LittleFSFile, SPIFFSFile,
       SDFile, FlashFSFile, InternalFSFile

\* A step that leaves files and handles in order keeps the invariant: the
\* files that are freed are neither open nor flushed.
LEMMA BecomeKeeps ==
    ASSUME IInv, NEW t \in [Names -> Inodes \cup {None}],
           NEW c, OnInodes(c), NEW d, OnInodes(d),
           NEW hs, hs = [h \in Handles |-> hs[h]],
           \A h \in Handles : hs[h] # None => HandleOK(hs[h]) /\ Reads(hs[h], c),
           NEW f \in SUBSET Inodes, OnMedium(c, d, f),
           Become(t, c, d, hs, f)
    PROVE  IInv'
<1>1. /\ tree' = t /\ handle' = hs /\ adapter' = adapter
      /\ content' = Freed(c, t, hs) /\ durable' = Freed(d, t, hs)
      /\ flushed' = f \cap Live(t, hs)
  BY DEF Become
<1>2. \A i \in Inodes \cap Live(t, hs) : content'[i] = c[i] /\ durable'[i] = d[i]
  BY <1>1 DEF Freed
<1>3. OnInodes(content)' /\ OnInodes(durable)'
  BY <1>1 DEF Freed, OnInodes
<1>4. ASSUME NEW h \in Handles, hs[h] # None
      PROVE  HandleOK(handle[h])' /\ Reads(handle[h], content)'
  <2>1. HandleOK(hs[h]) /\ Reads(hs[h], c)
    BY <1>4
  <2>2. hs[h].ino \in Inodes \cap Live(t, hs)
    BY <2>1, <1>4 DEF HandleOK, Live
  <2>3. HandleOK(handle[h])'
    BY <2>1, <1>1 DEF HandleOK, HasFields, Driver
  <2> QED BY <2>1, <2>2, <2>3, <1>1, <1>2 DEF Reads
<1>5. (\A h \in Opened : HandleOK(handle[h]) /\ Reads(handle[h], content))'
  BY <1>1, <1>4 DEF Opened
<1>6. OnMedium(content, durable, flushed)'
  BY <1>1, <1>2 DEF OnMedium
<1>7. adapter' \in Adapters /\ flushed' \subseteq Inodes
      /\ tree' \in [Names -> Inodes \cup {None}]
      /\ handle' = [h \in Handles |-> handle'[h]]
  BY <1>1 DEF IInv
<1> QED BY <1>3, <1>5, <1>6, <1>7 DEF IInv

\* A handle that stops vouching for its file is still a handle.
LEMMA Forgets ==
    ASSUME NEW r, HandleOK(r)
    PROVE  LET s == [r EXCEPT !.alone = FALSE, !.version = None]
           IN  HandleOK(s) /\ s.version = None
<1> DEFINE s == [r EXCEPT !.alone = FALSE, !.version = None]
<1>1. /\ DOMAIN s = DOMAIN r
      /\ s.ino = r.ino /\ s.can = r.can /\ s.pending = r.pending /\ s.version = None
  BY DEF HandleOK, HasFields
<1> QED BY <1>1 DEF HandleOK, HasFields

\* q is handle r moved, with another counter, or with its buffer written.
Moved(q, r) ==
    /\ DOMAIN q = DOMAIN r
    /\ q.ino = r.ino /\ q.can = r.can /\ q.version = r.version
    /\ q.pending = r.pending \/ q.pending = <<>>

\* A handle that was moved is still a handle.
LEMMA MovedOK ==
    ASSUME NEW r, HandleOK(r), NEW q, Moved(q, r)
    PROVE  HandleOK(q) /\ q.version = r.version /\ q.ino = r.ino
BY DEF HandleOK, HasFields, Moved

\* Other handles stay in order when h writes to file i: they no longer vouch
\* for it.
LEMMA SharedKeeps ==
    ASSUME IInv, NEW h, NEW i, NEW c,
           \A j \in Live(tree, handle) \ {i} : c[j] = content[j],
           NEW g \in Handles \ {h}, Shared(handle, h, i)[g] # None
    PROVE  HandleOK(Shared(handle, h, i)[g]) /\ Reads(Shared(handle, h, i)[g], c)
<1>1. CASE g \in OpenAt(i)
  <2>1. HandleOK(handle[g])
    BY <1>1 DEF IInv, OpenAt
  <2>2. Shared(handle, h, i)[g] = [handle[g] EXCEPT !.alone = FALSE, !.version = None]
    BY <1>1 DEF Shared
  <2> QED BY <2>1, <2>2, Forgets DEF Reads
<1>2. CASE g \notin OpenAt(i)
  <2>1. Shared(handle, h, i)[g] = handle[g]
    BY <1>2 DEF Shared
  <2>2. g \in Opened /\ handle[g].ino # i
    BY <2>1, <1>2 DEF Opened, OpenAt
  <2>3. HandleOK(handle[g]) /\ Reads(handle[g], content)
    BY <2>2 DEF IInv
  <2>4. handle[g].ino \in Live(tree, handle)
    BY <2>2 DEF Live, Opened
  <2> QED BY <2>1, <2>2, <2>3, <2>4 DEF Reads
<1> QED BY <1>1, <1>2

\* A call of handle h that may write to file i.
LEMMA HandleStep ==
    ASSUME IInv, NEW h \in Handles, NEW i,
           NEW t \in [Names -> Inodes \cup {None}],
           NEW c, OnInodes(c), \A j \in Live(tree, handle) \ {i} : c[j] = content[j],
           NEW d, OnInodes(d),
           NEW hs, hs = [g \in Handles |-> hs[g]],
           \A g \in Handles \ {h} : hs[g] = Shared(handle, h, i)[g],
           hs[h] # None => HandleOK(hs[h]) /\ Reads(hs[h], c),
           NEW f \in SUBSET Inodes, OnMedium(c, d, f),
           Become(t, c, d, hs, f)
    PROVE  IInv'
<1>1. ASSUME NEW g \in Handles, hs[g] # None
      PROVE  HandleOK(hs[g]) /\ Reads(hs[g], c)
  BY <1>1, SharedKeeps
<1> QED BY <1>1, BecomeKeeps

\* A call that reads.
LEMMA ReadStep ==
    ASSUME IInv, NEW h \in Opened, Moved(handle'[h], handle[h]),
           handle' = [g \in Handles |-> handle'[g]],
           \A g \in Handles \ {h} : handle'[g] = handle[g],
           UNCHANGED <<adapter, mounted, files, flushed>>
    PROVE  IInv'
<1>1. ASSUME NEW g \in Handles, handle'[g] # None
      PROVE  HandleOK(handle'[g]) /\ Reads(handle'[g], content)
  <2>1. CASE g = h
    <3>1. HandleOK(handle[h]) /\ Reads(handle[h], content)
      BY DEF IInv
    <3>2. PICK q : q = handle'[g]
      OBVIOUS
    <3>3. HandleOK(q) /\ q.version = handle[h].version /\ q.ino = handle[h].ino
      BY <2>1, <3>1, <3>2, MovedOK
    <3> QED BY <3>1, <3>2, <3>3 DEF Reads
  <2>2. CASE g # h
    BY <1>1, <2>2 DEF IInv, Opened
  <2> QED BY <2>1, <2>2
<1>2. (\A g \in Opened : HandleOK(handle[g]) /\ Reads(handle[g], content))'
  BY <1>1 DEF files, Opened, HandleOK, Driver, Reads
<1> QED BY <1>2 DEF IInv, files, OnInodes, OnMedium

---------------------------------------------------------------------------
(* What C's library writes                                                 *)

\* Only StdioFileSystem has a buffer to write.
LEMMA WrittenFacts ==
    ASSUME IInv, NEW h \in Opened
    PROVE  /\ OnInodes(Written(h))
           /\ \A j \in Inodes \ {handle[h].ino} : Written(h)[j] = content[j]
           /\ handle[h].pending = <<>> => Written(h) = content
           /\ adapter # "Stdio" => handle[h].pending = <<>>
           /\ handle[h].version # None => handle[h].pending = <<>>
<1>1. HandleOK(handle[h])
  BY DEF IInv
<1>2. OnInodes(content)
  BY DEF IInv
<1>3. OnInodes(Written(h)) /\ \A j \in Inodes \ {handle[h].ino} : Written(h)[j] = content[j]
  BY <1>1, <1>2 DEF Written, OnInodes, HandleOK
<1>4. handle[h].pending = <<>> => Written(h) = content
  BY <1>1, <1>2 DEF Written, OnInodes
<1>5. adapter # "Stdio" => handle[h].pending = <<>>
  BY <1>1, DriverFacts DEF HandleOK, IInv
<1> QED BY <1>1, <1>3, <1>4, <1>5 DEF HandleOK

\* The handle keeps its file and what it may do.
LEMMA EmptiedFacts ==
    ASSUME NEW r, HandleOK(r)
    PROVE  Moved(Emptied(r), r)
<1> DEFINE p == Start(r) + Len(Fit(r, r.pending))
<1> HIDE DEF p
<1>1. Moved([r EXCEPT !.pos = p, !.pending = <<>>], r)
  BY DEF Moved, HandleOK, HasFields
<1> QED BY <1>1 DEF Emptied, Moved, p

\* seek(), flush() and close() write the buffer first.
LEMMA DrainStep ==
    ASSUME IInv, NEW h \in Opened, NEW q,
           q = None \/ Moved(q, handle[h]),
           NEW d, OnInodes(d), NEW f \in SUBSET Inodes, OnMedium(content, d, f),
           Become(tree, Written(h), d, Drained(h, q), f)
    PROVE  IInv'
<1> DEFINE c == Written(h)
           hs == Drained(h, q)
           i == IF handle[h].pending = <<>> THEN None ELSE handle[h].ino
<1>1. h \in Handles /\ tree \in [Names -> Inodes \cup {None}]
  BY DEF IInv, Opened
<1>2. HandleOK(handle[h]) /\ Reads(handle[h], content)
  BY DEF IInv
<1>3. OnInodes(c) /\ \A j \in Live(tree, handle) \ {i} : c[j] = content[j]
  BY <1>1, LiveInodes, WrittenFacts
<1>4. hs = [g \in Handles |-> hs[g]] /\ hs[h] = q
      /\ \A g \in Handles \ {h} : hs[g] = Shared(handle, h, i)[g]
  BY <1>1 DEF Drained, Shared
<1>5. q # None => HandleOK(q) /\ Reads(q, c)
  BY <1>2, WrittenFacts, MovedOK DEF Reads
<1>6. OnMedium(c, d, f)
  BY WrittenFacts DEF OnMedium
<1>7. Become(tree, c, d, hs, f)
  OBVIOUS
<1> HIDE DEF c, hs, i
<1> QED BY <1>1, <1>3, <1>4, <1>5, <1>6, <1>7, HandleStep

---------------------------------------------------------------------------
(* One lemma per call                                                      *)

\* open(): a file is created, truncated or taken as it is.
LEMMA OpenKeeps ==
    ASSUME IInv, NEW h \in Handles, NEW n \in Names, NEW mode \in Modes, Open(h, n, mode)
    PROVE  IInv'
<1> DEFINE can == Opens[adapter][mode]
           new == tree[n] = None \/ "removes" \in can
           i == IF new THEN Fresh ELSE tree[n]
           s == IF new \/ "truncates" \in can THEN <<>> ELSE content[i]
           t == [tree EXCEPT ![n] = i]
           c == [content EXCEPT ![i] = s]
           d == IF new THEN [durable EXCEPT ![i] = <<>>] ELSE durable
           w == IF "truncates" \in can THEN i ELSE None
           hs == [Shared(handle, h, w) EXCEPT ![h] = NewImpl(i, can, s)]
           f == IF new \/ "truncates" \in can THEN flushed \ {i} ELSE flushed
<1>1. handle[h] = None /\ (new => Unused # {}) /\ Become(t, c, d, hs, f)
  BY DEF Open
<1>2. i \in Inodes /\ (new => i \notin Live(tree, handle))
  BY <1>1, FreshUnused DEF IInv
<1>3. t \in [Names -> Inodes \cup {None}]
  BY <1>2 DEF IInv
<1>4. OnInodes(c) /\ OnInodes(d) /\ c[i] = s /\ \A j \in Inodes \ {i} : c[j] = content[j]
  BY <1>2 DEF IInv, OnInodes
<1>5. (~ new /\ "truncates" \notin can) => c = content
  BY <1>2 DEF IInv, OnInodes
<1>6. f \in SUBSET Inodes /\ OnMedium(c, d, f)
  BY <1>4, <1>5 DEF IInv, OnMedium, OnInodes
<1>7. HandleOK(NewImpl(i, can, s)) /\ Reads(NewImpl(i, can, s), c)
  BY <1>2, <1>4 DEF NewImpl, HandleOK, HasFields, Reads
<1> HIDE DEF can, new, i, s, t, c, d, w, hs, f
<1>8. hs = [g \in Handles |-> hs[g]] /\ hs[h] = NewImpl(i, can, s)
      /\ \A g \in Handles \ {h} : hs[g] = Shared(handle, h, w)[g]
  BY DEF hs, Shared
<1>9. \A j \in Live(tree, handle) \ {w} : c[j] = content[j]
  <2>1. CASE new
    BY <2>1, <1>2, <1>4, LiveInodes
  <2>2. CASE ~ new /\ "truncates" \in can
    BY <2>2, <1>4, LiveInodes DEF w
  <2>3. CASE ~ new /\ "truncates" \notin can
    BY <2>3, <1>5
  <2> QED BY <2>1, <2>2, <2>3
<1> QED BY <1>1, <1>3, <1>4, <1>6, <1>7, <1>8, <1>9, HandleStep

\* read() of a byte changes the position only.
LEMMA ReadByteKeeps ==
    ASSUME IInv, NEW h \in Opened, ReadByte(h)
    PROVE  IInv'
<1>1. HandleOK(handle[h]) /\ h \in Handles /\ handle = [g \in Handles |-> handle[g]]
  BY DEF IInv, Opened
<1>2. /\ Moved(handle'[h], handle[h])
      /\ handle' = [g \in Handles |-> handle'[g]]
      /\ \A g \in Handles \ {h} : handle'[g] = handle[g]
  BY <1>1 DEF ReadByte, Moved, HandleOK, HasFields
<1> QED BY <1>2, ReadStep DEF ReadByte

\* read() into a buffer changes the position only.
LEMMA ReadKeeps ==
    ASSUME IInv, NEW h \in Opened, NEW k, Read(h, k)
    PROVE  IInv'
<1>1. HandleOK(handle[h]) /\ h \in Handles /\ handle = [g \in Handles |-> handle[g]]
  BY DEF IInv, Opened
<1>2. /\ Moved(handle'[h], handle[h])
      /\ handle' = [g \in Handles |-> handle'[g]]
      /\ \A g \in Handles \ {h} : handle'[g] = handle[g]
  BY <1>1 DEF Read, Moved, HandleOK, HasFields
<1> QED BY <1>2, ReadStep DEF Read

\* write() to the file: readers of it stop vouching for it.
LEMMA WriteKeeps ==
    ASSUME IInv, NEW h \in Opened, NEW b, Write(h, b)
    PROVE  IInv'
<1> DEFINE r == handle[h]
           i == r.ino
           s == Stored(r, b)
           len == Len(Fit(r, b))
           p == Start(r) + len
           c == [content EXCEPT ![i] = s]
           hs0 == [handle EXCEPT ![h].pos = p,
                     ![h].available = IF Driver.counts THEN Counted(@, len) ELSE @]
           hs == Shared(hs0, h, i)
<1>1. "writes" \in r.can /\ Become(tree, c, durable, hs, flushed \ {i})
  BY DEF Write
<1>2. HandleOK(r) /\ h \in Handles /\ handle = [g \in Handles |-> handle[g]]
  BY DEF IInv, Opened
<1>3. i \in Inodes /\ r.version = None
  BY <1>1, <1>2 DEF HandleOK
<1>4. OnInodes(c) /\ \A j \in Live(tree, handle) \ {i} : c[j] = content[j]
  BY <1>3, LiveInodes DEF IInv, OnInodes
<1>5. OnMedium(c, durable, flushed \ {i})
  BY <1>3 DEF IInv, OnMedium, OnInodes
<1> HIDE DEF s, len, p, c
<1>6. Moved(hs0[h], r) /\ \A g \in Handles \ {h} : hs0[g] = handle[g]
  BY <1>2 DEF Moved, HandleOK, HasFields
<1> HIDE DEF hs0
<1>7. /\ hs = [g \in Handles |-> hs[g]] /\ hs[h] = hs0[h]
      /\ \A g \in Handles \ {h} : hs[g] = Shared(handle, h, i)[g]
  BY <1>2, <1>6 DEF Shared
<1>8. HandleOK(hs[h]) /\ Reads(hs[h], c)
  BY <1>2, <1>3, <1>6, <1>7, MovedOK DEF Reads
<1> HIDE DEF hs, r
<1> QED BY <1>1, <1>2, <1>4, <1>5, <1>7, <1>8, HandleStep DEF IInv

\* write() of StdioFileSystem stays in the buffer.
LEMMA BufferedWriteKeeps ==
    ASSUME IInv, NEW h \in Opened, NEW b, BufferedWrite(h, b)
    PROVE  IInv'
<1> DEFINE r == handle[h]
           i == r.ino
           hs0 == [handle EXCEPT ![h].pending = @ \o b,
                                 ![h].available = Counted(@, Len(b))]
           hs == Shared(hs0, h, i)
<1>1. /\ "writes" \in r.can /\ Driver.buffers
      /\ Become(tree, content, durable, hs, flushed \ {i})
  BY DEF BufferedWrite
<1>2. HandleOK(r) /\ h \in Handles /\ handle = [g \in Handles |-> handle[g]]
  BY DEF IInv, Opened
<1>3. i \in Inodes /\ r.version = None
  BY <1>1, <1>2 DEF HandleOK
<1>4. /\ DOMAIN hs0[h] = DOMAIN r /\ hs0[h].ino = i /\ hs0[h].can = r.can
      /\ hs0[h].version = None
      /\ \A g \in Handles \ {h} : hs0[g] = handle[g]
  BY <1>2, <1>3 DEF HandleOK, HasFields
<1> HIDE DEF hs0
<1>5. /\ hs = [g \in Handles |-> hs[g]] /\ hs[h] = hs0[h]
      /\ \A g \in Handles \ {h} : hs[g] = Shared(handle, h, i)[g]
  BY <1>2, <1>4 DEF Shared
<1>6. HandleOK(hs[h]) /\ Reads(hs[h], content)
  BY <1>1, <1>2, <1>4, <1>5 DEF Reads, HandleOK, HasFields
<1>7. OnMedium(content, durable, flushed \ {i})
  BY DEF IInv, OnMedium
<1> HIDE DEF hs, r
<1> QED BY <1>1, <1>2, <1>5, <1>6, <1>7, HandleStep DEF IInv

\* seek() writes the buffer, then moves the handle.
LEMMA SeekKeeps ==
    ASSUME IInv, NEW h \in Opened, NEW p, NEW mode, Seek(h, p, mode)
    PROVE  IInv'
<1> DEFINE r == Emptied(handle[h])
           size == Len(Written(h)[r.ino])
           target == SeekTarget(r, size, p, mode)
           n == IF Driver.counts THEN Ahead(size, target) ELSE r.available
           q == [r EXCEPT !.pos = target, !.alone = TRUE,
                          !.available = IF Driver.counts THEN Ahead(size, target) ELSE @]
<1>1. Become(tree, Written(h), durable, Drained(h, q), flushed)
  BY DEF Seek
<1>2. Moved(r, handle[h]) /\ HandleOK(handle[h])
  BY EmptiedFacts DEF IInv
<1> HIDE DEF r, size, target
<1>3. Moved(q, handle[h])
  BY <1>2 DEF Moved, HandleOK, HasFields
<1> HIDE DEF q
<1> QED BY <1>1, <1>3, DrainStep DEF IInv

\* A seek that fails has written the buffer.
LEMMA SeekFailsKeeps ==
    ASSUME IInv, NEW h \in Opened, SeekFails(h)
    PROVE  IInv'
<1> DEFINE r == Emptied(handle[h])
<1>1. Become(tree, Written(h), durable, Drained(h, r), flushed)
  BY DEF SeekFails
<1>2. Moved(r, handle[h])
  BY EmptiedFacts DEF IInv
<1> HIDE DEF r
<1> QED BY <1>1, <1>2, DrainStep DEF IInv

\* flush() writes the buffer and syncs the file.
LEMMA FlushKeeps ==
    ASSUME IInv, NEW h \in Opened, Flush(h)
    PROVE  IInv'
<1> DEFINE i == handle[h].ino
           d == IF Driver.syncs THEN [durable EXCEPT ![i] = content[i]] ELSE durable
           f == IF Driver.syncs THEN flushed \cup {i} ELSE flushed
<1>1. Become(tree, Written(h), d, Drained(h, Emptied(handle[h])), f)
  BY DEF Flush
<1>2. i \in Inodes /\ Moved(Emptied(handle[h]), handle[h])
  BY EmptiedFacts DEF IInv, HandleOK
<1>3. OnInodes(d) /\ f \in SUBSET Inodes
  BY <1>2 DEF IInv, OnInodes
<1>4. OnMedium(content, d, f)
  BY <1>2, DriverFacts DEF IInv, OnMedium, OnInodes
<1> HIDE DEF d, f
<1> QED BY <1>1, <1>2, <1>3, <1>4, DrainStep

\* close() writes the buffer and gives the handle up.
LEMMA CloseKeeps ==
    ASSUME IInv, NEW h \in Opened, Close(h)
    PROVE  IInv'
<1>1. Become(tree, Written(h), durable, Drained(h, None), flushed)
  BY DEF Close
<1> QED BY <1>1, DrainStep DEF IInv

\* remove(), rename() and an open() that fails only change names.
LEMMA NamesStep ==
    ASSUME IInv, NEW t \in [Names -> Inodes \cup {None}],
           Become(t, content, durable, handle, flushed)
    PROVE  IInv'
<1>1. \A h \in Handles : handle[h] # None =>
        HandleOK(handle[h]) /\ Reads(handle[h], content)
  BY DEF IInv, Opened
<1> QED BY <1>1, BecomeKeeps DEF IInv

\* remove(), rename() and a failing open().
LEMMA NamesKeep ==
    ASSUME IInv, NEW n \in Names,
           \/ Remove(n)
           \/ \E m \in Names : Rename(n, m)
           \/ \E mode \in Modes : OpenFails(n, mode)
    PROVE  IInv'
<1>1. tree \in [Names -> Inodes \cup {None}]
  BY DEF IInv
<1>2. CASE Remove(n)
  BY <1>1, <1>2, NamesStep DEF Remove
<1>3. CASE \E m \in Names : Rename(n, m)
  BY <1>1, <1>3, NamesStep DEF Rename
<1>4. CASE \E mode \in Modes : OpenFails(n, mode)
  BY <1>1, <1>4, NamesStep DEF OpenFails
<1> QED BY <1>2, <1>3, <1>4

\* writeFile() fills a new file; the old one goes on for its readers.
LEMMA WriteFileKeeps ==
    ASSUME IInv, NEW n \in Names, NEW b, writeFile(n, b)
    PROVE  IInv'
<1> DEFINE gone == Freed(content, [tree EXCEPT ![n] = None], handle)
           room == Capacity - Used(gone)
           s == SubSeq(b, 1, IF Len(b) < room THEN Len(b) ELSE room)
           t == [tree EXCEPT ![n] = Fresh]
           c == [content EXCEPT ![Fresh] = s]
           d == [durable EXCEPT ![Fresh] = <<>>]
           f == flushed \ {Fresh}
<1>1. Unused # {} /\ Become(t, c, d, handle, f)
  BY DEF writeFile
<1> HIDE DEF s
<1>2. Fresh \in Inodes /\ Fresh \notin Live(tree, handle)
  BY <1>1, FreshUnused
<1>3. t \in [Names -> Inodes \cup {None}]
  BY <1>2 DEF IInv
<1>4. OnInodes(c) /\ OnInodes(d) /\ \A j \in Inodes \ {Fresh} : c[j] = content[j] /\ d[j] = durable[j]
  BY <1>2 DEF IInv, OnInodes
<1>5. OnMedium(c, d, f) /\ f \in SUBSET Inodes
  BY <1>4 DEF IInv, OnMedium
<1> HIDE DEF c
<1>6. ASSUME NEW h \in Handles, handle[h] # None
      PROVE  HandleOK(handle[h]) /\ Reads(handle[h], c)
  <2>1. HandleOK(handle[h]) /\ Reads(handle[h], content)
    BY <1>6 DEF IInv, Opened
  <2>2. handle[h].ino \in Live(tree, handle)
    BY <1>6 DEF Live
  <2>3. c[handle[h].ino] = content[handle[h].ino]
    BY <2>2, <1>2, <1>4, LiveInodes
  <2> QED BY <2>1, <2>3 DEF Reads
<1> HIDE DEF t, d, f
<1> QED BY <1>1, <1>3, <1>4, <1>5, <1>6, BecomeKeeps DEF IInv

\* init(): all files stay, or all go.
LEMMA MountKeeps ==
    ASSUME IInv, NEW reformatOnFail, Mount(reformatOnFail)
    PROVE  IInv'
<1>1. CASE UNCHANGED <<adapter, files, handle, flushed>>
  BY <1>1 DEF IInv, files, Opened, HandleOK, Driver, Reads, OnInodes, OnMedium
<1>2. CASE Become([n \in Names |-> None], content, durable, handle, {})
  <2>1. \A h \in Handles : handle[h] # None =>
          HandleOK(handle[h]) /\ Reads(handle[h], content)
    BY DEF IInv, Opened
  <2>2. OnMedium(content, durable, {})
    BY DEF OnMedium
  <2>3. [n \in Names |-> None] \in [Names -> Inodes \cup {None}]
    OBVIOUS
  <2> QED BY <1>2, <2>1, <2>2, <2>3, BecomeKeeps DEF IInv
<1> QED BY <1>1, <1>2 DEF Mount

\* What a power cut leaves of a file.
After(lost) == [i \in Inodes |-> IF i \in lost THEN durable[i] ELSE content[i]]

\* A power cut: no handle is left, and what was flushed is.
LEMMA PowerCutKeeps ==
    ASSUME IInv, PowerCut
    PROVE  IInv'
<1>1. PICK lost \in SUBSET Linked(tree), w \in SUBSET Names :
        Become([n \in Names |-> IF n \in w THEN None ELSE tree[n]],
               After(lost), After(lost), Closed, flushed)
  BY DEF PowerCut, After
<1> DEFINE t == [n \in Names |-> IF n \in w THEN None ELSE tree[n]]
           a == After(lost)
<1>2. t \in [Names -> Inodes \cup {None}]
  BY DEF IInv
<1>3. OnInodes(a) /\ OnMedium(a, a, flushed)
  BY DEF After, OnInodes, OnMedium
<1>4. Closed = [h \in Handles |-> Closed[h]] /\ \A h \in Handles : Closed[h] = None
  BY DEF Closed
<1> HIDE DEF t, a
<1>5. Become(t, a, a, Closed, flushed)
  BY <1>1 DEF t, a
<1> QED BY <1>2, <1>3, <1>4, <1>5, BecomeKeeps DEF IInv

---------------------------------------------------------------------------
(* What the files take up together                                         *)

\* A set of numbers that has 0 and every successor has them all.
LEMMA AllNumbers ==
    ASSUME NEW S, 0 \in S, \A n \in Nat : n \in S => n + 1 \in S
    PROVE  Nat \subseteq S
<1> SUFFICES ASSUME Nat \ S # {} PROVE FALSE
  OBVIOUS
<1>1. PICK m \in Nat \ S : \A n \in Nat \ S : ~ (<<n, m>> \in Less)
  <2>1. IsWellFoundedOn(Less, Nat)
    BY NatLessThanWellFounded DEF OpToRel, Less
  <2> QED BY <2>1, WFMin
<1>2. m - 1 \in Nat /\ m - 1 < m
  OBVIOUS
<1>3. m - 1 \in S
  BY <1>1, <1>2 DEF Less
<1> QED BY <1>2, <1>3

Texts == Seq(Bytes \cup {Zero})
Contents == [Inodes -> Texts]

\* One of them, the rest, and what Used adds up.
One(T) == CHOOSE x \in T : TRUE
Rest1(T) == T \ {One(T)}
Adds(c, g) == g = [T \in SUBSET DOMAIN c |->
                     IF T = {} THEN 0 ELSE Len(c[One(T)]) + g[Rest1(T)]]

\* A set of files is empty, or has one more than the rest of it.
LEMMA OneLess ==
    ASSUME NEW T \in SUBSET Inodes, T # {}
    PROVE  /\ One(T) \in T /\ Rest1(T) \in SUBSET Inodes
           /\ Cardinality(T) \in Nat /\ Cardinality(Rest1(T)) \in Nat
           /\ Cardinality(Rest1(T)) = Cardinality(T) - 1
<1>1. One(T) \in T
  BY DEF One
<1>2. IsFiniteSet(T)
  BY FilesParameters, FS_Subset
<1>3. Cardinality(T) \in Nat /\ Cardinality(Rest1(T)) = Cardinality(T) - 1
      /\ IsFiniteSet(Rest1(T))
  BY <1>1, <1>2, FS_RemoveElement, FS_CardinalityType DEF Rest1
<1>4. Cardinality(Rest1(T)) \in Nat
  BY <1>3, FS_CardinalityType
<1> QED BY <1>1, <1>3, <1>4 DEF Rest1

\* What holds of no files, and of a set of files if it does of the rest, holds
\* of all files.
LEMMA AllFiles ==
    ASSUME NEW P, {} \in P,
           \A T \in SUBSET Inodes : T # {} /\ Rest1(T) \in P => T \in P
    PROVE  SUBSET Inodes \subseteq P
<1> DEFINE S == {n \in Nat : \A T \in SUBSET Inodes : Cardinality(T) = n => T \in P}
<1>1. 0 \in S
  <2>1. ASSUME NEW T \in SUBSET Inodes, Cardinality(T) = 0 PROVE T \in P
    BY <2>1, FilesParameters, FS_Subset, FS_EmptySet
  <2> QED BY <2>1
<1>2. ASSUME NEW n \in Nat, n \in S PROVE n + 1 \in S
  <2>1. ASSUME NEW T \in SUBSET Inodes, Cardinality(T) = n + 1 PROVE T \in P
    <3>1. T # {}
      <4>1. Cardinality({}) = 0
        BY FS_EmptySet
      <4> QED BY <4>1, <2>1
    <3>2. Rest1(T) \in SUBSET Inodes /\ Cardinality(Rest1(T)) = n
      BY <3>1, <2>1, OneLess
    <3> QED BY <3>1, <3>2, <1>2
  <2> QED BY <2>1
<1>3. Nat \subseteq S
  <2> HIDE DEF S
  <2> QED BY <1>1, <1>2, AllNumbers
<1>4. ASSUME NEW T \in SUBSET Inodes PROVE T \in P
  <2>1. Cardinality(T) \in Nat
    BY FilesParameters, FS_Subset, FS_CardinalityType
  <2> QED BY <2>1, <1>3
<1> QED BY <1>4

\* The lengths can be added up.
LEMMA Summable ==
    ASSUME NEW c \in Contents
    PROVE  \E g : Adds(c, g)
<1> DEFINE Body(g, T) == IF T = {} THEN 0 ELSE Len(c[One(T)]) + g[Rest1(T)]
           Upto(n) == \E g \in [SUBSET Inodes -> Nat] :
               \A T \in SUBSET Inodes : Cardinality(T) <= n => g[T] = Body(g, T)
           S == {n \in Nat : Upto(n)}
<1>1. 0 \in S
  <2> DEFINE g == [T \in SUBSET Inodes |-> 0]
  <2>1. ASSUME NEW T \in SUBSET Inodes, Cardinality(T) <= 0 PROVE g[T] = Body(g, T)
    <3>1. T = {}
      BY <2>1, OneLess
    <3> QED BY <3>1
  <2>2. g \in [SUBSET Inodes -> Nat]
    OBVIOUS
  <2> HIDE DEF g
  <2>3. Upto(0)
    BY <2>1, <2>2
  <2> QED BY <2>3
<1>2. ASSUME NEW n \in Nat, n \in S PROVE n + 1 \in S
  <2>1. PICK g \in [SUBSET Inodes -> Nat] :
            \A T \in SUBSET Inodes : Cardinality(T) <= n => g[T] = Body(g, T)
    BY <1>2
  <2> DEFINE f == [T \in SUBSET Inodes |->
                     IF Cardinality(T) = n + 1 THEN Body(g, T) ELSE g[T]]
  <2>2. ASSUME NEW T \in SUBSET Inodes PROVE Body(g, T) \in Nat
    <3>1. CASE T = {}
      BY <3>1
    <3>2. CASE T # {}
      <4>1. One(T) \in Inodes /\ Rest1(T) \in SUBSET Inodes
        BY <3>2, OneLess
      <4>2. Len(c[One(T)]) \in Nat
        BY <4>1 DEF Contents, Texts
      <4> QED BY <4>1, <4>2, <3>2
    <3> QED BY <3>1, <3>2
  <2>3. f \in [SUBSET Inodes -> Nat]
    <3> HIDE DEF Body
    <3> QED BY <2>2
  <2>4. ASSUME NEW T \in SUBSET Inodes, Cardinality(T) <= n + 1 PROVE f[T] = Body(f, T)
    <3>1. f[T] = Body(g, T)
      <4>1. CASE Cardinality(T) = n + 1
        BY <4>1
      <4>2. CASE Cardinality(T) # n + 1
        <5>1. Cardinality(T) \in Nat
          BY FilesParameters, FS_Subset, FS_CardinalityType
        <5>2. Cardinality(T) <= n
          BY <2>4, <4>2, <5>1
        <5> QED BY <5>2, <4>2, <2>1
      <4> QED BY <4>1, <4>2
    <3>2. CASE T = {}
      BY <3>1, <3>2
    <3>3. CASE T # {}
      <4>1. Rest1(T) \in SUBSET Inodes /\ Cardinality(Rest1(T)) # n + 1
        BY <3>3, <2>4, OneLess
      <4>2. f[Rest1(T)] = g[Rest1(T)]
        BY <4>1
      <4> QED BY <3>1, <3>3, <4>2
    <3> QED BY <3>2, <3>3
  <2> HIDE DEF f
  <2>5. Upto(n + 1)
    BY <2>3, <2>4
  <2> QED BY <2>5
<1>3. Nat \subseteq S
  <2> HIDE DEF S
  <2> QED BY <1>1, <1>2, AllNumbers
<1>4. Cardinality(Inodes) \in Nat
  BY FilesParameters, FS_CardinalityType
<1>5. PICK g \in [SUBSET Inodes -> Nat] :
          \A T \in SUBSET Inodes : Cardinality(T) <= Cardinality(Inodes) => g[T] = Body(g, T)
  BY <1>3, <1>4
<1>6. ASSUME NEW T \in SUBSET Inodes PROVE g[T] = Body(g, T)
  BY <1>5, FilesParameters, FS_Subset
<1>7. DOMAIN c = Inodes
  BY DEF Contents
<1>8. g = [T \in SUBSET Inodes |-> Body(g, T)]
  <2> HIDE DEF Body
  <2> QED BY <1>6
<1> QED BY <1>7, <1>8 DEF Adds

\* Used is the sum over all files.
LEMMA UsedAdds ==
    ASSUME NEW c \in Contents
    PROVE  \E g \in [SUBSET Inodes -> Nat] : Adds(c, g) /\ Used(c) = g[Inodes]
<1>1. DOMAIN c = Inodes
  BY DEF Contents
<1> DEFINE F == CHOOSE g : Adds(c, g)
<1>2. Used(c) = F[Inodes]
  BY <1>1 DEF Used, FoldFunction, FoldFunctionOnSet, MapThenFoldSet, Adds, One, Rest1
<1>3. Adds(c, F)
  BY Summable
<1> HIDE DEF F
<1>4. F = [T \in SUBSET Inodes |->
             IF T = {} THEN 0 ELSE Len(c[One(T)]) + F[Rest1(T)]]
  BY <1>1, <1>3 DEF Adds
<1> DEFINE P == {T \in SUBSET Inodes : F[T] \in Nat}
<1>5. {} \in P
  BY <1>4
<1>6. ASSUME NEW T \in SUBSET Inodes, T # {}, Rest1(T) \in P PROVE T \in P
  <2>1. One(T) \in Inodes
    BY <1>6, OneLess
  <2>2. Len(c[One(T)]) \in Nat
    BY <2>1 DEF Contents, Texts
  <2> QED BY <1>4, <1>6, <2>2
<1>7. SUBSET Inodes \subseteq P
  <2> HIDE DEF P
  <2> QED BY <1>5, <1>6, AllFiles
<1>8. F \in [SUBSET Inodes -> Nat]
  BY <1>4, <1>7
<1> QED BY <1>2, <1>3, <1>8

\* A file that is written adds to the medium what it has grown by.
LEMMA UsedChange ==
    ASSUME NEW c \in Contents, NEW i \in Inodes, NEW s \in Texts
    PROVE  /\ [c EXCEPT ![i] = s] \in Contents
           /\ Used(c) \in Nat /\ Used([c EXCEPT ![i] = s]) \in Nat
           /\ Used([c EXCEPT ![i] = s]) = Used(c) - Len(c[i]) + Len(s)
<1> DEFINE d == [c EXCEPT ![i] = s]
<1>1. d \in Contents /\ DOMAIN c = Inodes /\ DOMAIN d = Inodes
      /\ d[i] = s /\ \A j \in Inodes \ {i} : d[j] = c[j]
  BY DEF Contents
<1> HIDE DEF d
<1>2. PICK g \in [SUBSET Inodes -> Nat] : Adds(c, g) /\ Used(c) = g[Inodes]
  BY UsedAdds
<1>3. PICK f \in [SUBSET Inodes -> Nat] : Adds(d, f) /\ Used(d) = f[Inodes]
  BY <1>1, UsedAdds
<1>4. \A T \in SUBSET Inodes :
        /\ g[T] = IF T = {} THEN 0 ELSE Len(c[One(T)]) + g[Rest1(T)]
        /\ f[T] = IF T = {} THEN 0 ELSE Len(d[One(T)]) + f[Rest1(T)]
  BY <1>1, <1>2, <1>3 DEF Adds
<1>5. Len(c[i]) \in Nat /\ Len(s) \in Nat
  BY DEF Contents, Texts
<1> DEFINE Same(T) == f[T] = IF i \in T THEN g[T] - Len(c[i]) + Len(s) ELSE g[T]
           P == {T \in SUBSET Inodes : Same(T)}
<1>6. {} \in P
  BY <1>4
<1>7. ASSUME NEW T \in SUBSET Inodes, T # {}, Rest1(T) \in P PROVE T \in P
  <2>1. /\ One(T) \in T /\ Rest1(T) \in SUBSET Inodes
        /\ Same(Rest1(T))
    BY <1>7, OneLess
  <2>2. /\ g[T] = Len(c[One(T)]) + g[Rest1(T)]
        /\ f[T] = Len(d[One(T)]) + f[Rest1(T)]
    BY <1>4, <1>7
  <2>3. g[T] \in Nat /\ f[T] \in Nat /\ g[Rest1(T)] \in Nat /\ f[Rest1(T)] \in Nat
    BY <2>1
  <2>4. Len(c[One(T)]) \in Nat
    BY <2>1 DEF Contents, Texts
  <2>5. CASE One(T) = i
    <3>1. i \in T /\ i \notin Rest1(T)
      BY <2>1, <2>5 DEF Rest1
    <3> QED BY <3>1, <2>1, <2>2, <2>3, <2>5, <1>1, <1>5
  <2>6. CASE One(T) # i
    <3>1. i \in T <=> i \in Rest1(T)
      BY <2>6 DEF Rest1
    <3>2. d[One(T)] = c[One(T)]
      BY <1>1, <2>1, <2>6
    <3>3. CASE i \in T
      <4>1. f[Rest1(T)] = g[Rest1(T)] - Len(c[i]) + Len(s)
        BY <3>1, <3>3, <2>1
      <4>2. f[T] = g[T] - Len(c[i]) + Len(s)
        <5>1. f[T] = Len(c[One(T)]) + f[Rest1(T)]
          BY <3>2, <2>2
        <5>2. f[T] = Len(c[One(T)]) + (g[Rest1(T)] - Len(c[i]) + Len(s))
          BY <5>1, <4>1
        <5>3. \A x, y, m, n \in Nat : x + (y - m + n) = (x + y) - m + n
          OBVIOUS
        <5> QED BY <5>2, <5>3, <2>2, <2>3, <2>4, <1>5
      <4> QED BY <4>2, <3>3
    <3>4. CASE i \notin T
      BY <3>1, <3>2, <3>4, <2>1, <2>2, <2>3, <2>4
    <3> QED BY <3>3, <3>4
  <2> QED BY <2>5, <2>6
<1>8. SUBSET Inodes \subseteq P
  <2> HIDE DEF P
  <2> QED BY <1>6, <1>7, AllFiles
<1>9. Used(d) = Used(c) - Len(c[i]) + Len(s)
  BY <1>8, <1>2, <1>3
<1>10. Used(c) \in Nat /\ Used(d) \in Nat
  BY <1>2, <1>3
<1> HIDE DEF P
<1> QED BY <1>1, <1>9, <1>10 DEF d

\* Files that are no longer take no more room.
LEMMA UsedLess ==
    ASSUME NEW c \in Contents, NEW d \in Contents, \A i \in Inodes : Len(d[i]) <= Len(c[i])
    PROVE  Used(c) \in Nat /\ Used(d) \in Nat /\ Used(d) <= Used(c)
<1>1. DOMAIN c = Inodes /\ DOMAIN d = Inodes
  BY DEF Contents
<1>2. PICK g \in [SUBSET Inodes -> Nat] : Adds(c, g) /\ Used(c) = g[Inodes]
  BY UsedAdds
<1>3. PICK f \in [SUBSET Inodes -> Nat] : Adds(d, f) /\ Used(d) = f[Inodes]
  BY UsedAdds
<1>4. \A T \in SUBSET Inodes :
        /\ g[T] = IF T = {} THEN 0 ELSE Len(c[One(T)]) + g[Rest1(T)]
        /\ f[T] = IF T = {} THEN 0 ELSE Len(d[One(T)]) + f[Rest1(T)]
  BY <1>1, <1>2, <1>3 DEF Adds
<1> DEFINE P == {T \in SUBSET Inodes : f[T] <= g[T]}
<1>5. {} \in P
  <2>1. {} \in SUBSET Inodes /\ g[{}] = 0 /\ f[{}] = 0
    BY <1>4
  <2> QED BY <2>1
<1>6. ASSUME NEW T \in SUBSET Inodes, T # {}, Rest1(T) \in P PROVE T \in P
  <2>1. One(T) \in Inodes /\ Rest1(T) \in SUBSET Inodes
    BY <1>6, OneLess
  <2>2. /\ g[T] = Len(c[One(T)]) + g[Rest1(T)]
        /\ f[T] = Len(d[One(T)]) + f[Rest1(T)]
    BY <1>4, <1>6
  <2>3. Len(c[One(T)]) \in Nat /\ Len(d[One(T)]) \in Nat
    BY <2>1 DEF Contents, Texts
  <2>4. g[Rest1(T)] \in Nat /\ f[Rest1(T)] \in Nat
    BY <2>1
  <2> QED BY <1>6, <2>1, <2>2, <2>3, <2>4
<1>7. SUBSET Inodes \subseteq P
  <2> HIDE DEF P
  <2> QED BY <1>5, <1>6, AllFiles
<1> QED BY <1>2, <1>3, <1>7

\* No file is longer than all of them.
LEMMA UsedAtLeast ==
    ASSUME NEW c \in Contents, NEW i \in Inodes
    PROVE  Len(c[i]) \in Nat /\ Used(c) \in Nat /\ Len(c[i]) <= Used(c)
<1>1. <<>> \in Texts /\ Len(<<>>) = 0
  BY DEF Texts
<1>2. /\ Used(c) \in Nat /\ Used([c EXCEPT ![i] = <<>>]) \in Nat
      /\ Used([c EXCEPT ![i] = <<>>]) = Used(c) - Len(c[i]) + Len(<<>>)
  BY <1>1, UsedChange
<1>3. Len(c[i]) \in Nat
  BY DEF Contents, Texts
<1> QED BY <1>1, <1>2, <1>3

\* Freeing files makes room.
LEMMA UsedFreed ==
    ASSUME NEW c \in Contents, NEW t, NEW hs
    PROVE  /\ Freed(c, t, hs) \in Contents
           /\ Used(Freed(c, t, hs)) \in Nat /\ Used(c) \in Nat
           /\ Used(Freed(c, t, hs)) <= Used(c)
<1>1. \A i \in Inodes : c[i] \in Texts /\ Len(c[i]) \in Nat /\ <<>> \in Texts /\ Len(<<>>) = 0
  BY DEF Contents, Texts
<1>2. Freed(c, t, hs) \in Contents
  BY <1>1 DEF Freed, Contents
<1>3. \A i \in Inodes : Len(Freed(c, t, hs)[i]) <= Len(c[i])
  BY <1>1 DEF Freed
<1> QED BY <1>2, <1>3, UsedLess

---------------------------------------------------------------------------
(* How long files are, and where handles stand in them                     *)

\* The file behind a handle, less what waits in its buffer
Behind(r, c) ==
    LET n == Len(c[r.ino]) - r.pos - Len(r.pending) IN IF n > 0 THEN n ELSE 0

\* A handle stands in the file or past its end.  Of one that was alone with its
\* file the counter is what lies behind it.
Measured(r, c) ==
    /\ r.can \in {Opens[adapter][m] : m \in Modes}
    /\ r.pos \in 0..MaxPos /\ r.pending \in Texts
    /\ r.available \in 0..SizeWrap - 1
    /\ r.alone /\ "appends" \notin r.can /\ Driver.counts => r.available = Behind(r, c)

Sizes ==
    /\ adapter \in Drivers /\ mounted \in BOOLEAN
    /\ content \in Contents /\ Used(content) <= Capacity
    /\ durable \in Contents /\ \A i \in Inodes : Len(durable[i]) <= Capacity
    /\ \A h \in Opened : Measured(handle[h], content)

\* The constants, and what is left of the medium.
LEMMA RoomFacts ==
    ASSUME Sizes
    PROVE  /\ Capacity \in Nat /\ SizeWrap \in Nat /\ SizeWrap > 2 * Capacity
           /\ MaxPos \in Nat /\ Capacity <= MaxPos
           /\ Room \in 0..Capacity
           /\ \A i \in Inodes : Len(content[i]) \in Nat /\ Len(content[i]) + Room <= Capacity
<1>1. /\ Capacity \in Nat /\ SizeWrap \in Nat /\ SizeWrap > 2 * Capacity
      /\ MaxPos \in Nat /\ Capacity <= MaxPos
  BY FilesParameters
<1>2. Used(content) \in Nat /\ Used(content) <= Capacity
  <2>1. <<>> \in Texts
    BY DEF Texts
  <2>2. content \in Contents /\ Used(content) <= Capacity
    BY DEF Sizes
  <2> QED BY <2>2, UsedLess
<1>3. Room = Capacity - Used(content)
  BY DEF Room
<1>4. ASSUME NEW i \in Inodes
      PROVE  Len(content[i]) \in Nat /\ Len(content[i]) <= Used(content)
  BY UsedAtLeast DEF Sizes
<1> QED BY <1>1, <1>2, <1>3, <1>4

\* The first n bytes of b
LEMMA Prefix ==
    ASSUME NEW b \in Texts, NEW n \in 0..Len(b)
    PROVE  SubSeq(b, 1, n) \in Texts /\ Len(SubSeq(b, 1, n)) = n
<1>1. Len(b) \in Nat /\ \A k \in 1..Len(b) : b[k] \in Bytes \cup {Zero}
  BY DEF Texts
<1>2. \A k \in 1..n : k \in 1..Len(b)
  BY <1>1
<1>3. SubSeq(b, 1, n) \in Texts
  BY <1>1, <1>2 DEF Texts
<1>4. Len(SubSeq(b, 1, n)) = n
  BY <1>1 DEF Texts
<1> QED BY <1>3, <1>4

\* Bytes written over a text make a text, longer if they reach behind it.
LEMMA OverwrittenText ==
    ASSUME NEW s \in Texts, NEW p \in Nat, NEW b \in Texts
    PROVE  /\ Overwritten(s, p, b) \in Texts
           /\ Len(Overwritten(s, p, b))
                = IF Len(s) < p + Len(b) THEN p + Len(b) ELSE Len(s)
<1> DEFINE n == IF Len(s) < p + Len(b) THEN p + Len(b) ELSE Len(s)
           v(k) == CASE k > p /\ k <= p + Len(b) -> b[k - p]
                     [] k > Len(s) /\ k <= p -> Zero
                     [] OTHER -> s[k]
<1>1. Len(s) \in Nat /\ Len(b) \in Nat /\ n \in Nat
  BY DEF Texts
<1>2. Overwritten(s, p, b) = [k \in 1..n |-> v(k)]
  BY DEF Overwritten
<1>3. ASSUME NEW k \in 1..n PROVE v(k) \in Bytes \cup {Zero}
  <2>1. CASE k > p /\ k <= p + Len(b)
    <3>1. k - p \in 1..Len(b)
      BY <1>1, <2>1
    <3> QED BY <3>1, <2>1 DEF Texts
  <2>2. CASE k > Len(s) /\ k <= p
    BY <2>2
  <2>3. CASE ~ (k > p /\ k <= p + Len(b)) /\ ~ (k > Len(s) /\ k <= p)
    <3>1. k \in 1..Len(s)
      BY <1>1, <2>3
    <3> QED BY <3>1, <2>3 DEF Texts
  <2> QED BY <2>1, <2>2, <2>3
<1> HIDE DEF v
<1>4. [k \in 1..n |-> v(k)] \in [1..n -> Bytes \cup {Zero}]
  BY <1>3
<1> DEFINE q == [k \in 1..n |-> v(k)]
<1>5. q \in [1..n -> Bytes \cup {Zero}]
  BY <1>4
<1> HIDE DEF q
<1>6. q \in Seq(Bytes \cup {Zero}) /\ Len(q) = n
  <2> HIDE DEF n
  <2> QED BY <1>1, <1>5
<1> QED BY <1>2, <1>6 DEF Texts, q

\* What a write stores fits on the medium, and is cut short only behind the
\* end of the file.
LEMMA StoredFacts ==
    ASSUME Sizes, NEW r, r.ino \in Inodes, r.pos \in 0..MaxPos, NEW b \in Texts
    PROVE  LET k == Len(Fit(r, b))
               len == Len(content[r.ino])
           IN  /\ Stored(r, b) \in Texts
               /\ k \in 0..Len(b) /\ len \in Nat /\ Len(b) \in Nat
               /\ Start(r) \in 0..MaxPos /\ Start(r) + k \in 0..MaxPos
               /\ Len(Stored(r, b))
                    = IF k = 0 \/ Start(r) + k <= len THEN len ELSE Start(r) + k
               /\ Len(Stored(r, b)) <= len + Room
               /\ k < Len(b) => Start(r) + k >= len
<1> DEFINE k == Len(Fit(r, b))
           len == Len(content[r.ino])
           start == Start(r)
           more == start + Len(b) - len
           n == IF more <= Room THEN Len(b)
                ELSE IF more - Room < Len(b) THEN Len(b) - more + Room ELSE 0
<1>1. /\ Capacity \in Nat /\ Room \in 0..Capacity /\ MaxPos \in Nat /\ Capacity <= MaxPos
      /\ len \in Nat /\ len + Room <= Capacity
  BY RoomFacts
<1>2. Len(b) \in Nat /\ content[r.ino] \in Texts
  BY DEF Texts, Sizes, Contents
<1>3. start \in 0..MaxPos
  BY <1>1 DEF Start
<1> HIDE DEF start, len
<1>4. n \in 0..Len(b)
  BY <1>1, <1>2, <1>3
<1>5. Fit(r, b) \in Texts /\ k = n
  <2>1. CASE more <= Room
    BY <2>1 DEF Fit, start, len
  <2>2. CASE ~ (more <= Room)
    <3>1. Fit(r, b) = SubSeq(b, 1, n)
      BY <2>2 DEF Fit, start, len
    <3> HIDE DEF n
    <3> QED BY <3>1, <1>4, Prefix
  <2> QED BY <2>1, <2>2
<1>6. start + k \in 0..MaxPos /\ (k = 0 \/ start + k <= len + Room)
      /\ (k < Len(b) => start + k >= len)
  <2> HIDE DEF k
  <2> QED BY <1>1, <1>2, <1>3, <1>5
<1>7. /\ Stored(r, b) \in Texts
      /\ Len(Stored(r, b)) = IF k = 0 \/ start + k <= len THEN len ELSE start + k
  <2>1. CASE Fit(r, b) = <<>>
    <3>1. k = 0
      BY <2>1
    <3> QED BY <2>1, <3>1, <1>2 DEF Stored, len
  <2>2. CASE Fit(r, b) # <<>>
    <3>1. k # 0
      BY <2>2, <1>5 DEF Texts
    <3>2. Stored(r, b) = Overwritten(content[r.ino], start, Fit(r, b))
      BY <2>2 DEF Stored, start
    <3>3. start \in Nat /\ k \in Nat
      BY <1>1, <1>3, <1>4, <1>5
    <3>4. /\ Stored(r, b) \in Texts
          /\ Len(Stored(r, b)) = IF len < start + k THEN start + k ELSE len
      <4> DEFINE s == content[r.ino]
                 q == Fit(r, b)
      <4>1. s \in Texts /\ q \in Texts /\ len = Len(s) /\ k = Len(q)
        BY <1>2, <1>5 DEF len
      <4> HIDE DEF s, q, k
      <4>2. /\ Overwritten(s, start, q) \in Texts
            /\ Len(Overwritten(s, start, q))
                 = IF Len(s) < start + Len(q) THEN start + Len(q) ELSE Len(s)
        BY <3>3, <4>1, OverwrittenText
      <4>3. Stored(r, b) = Overwritten(s, start, q)
        BY <3>2 DEF s, q
      <4> QED BY <4>1, <4>2, <4>3
    <3> HIDE DEF k
    <3> QED BY <3>1, <3>3, <3>4, <1>1
  <2> QED BY <2>1, <2>2
<1>8. Len(Stored(r, b)) <= len + Room
  <2> HIDE DEF k
  <2> QED BY <1>1, <1>6, <1>7
<1> HIDE DEF n, more
<1> QED BY <1>1, <1>2, <1>3, <1>4, <1>5, <1>6, <1>7, <1>8 DEF start, len

\* A step that leaves files and handles of the right sizes keeps them so.
LEMMA BecomeSizes ==
    ASSUME adapter \in Drivers, mounted' \in BOOLEAN,
           NEW t, NEW c \in Contents, NEW d \in Contents, NEW hs, NEW f,
           Used(Freed(c, t, hs)) <= Capacity,
           \A i \in Inodes : Len(d[i]) <= Capacity,
           \A h \in Handles : hs[h] # None => hs[h].ino \in Inodes /\ Measured(hs[h], c),
           Become(t, c, d, hs, f)
    PROVE  Sizes'
<1>1. /\ handle' = hs /\ adapter' = adapter
      /\ content' = Freed(c, t, hs) /\ durable' = Freed(d, t, hs)
  BY DEF Become
<1>2. Freed(c, t, hs) \in Contents /\ Freed(d, t, hs) \in Contents
  BY UsedFreed
<1>3. ASSUME NEW i \in Inodes PROVE Len(durable'[i]) <= Capacity
  <2>1. Len(<<>>) = 0 /\ Capacity \in Nat
    BY FilesParameters
  <2>2. durable'[i] = d[i] \/ durable'[i] = <<>>
    BY <1>1 DEF Freed
  <2> QED BY <2>1, <2>2
<1>4. ASSUME NEW h \in Handles, hs[h] # None PROVE Measured(hs[h], content)'
  <2>1. hs[h].ino \in Inodes \cap Live(t, hs) /\ Measured(hs[h], c)
    BY <1>4 DEF Live
  <2>2. content'[hs[h].ino] = c[hs[h].ino]
    BY <1>1, <2>1 DEF Freed
  <2> QED BY <1>1, <2>1, <2>2 DEF Measured, Behind, Driver
<1>5. (\A h \in Opened : Measured(handle[h], content))'
  BY <1>1, <1>4 DEF Opened
<1> QED BY <1>1, <1>2, <1>3, <1>5 DEF Sizes

FInv == IInv /\ Sizes

\* Other handles keep their measure when h writes to file i: they are not
\* alone with it any more.
LEMMA SharedSizes ==
    ASSUME FInv, NEW h, NEW i, NEW c,
           \A j \in Live(tree, handle) \ {i} : c[j] = content[j],
           NEW g \in Handles \ {h}, Shared(handle, h, i)[g] # None
    PROVE  /\ Shared(handle, h, i)[g].ino \in Inodes
           /\ Measured(Shared(handle, h, i)[g], c)
<1>1. CASE g \in OpenAt(i)
  <2>1. HandleOK(handle[g]) /\ Measured(handle[g], content)
    BY <1>1 DEF FInv, IInv, Sizes, OpenAt
  <2> DEFINE s == [handle[g] EXCEPT !.alone = FALSE, !.version = None]
  <2>2. Shared(handle, h, i)[g] = s
    BY <1>1 DEF Shared
  <2>3. /\ s.ino = handle[g].ino /\ s.can = handle[g].can /\ s.pos = handle[g].pos
        /\ s.pending = handle[g].pending /\ s.available = handle[g].available
        /\ s.alone = FALSE
    BY <2>1 DEF HandleOK, HasFields
  <2> HIDE DEF s
  <2> QED BY <2>1, <2>2, <2>3 DEF Measured, HandleOK
<1>2. CASE g \notin OpenAt(i)
  <2>1. Shared(handle, h, i)[g] = handle[g]
    BY <1>2 DEF Shared
  <2>2. g \in Opened /\ handle[g].ino # i
    BY <2>1, <1>2 DEF Opened, OpenAt
  <2>3. HandleOK(handle[g]) /\ Measured(handle[g], content)
    BY <2>2 DEF FInv, IInv, Sizes
  <2>4. c[handle[g].ino] = content[handle[g].ino]
    BY <2>2 DEF Live, Opened
  <2> QED BY <2>1, <2>3, <2>4 DEF Measured, Behind, HandleOK
<1> QED BY <1>1, <1>2

\* A call of handle h that may write to file i.
LEMMA HandleSizes ==
    ASSUME FInv, mounted' \in BOOLEAN, NEW h \in Handles, NEW i,
           NEW t, NEW c \in Contents, Used(c) <= Capacity,
           \A j \in Live(tree, handle) \ {i} : c[j] = content[j],
           NEW d \in Contents, \A j \in Inodes : Len(d[j]) <= Capacity,
           NEW hs, \A g \in Handles \ {h} : hs[g] = Shared(handle, h, i)[g],
           hs[h] # None => hs[h].ino \in Inodes /\ Measured(hs[h], c),
           NEW f, Become(t, c, d, hs, f)
    PROVE  Sizes'
<1>1. ASSUME NEW g \in Handles, hs[g] # None
      PROVE  hs[g].ino \in Inodes /\ Measured(hs[g], c)
  BY <1>1, SharedSizes
<1>2. Used(Freed(c, t, hs)) <= Capacity
  <2>1. /\ Used(Freed(c, t, hs)) \in Nat /\ Used(c) \in Nat
        /\ Used(Freed(c, t, hs)) <= Used(c)
    BY UsedFreed
  <2> QED BY <2>1, FilesParameters
<1>3. adapter \in Drivers
  BY DEF FInv, Sizes
<1> QED BY <1>1, <1>2, <1>3, BecomeSizes

\* The remainder is within the modulus, and a number below it is its own.
LEMMA Remainder ==
    ASSUME NEW a \in Int, NEW m \in Nat, m > 0
    PROVE  a % m \in 0..m - 1 /\ (a \in 0..m - 1 => a % m = a)
<1>1. a % m \in Int /\ 0 <= a % m /\ a % m < m
  OBVIOUS
<1>2. a = m * (a \div m) + (a % m) /\ a \div m \in Int
  OBVIOUS
<1>3. ASSUME a \in 0..m - 1 PROVE a % m = a
  <2>1. \A q \in Int : q >= 1 => m * q >= m
    OBVIOUS
  <2>2. \A q \in Int : q <= -1 => m * q <= -m
    OBVIOUS
  <2> QED BY <1>1, <1>2, <1>3, <2>1, <2>2
<1> QED BY <1>1, <1>3

\* open(): the handle is at the beginning, with the whole file behind it.
LEMMA OpenSizes ==
    ASSUME FInv, NEW h \in Handles, NEW n \in Names, NEW mode \in Modes, Open(h, n, mode)
    PROVE  Sizes'
<1> DEFINE can == Opens[adapter][mode]
           new == tree[n] = None \/ "removes" \in can
           i == IF new THEN Fresh ELSE tree[n]
           s == IF new \/ "truncates" \in can THEN <<>> ELSE content[i]
           t == [tree EXCEPT ![n] = i]
           c == [content EXCEPT ![i] = s]
           d == IF new THEN [durable EXCEPT ![i] = <<>>] ELSE durable
           w == IF "truncates" \in can THEN i ELSE None
           hs == [Shared(handle, h, w) EXCEPT ![h] = NewImpl(i, can, s)]
           f == IF new \/ "truncates" \in can THEN flushed \ {i} ELSE flushed
<1>1. (new => Unused # {}) /\ Become(t, c, d, hs, f) /\ mounted' \in BOOLEAN
  BY DEF Open, FInv, Sizes
<1>2. i \in Inodes /\ (new => i \notin Live(tree, handle))
  BY <1>1, FreshUnused DEF FInv, IInv
<1>3. /\ content \in Contents /\ durable \in Contents /\ <<>> \in Texts /\ Len(<<>>) = 0
      /\ content[i] \in Texts /\ Len(content[i]) \in Nat /\ Len(content[i]) <= Capacity
      /\ Capacity \in Nat /\ SizeWrap \in Nat /\ SizeWrap > 2 * Capacity
  <2>1. content \in Contents /\ durable \in Contents /\ <<>> \in Texts /\ Len(<<>>) = 0
    BY DEF FInv, Sizes, Texts
  <2>2. Len(content[i]) \in Nat /\ Len(content[i]) + Room <= Capacity /\ Room \in 0..Capacity
        /\ Capacity \in Nat /\ SizeWrap \in Nat /\ SizeWrap > 2 * Capacity
    BY <1>2, RoomFacts DEF FInv
  <2> QED BY <1>2, <2>1, <2>2 DEF Contents
<1>4. s \in Texts /\ Len(s) \in Nat /\ Len(s) <= Len(content[i]) /\ s = c[i]
  BY <1>2, <1>3 DEF Contents
<1>5. /\ c \in Contents /\ \A j \in Inodes \ {i} : c[j] = content[j]
      /\ d \in Contents /\ \A j \in Inodes : d[j] = durable[j] \/ d[j] = <<>>
  BY <1>2, <1>3, <1>4 DEF Contents
<1>6. Used(c) <= Capacity
  <2>1. /\ Used(content) \in Nat /\ Used(c) \in Nat
        /\ Used(c) = Used(content) - Len(content[i]) + Len(s)
    <3> HIDE DEF s, i
    <3> QED BY <1>2, <1>3, <1>4, UsedChange
  <2>2. Used(content) <= Capacity
    BY DEF FInv, Sizes
  <2>3. \A a, b, k, l \in Nat : a <= b /\ k <= l => k - b + a <= l
    OBVIOUS
  <2> HIDE DEF s, c, i
  <2> QED BY <1>3, <1>4, <2>1, <2>2, <2>3
<1>7. \A j \in Inodes : Len(d[j]) <= Capacity
  <2>1. \A j \in Inodes : Len(durable[j]) <= Capacity
    BY DEF FInv, Sizes
  <2> HIDE DEF d
  <2> QED BY <2>1, <1>3, <1>5
<1>8. (~ new /\ "truncates" \notin can) => c = content
  BY <1>2, <1>3 DEF Contents
<1> HIDE DEF new, i, s, t, c, d, w, hs, f
<1>9. NewImpl(i, can, s).ino \in Inodes /\ Measured(NewImpl(i, can, s), c)
  <2>1. can \in {Opens[adapter][m] : m \in Modes}
    OBVIOUS
  <2> DEFINE q == NewImpl(i, can, s)
  <2>2. /\ q.ino = i /\ q.can = can /\ q.pos = 0 /\ q.pending = <<>>
        /\ q.available = IF Driver.counts THEN Len(s) ELSE 0
    BY DEF NewImpl
  <2> HIDE DEF q, can
  <2>3. Behind(q, c) = Len(s)
    BY <2>2, <1>3, <1>4 DEF Behind
  <2>4. q.available \in 0..SizeWrap - 1
    BY <2>2, <1>3, <1>4
  <2>5. q.pos \in 0..MaxPos
    BY <2>2, FilesParameters
  <2> QED BY <1>2, <1>3, <1>4, <2>1, <2>2, <2>3, <2>4, <2>5 DEF Measured, q
<1>10. /\ hs[h] = NewImpl(i, can, s)
       /\ \A g \in Handles \ {h} : hs[g] = Shared(handle, h, w)[g]
  <2>1. DOMAIN Shared(handle, h, w) = Handles
    BY DEF Shared
  <2> QED BY <2>1 DEF hs
<1>11. \A j \in Live(tree, handle) \ {w} : c[j] = content[j]
  <2>0. Live(tree, handle) \subseteq Inodes
    BY LiveInodes DEF FInv
  <2>1. CASE new
    BY <2>0, <2>1, <1>2, <1>5
  <2>2. CASE ~ new /\ "truncates" \in can
    BY <2>0, <2>2, <1>5 DEF w
  <2>3. CASE ~ new /\ "truncates" \notin can
    BY <2>3, <1>8
  <2> QED BY <2>1, <2>2, <2>3
<1> HIDE DEF can
<1> QED BY <1>1, <1>5, <1>6, <1>7, <1>9, <1>10, <1>11, HandleSizes

\* A call that reads moves the handle and its counter.
LEMMA ReadSizes ==
    ASSUME FInv, NEW h \in Opened, NEW q, q = handle'[h],
           q.ino = handle[h].ino, Measured(q, content),
           \A g \in Handles \ {h} : handle'[g] = handle[g],
           UNCHANGED <<adapter, mounted, files, flushed>>
    PROVE  Sizes'
<1>1. ASSUME NEW g \in Handles, handle'[g] # None PROVE Measured(handle'[g], content)
  BY <1>1 DEF FInv, Sizes, Opened
<1>2. (\A g \in Opened : Measured(handle[g], content))'
  BY <1>1 DEF files, Opened, Measured, Behind, Driver
<1> QED BY <1>2 DEF FInv, Sizes, files

\* Both kinds of read() stop at the end of the file, and count.
LEMMA ReadByteSizes ==
    ASSUME FInv, NEW h \in Opened, ReadByte(h)
    PROVE  Sizes'
<1> DEFINE r == handle[h]
           q == handle'[h]
<1>1. HandleOK(r) /\ Measured(r, content) /\ h \in Handles /\ r.ino \in Inodes
      /\ handle = [g \in Handles |-> handle[g]]
  BY DEF FInv, IInv, Sizes, Opened, HandleOK
<1>2. r.pending = <<>> /\ (Driver.counts => r.available \in 1..SizeWrap \div 2 - 1)
      /\ r.pos < Len(content[r.ino])
  BY DEF ReadByte, MayRead
<1>3. /\ q.ino = r.ino /\ q.can = r.can /\ q.pending = r.pending /\ q.alone = r.alone
      /\ \A g \in Handles \ {h} : handle'[g] = handle[g]
  BY <1>1 DEF ReadByte, HandleOK, HasFields
<1>4. q.pos = r.pos + 1
  BY <1>1 DEF ReadByte, HandleOK, HasFields
<1>5. q.available = IF Driver.counts THEN r.available - 1 ELSE r.available
  BY <1>1 DEF ReadByte, HandleOK, HasFields
<1>6. /\ Len(content[r.ino]) \in Nat /\ Len(content[r.ino]) <= Capacity
      /\ Capacity \in Nat /\ SizeWrap \in Nat /\ MaxPos \in Nat /\ Capacity <= MaxPos
  BY <1>1, RoomFacts DEF FInv
<1> HIDE DEF r, q
<1>7. Len(<<>>) = 0
  OBVIOUS
<1>m. /\ r.pos \in 0..MaxPos /\ r.available \in 0..SizeWrap - 1
      /\ (Driver.counts => r.available >= 1)
  BY <1>1, <1>2 DEF Measured
<1>8. q.pos \in 0..MaxPos /\ q.available \in 0..SizeWrap - 1
  <2>1. q.pos \in 0..MaxPos
    BY <1>m, <1>2, <1>4, <1>6
  <2>2. CASE Driver.counts
    BY <1>m, <1>5, <1>6, <2>1, <2>2
  <2>3. CASE ~ Driver.counts
    BY <1>m, <1>5, <2>1, <2>3
  <2> QED BY <2>2, <2>3
<1>9. ASSUME r.alone /\ "appends" \notin r.can
      PROVE  Driver.counts => q.available = Behind(q, content)
  <2>1. Behind(q, content) = Len(content[r.ino]) - r.pos - 1
    <3> DEFINE len == Len(content[r.ino])
    <3>1. len \in Nat /\ r.pos \in Nat /\ r.pos < len
      BY <1>m, <1>2, <1>6
    <3>2. len = Len(content[q.ino]) /\ Len(q.pending) = 0
      BY <1>2, <1>3, <1>7
    <3> HIDE DEF len
    <3>3. (IF len - (r.pos + 1) - 0 > 0 THEN len - (r.pos + 1) - 0 ELSE 0) = len - r.pos - 1
      BY <3>1
    <3> QED BY <3>2, <3>3, <1>4 DEF Behind, len
  <2>2. Driver.counts => r.available = Len(content[r.ino]) - r.pos
    <3>1. Behind(r, content) = Len(content[r.ino]) - r.pos
      BY <1>m, <1>2, <1>6, <1>7 DEF Behind
    <3> QED BY <3>1, <1>1, <1>9 DEF Measured
  <2> QED BY <2>1, <2>2, <1>5
<1>10. Measured(q, content)
  BY <1>1, <1>3, <1>8, <1>9 DEF Measured
<1> QED BY <1>3, <1>10, ReadSizes DEF ReadByte, q, r

\* read() into a buffer takes from the counter what it moves the position by.
LEMMA ReadBufferSizes ==
    ASSUME FInv, NEW h \in Opened, NEW k \in 1..Capacity, Read(h, k)
    PROVE  Sizes'
<1> DEFINE r == handle[h]
           q == handle'[h]
           left == Len(content[r.ino]) - r.pos
           n == IF left < k THEN left ELSE k
<1>1. HandleOK(r) /\ Measured(r, content) /\ h \in Handles /\ r.ino \in Inodes
      /\ handle = [g \in Handles |-> handle[g]]
  BY DEF FInv, IInv, Sizes, Opened, HandleOK
<1>2. r.pending = <<>> /\ n > 0
  BY DEF Read, MayRead
<1>3. /\ q.ino = r.ino /\ q.can = r.can /\ q.pending = r.pending /\ q.alone = r.alone
      /\ \A g \in Handles \ {h} : handle'[g] = handle[g]
  BY <1>1 DEF Read, HandleOK, HasFields
<1>4. q.pos = r.pos + n
  <2> HIDE DEF n
  <2> QED BY <1>1 DEF Read, HandleOK, HasFields, n
<1>5. q.available = IF Driver.counts THEN (r.available - n) % SizeWrap ELSE r.available
  <2> HIDE DEF n
  <2> QED BY <1>1 DEF Read, HandleOK, HasFields, n
<1>6. /\ Len(content[r.ino]) \in Nat /\ Len(content[r.ino]) <= Capacity
      /\ Capacity \in Nat /\ SizeWrap \in Nat /\ SizeWrap > 2 * Capacity
      /\ MaxPos \in Nat /\ Capacity <= MaxPos
  BY <1>1, RoomFacts DEF FInv
<1> HIDE DEF r, q
<1>7. /\ Len(<<>>) = 0 /\ r.pos \in 0..MaxPos /\ r.available \in 0..SizeWrap - 1
      /\ left \in Int /\ n \in 1..Capacity /\ n <= left
  <2>1. r.pos \in 0..MaxPos /\ r.available \in 0..SizeWrap - 1
    BY <1>1 DEF Measured
  <2>2. left \in Int
    BY <2>1, <1>6
  <2>3. n \in Int /\ n <= k /\ n <= left
    <3> HIDE DEF left
    <3> QED BY <2>2
  <2> HIDE DEF left, n
  <2>4. n \in 1..Capacity
    BY <2>3, <1>2, <1>6
  <2> QED BY <2>1, <2>2, <2>3, <2>4
<1>8. (r.available - n) % SizeWrap \in 0..SizeWrap - 1
  <2>1. r.available - n \in Int /\ SizeWrap > 0
    BY <1>6, <1>7
  <2> HIDE DEF n
  <2> QED BY <2>1, <1>6, Remainder
<1>9. q.pos \in 0..MaxPos /\ q.available \in 0..SizeWrap - 1
  <2>1. q.pos \in 0..MaxPos
    <3> DEFINE len == Len(content[r.ino])
    <3>1. len \in Nat /\ len <= Capacity /\ n <= len - r.pos
      BY <1>6, <1>7
    <3> HIDE DEF n, left, len
    <3> QED BY <3>1, <1>4, <1>6, <1>7
  <2> HIDE DEF n
  <2> QED BY <2>1, <1>5, <1>7, <1>8
<1>10. ASSUME r.alone /\ "appends" \notin r.can
       PROVE  Driver.counts => q.available = Behind(q, content)
  <2>1. Behind(q, content) = left - n
    <3>1. q.ino = r.ino /\ q.pending = <<>> /\ q.pos = r.pos + n
      BY <1>2, <1>3, <1>4
    <3>2. Len(content[r.ino]) - q.pos = left - n /\ left - n \in Nat
      <4>1. \A a, b, m \in Int : a - (b + m) = (a - b) - m
        OBVIOUS
      <4> HIDE DEF n
      <4> QED BY <3>1, <4>1, <1>6, <1>7
    <3> DEFINE len == Len(content[r.ino])
    <3>3. len = Len(content[q.ino]) /\ Len(q.pending) = 0 /\ len \in Nat
          /\ q.pos \in Nat /\ len - q.pos = left - n
      BY <3>1, <3>2, <1>6, <1>7, <1>9
    <3> HIDE DEF n, left, len
    <3>4. (IF len - q.pos - 0 > 0 THEN len - q.pos - 0 ELSE 0) = left - n
      BY <3>2, <3>3
    <3> QED BY <3>3, <3>4 DEF Behind
  <2>2. ASSUME Driver.counts PROVE q.available = left - n
    <3>1. r.available = left
      BY <1>1, <1>2, <1>6, <1>7, <1>10, <2>2 DEF Measured, Behind
    <3>2. r.available - n \in Int /\ r.available - n \in 0..SizeWrap - 1 /\ SizeWrap > 0
      BY <3>1, <1>6, <1>7
    <3>3. (r.available - n) % SizeWrap = r.available - n
      <4> HIDE DEF n
      <4> QED BY <3>2, <1>6, Remainder
    <3> QED BY <3>1, <3>3, <2>2, <1>5
  <2> QED BY <2>1, <2>2
<1>11. Measured(q, content)
  BY <1>1, <1>3, <1>9, <1>10 DEF Measured
<1> QED BY <1>3, <1>11, ReadSizes DEF Read, q, r

\* A write adds no more than there is room for.
LEMMA StoredSizes ==
    ASSUME Sizes, NEW r, r.ino \in Inodes, r.pos \in 0..MaxPos, NEW b \in Texts
    PROVE  LET c == [content EXCEPT ![r.ino] = Stored(r, b)]
           IN  /\ c \in Contents /\ Used(c) <= Capacity
               /\ c[r.ino] = Stored(r, b)
               /\ \A j \in Inodes \ {r.ino} : c[j] = content[j]
<1> DEFINE s == Stored(r, b)
           i == r.ino
           c == [content EXCEPT ![i] = s]
<1>1. content \in Contents
  BY DEF Sizes
<1>2. s \in Texts /\ Len(s) <= Len(content[i]) + Room
  BY StoredFacts
<1> HIDE DEF s
<1>3. c \in Contents /\ c[i] = s /\ \A j \in Inodes \ {i} : c[j] = content[j]
  BY <1>1, <1>2 DEF Contents
<1>4. /\ Used(content) \in Nat /\ Used(c) \in Nat
      /\ Used(c) = Used(content) - Len(content[i]) + Len(s)
  BY <1>1, <1>2, UsedChange
<1>5. /\ Len(content[i]) \in Nat /\ Len(s) \in Nat /\ Capacity \in Nat
      /\ Room = Capacity - Used(content)
  BY <1>2, RoomFacts DEF Room, Texts
<1>6. Used(c) <= Capacity
  <2>1. \A u, a, m, k \in Nat : k <= a + (m - u) => u - a + k <= m
    OBVIOUS
  <2> HIDE DEF c, i
  <2> QED BY <2>1, <1>2, <1>4, <1>5
<1> QED BY <1>3, <1>6 DEF s

\* What a counter says of a handle after n more bytes.
LEMMA CountedOn0 ==
    ASSUME NEW a \in Int, NEW n \in Nat
    PROVE  Counted(IF a > 0 THEN a ELSE 0, n) = IF a - n > 0 THEN a - n ELSE 0
BY DEF Counted

\* A counter stays one.
LEMMA CountedType ==
    ASSUME NEW m \in Nat, NEW a \in 0..m - 1, NEW n \in Nat
    PROVE  Counted(a, n) \in 0..m - 1
BY DEF Counted

\* A handle that has written k bytes of b, and where it is then.
LEMMA WrittenMeasure ==
    ASSUME Sizes, NEW r, r.ino \in Inodes, Measured(r, content), r.pending = <<>>,
           NEW b \in Texts, NEW c, c[r.ino] = Stored(r, b),
           NEW q, q.ino = r.ino, q.can = r.can, q.pending = <<>>, q.alone = r.alone,
           q.pos = Start(r) + Len(Fit(r, b)),
           q.available = IF Driver.counts THEN Counted(r.available, Len(Fit(r, b)))
                         ELSE r.available
    PROVE  Measured(q, c)
<1> DEFINE k == Len(Fit(r, b))
           len == Len(content[r.ino])
           more == Len(c[q.ino])
<1>1. r.pos \in 0..MaxPos /\ r.available \in 0..SizeWrap - 1
  BY DEF Measured
<1>2. /\ k \in 0..Len(b) /\ len \in Nat /\ Len(b) \in Nat
      /\ Start(r) + k \in 0..MaxPos
      /\ more = IF k = 0 \/ Start(r) + k <= len THEN len ELSE Start(r) + k
  BY <1>1, StoredFacts
<1>3. Capacity \in Nat /\ SizeWrap \in Nat /\ Len(<<>>) = 0
  BY FilesParameters
<1> HIDE DEF k, len, more
<1>4. k \in Nat
  BY <1>2
<1>5. q.available \in 0..SizeWrap - 1
  BY <1>1, <1>3, <1>4, CountedType DEF k
<1>6. ASSUME r.alone, "appends" \notin r.can
      PROVE  Driver.counts => q.available = Behind(q, c)
  <2>1. Start(r) = r.pos /\ q.pos = r.pos + k
    BY <1>6 DEF Start, k
  <2>3. (IF more - q.pos - 0 > 0 THEN more - q.pos - 0 ELSE 0)
           = (IF (len - r.pos) - k > 0 THEN (len - r.pos) - k ELSE 0)
    <3>1. \A p, n, l, m \in Nat :
            m = (IF n = 0 \/ p + n <= l THEN l ELSE p + n) =>
              (IF m - (p + n) - 0 > 0 THEN m - (p + n) - 0 ELSE 0)
                 = (IF (l - p) - n > 0 THEN (l - p) - n ELSE 0)
      OBVIOUS
    <3>2. r.pos \in Nat /\ more \in Nat
          /\ more = IF k = 0 \/ r.pos + k <= len THEN len ELSE r.pos + k
      BY <2>1, <1>1, <1>2, <1>4
    <3>3. (IF more - (r.pos + k) - 0 > 0 THEN more - (r.pos + k) - 0 ELSE 0)
             = (IF (len - r.pos) - k > 0 THEN (len - r.pos) - k ELSE 0)
      BY <3>1, <3>2, <1>2, <1>4
    <3> QED BY <3>3, <2>1
  <2>4. Behind(q, c) = IF more - q.pos - 0 > 0 THEN more - q.pos - 0 ELSE 0
    BY <1>3 DEF Behind, more
  <2>5. ASSUME Driver.counts PROVE q.available = Behind(q, c)
    <3>1. r.available = IF len - r.pos > 0 THEN len - r.pos ELSE 0
      <4>1. Behind(r, content) = IF len - r.pos - 0 > 0 THEN len - r.pos - 0 ELSE 0
        BY <1>3 DEF Behind, len
      <4>2. r.available = Behind(r, content)
        BY <1>6, <2>5 DEF Measured
      <4> QED BY <4>1, <4>2, <1>1, <1>2
    <3>2. q.available = Counted(r.available, k)
      BY <2>5 DEF k
    <3>3. len - r.pos \in Int
      BY <1>1, <1>2
    <3> QED BY <3>1, <3>2, <3>3, <2>3, <2>4, <1>4, CountedOn0
  <2> QED BY <2>5
<1>7. q.pos \in 0..MaxPos /\ <<>> \in Texts
  BY <1>2 DEF k, Texts
<1>8. q.can \in {Opens[adapter][m] : m \in Modes}
  BY DEF Measured
<1> QED BY <1>5, <1>6, <1>7, <1>8 DEF Measured, more

\* write() to the file.
LEMMA WriteSizes ==
    ASSUME FInv, NEW h \in Opened, NEW b \in Texts, Write(h, b)
    PROVE  Sizes'
<1> DEFINE r == handle[h]
           i == r.ino
           p == Start(r) + Len(Fit(r, b))
           c == [content EXCEPT ![i] = Stored(r, b)]
           hs0 == [handle EXCEPT ![h].pos = p,
                     ![h].available = IF Driver.counts THEN Counted(@, Len(Fit(r, b))) ELSE @]
           hs == Shared(hs0, h, i)
           q == hs0[h]
<1>1. /\ ~ Driver.buffers /\ mounted' \in BOOLEAN
      /\ Become(tree, c, durable, hs, flushed \ {i})
  BY DEF Write, FInv, Sizes
<1>2. /\ HandleOK(r) /\ Measured(r, content) /\ i \in Inodes /\ r.pending = <<>>
      /\ h \in Handles /\ handle = [g \in Handles |-> handle[g]]
  BY <1>1 DEF FInv, IInv, Sizes, Opened, HandleOK
<1>3. /\ c \in Contents /\ Used(c) <= Capacity /\ c[i] = Stored(r, b)
      /\ \A j \in Inodes \ {i} : c[j] = content[j]
  BY <1>2, StoredSizes DEF FInv, Measured
<1>4. /\ q.ino = i /\ q.can = r.can /\ q.pending = <<>> /\ q.alone = r.alone
      /\ \A g \in Handles \ {h} : hs0[g] = handle[g]
  <2> HIDE DEF p
  <2> QED BY <1>2 DEF HandleOK, HasFields
<1>5. q.pos = p
  <2> HIDE DEF p
  <2> QED BY <1>2 DEF HandleOK, HasFields
<1>6. q.available = IF Driver.counts THEN Counted(r.available, Len(Fit(r, b)))
                    ELSE r.available
  <2> DEFINE n == Len(Fit(r, b))
  <2> HIDE DEF p, n
  <2> QED BY <1>2 DEF HandleOK, HasFields, n
<1> HIDE DEF r, c, hs0
<1>7. Measured(q, c)
  <2> HIDE DEF q
  <2> QED BY <1>2, <1>3, <1>4, <1>5, <1>6, WrittenMeasure DEF FInv
<1>8. /\ hs[h] = q
      /\ \A g \in Handles \ {h} : hs[g] = Shared(handle, h, i)[g]
  BY <1>2, <1>4 DEF Shared
<1>9. \A j \in Live(tree, handle) \ {i} : c[j] = content[j]
  BY <1>3, LiveInodes DEF FInv
<1>10. durable \in Contents /\ \A j \in Inodes : Len(durable[j]) <= Capacity
  BY DEF FInv, Sizes
<1> HIDE DEF q, hs, i
<1> QED BY <1>1, <1>2, <1>3, <1>4, <1>7, <1>8, <1>9, <1>10, HandleSizes

\* write() into the buffer of C's library: the counter is ahead of the file.
LEMMA BufferedWriteSizes ==
    ASSUME FInv, NEW h \in Opened, NEW b \in Texts, BufferedWrite(h, b)
    PROVE  Sizes'
<1> DEFINE r == handle[h]
           i == r.ino
           w == r.pending \o b
           hs0 == [handle EXCEPT ![h].pending = @ \o b,
                                 ![h].available = Counted(@, Len(b))]
           hs == Shared(hs0, h, i)
           q == hs0[h]
<1>1. mounted' \in BOOLEAN /\ Become(tree, content, durable, hs, flushed \ {i})
  BY DEF BufferedWrite, FInv, Sizes
<1>2. /\ HandleOK(r) /\ Measured(r, content) /\ i \in Inodes
      /\ h \in Handles /\ handle = [g \in Handles |-> handle[g]]
  BY DEF FInv, IInv, Sizes, Opened, HandleOK
<1>3. /\ q.ino = i /\ q.can = r.can /\ q.alone = r.alone /\ q.pos = r.pos
      /\ \A g \in Handles \ {h} : hs0[g] = handle[g]
  BY <1>2 DEF HandleOK, HasFields
<1>4. q.pending = w /\ q.available = Counted(r.available, Len(b))
  BY <1>2 DEF HandleOK, HasFields
<1>5. /\ r.pos \in 0..MaxPos /\ r.available \in 0..SizeWrap - 1 /\ r.pending \in Texts
      /\ r.can \in {Opens[adapter][m] : m \in Modes}
  BY <1>2 DEF Measured
<1>6. /\ Len(r.pending) \in Nat /\ Len(b) \in Nat
      /\ w \in Texts /\ Len(w) = Len(r.pending) + Len(b)
  BY <1>5 DEF Texts
<1>7. /\ Capacity \in Nat /\ SizeWrap \in Nat /\ Len(content[i]) \in Nat
  BY <1>2, RoomFacts DEF FInv
<1> HIDE DEF r, hs0, w
<1>8. Measured(q, content)
  <2> HIDE DEF q, i
  <2>1. q.available \in 0..SizeWrap - 1
    BY <1>4, <1>5, <1>6, <1>7, CountedType
  <2>2. ASSUME r.alone, "appends" \notin r.can
        PROVE  Driver.counts => q.available = Behind(q, content)
    <3> DEFINE a == Len(content[i]) - r.pos - Len(r.pending)
    <3>2. a \in Int
      BY <1>5, <1>6, <1>7
    <3>3. Behind(r, content) = IF a > 0 THEN a ELSE 0
      BY DEF Behind, i
    <3>4. Behind(q, content) = IF a - Len(b) > 0 THEN a - Len(b) ELSE 0
      <4>1. Len(content[q.ino]) - q.pos - Len(q.pending) = a - Len(b)
        <5>1. \A n, p, k, m \in Int : n - p - (k + m) = (n - p - k) - m
          OBVIOUS
        <5>2. Len(content[q.ino]) - q.pos - Len(q.pending)
                = Len(content[i]) - r.pos - (Len(r.pending) + Len(b))
          BY <1>3, <1>4, <1>6
        <5> QED BY <5>1, <5>2, <1>5, <1>6, <1>7
      <4> HIDE DEF a
      <4> QED BY <4>1 DEF Behind
    <3>5. ASSUME Driver.counts PROVE q.available = Behind(q, content)
      <4>1. r.available = Behind(r, content)
        BY <1>2, <2>2, <3>5 DEF Measured
      <4> HIDE DEF a
      <4> QED BY <4>1, <3>2, <3>3, <3>4, <1>4, <1>6, CountedOn0
    <3> QED BY <3>5
  <2> QED BY <1>3, <1>4, <1>5, <1>6, <2>1, <2>2 DEF Measured
<1>9. /\ hs[h] = q
      /\ \A g \in Handles \ {h} : hs[g] = Shared(handle, h, i)[g]
  BY <1>2, <1>3 DEF Shared
<1>10. /\ content \in Contents /\ Used(content) <= Capacity
       /\ durable \in Contents /\ \A j \in Inodes : Len(durable[j]) <= Capacity
  BY DEF FInv, Sizes
<1>11. q.ino \in Inodes
  BY <1>2, <1>3
<1> DEFINE c == content
<1>12. c \in Contents /\ Used(c) <= Capacity
       /\ \A j \in Live(tree, handle) \ {i} : c[j] = content[j]
  BY <1>10
<1>13. Measured(q, c) /\ Become(tree, c, durable, hs, flushed \ {i})
  BY <1>1, <1>8
<1> HIDE DEF q, hs, i, c
<1> QED BY <1>1, <1>2, <1>9, <1>10, <1>11, <1>12, <1>13, HandleSizes

\* The buffer written, a handle stands where its counter says.
LEMMA EmptiedSizes ==
    ASSUME FInv, NEW h \in Opened
    PROVE  LET r == handle[h]
               e == Emptied(r)
               c == Written(h)
           IN  /\ c \in Contents /\ Used(c) <= Capacity
               /\ \A j \in Inodes \ {r.ino} : c[j] = content[j]
               /\ r.pending = <<>> => c = content
               /\ r.ino \in Inodes /\ e.ino = r.ino /\ e.can = r.can
               /\ e.alone = r.alone /\ e.available = r.available /\ e.pending = <<>>
               /\ HasFields(e) /\ Measured(e, c)
<1> DEFINE r == handle[h]
           e == Emptied(r)
           c == Written(h)
           b == r.pending
<1>1. HandleOK(r) /\ Measured(r, content) /\ r.ino \in Inodes
  BY DEF FInv, IInv, Sizes, HandleOK
<1>2. content \in Contents /\ Used(content) <= Capacity
  BY DEF FInv, Sizes
<1>3. CASE b = <<>>
  <2>1. c = content /\ e = r
    BY <1>2, <1>3 DEF Written, Emptied, Contents
  <2> HIDE DEF c, e
  <2> QED BY <2>1, <1>1, <1>2, <1>3 DEF HandleOK, c, e
<1>4. CASE b # <<>>
  <2>1. b \in Texts /\ r.pos \in 0..MaxPos
    BY <1>1 DEF Measured
  <2>2. c = [content EXCEPT ![r.ino] = Stored(r, b)]
    BY <1>4 DEF Written
  <2>3. /\ c \in Contents /\ Used(c) <= Capacity /\ c[r.ino] = Stored(r, b)
        /\ \A j \in Inodes \ {r.ino} : c[j] = content[j]
    <3> HIDE DEF c, r, b
    <3> QED BY <1>1, <2>1, <2>2, StoredSizes DEF FInv
  <2> DEFINE p == Start(r) + Len(Fit(r, b))
  <2>4. /\ HasFields(e) /\ e.ino = r.ino /\ e.can = r.can /\ e.alone = r.alone
        /\ e.available = r.available /\ e.pending = <<>> /\ e.pos = p
    <3>1. e = [r EXCEPT !.pos = p, !.pending = <<>>]
      BY <1>4 DEF Emptied
    <3> HIDE DEF e, p, r
    <3> QED BY <3>1, <1>1 DEF HandleOK, HasFields
  <2>5. Measured(e, c)
    <3> DEFINE k == Len(Fit(r, b))
               len == Len(content[r.ino])
               start == Start(r)
               more == Len(c[r.ino])
    <3>1. /\ k \in 0..Len(b) /\ len \in Nat /\ Len(b) \in Nat
          /\ start + k \in 0..MaxPos
          /\ more = IF k = 0 \/ start + k <= len THEN len ELSE start + k
          /\ k < Len(b) => start + k >= len
      <4> HIDE DEF c, r, b
      <4> QED BY <1>1, <2>1, <2>3, StoredFacts DEF FInv
    <3>2. p = start + k
      OBVIOUS
    <3>3. /\ r.available \in 0..SizeWrap - 1 /\ r.can \in {Opens[adapter][m] : m \in Modes}
          /\ <<>> \in Texts /\ Len(<<>>) = 0 /\ r.pos \in Nat
      BY <1>1, FilesParameters DEF Measured, Texts
    <3> HIDE DEF p, k, len, start, more
    <3>4. ASSUME r.alone, "appends" \notin r.can
          PROVE  Driver.counts => r.available = Behind(e, c)
      <4>1. start = r.pos
        BY <3>4 DEF Start, start
      <4>2. k \in Nat /\ more \in Nat /\ k <= Len(b)
        BY <3>1, <3>3, <4>1
      <4>3. (IF more - p - 0 > 0 THEN more - p - 0 ELSE 0)
                 = (IF len - r.pos - Len(b) > 0 THEN len - r.pos - Len(b) ELSE 0)
        <5> HIDE DEF b
        <5>1. /\ more = IF k = 0 \/ r.pos + k <= len THEN len ELSE r.pos + k
              /\ k < Len(b) => r.pos + k >= len
              /\ len \in Nat /\ Len(b) \in Nat
          BY <4>1, <3>1
        <5>2. (IF more - (r.pos + k) - 0 > 0 THEN more - (r.pos + k) - 0 ELSE 0)
                   = (IF len - r.pos - Len(b) > 0 THEN len - r.pos - Len(b) ELSE 0)
          <6> DEFINE m == r.pos
                     f == Len(b)
          <6>1. /\ m \in Nat /\ k \in Nat /\ len \in Nat /\ more \in Nat /\ f \in Nat
                /\ more = (IF k = 0 \/ m + k <= len THEN len ELSE m + k)
                /\ k <= f /\ (k < f => m + k >= len)
            BY <4>1, <4>2, <3>3, <5>1
          <6> HIDE DEF m, f
          <6>2. (IF more - (m + k) - 0 > 0 THEN more - (m + k) - 0 ELSE 0)
                     = (IF len - m - f > 0 THEN len - m - f ELSE 0)
            BY <6>1
          <6> QED BY <6>2 DEF m, f
        <5> QED BY <5>2, <4>1, <3>2
      <4>4. Behind(e, c) = IF more - p - 0 > 0 THEN more - p - 0 ELSE 0
        BY <2>4, <3>3 DEF Behind, more
      <4>5. Behind(r, content) = IF len - r.pos - Len(b) > 0 THEN len - r.pos - Len(b) ELSE 0
        BY DEF Behind, len
      <4>6. Driver.counts => r.available = Behind(r, content)
        BY <1>1, <3>4 DEF Measured
      <4> HIDE DEF b, r, e, c
      <4> QED BY <4>3, <4>4, <4>5, <4>6
    <3> HIDE DEF e, c
    <3> QED BY <2>4, <3>1, <3>2, <3>3, <3>4 DEF Measured, more
  <2> HIDE DEF c, e
  <2> QED BY <2>3, <2>4, <2>5, <1>1, <1>4 DEF c, e
<1> QED BY <1>3, <1>4

\* seek(), flush() and close() write the buffer first.
LEMMA DrainSizes ==
    ASSUME FInv, mounted' \in BOOLEAN, NEW h \in Opened, NEW q,
           q = None \/ (q.ino = handle[h].ino /\ Measured(q, Written(h))),
           NEW d \in Contents, \A j \in Inodes : Len(d[j]) <= Capacity,
           NEW f, Become(tree, Written(h), d, Drained(h, q), f)
    PROVE  Sizes'
<1> DEFINE c == Written(h)
           hs == Drained(h, q)
           i == IF handle[h].pending = <<>> THEN None ELSE handle[h].ino
<1>1. h \in Handles
  BY DEF Opened
<1>2. /\ c \in Contents /\ Used(c) <= Capacity /\ handle[h].ino \in Inodes
      /\ \A j \in Inodes \ {handle[h].ino} : c[j] = content[j]
      /\ handle[h].pending = <<>> => c = content
  BY EmptiedSizes
<1>3. \A j \in Live(tree, handle) \ {i} : c[j] = content[j]
  BY <1>2, LiveInodes DEF FInv
<1>4. hs[h] = q /\ \A g \in Handles \ {h} : hs[g] = Shared(handle, h, i)[g]
  BY <1>1 DEF Drained, Shared
<1>5. Become(tree, c, d, hs, f)
  OBVIOUS
<1>6. hs[h] # None => hs[h].ino \in Inodes /\ Measured(hs[h], c)
  BY <1>2, <1>4
<1> HIDE DEF c, hs, i
<1> QED BY <1>1, <1>2, <1>3, <1>4, <1>5, <1>6, HandleSizes

\* seek() goes no further than the end of the file, and counts anew.
LEMMA SeekSizes ==
    ASSUME FInv, NEW h \in Opened, NEW p \in 0..MaxPos,
           NEW mode \in {"SeekModeSet", "SeekModeCur", "SeekModeEnd"}, Seek(h, p, mode)
    PROVE  Sizes'
<1> DEFINE c == Written(h)
           r == Emptied(handle[h])
           size == Len(c[r.ino])
           target == SeekTarget(r, size, p, mode)
           q == [r EXCEPT !.pos = target, !.alone = TRUE,
                          !.available = IF Driver.counts THEN Ahead(size, target) ELSE @]
<1>1. /\ target <= MaxPos /\ mounted' \in BOOLEAN
      /\ Become(tree, c, durable, Drained(h, q), flushed)
  BY DEF Seek, FInv, Sizes
<1>2. /\ c \in Contents /\ Used(c) <= Capacity /\ r.pending = <<>>
      /\ r.ino \in Inodes /\ r.ino = handle[h].ino /\ HasFields(r) /\ Measured(r, c)
  BY EmptiedSizes
<1> HIDE DEF r, c
<1>3. size \in Nat /\ size <= Capacity /\ Capacity \in Nat /\ SizeWrap \in Nat
      /\ SizeWrap > 2 * Capacity /\ MaxPos \in Nat
  <2>1. size \in Nat /\ Used(c) \in Nat /\ size <= Used(c)
    BY <1>2, UsedAtLeast
  <2> HIDE DEF size
  <2> QED BY <2>1, <1>2, FilesParameters
<1>4. r.pos \in 0..MaxPos /\ r.available \in 0..SizeWrap - 1
      /\ r.can \in {Opens[adapter][m] : m \in Modes}
  BY <1>2 DEF Measured
<1> HIDE DEF size
<1>5. target \in Nat
  <2>1. CASE mode = "SeekModeSet"
    BY <2>1, <1>3 DEF SeekTarget
  <2>2. CASE mode = "SeekModeCur"
    BY <2>2, <1>3, <1>4 DEF SeekTarget
  <2>3. CASE mode = "SeekModeEnd"
    BY <2>3, <1>3 DEF SeekTarget
  <2> QED BY <2>1, <2>2, <2>3
<1> HIDE DEF target
<1>6. /\ q.ino = r.ino /\ q.can = r.can /\ q.pending = r.pending
      /\ q.pos = target
      /\ q.available = IF Driver.counts THEN Ahead(size, target) ELSE r.available
  BY <1>2 DEF HasFields
<1> HIDE DEF q
<1>7. Measured(q, c)
  <2>1. Behind(q, c) = Ahead(size, target)
    <3>1. Len(c[q.ino]) = size /\ Len(q.pending) = 0
      BY <1>2, <1>6 DEF size
    <3>2. (IF size - target - 0 > 0 THEN size - target - 0 ELSE 0) = Ahead(size, target)
      BY <1>3, <1>5 DEF Ahead
    <3> QED BY <3>1, <3>2, <1>6 DEF Behind
  <2>2. q.pos \in 0..MaxPos
    BY <1>1, <1>3, <1>5, <1>6
  <2>3. q.available \in 0..SizeWrap - 1
    <3>1. Ahead(size, target) \in 0..Capacity
      BY <1>3, <1>5 DEF Ahead
    <3> QED BY <3>1, <1>3, <1>4, <1>6
  <2>4. q.pending \in Texts
    BY <1>2, <1>6 DEF Texts
  <2> QED BY <1>4, <1>6, <2>1, <2>2, <2>3, <2>4 DEF Measured
<1>8. durable \in Contents /\ \A j \in Inodes : Len(durable[j]) <= Capacity
  BY DEF FInv, Sizes
<1> QED BY <1>1, <1>2, <1>6, <1>7, <1>8, DrainSizes DEF c

\* So does one that fails, which has written the buffer.
LEMMA SeekFailsSizes ==
    ASSUME FInv, NEW h \in Opened, SeekFails(h)
    PROVE  Sizes'
<1> DEFINE q == Emptied(handle[h])
           i == handle[h].ino
<1>1. Become(tree, Written(h), durable, Drained(h, q), flushed)
      /\ durable \in Contents /\ \A j \in Inodes : Len(durable[j]) <= Capacity
      /\ mounted' \in BOOLEAN
  BY DEF SeekFails, FInv, Sizes
<1>2. i \in Inodes /\ q.ino = i /\ Measured(q, Written(h))
  BY EmptiedSizes
<1> HIDE DEF q
<1> QED BY <1>1, <1>2, DrainSizes DEF i

\* flush() writes what is in the file to the medium.
LEMMA FlushSizes ==
    ASSUME FInv, NEW h \in Opened, Flush(h)
    PROVE  Sizes'
<1> DEFINE i == handle[h].ino
           d == IF Driver.syncs THEN [durable EXCEPT ![i] = content[i]] ELSE durable
           q == Emptied(handle[h])
           f == IF Driver.syncs THEN flushed \cup {i} ELSE flushed
<1>1. mounted' \in BOOLEAN
      /\ Become(tree, Written(h), d, Drained(h, q), f)
  BY DEF Flush, FInv, Sizes
<1>2. i \in Inodes /\ q.ino = i /\ Measured(q, Written(h))
  BY EmptiedSizes
<1>3. /\ content \in Contents /\ durable \in Contents
      /\ \A j \in Inodes : Len(durable[j]) <= Capacity
  BY DEF FInv, Sizes
<1>4. Len(content[i]) <= Capacity
  <2>1. /\ Len(content[i]) \in Nat /\ Len(content[i]) + Room <= Capacity
        /\ Room \in 0..Capacity /\ Capacity \in Nat
    BY <1>2, RoomFacts DEF FInv
  <2> HIDE DEF i
  <2> QED BY <2>1
<1>5. d \in Contents /\ \A j \in Inodes : Len(d[j]) <= Capacity
  <2> HIDE DEF i
  <2> QED BY <1>2, <1>3, <1>4 DEF Contents
<1> HIDE DEF d, q, f
<1> QED BY <1>1, <1>2, <1>5, DrainSizes

\* close() lets go of the handle; what it still writes does not outgrow the medium.
LEMMA CloseSizes ==
    ASSUME FInv, NEW h \in Opened, Close(h)
    PROVE  Sizes'
<1>1. Become(tree, Written(h), durable, Drained(h, None), flushed) /\ mounted' \in BOOLEAN
  BY DEF Close, FInv, Sizes
<1>2. durable \in Contents /\ \A j \in Inodes : Len(durable[j]) <= Capacity
  BY DEF FInv, Sizes
<1> QED BY <1>1, <1>2, DrainSizes

\* remove(), rename() and an open() that fails change names, and free files.
LEMMA NamesSizes ==
    ASSUME FInv, mounted' \in BOOLEAN, NEW t, NEW f, Become(t, content, durable, handle, f)
    PROVE  Sizes'
<1>1. \A h \in Handles : handle[h] # None =>
        handle[h].ino \in Inodes /\ Measured(handle[h], content)
  BY DEF FInv, IInv, Sizes, Opened, HandleOK
<1>2. /\ content \in Contents /\ Used(content) <= Capacity /\ durable \in Contents
      /\ adapter \in Drivers /\ \A j \in Inodes : Len(durable[j]) <= Capacity
  BY DEF FInv, Sizes
<1>3. Used(Freed(content, t, handle)) <= Capacity
  <2>1. /\ Used(Freed(content, t, handle)) \in Nat /\ Used(content) \in Nat
        /\ Used(Freed(content, t, handle)) <= Used(content)
    BY <1>2, UsedFreed
  <2> QED BY <2>1, <1>2, FilesParameters
<1> QED BY <1>1, <1>2, <1>3, BecomeSizes

\* writeFile() frees the old file, and writes what fits of the new one.
LEMMA WriteFileSizes ==
    ASSUME FInv, NEW n \in Names, NEW b \in Texts, writeFile(n, b)
    PROVE  Sizes'
<1> DEFINE gone == Freed(content, [tree EXCEPT ![n] = None], handle)
           room == Capacity - Used(gone)
           m == IF Len(b) < room THEN Len(b) ELSE room
           s == SubSeq(b, 1, m)
           t == [tree EXCEPT ![n] = Fresh]
           c == [content EXCEPT ![Fresh] = s]
           d == [durable EXCEPT ![Fresh] = <<>>]
           g == [gone EXCEPT ![Fresh] = s]
<1>1. Unused # {} /\ mounted' \in BOOLEAN /\ Become(t, c, d, handle, flushed \ {Fresh})
  BY DEF writeFile, FInv, Sizes
<1>2. Fresh \in Inodes /\ Fresh \notin Live(tree, handle)
  BY <1>1, FreshUnused
<1>3. /\ content \in Contents /\ Used(content) <= Capacity /\ durable \in Contents
      /\ adapter \in Drivers /\ \A j \in Inodes : Len(durable[j]) <= Capacity
      /\ Capacity \in Nat /\ <<>> \in Texts /\ Len(<<>>) = 0
  BY FilesParameters DEF FInv, Sizes, Texts
<1>4. /\ gone \in Contents /\ Used(gone) \in Nat /\ Used(content) \in Nat
      /\ Used(gone) <= Used(content)
  BY <1>3, UsedFreed
<1>5. Len(b) \in Nat /\ room \in Nat
  <2> HIDE DEF gone
  <2> QED BY <1>3, <1>4 DEF Texts
<1>6. s \in Texts /\ Len(s) <= room /\ Len(s) \in Nat
  <2>1. m \in 0..Len(b) /\ m <= room
    <3> HIDE DEF room
    <3> QED BY <1>5
  <2> HIDE DEF m, room
  <2> QED BY <1>5, <2>1, Prefix
<1> HIDE DEF s
<1>7. /\ c \in Contents /\ d \in Contents /\ g \in Contents
      /\ g[Fresh] = s /\ c[Fresh] = s
      /\ \A j \in Inodes \ {Fresh} : g[j] = gone[j] /\ c[j] = content[j]
      /\ \A j \in Inodes : d[j] = durable[j] \/ d[j] = <<>>
  <2> HIDE DEF gone
  <2> QED BY <1>2, <1>3, <1>4, <1>6 DEF Contents
<1>8. gone[Fresh] = <<>>
  <2>1. Fresh \notin Live([tree EXCEPT ![n] = None], handle)
    <3>1. tree \in [Names -> Inodes \cup {None}]
      BY DEF FInv, IInv
    <3>2. Linked([tree EXCEPT ![n] = None]) \subseteq Linked(tree)
      BY <3>1 DEF Linked
    <3> QED BY <1>2, <3>2 DEF Live
  <2> QED BY <2>1, <1>2 DEF Freed
<1>9. Used(g) \in Nat /\ Used(g) <= Capacity
  <2>1. Used(g) \in Nat /\ Used(g) = Used(gone) - Len(gone[Fresh]) + Len(s)
    <3> HIDE DEF gone
    <3> QED BY <1>2, <1>4, <1>6, UsedChange
  <2> HIDE DEF g, gone
  <2> QED BY <2>1, <1>3, <1>4, <1>6, <1>8
\* The file that the name had is freed unless it is live still.
<1>10. /\ Freed(c, t, handle) \in Contents /\ Used(Freed(c, t, handle)) \in Nat
       /\ Used(Freed(c, t, handle)) <= Capacity
  <2>1. Freed(c, t, handle) \in Contents /\ Used(Freed(c, t, handle)) \in Nat
    BY <1>7, UsedFreed
  <2>2. ASSUME NEW j \in Inodes PROVE Len(Freed(c, t, handle)[j]) <= Len(g[j])
    <3>1. Len(g[j]) \in Nat /\ Len(c[j]) \in Nat /\ Len(content[j]) \in Nat
      <4> HIDE DEF c, g
      <4> QED BY <1>3, <1>7 DEF Contents, Texts
    <3>2. CASE j = Fresh
      <4>1. Freed(c, t, handle)[j] = c[j] \/ Freed(c, t, handle)[j] = <<>>
        BY DEF Freed
      <4> HIDE DEF c, g
      <4>2. c[j] = g[j]
        BY <3>2, <1>7
      <4>3. CASE Freed(c, t, handle)[j] = c[j]
        BY <4>2, <4>3, <3>1
      <4>4. CASE Freed(c, t, handle)[j] = <<>>
        BY <4>4, <3>1, <1>3
      <4> QED BY <4>1, <4>3, <4>4
    <3>3. CASE j # Fresh
      <4>1. CASE j \in Live([tree EXCEPT ![n] = None], handle)
        <5>1. g[j] = content[j]
          BY <1>7, <3>3, <4>1 DEF Freed
        <5>2. Freed(c, t, handle)[j] = content[j] \/ Freed(c, t, handle)[j] = <<>>
          BY <1>7, <3>3 DEF Freed
        <5> HIDE DEF g, c
        <5> QED BY <5>1, <5>2, <3>1, <1>3
      <4>2. CASE j \notin Live([tree EXCEPT ![n] = None], handle)
        <5>1. j \notin Live(t, handle)
          <6>1. tree \in [Names -> Inodes \cup {None}] /\ None \notin Inodes
            BY FilesParameters DEF FInv, IInv
          <6>2. Linked(t) \subseteq Linked([tree EXCEPT ![n] = None]) \cup {Fresh}
            BY <6>1, <1>2 DEF Linked
          <6> HIDE DEF t
          <6> QED BY <6>2, <4>2, <3>3 DEF Live
        <5>2. Freed(c, t, handle)[j] = <<>>
          BY <5>1 DEF Freed
        <5> HIDE DEF g
        <5> QED BY <5>2, <3>1, <1>3
      <4> QED BY <4>1, <4>2
    <3> QED BY <3>2, <3>3
  <2>3. Used(Freed(c, t, handle)) <= Used(g)
    <3> HIDE DEF c, t, g
    <3> QED BY <2>1, <2>2, <1>7, UsedLess
  <2> HIDE DEF c, t, g
  <2> QED BY <2>1, <2>3, <1>3, <1>9
<1>11. \A j \in Inodes : Len(d[j]) <= Capacity
  <2> HIDE DEF c, d, g
  <2> SUFFICES ASSUME NEW j \in Inodes PROVE Len(d[j]) <= Capacity
    OBVIOUS
  <2>1. CASE d[j] = durable[j]
    BY <2>1, <1>3
  <2>2. CASE d[j] = <<>>
    BY <2>2, <1>3
  <2> QED BY <2>1, <2>2, <1>7
<1> HIDE DEF c, g, gone, d
<1>12. ASSUME NEW h \in Handles, handle[h] # None
       PROVE  handle[h].ino \in Inodes /\ Measured(handle[h], c)
  <2>1. HandleOK(handle[h]) /\ Measured(handle[h], content)
    BY <1>12 DEF FInv, IInv, Sizes, Opened
  <2>2. handle[h].ino \in Inodes /\ handle[h].ino \in Live(tree, handle)
    BY <2>1, <1>12 DEF HandleOK, Live
  <2>3. c[handle[h].ino] = content[handle[h].ino]
    BY <2>2, <1>2, <1>7
  <2> QED BY <2>1, <2>2, <2>3 DEF Measured, Behind
<1> HIDE DEF t
<1> QED BY <1>1, <1>3, <1>7, <1>10, <1>11, <1>12, BecomeSizes

\* init(): all files stay, or all go.
LEMMA MountSizes ==
    ASSUME FInv, NEW reformatOnFail, Mount(reformatOnFail)
    PROVE  Sizes'
<1>1. mounted' \in BOOLEAN
  BY DEF Mount
<1>2. CASE UNCHANGED <<adapter, files, handle, flushed>>
  BY <1>1, <1>2 DEF FInv, Sizes, files, Opened, Measured, Behind, Driver
<1>3. CASE Become([n \in Names |-> None], content, durable, handle, {})
  BY <1>1, <1>3, NamesSizes
<1> QED BY <1>2, <1>3 DEF Mount

\* A power cut leaves of each file what it was or what is on the medium.
LEMMA PowerCutSizes ==
    ASSUME FInv, PowerCut
    PROVE  Sizes'
<1>1. PICK lost \in SUBSET Linked(tree), w \in SUBSET Names :
        Become([n \in Names |-> IF n \in w THEN None ELSE tree[n]],
               After(lost), After(lost), Closed, flushed)
  BY DEF PowerCut, After
<1> DEFINE t == [n \in Names |-> IF n \in w THEN None ELSE tree[n]]
           a == After(lost)
<1>2. /\ content \in Contents /\ durable \in Contents /\ adapter \in Drivers
      /\ mounted' \in BOOLEAN /\ Used(content') <= Capacity
      /\ \A j \in Inodes : Len(durable[j]) <= Capacity
  BY DEF FInv, Sizes, PowerCut
<1>3. a \in Contents
  BY <1>2 DEF After, Contents
<1>4. ASSUME NEW j \in Inodes PROVE Len(a[j]) <= Capacity
  <2>1. /\ Len(content[j]) \in Nat /\ Len(content[j]) + Room <= Capacity
        /\ Room \in 0..Capacity /\ Capacity \in Nat
    BY RoomFacts DEF FInv
  <2>2. Len(content[j]) <= Capacity
    BY <2>1
  <2> QED BY <1>2, <2>2 DEF After
<1>5. Used(Freed(a, t, Closed)) <= Capacity
  BY <1>1, <1>2 DEF Become
<1>6. \A h \in Handles : Closed[h] = None
  BY DEF Closed
<1> HIDE DEF a, t
<1>7. Become(t, a, a, Closed, flushed)
  BY <1>1 DEF a, t
<1> QED BY <1>2, <1>3, <1>4, <1>5, <1>6, <1>7, BecomeSizes

\* The medium starts empty.
LEMMA InitSizes == Init => Sizes
<1> SUFFICES ASSUME Init PROVE Sizes
  OBVIOUS
<1> DEFINE c == [i \in Inodes |-> <<>>]
<1>1. content = c /\ durable = c /\ adapter \in Drivers /\ mounted \in BOOLEAN
  BY DEF Init
<1>2. c \in Contents /\ \A i \in Inodes : Len(c[i]) = 0
  BY DEF Contents, Texts
<1>3. Capacity \in Nat /\ DOMAIN c = Inodes
  BY FilesParameters
<1>4. Used(c) = 0
  <2>1. PICK g \in [SUBSET Inodes -> Nat] : Adds(c, g) /\ Used(c) = g[Inodes]
    BY <1>2, UsedAdds
  <2>2. \A T \in SUBSET Inodes :
          g[T] = IF T = {} THEN 0 ELSE Len(c[One(T)]) + g[Rest1(T)]
    <3> HIDE DEF c
    <3> QED BY <1>3, <2>1 DEF Adds
  <2> DEFINE P == {T \in SUBSET Inodes : g[T] = 0}
  <2>3. {} \in P
    BY <2>2
  <2>4. ASSUME NEW T \in SUBSET Inodes, T # {}, Rest1(T) \in P PROVE T \in P
    <3>1. One(T) \in Inodes
      BY <2>4, OneLess
    <3> HIDE DEF c
    <3> QED BY <1>2, <2>2, <2>4, <3>1
  <2>5. SUBSET Inodes \subseteq P
    <3> HIDE DEF P
    <3> QED BY <2>3, <2>4, AllFiles
  <2> QED BY <2>1, <2>5
<1>5. Opened = {}
  BY DEF Init, Closed, Opened
<1> HIDE DEF c
<1> QED BY <1>1, <1>2, <1>3, <1>4, <1>5 DEF Sizes

\* Every step keeps files and handles to size.
LEMMA NextSizes == FInv /\ [Next]_vars => Sizes'
<1> SUFFICES ASSUME FInv, [Next]_vars PROVE Sizes'
  OBVIOUS
<1>1. CASE \E n \in Names, mode \in Modes : \E h \in Handles : Open(h, n, mode)
  BY <1>1, OpenSizes
<1>2. CASE \E h \in Opened : ReadByte(h) \/ (\E k \in 1..Capacity : Read(h, k))
  BY <1>2, ReadByteSizes, ReadBufferSizes
<1>3. CASE \E h \in Opened, b \in Bytes : Write(h, <<b>>) \/ BufferedWrite(h, <<b>>)
  <2>1. \A b \in Bytes : <<b>> \in Texts
    BY DEF Texts
  <2> QED BY <1>3, <2>1, WriteSizes, BufferedWriteSizes
<1>4. CASE \E h \in Opened, p \in 0..MaxPos,
              mode \in {"SeekModeSet", "SeekModeCur", "SeekModeEnd"} : Seek(h, p, mode)
  BY <1>4, SeekSizes
<1>5. CASE \E h \in Opened : SeekFails(h) \/ Flush(h) \/ Close(h)
  BY <1>5, SeekFailsSizes, FlushSizes, CloseSizes
<1>6. CASE \E n \in Names :
              \/ Remove(n) \/ writeFileFails(n)
              \/ \E m \in Names : Rename(n, m)
              \/ \E mode \in Modes : OpenFails(n, mode)
  <2>1. mounted' \in BOOLEAN
    BY <1>6 DEF Remove, writeFileFails, Rename, OpenFails, FInv, Sizes
  <2>2. PICK t : Become(t, content, durable, handle, flushed)
    BY <1>6 DEF Remove, writeFileFails, Rename, OpenFails
  <2> QED BY <2>1, <2>2, NamesSizes
<1>7. CASE \E n \in Names, b \in Bytes : writeFile(n, <<b, b>>)
  <2>1. \A b \in Bytes : <<b, b>> \in Texts
    BY DEF Texts
  <2> QED BY <1>7, <2>1, WriteFileSizes
<1>8. CASE \E reformatOnFail \in BOOLEAN : Mount(reformatOnFail)
  BY <1>8, MountSizes
<1>9. CASE PowerCut
  BY <1>9, PowerCutSizes
<1>10. CASE UNCHANGED vars
  BY <1>10 DEF vars, FInv, Sizes, files, Opened, Measured, Behind, Driver
<1> QED BY <1>1, <1>2, <1>3, <1>4, <1>5, <1>6, <1>7, <1>8, <1>9, <1>10 DEF Next

---------------------------------------------------------------------------
(* The theorems                                                            *)

\* The medium starts empty.
LEMMA InitInvariant == Init => IInv
<1> SUFFICES ASSUME Init PROVE IInv
  OBVIOUS
<1>1. adapter \in Adapters
  BY FilesParameters DEF Init
<1>2. OnInodes(content) /\ OnInodes(durable)
  BY DEF Init, OnInodes
<1>3. handle = [h \in Handles |-> None] /\ Opened = {}
  BY DEF Init, Closed, Opened
<1> QED BY <1>1, <1>2, <1>3 DEF Init, IInv, OnMedium

\* Every step keeps the invariant.
LEMMA NextInvariant == IInv /\ [Next]_vars => IInv'
<1> SUFFICES ASSUME IInv, [Next]_vars PROVE IInv'
  OBVIOUS
<1>1. CASE \E n \in Names, mode \in Modes : \E h \in Handles : Open(h, n, mode)
  BY <1>1, OpenKeeps
<1>2. CASE \E n \in Names, mode \in Modes : OpenFails(n, mode)
  BY <1>2, NamesKeep
<1>3. CASE \E h \in Opened : ReadByte(h) \/ (\E k \in 1..Capacity : Read(h, k))
  BY <1>3, ReadByteKeeps, ReadKeeps
<1>4. CASE \E h \in Opened, b \in Bytes : Write(h, <<b>>) \/ BufferedWrite(h, <<b>>)
  BY <1>4, WriteKeeps, BufferedWriteKeeps
<1>5. CASE \E h \in Opened, p \in 0..MaxPos,
              mode \in {"SeekModeSet", "SeekModeCur", "SeekModeEnd"} : Seek(h, p, mode)
  BY <1>5, SeekKeeps
<1>6. CASE \E h \in Opened : SeekFails(h) \/ Flush(h) \/ Close(h)
  BY <1>6, SeekFailsKeeps, FlushKeeps, CloseKeeps
<1>7. CASE \E n \in Names : Remove(n) \/ writeFileFails(n) \/ \E m \in Names : Rename(n, m)
  BY <1>7, NamesKeep DEF writeFileFails
<1>8. CASE \E n \in Names, b \in Bytes : writeFile(n, <<b, b>>)
  BY <1>8, WriteFileKeeps
<1>9. CASE \E reformatOnFail \in BOOLEAN : Mount(reformatOnFail)
  BY <1>9, MountKeeps
<1>10. CASE PowerCut
  BY <1>10, PowerCutKeeps
<1>11. CASE UNCHANGED vars
  BY <1>11 DEF vars, IInv, files, Opened, HandleOK, Driver, Reads, OnInodes, OnMedium
<1> QED BY <1>1, <1>2, <1>3, <1>4, <1>5, <1>6, <1>7, <1>8, <1>9, <1>10, <1>11 DEF Next

\* Files, names and handles fit together, and what has been flushed is on the
\* medium, under every adapter that syncs (Adapters/*.h).
THEOREM FilesInvariant == Spec => []IInv
<1> QED BY InitInvariant, NextInvariant, PTL DEF Spec

\* Files, names and handles fit together, and none is larger than the medium.
LEMMA FInvAlways == Spec => []FInv
<1>1. Init => FInv
  BY InitInvariant, InitSizes DEF FInv
<1>2. FInv /\ [Next]_vars => FInv'
  BY NextInvariant, NextSizes DEF FInv
<1> QED BY <1>1, <1>2, PTL DEF Spec

\* The file system and each FileImpl stay within their types: no read, write or
\* seek leaves a position or a counter that is out of range (File.h).
THEOREM FilesTypeOK == Spec => []TypeOK
<1>1. FInv => TypeOK
  <2> SUFFICES ASSUME FInv PROVE TypeOK
    OBVIOUS
  <2>1. \A i \in Inodes : Len(content[i]) <= Capacity
    <3>1. \A i \in Inodes : Len(content[i]) \in Nat /\ Len(content[i]) + Room <= Capacity
          /\ Room \in 0..Capacity /\ Capacity \in Nat
      BY RoomFacts DEF FInv
    <3> QED BY <3>1
  <2>2. \A h \in Opened : HandleOK(handle[h]) /\ Measured(handle[h], content)
    BY DEF FInv, IInv, Sizes
  <2> QED BY <2>1, <2>2 DEF FInv, IInv, Sizes, TypeOK, HandleOK, Measured
<1> QED BY <1>1, FInvAlways, PTL

\* available() is the rest of the file, nothing where the handle stands past its
\* end, under the adapters that count it themselves, for a handle that does not append and has been alone with its
\* file (PosixFileSystem.h:98-187, StdioFileSystem.h:97-176).
THEOREM CounterIsRest == Spec => []AvailableIsRest
<1>1. FInv => AvailableIsRest
  <2> SUFFICES ASSUME FInv, NEW h \in Opened, Driver.counts, handle[h].alone,
                      "appends" \notin handle[h].can
               PROVE  handle[h].available = Rest(h)
    BY DEF AvailableIsRest
  <2> DEFINE r == handle[h]
             e == Emptied(r)
             c == Written(h)
             len == Len(c[r.ino])
  <2>1. /\ c \in Contents /\ r.ino \in Inodes /\ e.ino = r.ino /\ e.can = r.can
        /\ e.alone = r.alone /\ e.available = r.available /\ e.pending = <<>>
        /\ Measured(e, c)
    BY EmptiedSizes
  <2> HIDE DEF e, c
  <2>2. r.available = Behind(e, c) /\ e.pos \in 0..MaxPos
    BY <2>1 DEF Measured
  <2>3. len \in Nat /\ Len(<<>>) = 0 /\ MaxPos \in Nat
    BY <2>1, FilesParameters DEF Contents, Texts
  <2>4. Behind(e, c) = IF len - e.pos - 0 > 0 THEN len - e.pos - 0 ELSE 0
    BY <2>1, <2>3 DEF Behind
  <2> HIDE DEF len
  <2>5. r.available = IF e.pos < len THEN len - e.pos ELSE 0
    BY <2>2, <2>3, <2>4
  <2> QED BY <2>5 DEF Rest, e, c, len
<1> QED BY <1>1, FInvAlways, PTL

\* A handle that only reads keeps the file it was opened on, until another
\* handle writes to that file (FileSystem.h:135-152).
THEOREM ReadersKept == Spec => []ReadersKeepVersion
<1>1. IInv => ReadersKeepVersion
  BY DEF IInv, ReadersKeepVersion, Reads
<1> QED BY <1>1, FilesInvariant, PTL

\* A name that a power cut leaves still has its file, as it was flushed.
LEMMA CutStep ==
    ASSUME IInv, [Next]_vars, mounted, ~ mounted', adapter # "Stdio",
           NEW n \in Names, tree'[n] # None, tree[n] \in flushed
    PROVE  tree'[n] = tree[n] /\ content'[tree[n]] = content[tree[n]]
<1>1. PowerCut
  BY DEF Next, vars, Open, OpenFails, ReadByte, Read, Write, BufferedWrite, Seek,
         SeekFails, Flush, Close, Remove, writeFileFails, Rename, writeFile, Mount
<1>2. PICK lost \in SUBSET Linked(tree), w \in SUBSET Names :
        Become([m \in Names |-> IF m \in w THEN None ELSE tree[m]],
               After(lost), After(lost), Closed, flushed)
  BY <1>1 DEF PowerCut, After
<1> DEFINE t == [m \in Names |-> IF m \in w THEN None ELSE tree[m]]
<1>3. tree' = t /\ content' = Freed(After(lost), t, Closed)
  BY <1>2 DEF Become
<1>4. tree'[n] = tree[n] /\ t[n] = tree[n] /\ tree[n] \in Inodes
  BY <1>3 DEF IInv
<1>5. tree[n] \in Live(t, Closed)
  BY <1>4 DEF Live, Linked
<1>6. content'[tree[n]] = After(lost)[tree[n]]
  BY <1>3, <1>4, <1>5 DEF Freed
<1>7. durable[tree[n]] = content[tree[n]]
  BY DEF IInv, OnMedium
<1> QED BY <1>4, <1>6, <1>7 DEF After

\* What was flushed, and not written since, survives a power cut, under every
\* adapter but StdioFileSystem (PosixFileSystem.h:190).
THEOREM FlushedSurvives == Spec => FlushSurvives
<1>1. IInv /\ [Next]_vars =>
        [mounted /\ ~mounted' /\ adapter # "Stdio" =>
          \A n \in Names : (tree'[n] # None /\ tree[n] \in flushed) =>
            tree'[n] = tree[n] /\ content'[tree[n]] = content[tree[n]]]_vars
  BY CutStep
<1> QED BY <1>1, FilesInvariant, PTL DEF Spec, FlushSurvives

=============================================================================
