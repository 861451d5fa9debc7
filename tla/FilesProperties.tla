-------------------------- MODULE FilesProperties ---------------------------
(* What callers of File and FileSystem may count on, whatever the adapter. *)
EXTENDS Files

\* The state of the file system and of each FileImpl has its type (File.h,
\* FileSystem.h).
TypeOK ==
    /\ adapter \in Drivers /\ mounted \in BOOLEAN
    /\ tree \in [Names -> Inodes \cup {None}]
    /\ \A i \in Inodes : Len(content[i]) <= Capacity /\ Len(durable[i]) <= Capacity
    /\ \A h \in Opened :
        /\ handle[h].ino \in Inodes /\ handle[h].can \in {Opens[adapter][m] : m \in Modes}
        /\ handle[h].pos \in 0..MaxPos /\ handle[h].available \in 0..SizeWrap - 1
    /\ flushed \subseteq Inodes

\* available() is the rest of the file after the position, nothing past its
\* end, for a handle that does not append and has been the only one to write
\* since it was opened or moved: through reads, overwrites, extensions, short
\* writes on a full medium, moves past the end, writes behind a gap and what
\* C's library still buffers (PosixFileSystem.h:98-187, StdioFileSystem.h:97-176).
Rest(h) ==
    LET size == Len(Written(h)[handle[h].ino])
        pos == Emptied(handle[h]).pos
    IN  IF pos < size THEN size - pos ELSE 0
AvailableIsRest ==
    \A h \in Opened :
        (Driver.counts /\ handle[h].alone /\ "appends" \notin handle[h].can)
            => handle[h].available = Rest(h)

\* A handle that only reads keeps the file it was opened on, although the
\* name has been removed, renamed or given to a new file by writeFile(),
\* until another handle writes to that very file (FileSystem.h:135-152: the
\* comment asks whether removing the file first is needed).
ReadersKeepVersion ==
    \A h \in Opened :
        handle[h].version # None => content[handle[h].ino] = handle[h].version

\* A name that a power cut leaves on a file flushed, and not written since,
\* still has that file, whole.  StdioFileSystem's flush() does not go that far
\* (PosixFileSystem.h:190, StdioFileSystem.h:179).
FlushSurvives ==
    [][mounted /\ ~mounted' /\ adapter # "Stdio" =>
        \A n \in Names : (tree'[n] # None /\ tree[n] \in flushed) =>
            tree'[n] = tree[n] /\ content'[tree[n]] = content[tree[n]]]_vars

=============================================================================
