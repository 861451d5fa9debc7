------------------------------ MODULE Adapters ------------------------------
(***************************************************************************)
(* The adapters of src/include/microStore/Adapters, side by side: what     *)
(* each makes of the modes of File (File.h) and of the calls that File and *)
(* FileSystem hand down to it.  Beneath them are the C library or the file *)
(* systems of the boards' frameworks, known from how they are used here.   *)
(***************************************************************************)

CONSTANT OnESP32    \* the board's LittleFS is under the C library

ASSUME BoardParameter == OnESP32 \in BOOLEAN

\* open(): a mode gives the handle these abilities.  "appends": each write
\* goes to the end of the file.  "removes": the file is removed first.
PosixOpen == [
    ModeRead       |-> {"reads"},
    ModeWrite      |-> {"writes", "creates", "truncates"},
    ModeAppend     |-> {"writes", "creates", "appends"},
    ModeReadWrite  |-> {"reads", "writes", "creates", "truncates"},
    ModeReadAppend |-> {"reads", "writes", "creates", "appends"}]

StdioOpen == PosixOpen       \* "r", "w", "a", "w+", "a+"
LittleFSOpen == PosixOpen    \* FILE_READ, FILE_WRITE, FILE_APPEND, "w+", "a+"
SPIFFSOpen == PosixOpen

\* As SD has it, after exists() for ModeRead.
SDOpen == PosixOpen

\* FILE_O_WRITE appends, so the file that should be truncated is removed.
FlashFSOpen == [
    ModeRead       |-> {"reads"},
    ModeWrite      |-> {"writes", "creates", "appends", "removes"},
    ModeAppend     |-> {"writes", "creates", "appends"},
    ModeReadWrite  |-> {"reads", "writes", "creates", "appends", "removes"},
    ModeReadAppend |-> {"reads", "writes", "creates", "appends"}]

InternalFSOpen == FlashFSOpen

\* FileImpl.  counts: available() is a counter of the adapter's, not the
\* library's answer.  buffers: a write reaches the file when it is flushed.
\* syncs: flush() writes to the medium.
PosixFile == [counts |-> TRUE, buffers |-> FALSE, syncs |-> TRUE]
StdioFile == [counts |-> TRUE, buffers |-> TRUE, syncs |-> FALSE]
LittleFSFile == [counts |-> FALSE, buffers |-> FALSE, syncs |-> TRUE]
SPIFFSFile == [counts |-> FALSE, buffers |-> FALSE, syncs |-> TRUE]
SDFile == [counts |-> FALSE, buffers |-> FALSE, syncs |-> TRUE]
FlashFSFile == [counts |-> FALSE, buffers |-> FALSE, syncs |-> TRUE]
InternalFSFile == [counts |-> FALSE, buffers |-> FALSE, syncs |-> TRUE]

\* init() and format().  verifies: init()'s test file is written before init()
\* looks at the answer, so that a full medium shows.  formats: format() erases
\* all files.
PosixInit == [verifies |-> TRUE, formats |-> OnESP32]
StdioInit == [verifies |-> FALSE, formats |-> OnESP32]
LittleFSInit == [verifies |-> TRUE, formats |-> TRUE]
SPIFFSInit == [verifies |-> TRUE, formats |-> TRUE]
SDInit == [verifies |-> TRUE, formats |-> FALSE]
FlashFSInit == [verifies |-> TRUE, formats |-> TRUE]
InternalFSInit == [verifies |-> TRUE, formats |-> TRUE]

Adapters == {"Posix", "Stdio", "LittleFS", "SPIFFS", "SD", "FlashFS", "InternalFS"}

Opens == [Posix |-> PosixOpen, Stdio |-> StdioOpen, LittleFS |-> LittleFSOpen,
          SPIFFS |-> SPIFFSOpen, SD |-> SDOpen, FlashFS |-> FlashFSOpen,
          InternalFS |-> InternalFSOpen]

FileImpls == [Posix |-> PosixFile, Stdio |-> StdioFile, LittleFS |-> LittleFSFile,
              SPIFFS |-> SPIFFSFile, SD |-> SDFile, FlashFS |-> FlashFSFile,
              InternalFS |-> InternalFSFile]

Inits == [Posix |-> PosixInit, Stdio |-> StdioInit, LittleFS |-> LittleFSInit,
          SPIFFS |-> SPIFFSInit, SD |-> SDInit, FlashFS |-> FlashFSInit,
          InternalFS |-> InternalFSInit]

\* The adapters that run on the C library of the host or of the board.
Native == {"Posix", "Stdio"}
=============================================================================
