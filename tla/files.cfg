\* All adapters; two names, two handles and two files, so that a name can be
\* given to a new file while the old one is open, on a medium of two bytes. Gaps
\* are filled with the one byte there is, which makes a file its length, and the
\* modes are those that read: the others do the same without reading.
CONSTANTS
    OnESP32 = TRUE
    Names = {a, b}
    Inodes = {1, 2}
    Handles = {h1, h2}
    Bytes = {x}
    Zero = x
    Drivers = {"Posix", "Stdio", "LittleFS", "SPIFFS", "SD", "FlashFS", "InternalFS"}
    Modes = {"ModeRead", "ModeReadWrite", "ModeReadAppend"}
    Capacity = 2
    TestLen = 1
    SizeWrap = 16
    MaxPos = 2
    MaxBuffered = 1
    MaxWriters = 1
    None = None
SPECIFICATION Spec
SYMMETRY Symmetric
INVARIANTS TypeOK AvailableIsRest ReadersKeepVersion
PROPERTIES FlushSurvives
