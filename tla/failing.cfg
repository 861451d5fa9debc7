\* Every call, power cut and I/O error but that of a journal that cannot be
\* written; the program itself never stops.
CONSTANTS
    Keys = {k1}
    EmptyKeys = {}
    Payloads <- OneValue
    None = None
    Tombstone = Tombstone
    Torn = Torn
    NoFile = NoFile
    Closed = Closed
    Unlinked = Unlinked
    SegCount = 2
    SegRecs = 1
    MaxRecs = 0
    PolicyTTL = 0
    Threshold = 0
    Ops = {"put", "remove", "clear", "clear_on_init", "compact", "get", "close", "use_after_close", "reboot"}
    Crashes = {"quiet", "copying", "partial", "committed", "swapped", "clearing"}
    TornWrites = {"segment", "index", "journal", "tmp", "bulk"}
    Faults = {"append", "tmp_open", "tmp_write", "rename"}
    IndexLoss = TRUE
    MaxOffset = 2
    MaxDead = 2
    MaxTime = 0
SPECIFICATION Spec
INVARIANTS TypeOK
PROPERTIES DeletesAreJournaled
