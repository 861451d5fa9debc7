\* Compactions that fail, cooldowns, reboots: every call still returns.
CONSTANTS
    Keys = {k1, k2}
    EmptyKeys = {}
    Payloads <- OneValue
    None = None
    Tombstone = Tombstone
    Torn = Torn
    NoFile = NoFile
    Closed = Closed
    Unlinked = Unlinked
    SegCount = 2
    SegRecs = 1
    MaxRecs = 1
    PolicyTTL = 0
    Threshold = 50
    Ops = {"put", "remove", "clear", "compact", "reboot"}
    Crashes = {}
    TornWrites = {}
    Faults = {"append", "tmp_open", "tmp_write", "journal", "rename"}
    IndexLoss = FALSE
    MaxOffset = 1
    MaxDead = 2
    MaxTime = 0
SPECIFICATION FairSpec
PROPERTIES CallsReturn
