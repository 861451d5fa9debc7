\* Power may fail between any two writes, up to the rename of compact.tmp,
\* except while source segments are being deleted or the store is cleared.
\* Records of one lifetime and of none.
CONSTANTS
    Keys = {k1, k2}
    EmptyKeys = {}
    Payloads <- Fading
    None = None
    Tombstone = Tombstone
    Torn = Torn
    NoFile = NoFile
    Closed = Closed
    Unlinked = Unlinked
    SegCount = 2
    SegRecs = 2
    MaxRecs = 0
    PolicyTTL = 0
    Threshold = 0
    Ops = {"get", "put", "remove"}
    Crashes = {"quiet", "copying", "committed"}
    TornWrites = {"segment", "tmp"}
    Faults = {}
    IndexLoss = FALSE
    MaxOffset = 2
    MaxDead = 20
    MaxTime = 1
SPECIFICATION Spec
SYMMETRY SymKeys
INVARIANTS Durable IndexFileReplays NothingLost DInv
PROPERTIES JournalMovesForward ImplementsKVStore
