\* Two records at most, so that puts evict, records of two lifetimes, two
\* priorities and three ranks, and a clock.
CONSTANTS
    Keys = {k1, k2, k3}
    EmptyKeys = {}
    Payloads <- Fates
    None = None
    Tombstone = Tombstone
    Torn = Torn
    NoFile = NoFile
    Closed = Closed
    Unlinked = Unlinked
    SegCount = 2
    SegRecs = 2
    MaxRecs = 2
    PolicyTTL = 0
    Threshold = 0
    Ops = {"put", "remove", "clear", "get"}
    Crashes = {}
    TornWrites = {}
    Faults = {}
    IndexLoss = FALSE
    MaxOffset = 2
    MaxDead = 20
    MaxTime = 2
SPECIFICATION Spec
SYMMETRY SymKeys
INVARIANTS NothingLost EInv
PROPERTIES ImplementsKVStore
