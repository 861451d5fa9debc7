\* The caller calls compact().
CONSTANTS
    Keys = {k1, k2}
    EmptyKeys = {}
    Payloads <- TwoValues
    None = None
    Tombstone = Tombstone
    Torn = Torn
    NoFile = NoFile
    Closed = Closed
    Unlinked = Unlinked
    SegCount = 2
    SegRecs = 2
    MaxRecs = 0
    PolicyTTL = 0
    Threshold = 0
    Ops = {"put", "compact"}
    Crashes = {}
    TornWrites = {}
    Faults = {}
    IndexLoss = FALSE
    MaxOffset = 3
    MaxDead = 20
    MaxTime = 0
SPECIFICATION Spec
SYMMETRY SymKeys
INVARIANTS AppendsWhereIndexed
