\* Three segments of two records, filled and compacted, also when three fifths
\* of the records are dead; reboots, index.dat missing at some of them.
CONSTANTS
    Keys = {k1, k2}
    EmptyKeys = {}
    Payloads <- TwoValues
    None = None
    Tombstone = Tombstone
    Torn = Torn
    NoFile = NoFile
    Closed = Closed
    Unlinked = Unlinked
    SegCount = 3
    SegRecs = 2
    MaxRecs = 0
    PolicyTTL = 0
    Threshold = 60
    Ops = {"put", "remove", "clear", "reboot"}
    Crashes = {}
    TornWrites = {}
    Faults = {}
    IndexLoss = TRUE
    MaxOffset = 2
    MaxDead = 20
    MaxTime = 0
SPECIFICATION Spec
SYMMETRY SymKeys
INVARIANTS DInv Durable IndexSound LogReplays Compacted AppendsWhereIndexed DeadCounterHonest
