\* The list and the chains, with slots in the middle of both.
CONSTANTS
    Keys = {k1, k2, k3, k4}
    Payloads <- Fleeting
    None = None
    Capacity = 3
    Hash <- OneBucket
    MaxRecs = 0
    PolicyTTL = 0
    Ops = {"put", "get", "remove"}
    Faults = {}
    MaxTime = 1
SPECIFICATION Spec
SYMMETRY SymKeys
INVARIANTS WellLinked EvictsLeastRecent
