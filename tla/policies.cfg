\* Lifetimes, and a second level that holds one record.
CONSTANTS
    Keys = {1, 2}
    Payloads <- Lifetimes
    None = None
    Capacity = 2
    Hash <- OneBucket
    MaxRecs = 1
    PolicyTTL = 0
    Ops = {"put", "exists", "remove", "clear", "iterate", "sync", "reboot"}
    Faults = {"l2_put"}
    MaxTime = 2
SPECIFICATION Spec
INVARIANTS TypeOK NeverStale TieredInv
