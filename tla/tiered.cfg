\* Eviction, promotion, sync and power cuts; the second level keeps all.
CONSTANTS
    Keys = {1, 2, 3}
    Payloads <- TwoValues
    None = None
    Capacity = 2
    Hash <- OddEven
    MaxRecs = 0
    PolicyTTL = 0
    Ops = {"put", "get", "exists", "remove", "clear", "iterate", "sync", "reboot"}
    Faults = {"l2_put"}
    MaxTime = 0
SPECIFICATION Spec
INVARIANTS Coherent CrashSafe EachOnce TieredInv
