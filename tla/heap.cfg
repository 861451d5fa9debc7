\* Three keys and room for two or for any number, records of all lifetimes,
\* policies changed by the caller, two translation units over a roll-over of
\* millis().
CONSTANTS
    Units = {"caller", "store"}
    MsWrap = 4
    MsPerSec = 2
    Offsets = {0, 1}
    SetBack = FALSE
    MaxMs = 5
    Keys = {1, 2, 3}
    Payloads <- Lifetimes
    None = None
    SecWrap = 64
    TTLs = {0, 2}
    Limits = {0, 2}
    Ops = {"put", "get", "remove", "clear", "set_ttl_secs", "set_max_recs", "iterate"}
    Decodable = {1, 2}
    NoIterator = NoIterator
    End = End
SPECIFICATION Spec
CHECK_DEADLOCK FALSE
INVARIANTS TypeOK ReadsBack ClocksAgree IterationComplete IteratorValid HInv
PROPERTIES EvictsOnlyWhenFull
