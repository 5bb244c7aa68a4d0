SPECIFICATION Spec
CONSTANTS
    Dispatches = {d1, d2}
    Other = {}
    Fingerprints = {"f1", "f2"}
    Fp <- MCFp
    Mode = "HOT_DURABLE"
    LeaseSeconds = 1
    RetentionSeconds = 2
    HotCacheSeconds = 2
    Guarded = TRUE
    Changing = {"f1"}
    Faults = {"timeout", "crash", "evict", "database", "conflict", "writer"}
    MaxTime = 3
    None = None
SYMMETRY Symmetry
CHECK_DEADLOCK FALSE
INVARIANTS
    TypeOK
    HotMatchesRecord
    NoFalseMismatch
PROPERTIES
    LeaseStaysWithOwner
