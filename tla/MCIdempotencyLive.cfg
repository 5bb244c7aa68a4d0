SPECIFICATION LiveSpec
CONSTANTS
    Dispatches = {d1, d2}
    Other = {d2}
    Fingerprints = {"f1", "f2"}
    Fp <- MCFp
    Mode = "HOT_DURABLE"
    LeaseSeconds = 1
    RetentionSeconds = 2
    HotCacheSeconds = 2
    Guarded = TRUE
    Changing = {"f1", "f2"}
    Faults = {"timeout", "database", "domain"}
    MaxTime = 2
    None = None
CHECK_DEADLOCK FALSE
PROPERTIES
    EveryDispatchEnds
