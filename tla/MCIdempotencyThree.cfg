SPECIFICATION Spec
CONSTANTS
    Dispatches = {d1, d2, d3}
    Other = {d3}
    Fingerprints = {"f1", "f2"}
    Fp <- MCFp
    Mode = "HOT_DURABLE"
    LeaseSeconds = 1
    RetentionSeconds = 2
    HotCacheSeconds = 2
    Guarded = TRUE
    Changing = {"f2"}
    Faults = {"cancel", "domain"}
    MaxTime = 2
    None = None
SYMMETRY Symmetry
CHECK_DEADLOCK FALSE
INVARIANTS
    OncePerRetention
    AnswersAgree
PROPERTIES
    ImplementsOnceMemory
