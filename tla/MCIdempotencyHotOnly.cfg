SPECIFICATION Spec
CONSTANTS
    Dispatches = {d1, d2, d3}
    Other = {d3}
    Fingerprints = {"f1", "f2"}
    Fp <- MCFp
    Mode = "HOT_ONLY"
    LeaseSeconds = 1
    RetentionSeconds = 2
    HotCacheSeconds = 1
    Guarded = FALSE
    Changing = {"f1"}
    Faults = {"timeout", "cancel"}
    MaxTime = 3
    None = None
SYMMETRY Symmetry
CHECK_DEADLOCK FALSE
INVARIANTS
    HotOnlySuccessStored
    AnswersAgree
