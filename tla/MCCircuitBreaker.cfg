SPECIFICATION LiveSpec
CONSTANTS
    Callers = {c1, c2, c3}
    FailMax = 2
    RecoveryTimeout = 2
    MaxFaults = 6
    None = None
INVARIANTS
    TypeOK
    CountMatchesState
    ProbeOwned
    SingleProbe
PROPERTIES
    StaleOutcomeIgnored
    Recovers
