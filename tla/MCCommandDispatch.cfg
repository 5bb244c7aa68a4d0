SPECIFICATION Spec
CONSTANTS
    Dispatches = {d1, d2, d3}
    Registrations <- MCRegistrations
    Requests <- MCRequests
    MaxRelease = 2
    MaxWindow = 1
    None = None
SYMMETRY Symmetry
CHECK_DEADLOCK FALSE
INVARIANTS
    TypeOK
    ResultIsOfOwnRequest
    OncePerWindow
    OwnResultDecodes
    UnreadableMeansDone
