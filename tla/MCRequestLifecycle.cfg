SPECIFICATION Spec
CONSTANTS
    Statuses = {200, 409, 503}
    SafeIds = {"safe", "generated"}
    Headers <- MCHeaders
    Generated = "generated"
    None = None
CHECK_DEADLOCK FALSE
INVARIANTS
    OneResponse
    RecordIsHonest
    StayingClientAnswered
