SPECIFICATION LiveSpec
CONSTANTS
    u1 = u1
    u2 = u2
    Users = {u1, u2}
    Usernames = {"a", "b", "c"}
    Texts = {"x"}
    Commands <- MCRenames
    Start <- MCNamed
    Clients = {c1, c2, c3}
    None = None
CHECK_DEADLOCK FALSE
INVARIANTS
    UsernamesUnique

PROPERTIES
    EveryCommandEnds
