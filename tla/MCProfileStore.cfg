SPECIFICATION Spec
CONSTANTS
    u1 = u1
    u2 = u2
    Users = {u1, u2}
    Usernames = {"a", "b"}
    Texts = {"x"}
    Commands <- MCCommands
    Start <- MCStart
    Clients = {c1, c2, c3}
    None = None
SYMMETRY Symmetry
CHECK_DEADLOCK FALSE
INVARIANTS
    TypeOK
    VersionNamesContent
    ProvisionedIsWhole
PROPERTIES
    ImplementsProfileRows
