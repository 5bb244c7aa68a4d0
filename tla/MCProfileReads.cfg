SPECIFICATION ReadSpec
CONSTANTS
    u1 = u1
    u2 = u2
    Users = {u1, u2}
    Usernames = {"a"}
    Texts = {"x"}
    Versions = {1, 2, 3}
    Commands <- MCCommands
    Start <- MCHalves
    Readers = {r1}
    Queries <- MCQueries
    None = None
CHECK_DEADLOCK FALSE
INVARIANTS
    HiddenStaysHidden
    NoSpuriousSettingsError
