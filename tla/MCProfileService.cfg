SPECIFICATION LiveSpec
CONSTANTS
    u1 = u1
    u2 = u2
    c1 = c1
    c2 = c2
    Users = {u1, u2}
    Usernames = {"a"}
    Texts = {"x", "y"}
    Commands <- MCCommands
    Start <- MCStart
    None = None
    Clients = {c1, c2}
    Deployments <- MCDeployments
    Sessions <- MCSessions
    Keys <- MCKeys
    Flaws <- MCFlaws
    MaxVersion = 2
    MaxExpiries = 1
    MaxFaults = 1
CHECK_DEADLOCK FALSE

PROPERTIES RetriesEnd
INVARIANTS
    TypeOK
    ProvisionedIsServed
    FaithfulClientServed
