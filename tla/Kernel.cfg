SPECIFICATION FairSpec
CONSTANTS
    Sessions = {s1}
    Owners = {o1, o2}
    NoOwner = none
    Sites = {"a", "b"}
    NoSite = "absent"
    Uris = {u1, u2}
    FirstConfigs <- MCFirstConfigs
    MaxUri = 2
    MaxCommands = 2
    MaxChanges = 1
    MaxFailures = 1
    Serial = TRUE
    Overlap = FALSE
    s1 = s1
    o1 = o1
    o2 = o2
    none = none
    u1 = u1
    u2 = u2
INVARIANTS
    ServicesAreOrdered
    ConfigIsEffective
PROPERTIES
    OwnerAndModeStay
    ShutsDown
CHECK_DEADLOCK FALSE
