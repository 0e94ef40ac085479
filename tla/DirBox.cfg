SPECIFICATION FairSpec
CONSTANTS
    Names <- MCNames
    Size <- MCSize
    Rank <- MCRank
    ZidOf <- MCZidOf
    NoZid = none
    Syntax <- MCSyntax
    ExtRank <- MCExtRank
    Zids = {z1, z2}
    NewZids = {z2}
    ZidName <- MCZidName
    Kinds <- MCKinds
    Clients = {c1, c2}
    WorkerOf <- MCWorkerOf
    Watch = TRUE
    Scenarios <- MCScenarios
    z1 = z1
    z2 = z2
    none = none
    c1 = c1
    c2 = c2
INVARIANTS
    BoxFollowsDisk
    ReadsAreWhole
PROPERTIES
    Settles
CHECK_DEADLOCK FALSE
