SPECIFICATION MCSpec
CONSTANTS
    Zids <- MCZids
    Base <- MCBase
    Overlaid = {}
    Invalid = invalid
    Keys = {}
    Words = {}
    Texts <- MCTexts
    Writers = {w}
    Watchers = {u}
    Indexer = indexer
    InMemory = FALSE
    MaxInfos = 1
    MaxChanges = 2
    MaxRefreshes = 1
    invalid = invalid
    home = home
    a = a
    b = b
    w = w
    u = u
    indexer = indexer
INVARIANTS
    IndexFollows
    ReferrersAreIndexed
    CalmRefreshRepairs
PROPERTIES
    Settles
