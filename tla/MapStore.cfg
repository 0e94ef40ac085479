SPECIFICATION CallSpec
CONSTANTS
    Zids = {1, 2}
    Keys = {folge}
    Words = {w}
    Indices <- MCIndices
INVARIANTS
    BothEndsAgree
    StoreIsAsGiven
PROPERTIES
    UnindexedAreReported
