SPECIFICATION Spec
CONSTANTS
    MaxPieces = 4
    MaxElements = 2
    Limits = {0, 1, 9}
PROPERTIES
    EncodingSettles
    NothingIsLost
    TreeIsClean
    ZettelIsKept
    AllIsExpanded
    CyclesAreReported
    LimitHolds
    ListIsShown
CHECK_DEADLOCK FALSE
