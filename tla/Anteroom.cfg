SPECIFICATION FairSpec
CONSTANTS
    Zids <- MCZids
    NeverIndexed <- MCNeverIndexed
    MaxLoad = 2
INVARIANTS
    RoomsAreSound
PROPERTIES
    ImplementsIndexWork
    NoStarvation
