CONSTANTS
    MaxWords = 3
    MaxSearches = 2
    MaxVanish = 1
SPECIFICATION MCSpec
INVARIANTS
    TextIsMeaning
    ResultIsExact
    SetsAreSets
    DirectivesAreExact
PROPERTIES
    Ends
CHECK_DEADLOCK FALSE
