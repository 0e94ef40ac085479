SPECIFICATION MCSpec
CONSTANTS
    Zids = {3, 10, 11, 15, 20, 21}
    Predefined <- MCPredefined
    Builtin = {15}
    Manual = {10, 11}
    ManualHome = 10
    FirstM = 2
    MaxM = 4
    LastM = 4
    FirstN = 5
    MaxN = 7
    Writable = TRUE
INVARIANTS
    NumbersAreUnique
    ManualNumbers
PROPERTIES
    KeepsNumber
