SPECIFICATION FairSpec
CONSTANTS
    Workers = {w1, w2}
    Invalid = 0
    StartSxnZid = 1
    BaseSxnZid = 2
    PreludeSxnZid = 3
    Templates = {5, 6}
    ErrorTemplateZid = 6
    Predefined <- MCPredefined
    Contents <- MCContents
    MaxChanges = 2
INVARIANTS
    CodeIsCurrent
    TemplateIsCurrent
PROPERTIES
    IsAnswered
