SPECIFICATION Spec
CONSTANTS
    NoUser = nobody
    NoOwner = none
    Clients = {c1, c2}
    Zids = {1, 2, 3}
    Idents = {"o", "u"}
    Metas <- MCMetas
    Configs <- MCConfigs
    Stores <- MCStores
    Lifetime <- MCLifetime
    Budgets <- MCBudgets
    nobody = nobody
    none = none
    c1 = c1
    c2 = c2
INVARIANTS
    RolesAreGranted
    AnswersArePermitted
    RightsAreOrdered
    RenewalHolds
SYMMETRY Symmetry
CHECK_DEADLOCK FALSE
