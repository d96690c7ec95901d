SPECIFICATION Spec
CONSTANTS
    t1 = t1
    t2 = t2
    Batches = {b1, b2}
    Targets = {t1, t2}
    BudgetRows <- TotalRows
    GrantBudget <- GrantForT2
    ReservationTTL = 1
    Retention = 1
    MaxLag = 0
    Horizon = 2
SYMMETRY BatchSymmetry
INVARIANT TypeOK
PROPERTIES
    DebtGrowsWithinLimit
    ChargedExactlyOnce
    ResolutionIsFinal
