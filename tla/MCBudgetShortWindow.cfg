SPECIFICATION FixedSpec
CONSTANTS
    t1 = t1
    t2 = t2
    Batches = {b1, b2}
    Targets = {t1}
    BudgetRows <- ShortWindowRows
    GrantBudget <- NoGrants
    ReservationTTL = 3
    Retention = 3
    MaxLag = 0
    Horizon = 4
INVARIANT ExecutionsWithinWindow
