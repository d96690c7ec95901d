SPECIFICATION FairSpec
CONSTANTS
    t1 = t1
    t2 = t2
    Batches = {b1, b2}
    Targets = {t1}
    BudgetRows <- ShortWindowRows
    GrantBudget <- NoGrants
    ReservationTTL = 1
    Retention = 1
    MaxLag = 0
    Horizon = 2
PROPERTY ExpiredSlotsComeBack
