SPECIFICATION Spec
CONSTANTS
    q1 = q1
    q2 = q2
    t1 = t1
    t2 = t2
    k1 = k1
    Queries = {q1, q2}
    Targets = {t1}
    UseBreaker = FALSE
    UseKey = FALSE
    Operational <- AllOperational
    Faults = FALSE
    BudgetRows = {}
    GrantBudget <- OneEach
    ReservationTTL = 1
    BudgetRetention = 0
    BudgetHorizon = 2
    Probes = {p1}
    NoProbe = NoProbe
    Policies <- OpenAtOnce
    FailureCap = 1
    Keys = {k1}
    KeyOf <- OneKey
    IdentityOf <- OneIdentity
    NoOwner = NoOwner
    Lease = 1
    Grace = 1
    KeyRetention = 2
    KeyHorizon = 3
INVARIANT ReleasedWasNeverSent
