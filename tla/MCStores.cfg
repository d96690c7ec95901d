SPECIFICATION StoresSpec
CONSTANTS
    \* the budget store
    t1 = t1
    Batches = {c1, c2, c3}
    Targets = {t1}
    BudgetRows <- WindowRows
    GrantBudget <- NoGrants
    ReservationTTL = 2
    Retention = 1
    MaxLag = 1
    Horizon = 5
    \* the circuit breaker
    Peers = {a1, a2}
    Callers = {c1, c2, c3}
    Probes = {p1, p2, p3, p4, p5}
    NoProbe = NoProbe
    Policies <- TwoPolicies
    MaxReportLag = 1
    FailureCap = 2
SYMMETRY StoresSymmetry
INVARIANTS
    WithinRollingBudget
    SingleProbe
    ProbeNeverSuperseded
PROPERTIES
    KeepsTheLedger
    WindowHistoryKept
    KeepsTheGate
    ProbeFencing
    CooldownHolds
