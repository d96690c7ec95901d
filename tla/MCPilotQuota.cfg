\* One slot for two queries, two officers whose saves can overtake each other.
SPECIFICATION PilotSpec
CONSTANTS
    Officers = {o1, o2}
    Queries = {m1, m2}
    Banks = {m1, m2}
    BankOf <- EachItsBank
    PilotQuota = 1
    BankQuota = 1
    Operator = operator
    Nothing = nothing
SYMMETRY PilotSymmetry
INVARIANT QuotaHolds
CHECK_DEADLOCK FALSE
