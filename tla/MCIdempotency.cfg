SPECIFICATION Spec
CONSTANTS
    c1 = c1
    c2 = c2
    c3 = c3
    c4 = c4
    k1 = k1
    alice = alice
    bob = bob
    Callers = {c1, c2, c3, c4}
    Keys = {k1}
    KeyOf <- OneKey
    IdentityOf <- TwoIdentities
    NoOwner = NoOwner
    Lease = 1
    Grace = 2
    Retention = 4
    Horizon = 5
SYMMETRY RetrySymmetry
INVARIANT
    DispatchedKeepsKey
PROPERTIES
    HonoursClaims
    NoDuplicateExecution
    AmbiguousUntilRetention
    CompletedIsFinal
