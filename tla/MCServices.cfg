\* PilotOperations: one slot for two queries of two banks, so that every
\* reservation competes; two officers whose saves can overtake each other.
\* RegistryMutations: two versions, five mutations, one of them lost.
\* FederatedJob: three overlapping executions of a job of two rounds.
\* PrivacyBudget: two workers, two jobs; the budget is met within four trainings.
\* IsolatedMatching: three queries, two of them under one ticket; two threads.
SPECIFICATION ServicesSpec
CONSTANTS
    Officers = {a1, a2}
    Queries = {m1, m2}
    Banks = {m1, m2}
    BankOf <- EachItsBank
    PilotQuota = 1
    BankQuota = 1
    Operator = operator
    Nothing = nothing
    TrainingJobs = {a1, a2}
    Digests = {m1, m2}
    Reconcilers = {r1}
    MaxMutations = 5
    MaxLost = 1
    MaxVersions = 2
    UnreadableLater = FALSE
    NoFile = NoFile
    Executions = {x1, x2, x3}
    Participants = {a1, a2}
    Outcomes = {m1, m2}
    Rounds = 2
    NotYet = NotYet
    BankWorkers = {a1, a2}
    DpJobs = {m1, m2}
    DpRounds = 2
    Target = 2
    Allocated = 5
    MaxTrainings = 4
    NoAccountant = NoAccountant
    u1 = u1
    u2 = u2
    u3 = u3
    t1 = t1
    t2 = t2
    PsiQueries = {u1, u2, u3}
    Tickets = {t1, t2}
    TicketOf <- SharedTicket
    Threads = {a1, a2}
    NoQuery = NoQuery
SYMMETRY ServicesSymmetry
INVARIANTS
    NothingPendingWhenStopped
    ActiveIsApproved
    EvidenceWasPublished
    AuditIsTruthful
    CommittedFilesExist
    ServedIsApproved
    CompletedIsRecoverable
    RegisteredIsEvidenced
    LossIsAccounted
    ReservedIsActive
    TicketIsSpentOnce
PROPERTY
    EndedForGood
    KeepsTheTrail
CHECK_DEADLOCK FALSE
