---------------------------- MODULE PrivacyBudget ----------------------------
(***************************************************************************)
(* The institutional privacy budget of one bank's dataset, and the bank's  *)
(* workers that draw on it: each reads the budget, has an attempt at a     *)
(* (job, round) admitted against it, trains on private data, and commits   *)
(* the expenditure.  Executions of a job may overlap and be retried, so    *)
(* any number of workers may attempt the same round; a worker keeps its    *)
(* privacy accountant between rounds and loses it when it restarts.        *)
(*                                                                         *)
(* Each operation of the authority is one transaction on the locked budget *)
(* row (PostgreSQL).  An overspending commit raises inside it, so that its *)
(* writes are rolled back and nothing changes but the worker.              *)
(*                                                                         *)
(* Abstractions.  Epsilon is counted in the loss of one calibrated         *)
(* training: Target units for a job, composed additively, no explicit      *)
(* noise multiplier; the least request (0.001) rounds to zero units.       *)
(* Delta is not modelled.  The coordinator sends no attempt id, so each    *)
(* attempt has a fresh one: no admission finds its attempt in the history, *)
(* and the reservation of a key is that of its one attempt.  A worker runs *)
(* the rounds of one job before it takes up another.                       *)
(***************************************************************************)
EXTENDS Integers, FiniteSets, Functions, FiniteSetsExt

CONSTANTS
    BankWorkers,     \* worker processes of the bank
    DpJobs,          \* jobs that train on the dataset
    DpRounds,        \* rounds of a job
    Target,          \* target epsilon of a job
    Allocated,       \* allocated_epsilon
    MaxTrainings,    \* bound on the trainings of a behaviour
    NoAccountant     \* no privacy engine in memory

ASSUME PrivacyAssumption ==
    /\ {DpRounds, Target, Allocated, MaxTrainings} \subseteq Nat
    /\ NoAccountant \notin Nat
    /\ IsFiniteSet(DpJobs)

VARIABLES
    spent,           \* spent_epsilon
    reserved,        \* reserved_epsilon
    active,          \* active_reservations: amount per (job, round) that has one
    history,         \* COMMITTED entries: per (job, round), their cumulative epsilons
    steps,           \* COMMITTED entries: their steps_executed per job, in rounds
    worker,          \* what each worker is doing
    accountant,      \* cumulative epsilon of a worker's engine, per job
    loss             \* true privacy loss: the trainings executed on the dataset

privacyVars == <<spent, reserved, active, history, steps, worker, accountant, loss>>

-----------------------------------------------------------------------------

Keys == DpJobs \X (1 .. DpRounds)
Resting == [at |-> "resting"]
Attempts == [at : {"read", "admitted", "trained", "committed"}, job : DpJobs,
             round : 1 .. DpRounds, needed : Nat, prior : Nat]

PrivacyTypeOK ==
    /\ {spent, reserved, loss} \subseteq Nat
    /\ DOMAIN active \subseteq Keys /\ \A k \in DOMAIN active : active[k] \in Nat
    /\ history \in [Keys -> SUBSET Nat]
    /\ steps \in [DpJobs -> Nat]
    /\ worker \in [BankWorkers -> Attempts \cup {Resting}]
    /\ accountant \in [BankWorkers -> [DpJobs -> Nat \cup {NoAccountant}]]

PrivacyInit ==
    /\ spent = 0 /\ reserved = 0 /\ loss = 0
    /\ active = << >>
    /\ history = [k \in Keys |-> {}]
    /\ steps = [j \in DpJobs |-> 0]
    /\ worker = [w \in BankWorkers |-> Resting]
    /\ accountant = [w \in BankWorkers |-> [j \in DpJobs |-> NoAccountant]]

-----------------------------------------------------------------------------

(* The largest cumulative epsilon committed for the job, in any round.     *)
CommittedOf(j) == Max({0} \cup UNION {history[<<j, r>>] : r \in 1 .. DpRounds})
Remaining == Allocated - (spent + reserved)
Key(w) == <<worker[w].job, worker[w].round>>
Now(w, phase) == worker' = [worker EXCEPT ![w].at = phase]

(* A round is dispatched: the first of an execution, or the one after the  *)
(* round the worker has just committed.  The worker reads the budget and   *)
(* its history, and asks for what the job's target leaves; it also sums up *)
(* the steps of the job, for an engine that has to be built anew.          *)
ReadBudget(w, j, r) ==
    LET needed == Max({0, Target - CommittedOf(j)}) IN
    /\ \/ worker[w] = Resting /\ r = 1
       \/ worker[w].at = "committed" /\ worker[w].job = j /\ r = worker[w].round + 1
    /\ Remaining >= needed
    /\ worker' = [worker EXCEPT ![w] = [at |-> "read", job |-> j, round |-> r,
                                        needed |-> needed, prior |-> steps[j]]]
    /\ UNCHANGED <<spent, reserved, active, history, steps, accountant, loss>>

(* admit_training_attempt, status ADMITTED.                                *)
AdmitAttempt(w) ==
    /\ worker[w].at = "read"
    /\ Key(w) \notin DOMAIN active
    /\ spent + reserved + worker[w].needed <= Allocated
    /\ reserved' = reserved + worker[w].needed
    /\ active' = [k \in DOMAIN active \cup {Key(w)} |->
                    IF k = Key(w) THEN worker[w].needed ELSE active[k]]
    /\ Now(w, "admitted")
    /\ UNCHANGED <<spent, history, steps, accountant, loss>>

(* train_local_with_opacus: the engine continues, or starts from the steps *)
(* that had been committed for the job when the budget was read, those of  *)
(* rounds that were committed more than once included.                     *)
Train(w) ==
    LET j == worker[w].job
        before == IF accountant[w][j] = NoAccountant THEN worker[w].prior ELSE accountant[w][j]
    IN
    /\ worker[w].at = "admitted"
    /\ loss < MaxTrainings /\ loss' = loss + 1
    /\ accountant' = [accountant EXCEPT ![w][j] = before + 1]
    /\ Now(w, "trained")
    /\ UNCHANGED <<spent, reserved, active, history, steps>>

(* What a commit charges for a cumulative epsilon: the part above what the *)
(* job has committed; all of it when the round was committed before, or    *)
(* when a later round does not exceed it.                                  *)
AlwaysTheDifference(k, epsilon) == Max({0, epsilon - CommittedOf(k[1])})
Charge(k, epsilon) ==
    IF history[k] # {} \/ (epsilon <= CommittedOf(k[1]) /\ k[2] > 1)
    THEN epsilon
    ELSE Max({0, epsilon - CommittedOf(k[1])})
KeptReserved(k) == reserved
Released(k) == reserved - active[k]

(* commit_institutional_privacy_expenditure.                               *)
CommitExpenditure(w) ==
    LET k == Key(w)
        epsilon == accountant[w][worker[w].job]
        charge == Charge(k, epsilon)
    IN
    /\ worker[w].at = "trained" /\ k \in DOMAIN active
    /\ spent + charge <= Allocated
    /\ spent' = spent + charge
    /\ reserved' = Released(k)
    /\ active' = Restrict(active, DOMAIN active \ {k})
    /\ history' = [history EXCEPT ![k] = @ \cup {epsilon}]
    /\ steps' = [steps EXCEPT ![worker[w].job] = @ + 1]
    /\ Now(w, "committed")
    /\ UNCHANGED <<accountant, loss>>

(* The worker errs (a refused admission, a failed training, an overspending*)
(* commit that rolls back) or its execution ends: it waits for another.    *)
EndAttempt(w) ==
    /\ worker[w] # Resting
    /\ worker' = [worker EXCEPT ![w] = Resting]
    /\ UNCHANGED <<spent, reserved, active, history, steps, accountant, loss>>

(* The worker process dies and is started again, its engines lost.         *)
RestartWorker(w) ==
    /\ worker' = [worker EXCEPT ![w] = Resting]
    /\ accountant' = [accountant EXCEPT ![w] = [j \in DpJobs |-> NoAccountant]]
    /\ UNCHANGED <<spent, reserved, active, history, steps, loss>>

PrivacyNext ==
    \E w \in BankWorkers :
        \/ \E j \in DpJobs, r \in 1 .. DpRounds : ReadBudget(w, j, r)
        \/ AdmitAttempt(w) \/ Train(w) \/ CommitExpenditure(w)
        \/ EndAttempt(w) \/ RestartWorker(w)

PrivacySpec == PrivacyInit /\ [][PrivacyNext]_privacyVars

-----------------------------------------------------------------------------

(* Every training executed on private data is charged to the spent epsilon *)
(* or still holds an active reservation of its own: a crash, a restart     *)
(* that loses the accountant, a retried round or a stale read of the       *)
(* history never makes its loss vanish.  (The reservation may be of zero   *)
(* units: once a job has reached its target, a retried round asks for no   *)
(* more than the least request until its commit charges it in full.)       *)
LossIsAccounted == loss <= spent + Cardinality(DOMAIN active)

(* reserved_epsilon is the sum of the active reservations, so that what a  *)
(* commit gives back is what its admission took.                           *)
ReservedIsActive == reserved = FoldFunction(LAMBDA a, b : a + b, 0, active)

=============================================================================
