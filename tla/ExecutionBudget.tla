--------------------------- MODULE ExecutionBudget ---------------------------
(***************************************************************************)
(* The durable execution budget store: the pairwise quota ledger that a    *)
(* multi-counterparty query reserves slots from before it dispatches       *)
(* anything.  Every public method of the store is one SQLite transaction   *)
(* (BEGIN IMMEDIATE), hence one action.  The method reads the wall clock   *)
(* BEFORE it waits for the write lock, so it works with a time that is up  *)
(* to MaxLag ticks old when its transaction runs: the parameter `lag`.     *)
(*                                                                         *)
(* Abstractions.  One consortium and one requesting bank: rows of other    *)
(* pairs never meet in a WHERE clause.  Timestamps are kept as ages (ticks *)
(* since the stamp), saturated at Horizon, beyond which no comparison of   *)
(* the code tells two stamps apart; with `now` = clock - lag,              *)
(*     expires_at <= now        is   age >= ReservationTTL + lag           *)
(*     executed_at >= now - w   is   age <= w + lag                        *)
(* Resolution reasons and the window_start audit column are left out.  A   *)
(* pair without a consumption row counts zero, like one whose row says     *)
(* zero: only reset_budget_consumption leaves such a row, and it leaves no *)
(* reservation of the pair for InitDb to count.                            *)
(***************************************************************************)
EXTENDS Integers, FiniteSets

CONSTANTS
    Batches,         \* batch ids: a fresh uuid per query
    Targets,         \* counterparty banks
    BudgetRows,      \* the rows set_budget may write
    GrantBudget,     \* max_executions of the governance grant, or NoLimit
    ReservationTTL,  \* lifetime of an unresolved reservation
    Retention,       \* audit retention of resolved reservations
    MaxLag,          \* how stale a transaction's clock reading may be
    Horizon          \* where ages saturate

NoLimit == -1        \* no configured row, no grant limit
NoExecution == -1    \* no row in the window execution history

ASSUME FiniteAssumption == IsFiniteSet(Batches) /\ IsFiniteSet(Targets)

ASSUME TimeAssumption ==
    /\ ReservationTTL \in Nat \ {0}
    /\ Retention \in Nat
    /\ MaxLag \in Nat
    /\ Horizon \in Nat

ASSUME LimitAssumption ==
    /\ BudgetRows \subseteq [max : Nat \ {0}, window : Nat]   \* window 0: total
    /\ GrantBudget \in [Targets -> Nat \cup {NoLimit}]

\* No threshold of the code lies beyond the age at which stamps saturate.
ASSUME HorizonAssumption ==
    /\ Horizon > ReservationTTL + MaxLag
    /\ Horizon > Retention + MaxLag
    /\ \A row \in BudgetRows : Horizon > row.window + MaxLag

VARIABLES
    budget,    \* cross_bank_execution_budgets, per target
    consumed,  \* cross_bank_budget_consumption.total_consumed, per target
    resv,      \* cross_bank_budget_reservations, per <<batch, target>>
    hist,      \* cross_bank_budget_window_executions: age of executed_at
    issued     \* batch ids that have been given reservations

vars == <<budget, consumed, resv, hist, issued>>

-----------------------------------------------------------------------------
(* Types and state functions. *)

Slots == Batches \X Targets
Charged == {"COMMITTED", "FAILED_CLOSED"}
Resolved == Charged \cup {"RELEASED"}
Reservation == [status : Resolved \cup {"NONE", "RESERVED"}, age : Nat]
NoRow == [max |-> NoLimit, window |-> 0]
NoReservation == [status |-> "NONE", age |-> 0]
Lags == 0 .. MaxLag

TypeOK ==
    /\ budget \in [Targets -> BudgetRows \cup {NoRow}]
    /\ consumed \in [Targets -> Nat]
    /\ resv \in [Slots -> Reservation]
    /\ hist \in [Slots -> Nat \cup {NoExecution}]
    /\ issued \subseteq Batches

\* A configured row overrides the limit carried by the grant.
Limit(t) == IF budget[t] # NoRow THEN budget[t].max ELSE GrantBudget[t]
Window(t) == budget[t].window

Reserved(rows, t) ==
    {k \in Slots : k[2] = t /\ rows[k].status = "RESERVED"}

\* Executions of the pair that its stored reservations still document.
Documented(rows, t) == {k \in Slots : k[2] = t /\ rows[k].status \in Charged}

\* The quota the pair owes: what is charged plus what may still be charged.
Debt(t) == consumed[t] + Cardinality(Reserved(resv, t))

\* Executions of the pair inside its rolling window, w ticks long.
Recent(h, t, w) == {k \in Slots : k[2] = t /\ h[k] # NoExecution /\ h[k] <= w}

-----------------------------------------------------------------------------
(* The row updates that the transactions are made of. *)

Expired(lag) ==
    {k \in Slots : resv[k].status = "RESERVED" /\ resv[k].age >= ReservationTTL + lag}

\* Reservations a caller may still resolve: its own, and only while RESERVED.
AnyStatus(b, S) == {k \in {b} \X S : resv[k].status # "NONE"}
Open(b, S) == {k \in {b} \X S : resv[k].status = "RESERVED"}

Settle(rows, K, status, lag) ==
    [k \in Slots |-> IF k \in K THEN [status |-> status, age |-> lag] ELSE rows[k]]

ChargeNothing(ledger, K) == ledger
ChargeBackwards(ledger, K) ==
    [t \in Targets |-> ledger[t] - Cardinality({k \in K : k[2] = t})]
Charge(ledger, K) ==
    [t \in Targets |-> ledger[t] + Cardinality({k \in K : k[2] = t})]

Execute(h, K, lag) == [k \in Slots |-> IF k \in K THEN lag ELSE h[k]]

\* _execute_cleanup_in_conn prunes resolved reservations past retention ...
PruneReservations(rows, lag) ==
    [k \in Slots |-> IF rows[k].status \in Resolved /\ rows[k].age > Retention + lag
                    THEN NoReservation ELSE rows[k]]

\* ... and executions past their pair's window, or past retention if it has none.
HistoryKeptForRetention(t) == Retention
HistoryKept(t) == IF Window(t) > 0 THEN Window(t) ELSE Retention
PruneHistory(h, lag) ==
    [k \in Slots |-> IF h[k] > HistoryKept(k[2]) + lag THEN NoExecution ELSE h[k]]

\* Resolve the reservations K as executed: permanently charged.
ChargeAs(K, status, lag) ==
    /\ resv' = Settle(resv, K, status, lag)
    /\ consumed' = Charge(consumed, K)
    /\ hist' = Execute(hist, K, lag)

\* _reconcile_expired_reservations as the first statement of a transaction.
SweptReservations(lag) == Settle(resv, Expired(lag), "FAILED_CLOSED", lag)
SweptLedger(lag) == Charge(consumed, Expired(lag))
SweptHistory(lag) == Execute(hist, Expired(lag), lag)

-----------------------------------------------------------------------------
(* The quota check of reserve_batch, over the swept tables. *)

InFlightSinceWindow(t, lag) ==
    {k \in Reserved(SweptReservations(lag), t) :
        /\ resv[k].age < ReservationTTL + lag
        /\ Window(t) > 0 => resv[k].age <= Window(t) + lag}

Used(t, lag) ==
    IF Window(t) > 0 THEN Cardinality(Recent(SweptHistory(lag), t, Window(t) + lag))
                     ELSE SweptLedger(lag)[t]

AdmitsOneTooMany(t, lag) ==
    Limit(t) # NoLimit => Cardinality(InFlightSinceWindow(t, lag)) + Used(t, lag) <= Limit(t)

\* The check without the reconciliation that closes the expiry gap.
AdmitsUnreconciled(t, lag) ==
    Limit(t) # NoLimit =>
        Cardinality({k \in Reserved(resv, t) : resv[k].age < ReservationTTL + lag})
            + consumed[t] + 1 <= Limit(t)

Admits(t, lag) ==
    Limit(t) # NoLimit => Cardinality(InFlightSinceWindow(t, lag)) + Used(t, lag) + 1 <= Limit(t)

-----------------------------------------------------------------------------
(* The transactions of the service. *)

\* reserve_batch, admitted: sweep, throttled cleanup, then one slot per target.
\* The cleanup interval runs on each process's monotonic clock, so any call may
\* find it elapsed: `clean`.
Reserve(b, S, lag, clean) ==
    LET swept == SweptReservations(lag)
        rows  == IF clean THEN PruneReservations(swept, lag) ELSE swept
        execs == IF clean THEN PruneHistory(SweptHistory(lag), lag) ELSE SweptHistory(lag)
    IN  /\ b \notin issued
        /\ \A t \in S : Admits(t, lag)
        /\ resv' = Settle(rows, {b} \X S, "RESERVED", lag)
        /\ consumed' = SweptLedger(lag)
        /\ hist' = execs
        /\ issued' = issued \cup {b}
        /\ UNCHANGED budget

\* reserve_batch, one target exhausted: the whole transaction is rolled back,
\* the reconciliation of expired reservations included.
RejectBatch(b, S, lag) ==
    /\ b \notin issued
    /\ \E t \in S : ~Admits(t, lag)
    /\ UNCHANGED vars

CommitAnyStatus(b, S, lag) ==
    /\ b \in issued
    /\ ChargeAs(AnyStatus(b, S), "COMMITTED", lag)
    /\ UNCHANGED <<budget, issued>>

Commit(b, S, lag) ==
    /\ b \in issued
    /\ ChargeAs(Open(b, S), "COMMITTED", lag)
    /\ UNCHANGED <<budget, issued>>

FailClosed(b, S, lag) ==
    /\ b \in issued
    /\ ChargeAs(Open(b, S), "FAILED_CLOSED", lag)
    /\ UNCHANGED <<budget, issued>>

ReleaseAnyStatus(b, S, lag) ==
    /\ b \in issued
    /\ resv' = Settle(resv, AnyStatus(b, S), "RELEASED", lag)
    /\ UNCHANGED <<budget, consumed, hist, issued>>

Release(b, S, lag) ==
    /\ b \in issued
    /\ resv' = Settle(resv, Open(b, S), "RELEASED", lag)
    /\ UNCHANGED <<budget, consumed, hist, issued>>

Older(age) == IF age < Horizon THEN age + 1 ELSE age

\* Time passes: every stamp ages by one.
Tick ==
    /\ resv' = [k \in Slots |-> IF resv[k].status = "NONE" THEN resv[k]
                               ELSE [resv[k] EXCEPT !.age = Older(@)]]
    /\ hist' = [k \in Slots |-> IF hist[k] = NoExecution THEN hist[k] ELSE Older(hist[k])]
    /\ UNCHANGED <<budget, consumed, issued>>

\* A process constructs the store.  _init_db backfills what has no row: the
\* ledgers from the charged reservations that are still stored, the executions
\* with the time these were resolved.  delete_budget keeps the reservations, so
\* the next start brings back the ledger it deleted.
InitDb ==
    /\ consumed' = [t \in Targets |-> IF consumed[t] = 0 THEN Cardinality(Documented(resv, t))
                                                        ELSE consumed[t]]
    /\ hist' = [k \in Slots |-> IF resv[k].status \in Charged /\ hist[k] = NoExecution
                                THEN resv[k].age ELSE hist[k]]
    /\ UNCHANGED <<budget, resv, issued>>

-----------------------------------------------------------------------------
(* The transactions of an administrator. *)

SetBudget(t, row) ==
    /\ budget' = [budget EXCEPT ![t] = row]
    /\ UNCHANGED <<consumed, resv, hist, issued>>

\* get_budget reports, but commits the reconciliation it starts with.
GetBudget(lag) ==
    /\ ChargeAs(Expired(lag), "FAILED_CLOSED", lag)
    /\ UNCHANGED <<budget, issued>>

\* The pair's reservations outlive the budget and the ledger: see InitDb.
DeleteBudget(t) ==
    /\ budget' = [budget EXCEPT ![t] = NoRow]
    /\ consumed' = [consumed EXCEPT ![t] = 0]
    /\ hist' = [k \in Slots |-> IF k[2] = t THEN NoExecution ELSE hist[k]]
    /\ UNCHANGED <<resv, issued>>

ResetConsumption(t) ==
    /\ consumed' = [consumed EXCEPT ![t] = 0]
    /\ resv' = [k \in Slots |-> IF k[2] = t THEN NoReservation ELSE resv[k]]
    /\ hist' = [k \in Slots |-> IF k[2] = t THEN NoExecution ELSE hist[k]]
    /\ UNCHANGED <<budget, issued>>

-----------------------------------------------------------------------------
(* Specifications. *)

\* Budgets are configured before the first query; the tables start empty.
Init ==
    /\ budget \in [Targets -> BudgetRows \cup {NoRow}]
    /\ consumed = [t \in Targets |-> 0]
    /\ resv = [k \in Slots |-> NoReservation]
    /\ hist = [k \in Slots |-> NoExecution]
    /\ issued = {}

Requests == (SUBSET Targets) \ {{}}

ServiceNext ==
    \/ \E b \in Batches, S \in Requests, lag \in Lags :
          \/ \E clean \in BOOLEAN : Reserve(b, S, lag, clean)
          \/ RejectBatch(b, S, lag)
          \/ Commit(b, S, lag)
          \/ FailClosed(b, S, lag)
          \/ Release(b, S, lag)
    \/ InitDb
    \/ Tick

AdminNext ==
    \/ \E lag \in Lags : GetBudget(lag)
    \/ \E t \in Targets :
          \/ \E row \in BudgetRows : SetBudget(t, row)
          \/ DeleteBudget(t)
          \/ ResetConsumption(t)

Next == ServiceNext \/ AdminNext

Spec == Init /\ [][Next]_vars

\* Budgets stay as configured and nobody resets the ledger.
FixedSpec == Init /\ [][ServiceNext]_vars

-----------------------------------------------------------------------------
(* Properties. *)

\* A process start brings a cleared ledger back to what the stored reservations
\* of the pair document, and touches no reservation (_init_db's backfill).
Restored(t) ==
    /\ consumed[t] = 0 /\ consumed'[t] = Cardinality(Documented(resv, t))
    /\ resv' = resv

\* The quota a pair owes grows only up to the limit in force: no interleaving
\* of reservations, late resolutions, expiries, stale clock readings and
\* administrator calls admits an execution beyond a total budget
\* (reserve_batch, "prevent oversubscription").  It grows otherwise only when a
\* start restores a deleted ledger, by executions that were really charged.
DebtGrowsWithinLimit ==
    [][\A t \in Targets :
          (Limit(t) # NoLimit /\ Window(t) = 0 /\ Debt(t)' > Debt(t))
              => Debt(t)' <= Limit(t) \/ Restored(t)]_vars

\* With fixed budgets, charged executions plus open reservations never exceed
\* the limit of a pair that has a total budget.
WithinTotalBudget ==
    \A t \in Targets : Limit(t) # NoLimit /\ Window(t) = 0 => Debt(t) <= Limit(t)

\* With fixed budgets, the executions of a pair inside its rolling window and
\* its open reservations together never exceed the window's limit.
WithinRollingBudget ==
    \A t \in Targets : Window(t) > 0 =>
        Cardinality(Reserved(resv, t)) + Cardinality(Recent(hist, t, Window(t))) <= Limit(t)

\* The executions charged to a pair inside one rolling window never exceed its
\* limit: the module's docstring promises reservation "before dispatch to
\* prevent oversubscription".
ExecutionsWithinWindow ==
    \A t \in Targets : Window(t) > 0 => Cardinality(Recent(hist, t, Window(t))) <= Limit(t)

NewlyCharged(t) ==
    {k \in Slots : k[2] = t /\ resv[k].status = "RESERVED" /\ resv'[k].status \in Charged}

\* The permanent ledger moves with reservations: each slot that turns from
\* RESERVED to COMMITTED or FAILED_CLOSED is charged once, in the same step (a
\* late commit after the expiry sweep included), and no other step charges.
\* Otherwise the ledger changes in two ways: an administrator clears it, and
\* the next process start restores a cleared one to the charged reservations
\* still stored, never to more.
ChargedExactlyOnce ==
    [][\A t \in Targets :
          \/ consumed'[t] = consumed[t] + Cardinality(NewlyCharged(t))
          \/ consumed'[t] = 0 /\ NewlyCharged(t) = {}
          \/ Restored(t)]_vars

\* A resolved reservation is never reopened or resolved another way: a released
\* slot cannot be charged later, a charged one cannot be handed back.
ResolutionIsFinal ==
    [][\A k \in Slots : resv[k].status \in Resolved
          => resv'[k].status \in {resv[k].status, "NONE"}]_vars

\* Audit cleanup never forgets an execution that still counts against its
\* pair's rolling window.
WindowHistoryKept ==
    [][\A k \in Slots : hist[k] # NoExecution /\ Window(k[2]) > 0 /\ hist[k] <= Window(k[2])
          => hist'[k] # NoExecution]_vars

\* As long as the budgets stay as configured, the store is the ledger it
\* promises to be: slots are granted all or none and only as the quota of total
\* budgets covers them, each is spent or given back once, a batch asks once.
Ledger == INSTANCE QuotaLedger WITH
    Unlimited <- NoLimit,
    quota <- [t \in Targets |-> IF Window(t) = 0 THEN Limit(t) ELSE NoLimit],
    open <- {k \in Slots : resv[k].status = "RESERVED"},
    spent <- consumed,
    asked <- issued
KeepsTheLedger == Ledger!LedgerSpec

\* With time passing and requesters retrying, a pair is again and again free to
\* take a reservation: "Bounded TTL on reservations to prevent permanent
\* locking under unexpected failures" (reserve_batch).  Only the bound on the
\* number of batch ids may end the retries.
FairSpec ==
    /\ FixedSpec
    /\ WF_vars(Tick)
    /\ \A t \in Targets : WF_vars(\E b \in Batches, lag \in Lags, clean \in BOOLEAN :
                                     Reserve(b, {t}, lag, clean))

ExpiredSlotsComeBack ==
    \A t \in Targets : (Window(t) > 0 /\ ~Admits(t, 0)) ~> (Admits(t, 0) \/ issued = Batches)
=============================================================================
