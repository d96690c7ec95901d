------------------------ MODULE MultiCounterpartyQuery ------------------------
(***************************************************************************)
(* query_multi_counterparty_intelligence: one request dispatched to several*)
(* counterparties, over the three durable stores it coordinates: the       *)
(* execution budget (slots reserved up front, settled at the end), the     *)
(* circuit breaker (asked before each dispatch, told afterwards) and the   *)
(* idempotency store (the key is claimed first and settled last).  Every   *)
(* store call is a transaction of its own; between two of them other       *)
(* queries run, time passes, the process may die or the call may raise.    *)
(*                                                                         *)
(* Abstractions.  Authentication, governance checks and the construction   *)
(* of the response are left out: they happen before the first store call   *)
(* or change no shared state.  Counterparties are taken in any order.  The *)
(* batch deadline runs on a process's monotonic clock, unrelated to the    *)
(* wall clock of the stores, so it may be found exhausted before any       *)
(* dispatch.  What the matching execution does is a choice of outcomes.    *)
(***************************************************************************)
EXTENDS Integers, FiniteSets

CONSTANTS
    Queries,          \* requests; also the batch ids and the owner ids
    Targets,          \* counterparties; every query addresses all of them
    UseBreaker,       \* the resolved circuit breaker policy is enabled
    UseKey,           \* requests carry an idempotency key
    Operational,      \* per query: execution_mode is VERIFIED_OPERATIONAL
    Faults,           \* processes may die and store calls may raise
    \* of the stores:
    BudgetRows, GrantBudget, ReservationTTL, BudgetRetention, BudgetHorizon,
    Probes, NoProbe, Policies, FailureCap,
    Keys, KeyOf, IdentityOf, NoOwner, Lease, Grace, KeyRetention, KeyHorizon

ASSUME SwitchAssumption ==
    /\ UseBreaker \in BOOLEAN /\ UseKey \in BOOLEAN /\ Faults \in BOOLEAN
    /\ Operational \in [Queries -> BOOLEAN]

\* A request names at least one counterparty.
ASSUME TargetAssumption ==
    IsFiniteSet(Queries) /\ IsFiniteSet(Targets) /\ Targets # {}

\* What the stores assume of their own constants.
ASSUME BudgetAssumption ==
    /\ ReservationTTL \in Nat \ {0} /\ BudgetRetention \in Nat /\ BudgetHorizon \in Nat
    /\ BudgetRows \subseteq [max : Nat \ {0}, window : Nat]
    /\ GrantBudget \in [Targets -> Nat \cup {-1}]
    /\ BudgetHorizon > ReservationTTL /\ BudgetHorizon > BudgetRetention
    /\ \A configured \in BudgetRows : BudgetHorizon > configured.window
ASSUME BreakerAssumption ==
    /\ NoProbe \notin Probes \cup Targets
    /\ FailureCap \in Nat /\ Policies \subseteq [threshold : 1 .. FailureCap, cooldown : Nat \ {0}]
ASSUME KeyAssumption ==
    /\ NoOwner \notin Queries /\ KeyOf \in [Queries -> Keys]
    /\ Lease \in Nat /\ Grace \in Nat /\ KeyRetention \in Nat \ {0} /\ KeyHorizon \in Nat
    /\ Lease < KeyHorizon /\ Grace < KeyHorizon /\ KeyRetention < KeyHorizon

VARIABLES
    budget, consumed, resv, hist, issued,    \* execution budget store
    row, flight,                             \* circuit breaker store
    rec, exec,                               \* idempotency store
    qs                                       \* the queries themselves

budgetVars == <<budget, consumed, resv, hist, issued>>
breakerVars == <<row, flight>>
keyVars == <<rec, exec>>
vars == <<budgetVars, breakerVars, keyVars, qs>>

B == INSTANCE ExecutionBudget WITH
        Batches <- Queries, Retention <- BudgetRetention, MaxLag <- 0, Horizon <- BudgetHorizon
C == INSTANCE CircuitBreaker WITH Peers <- Targets, Callers <- Queries, MaxReportLag <- 0
I == INSTANCE Idempotency WITH
        Callers <- Queries, Retention <- KeyRetention, Horizon <- KeyHorizon

-----------------------------------------------------------------------------

PCs == {"acquire", "wait", "reserve", "abortKey", "loop", "skip", "ready", "executing",
        "reportSuccess", "reportFailure", "preDispatch", "quota", "quotaRelease",
        "security", "securityRelease", "securityClose", "commitAndRaise",
        "complete", "unwind", "failKey", "done", "dead"}
NoTarget == NoProbe

Query == [pc : PCs,
          todo : SUBSET Targets,        \* targets the loop has not reached
          cur : Targets \cup {NoTarget},
          dispatched : SUBSET Targets,  \* dispatched_targets
          completed : SUBSET Targets,   \* completed_targets
          \* observed only: where work really went
          accepted : SUBSET Targets,    \* it reached the target
          refused : SUBSET Targets]     \* it did, and then the pilot's quota refused it

TypeOK ==
    /\ B!TypeOK /\ C!BreakerTypeOK /\ I!TypeOK
    /\ qs \in [Queries -> Query]
    /\ \A q \in Queries :    \* the lists never lag behind what was done
          /\ qs[q].completed \cup qs[q].accepted \subseteq qs[q].dispatched
          /\ qs[q].dispatched \cap qs[q].todo = {}

NewQuery == [pc |-> IF UseKey THEN "acquire" ELSE "reserve", todo |-> Targets,
             cur |-> NoTarget, dispatched |-> {}, completed |-> {},
             accepted |-> {}, refused |-> {}]

At(q, pc) == qs[q].pc = pc
Goto(q, pc) == qs' = [qs EXCEPT ![q].pc = pc]
Cur(q) == qs[q].cur

OnlyBudget == UNCHANGED <<breakerVars, keyVars>>
OnlyBreaker == UNCHANGED <<budgetVars, keyVars>>
OnlyKey == UNCHANGED <<budgetVars, breakerVars>>
OnlyQuery == UNCHANGED <<budgetVars, breakerVars, keyVars>>

-----------------------------------------------------------------------------
(* Before the loop: claim the key, reserve a slot per target. *)

AcquireKey(q) ==
    /\ At(q, "acquire")
    /\ OnlyKey
    /\ \E clean \in BOOLEAN :
          \/ I!AcquireNew(q, clean) /\ Goto(q, "reserve")
          \/ I!AcquireInProgress(q, clean) /\ Goto(q, "wait")
          \/ /\ \/ I!AcquireMismatch(q, clean)
                \/ I!AcquireCompleted(q, clean)
                \/ I!AcquireAmbiguous(q, clean)
                \/ I!AcquireLeaseExpired(q, clean)
             /\ Goto(q, "done")

AwaitKey(q) == At(q, "wait") /\ I!Await(q) /\ Goto(q, "done") /\ OnlyKey

ReserveSlots(q) ==
    /\ At(q, "reserve")
    /\ OnlyBudget
    /\ \/ \E clean \in BOOLEAN : B!Reserve(q, Targets, 0, clean) /\ Goto(q, "loop")
       \/ B!RejectBatch(q, Targets, 0) /\ Goto(q, IF UseKey THEN "abortKey" ELSE "done")

\* The batch was refused: the key is given back, nothing ran.
AbortKey(q) == At(q, "abortKey") /\ I!Abort(q) /\ Goto(q, "done") /\ OnlyKey

-----------------------------------------------------------------------------
(* The loop over the counterparties. *)

ReachAgain(q, t, pc) == qs' = [qs EXCEPT ![q].pc = pc, ![q].cur = t]
Reach(q, t, pc) == qs' = [qs EXCEPT ![q].pc = pc, ![q].cur = t, ![q].todo = @ \ {t}]

\* Not enough time left before the dispatch of t.
DeadlineExhausted(q) ==
    /\ At(q, "loop")
    /\ \E t \in qs[q].todo : Reach(q, t, "skip")
    /\ OnlyQuery

\* Pre-dispatch circuit breaker check.
Admission(q) ==
    /\ At(q, "loop")
    /\ UNCHANGED <<budgetVars, keyVars>>
    /\ \E t \in qs[q].todo :
          \/ /\ UseBreaker
             /\ \/ C!Admit(q, t)
                \/ Operational[q] /\ \E p \in Probes : C!AdmitProbe(q, t, p)
             /\ Reach(q, t, "ready")
          \/ UseBreaker /\ C!Deny(q, t, Operational[q]) /\ Reach(q, t, "skip")
          \/ ~UseBreaker /\ Reach(q, t, "ready") /\ UNCHANGED breakerVars

\* A target that demonstrably was not reached gives its slot back.
SkipTarget(q) ==
    /\ At(q, "skip")
    /\ B!Release(q, {Cur(q)}, 0)
    /\ Goto(q, "loop")
    /\ OnlyBudget

\* Appending only once the outcome is known.
DispatchUnlisted(q) ==
    /\ At(q, "ready")
    /\ \E reached \in SUBSET {Cur(q)} :
          /\ qs' = [qs EXCEPT ![q].pc = "executing", ![q].accepted = @ \cup reached]
          /\ IF UseKey /\ reached # {} /\ ~exec[q].ran THEN I!Dispatch(q) ELSE UNCHANGED keyVars
    /\ UNCHANGED <<budgetVars, breakerVars>>

\* dispatched_targets.append, then the matching execution, which may end before
\* any work reaches the counterparty.
DispatchTarget(q) ==
    /\ At(q, "ready")
    /\ \E reached \in SUBSET {Cur(q)} :
          /\ qs' = [qs EXCEPT ![q].pc = "executing", ![q].accepted = @ \cup reached,
                              ![q].dispatched = @ \cup {Cur(q)}]
          /\ IF UseKey /\ reached # {} /\ ~exec[q].ran THEN I!Dispatch(q) ELSE UNCHANGED keyVars
    /\ UNCHANGED <<budgetVars, breakerVars>>

Reached(q) == Cur(q) \in qs[q].accepted

\* The execution returned a signal, or failed in a recoverable way (an unreachable
\* worker included): either way the slot is used up.
Outcome(q) ==
    /\ At(q, "executing")
    /\ \E pc \in {"reportSuccess", "reportFailure"} :
          /\ pc = "reportSuccess" => Reached(q)
          /\ qs' = [qs EXCEPT ![q].pc = IF UseBreaker THEN pc ELSE "loop",
                              ![q].completed = @ \cup {Cur(q)}]
    /\ OnlyQuery

\* Raised before anything was sent: a deadline (is_pre_dispatch is set only before
\* the match) or the pilot's quota, checked at the start of the match.
RefusedBeforeSend(q) ==
    /\ At(q, "executing") /\ ~Reached(q)
    /\ \E pc \in {"preDispatch", "quota"} :
          qs' = [qs EXCEPT ![q].pc = pc, ![q].dispatched = @ \ {Cur(q)}]
    /\ OnlyQuery

\* The pilot is looked up again after the match, and its quota may then be found
\* used up (PilotOperations, QuotaHolds: an older copy of the pilot saved meanwhile
\* hands its quota out twice).  The handler takes this for a rejection before the
\* dispatch: the target leaves the list, though work has reached it.  exec[q].ran
\* is what the lists say of the query, which is all the key is told in the end.
RefusedAfterMatch(q) ==
    /\ At(q, "executing") /\ Reached(q)
    /\ qs' = [qs EXCEPT ![q].pc = "quota", ![q].dispatched = @ \ {Cur(q)},
                        ![q].accepted = @ \ {Cur(q)}, ![q].refused = @ \cup {Cur(q)}]
    /\ exec' = [exec EXCEPT ![q].ran = UseKey /\ qs[q].accepted # {Cur(q)}]
    /\ UNCHANGED <<budgetVars, breakerVars, rec>>

\* A security, governance or unclassified error, before or after sending.
SecurityError(q) ==
    /\ At(q, "executing")
    /\ Goto(q, "security")
    /\ OnlyQuery

-----------------------------------------------------------------------------
(* Telling the circuit breaker. *)

\* Forgetting to abort the probe.
WithdrawSilently(q) == C!Crash(q)

\* Nothing the breaker may count: record_probe_aborted if the dispatch carried a
\* probe, otherwise no call.
Withdraw(q) ==
    \/ \E policy \in Policies : C!RecordProbeAborted(q, policy, 0)
    \/ C!EndUnreported(q)

\* record_success for a verified operational signal only.
ReportSuccess(q) ==
    /\ At(q, "reportSuccess")
    /\ (Operational[q] /\ C!RecordSuccess(q)) \/ Withdraw(q)
    /\ Goto(q, "loop")
    /\ OnlyBreaker

ReportFailure(q) ==
    /\ At(q, "reportFailure")
    /\ IF Operational[q] THEN \E policy \in Policies : C!RecordFailure(q, policy, 0)
                         ELSE Withdraw(q)
    /\ Goto(q, "loop")
    /\ OnlyBreaker

\* Every error path first aborts the probe.
AbortProbe(q, from, to) ==
    /\ At(q, from)
    /\ IF UseBreaker THEN Withdraw(q) ELSE UNCHANGED breakerVars
    /\ Goto(q, to)
    /\ OnlyBreaker

-----------------------------------------------------------------------------
(* Settling the slots. *)

ReleaseSlots(q, from, S, to) ==
    /\ At(q, from)
    /\ B!Release(q, S, 0)
    /\ Goto(q, to)
    /\ OnlyBudget

\* Pilot quota: everything not completed goes back.
QuotaRelease(q) ==
    ReleaseSlots(q, "quotaRelease", Targets \ qs[q].completed, "commitAndRaise")

SecurityReleaseAll(q) ==
    ReleaseSlots(q, "securityRelease", Targets \ qs[q].completed, "securityClose")

\* Security abort: only the targets never dispatched go back ...
SecurityRelease(q) ==
    ReleaseSlots(q, "securityRelease", Targets \ qs[q].dispatched, "securityClose")

\* ... and the indeterminate one is charged.
SecurityClose(q) ==
    /\ At(q, "securityClose")
    /\ B!FailClosed(q, {Cur(q)}, 0)
    /\ Goto(q, "commitAndRaise")
    /\ OnlyBudget

CommitAndRaise(q) ==
    /\ At(q, "commitAndRaise")
    /\ B!Commit(q, qs[q].completed, 0)
    /\ Goto(q, "unwind")
    /\ OnlyBudget

\* All targets processed: commit what was dispatched, record the batch (a store
\* of its own, not modelled), then settle the key.
AfterLoop == IF UseKey THEN "complete" ELSE "done"

FinishWithoutCommit(q) ==
    /\ At(q, "loop") /\ qs[q].todo = {}
    /\ Goto(q, AfterLoop)
    /\ OnlyQuery

FinishLoop(q) ==
    /\ At(q, "loop") /\ qs[q].todo = {}
    /\ B!Commit(q, qs[q].completed, 0)
    /\ Goto(q, AfterLoop)
    /\ OnlyBudget

CompleteKey(q) ==
    /\ At(q, "complete")
    /\ \E clean \in BOOLEAN : I!Complete(q, clean)
    /\ Goto(q, "done")
    /\ OnlyKey

\* Leaving every open slot to the expiry sweep.
UnwindWithoutRelease(q) ==
    /\ At(q, "unwind")
    /\ Goto(q, IF UseKey THEN "failKey" ELSE "done")
    /\ OnlyQuery

\* The outer exception handler: give back what was never dispatched ...
Unwind(q) ==
    ReleaseSlots(q, "unwind", Targets \ (qs[q].dispatched \cup qs[q].completed),
                 IF UseKey THEN "failKey" ELSE "done")

OnlyCompletedCounts(q) == qs[q].completed # {}
HasSideEffects(q) == qs[q].dispatched \cup qs[q].completed # {}

\* ... and settle the key: free for a retry only without side effects.
FailKey(q) ==
    /\ At(q, "failKey")
    /\ IF HasSideEffects(q) THEN I!FailIndeterminate(q) ELSE I!Abort(q)
    /\ Goto(q, "done")
    /\ OnlyKey

-----------------------------------------------------------------------------
(* Faults. *)

\* The dispatch in progress will never be reported.
DropFlight(q) == IF C!Busy(q) THEN C!Crash(q) ELSE UNCHANGED breakerVars

\* A store call (or the construction of the sub-request) raises inside the try
\* block: the handler of the success report treats it as a security error,
\* everything else ends in the outer handler.
StoreError(q) ==
    /\ Faults
    /\ UNCHANGED <<budgetVars, keyVars>>
    /\ \/ At(q, "reportSuccess") /\ Goto(q, "security") /\ UNCHANGED breakerVars
       \/ /\ qs[q].pc \in {"loop", "skip", "ready", "reportFailure", "preDispatch", "quota",
                           "quotaRelease", "security", "securityRelease", "securityClose",
                           "commitAndRaise", "complete"}
          /\ Goto(q, "unwind")
          /\ DropFlight(q)

\* The process dies, or a call outside the try block raises.
Crash(q) ==
    /\ Faults
    /\ qs[q].pc \notin {"acquire", "done", "dead"}
    /\ Goto(q, "dead")
    /\ DropFlight(q)
    /\ IF UseKey /\ exec[q].pc \in {"waiting", "running"} THEN I!Crash(q) ELSE UNCHANGED keyVars
    /\ UNCHANGED budgetVars

-----------------------------------------------------------------------------

Tick ==
    /\ B!Tick /\ C!CooldownTick /\ I!Tick
    /\ UNCHANGED qs

\* Another process comes up and constructs the budget store.
StoreStart ==
    /\ B!InitDb
    /\ UNCHANGED <<breakerVars, keyVars, qs>>

\* Earlier traffic may have left a circuit open.
Init ==
    /\ B!Init /\ I!Init
    /\ row \in [Targets -> {C!Healthy} \cup {C!Opened(FailureCap, p, 0) : p \in Policies}]
    /\ flight = [q \in Queries |-> C!Idle]
    /\ qs = [q \in Queries |-> NewQuery]

Progress(q) ==
    \/ AcquireKey(q) \/ AwaitKey(q) \/ ReserveSlots(q) \/ AbortKey(q)
    \/ DeadlineExhausted(q) \/ Admission(q) \/ SkipTarget(q) \/ DispatchTarget(q)
    \/ Outcome(q) \/ RefusedBeforeSend(q) \/ RefusedAfterMatch(q) \/ SecurityError(q)
    \/ ReportSuccess(q) \/ ReportFailure(q)
    \/ AbortProbe(q, "preDispatch", "skip")
    \/ AbortProbe(q, "quota", "quotaRelease")
    \/ AbortProbe(q, "security", "securityRelease")
    \/ QuotaRelease(q) \/ SecurityRelease(q) \/ SecurityClose(q) \/ CommitAndRaise(q)
    \/ FinishLoop(q) \/ CompleteKey(q)
    \/ Unwind(q) \/ FailKey(q)

Next ==
    \/ \E q \in Queries : Progress(q) \/ StoreError(q) \/ Crash(q)
    \/ StoreStart
    \/ Tick

Spec == Init /\ [][Next]_vars

\* Every request is run to its end by its thread, and time passes.
FairSpec == Spec /\ WF_vars(Tick) /\ \A q \in Queries : WF_vars(Progress(q))

-----------------------------------------------------------------------------
(* Properties. *)

Slot(q, t) == resv[<<q, t>>]

\* Work that reached a counterparty is paid for: its slot is never handed back, on
\* any error path and after any fault or expiry.  The one exception is work refused
\* after the match (ReleasedWasNeverSent).
AcceptedIsNeverReleased ==
    \A q \in Queries : \A t \in qs[q].accepted : Slot(q, t).status # "RELEASED"

\* End to end: the executions a pair really performed never exceed its total
\* budget, however many queries race, crash, time out or are refused.  Those that
\* were refused after their match come on top: their slots were handed back.
AcceptedWithinBudget ==
    \A t \in Targets : B!Limit(t) # B!NoLimit /\ B!Window(t) = 0 =>
        Cardinality({q \in Queries : t \in qs[q].accepted}) <= B!Limit(t)

\* "Handle demonstrably pre-dispatch pilot quota rejections without consuming
\* pairwise budget": no slot is handed back after work was sent under it.
ReleasedWasNeverSent ==
    \A q \in Queries : \A t \in qs[q].accepted \cup qs[q].refused :
        Slot(q, t).status # "RELEASED"

\* No counterparty's work is refused after its match.
NothingRefusedLate == \A q \in Queries : qs[q].refused = {}

\* When a query has ended, a slot it leaves to the expiry sweep belongs to a
\* target it dispatched; slots of targets never dispatched are not lost.
UnsettledWasDispatched ==
    \A q \in Queries, t \in Targets :
        At(q, "done") /\ Slot(q, t).status = "RESERVED" => t \in qs[q].dispatched

\* Without faults every ended query has settled all its slots.
DoneIsSettled ==
    \A q \in Queries, t \in Targets :
        At(q, "done") => Slot(q, t).status # "RESERVED"

\* An idempotency key is given back before its retention ends only by a query all
\* of whose work, if it sent any, was refused: the retry it makes room for repeats
\* no execution that counts.
KeyFreedOnlyIfNothingAccepted ==
    [][\A k \in Keys :
          (rec[k].status # "NONE" /\ rec[k].age < KeyRetention /\ rec'[k].status = "NONE")
              => qs[rec[k].owner].accepted = {}]_vars

\* A response that can be replayed has been paid for: when the key is COMPLETED
\* no slot of the query is still open.
CachedResponseIsSettled ==
    \A k \in Keys : rec[k].status = "COMPLETED" =>
        \A t \in Targets : Slot(rec[k].owner, t).status # "RESERVED"

\* Across budget and key: two queries with one key never both have work at a
\* counterparty that was not refused, while the first one's claim is within retention.
OneAcceptedPerKey ==
    \A q1, q2 \in Queries :
        (q1 # q2 /\ KeyOf[q1] = KeyOf[q2] /\ qs[q1].accepted # {} /\ qs[q2].accepted # {})
            => exec[q1].since >= KeyRetention \/ exec[q2].since >= KeyRetention

\* Without faults every query ends and no probe stays unresolved.
QueriesEnd == \A q \in Queries : <>At(q, "done")
ProbesResolve == \A t \in Targets : row[t].state = "HALF_OPEN" ~> row[t].state # "HALF_OPEN"
=============================================================================
