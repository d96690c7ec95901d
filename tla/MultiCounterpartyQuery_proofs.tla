--------------------- MODULE MultiCounterpartyQuery_proofs ---------------------
(***************************************************************************)
(* Machine-checked proofs about the multi-counterparty query, for any      *)
(* number of queries, counterparties and keys and any configuration of the *)
(* three stores.                                                           *)
(*                                                                         *)
(* The argument.  Each step of a query calls the stores only in ways their *)
(* own specifications allow (BudgetStep, BreakerStep, KeyStep), so what    *)
(* was proved of each store alone holds of it here.  The queries' part is  *)
(* an inductive invariant in four pieces: Shape relates the lists of a     *)
(* query to its control point; SlotsOf bounds the slots that may still be  *)
(* open at that point, and excludes released slots of targets it may still *)
(* reach; Links ties accepted work to what the key store was told; Cached  *)
(* carries a settled query along with its cached response.  Work refused   *)
(* after its match counts as accepted no longer: what is proved of         *)
(* accepted work holds whatever the pilots' quotas do, and what needs the  *)
(* absence of such refusals names it: NothingRefusedLate.                  *)
(***************************************************************************)
EXTENDS MultiCounterpartyQuery, FiniteSetTheorems, TLAPS

\* The stores again, with what is proved about them.
BP == INSTANCE ExecutionBudget_proofs WITH
        Batches <- Queries, Retention <- BudgetRetention, MaxLag <- 0, Horizon <- BudgetHorizon
CP == INSTANCE CircuitBreaker_proofs WITH Peers <- Targets, Callers <- Queries, MaxReportLag <- 0
IP == INSTANCE Idempotency_proofs WITH
        Callers <- Queries, Retention <- KeyRetention, Horizon <- KeyHorizon

-----------------------------------------------------------------------------
(* The inductive invariant. *)

Early == {"acquire", "wait", "reserve", "abortKey"}
Looping == {"loop", "skip", "ready", "executing", "reportSuccess", "reportFailure",
            "preDispatch"}
\* Whatever was dispatched has completed.
Listed == {"loop", "skip", "ready", "reportSuccess", "reportFailure", "preDispatch", "quota",
           "quotaRelease", "complete"}
\* The current target has been taken up and not been dispatched.
Ahead == {"skip", "ready", "preDispatch", "quota"}
\* Only the current target may have been dispatched without having completed.
Working == {"executing", "reportSuccess", "reportFailure", "security", "securityRelease",
            "securityClose"}

Shape(x) ==
    /\ x.completed \cup x.accepted \subseteq x.dispatched
    /\ x.dispatched \cap x.todo = {}
    /\ x.pc \in Early => x.dispatched = {} /\ x.todo = Targets
    /\ x.pc \in Listed => x.dispatched \subseteq x.completed
    /\ x.pc \in Ahead => x.cur \in Targets \ (x.dispatched \cup x.todo)
    /\ x.pc \in Working => x.cur \in x.dispatched /\ x.dispatched \ {x.cur} \subseteq x.completed
    /\ x.pc = "executing" => x.cur \notin x.completed

\* The targets whose slot may still be open.
OpenAt(x) ==
    CASE x.pc \in Early \cup {"complete"} -> {}
      [] x.pc \in {"skip", "ready", "preDispatch"} -> x.todo \cup x.dispatched \cup {x.cur}
      [] x.pc \in {"loop", "executing", "reportSuccess", "reportFailure"} -> x.todo \cup x.dispatched
      [] x.pc = "securityClose" -> x.dispatched
      [] x.pc = "commitAndRaise" -> x.completed
      [] x.pc = "unwind" -> IF Faults THEN Targets ELSE {}
      [] x.pc \in {"failKey", "done"} -> IF Faults THEN x.dispatched ELSE {}
      [] OTHER -> Targets

\* The query has reached t, or may still reach it.
MaySend(x, t) ==
    \/ t \in x.accepted
    \/ x.pc \in Looping /\ t \in x.todo
    \/ x.pc = "ready" /\ t = x.cur

SlotsOf(q) ==
    \A t \in Targets : /\ Slot(q, t).status = "RESERVED" => t \in OpenAt(qs[q])
                       /\ MaySend(qs[q], t) => Slot(q, t).status # "RELEASED"

\* The key store knows that a query ran exactly when some of its work is accepted.
Links(q) ==
    /\ exec[q].ran => qs[q].accepted # {}
    /\ UseKey /\ qs[q].accepted # {} => exec[q].ran

Cached(k) ==
    rec[k].status = "COMPLETED" =>
        /\ At(rec[k].owner, "done")
        /\ \A t \in Targets : Slot(rec[k].owner, t).status # "RESERVED"

Control == qs \in [Queries -> Query] /\ \A q \in Queries : Shape(qs[q])
Stores == BP!TypeOK /\ CP!IInv /\ IP!IInv
Slots == \A q \in Queries : SlotsOf(q)
KeyLinks == (\A q \in Queries : Links(q)) /\ (\A k \in Keys : Cached(k))

QInv == Control /\ Stores /\ Slots /\ KeyLinks

-----------------------------------------------------------------------------
(* The stores' assumptions hold of the constants they are given here. *)

\* Constants of the execution budget store.
LEMMA BudgetFacts ==
    /\ BP!IsFiniteSet(Queries) /\ BP!IsFiniteSet(Targets)
    /\ /\ ReservationTTL \in Nat \ {0}
       /\ BudgetRetention \in Nat
       /\ 0 \in Nat
       /\ BudgetHorizon \in Nat
    /\ /\ BudgetRows \subseteq [max : Nat \ {0}, window : Nat]
       /\ GrantBudget \in [Targets -> Nat \cup {BP!NoLimit}]
    /\ /\ BudgetHorizon > ReservationTTL + 0
       /\ BudgetHorizon > BudgetRetention + 0
       /\ \A r \in BudgetRows : BudgetHorizon > r.window + 0
<1>1. BP!IsFiniteSet(Queries) /\ BP!IsFiniteSet(Targets)
  BY TargetAssumption DEF IsFiniteSet, BP!IsFiniteSet
<1>2. GrantBudget \in [Targets -> Nat \cup {BP!NoLimit}]
  BY BudgetAssumption DEF BP!NoLimit
<1>3. /\ BudgetHorizon > ReservationTTL + 0
      /\ BudgetHorizon > BudgetRetention + 0
      /\ \A r \in BudgetRows : BudgetHorizon > r.window + 0
  BY BudgetAssumption
<1>4. QED
  BY <1>1, <1>2, <1>3, BudgetAssumption

\* Constants of the circuit breaker store.
LEMMA BreakerFacts ==
    /\ NoProbe \notin Probes \cup Targets
    /\ 0 \in Nat /\ FailureCap \in Nat
    /\ Policies \subseteq [threshold : 1 .. FailureCap, cooldown : Nat \ {0}]
  BY BreakerAssumption

\* Constants of the idempotency store.
LEMMA KeyFacts ==
    /\ NoOwner \notin Queries
    /\ KeyOf \in [Queries -> Keys]
    /\ /\ Lease \in Nat /\ Grace \in Nat /\ KeyRetention \in Nat \ {0} /\ KeyHorizon \in Nat
       /\ Lease < KeyHorizon /\ Grace < KeyHorizon /\ KeyRetention < KeyHorizon
  BY KeyAssumption

-----------------------------------------------------------------------------
(* The two instances of each store are one. *)

\* The execution budget store of the composition is the one proved about.
LEMMA BudgetSame ==
    /\ B!TypeOK <=> BP!TypeOK
    /\ B!Init <=> BP!Init
    /\ B!ServiceNext <=> BP!ServiceNext
    /\ B!WithinTotalBudget <=> BP!WithinTotalBudget
    /\ B!Slots = BP!Slots
  BY Zenon DEF B!TypeOK, BP!TypeOK, B!Init, BP!Init, B!ServiceNext, BP!ServiceNext,
     B!WithinTotalBudget, BP!WithinTotalBudget, B!Debt, BP!Debt, B!Reserved, BP!Reserved,
     B!Limit, BP!Limit, B!Window, BP!Window, B!Slots, BP!Slots, B!Charged, BP!Charged,
     B!Resolved, BP!Resolved, B!Reservation, BP!Reservation, B!NoRow, BP!NoRow,
     B!NoLimit, BP!NoLimit, B!NoExecution, BP!NoExecution, B!NoReservation, BP!NoReservation,
     B!Lags, BP!Lags, B!Requests, BP!Requests, B!Recent, BP!Recent, B!Expired, BP!Expired,
     B!Open, BP!Open, B!Settle, BP!Settle, B!Charge, BP!Charge, B!Execute, BP!Execute,
     B!PruneReservations, BP!PruneReservations, B!HistoryKept, BP!HistoryKept,
     B!PruneHistory, BP!PruneHistory, B!ChargeAs, BP!ChargeAs,
     B!SweptReservations, BP!SweptReservations, B!SweptLedger, BP!SweptLedger,
     B!SweptHistory, BP!SweptHistory, B!InFlightSinceWindow, BP!InFlightSinceWindow,
     B!Used, BP!Used, B!Admits, BP!Admits, B!Reserve, BP!Reserve, B!RejectBatch, BP!RejectBatch,
     B!Commit, BP!Commit, B!FailClosed, BP!FailClosed, B!Release, BP!Release,
     B!InitDb, BP!InitDb, B!Documented, BP!Documented,
     B!Older, BP!Older, B!Tick, BP!Tick, B!vars, BP!vars, B!Cardinality, BP!Cardinality

\* The circuit breaker store of the composition is the one proved about.
LEMMA BreakerSame ==
    /\ C!BreakerTypeOK <=> CP!BreakerTypeOK
    /\ C!BreakerNext <=> CP!BreakerNext
    /\ C!SingleProbe <=> CP!SingleProbe
  BY Zenon DEF C!BreakerTypeOK, CP!BreakerTypeOK, C!BreakerNext, CP!BreakerNext, C!States, CP!States, C!Rows, CP!Rows,
     C!Idle, CP!Idle, C!Dispatches, CP!Dispatches, C!Healthy, CP!Healthy, C!Busy, CP!Busy,
     C!Probing, CP!Probing, C!Admitted, CP!Admitted, C!ReportLags, CP!ReportLags, C!Counted, CP!Counted,
     C!CooldownOf, CP!CooldownOf, C!Fresh, CP!Fresh, C!Admit, CP!Admit,
     C!ProbeFree, CP!ProbeFree, C!AdmitProbe, CP!AdmitProbe, C!Deny, CP!Deny,
     C!Matches, CP!Matches, C!CountsInClosed, CP!CountsInClosed, C!Opened, CP!Opened,
     C!Land, CP!Land, C!RecordSuccess, CP!RecordSuccess, C!AfterFailure, CP!AfterFailure,
     C!RecordFailure, CP!RecordFailure, C!RecordProbeAborted, CP!RecordProbeAborted,
     C!EndUnreported, CP!EndUnreported, C!Crash, CP!Crash, C!CooldownTick, CP!CooldownTick,
     C!ResetCircuit, CP!ResetCircuit, C!Evaluate, CP!Evaluate, C!Report, CP!Report,
     C!breakerVars, CP!breakerVars, C!SingleProbe, CP!SingleProbe, C!Cardinality, CP!Cardinality

\* The idempotency store of the composition is the one proved about.
LEMMA KeySame ==
    /\ I!TypeOK <=> IP!TypeOK
    /\ I!Init <=> IP!Init
    /\ I!Next <=> IP!Next
  BY Zenon DEF I!TypeOK, IP!TypeOK, I!Init, IP!Init, I!Next, IP!Next,
     I!Statuses, IP!Statuses, I!Record, IP!Record, I!Execution, IP!Execution,
     I!NewExecution, IP!NewExecution, I!CallerStep, IP!CallerStep, I!Tick, IP!Tick,
     I!Crash, IP!Crash, I!CleanupExpired, IP!CleanupExpired, I!Cleaned, IP!Cleaned,
     I!Purgeable, IP!Purgeable, I!Older, IP!Older, I!Absent, IP!Absent, I!NoRecord, IP!NoRecord,
     I!AbortIfClean, IP!AbortIfClean, I!Abort, IP!Abort,
     I!FailIndeterminate, IP!FailIndeterminate, I!Owns, IP!Owns,
     I!OwnsInProgress, IP!OwnsInProgress, I!OwnRecord, IP!OwnRecord, I!Finish, IP!Finish,
     I!Complete, IP!Complete, I!Dispatch, IP!Dispatch, I!Await, IP!Await,
     I!Acquire, IP!Acquire, I!AcquireNew, IP!AcquireNew, I!AcquireMismatch, IP!AcquireMismatch,
     I!AcquireCompleted, IP!AcquireCompleted, I!AcquireAmbiguous, IP!AcquireAmbiguous,
     I!AcquireLeaseExpired, IP!AcquireLeaseExpired, I!AcquireInProgress, IP!AcquireInProgress,
     I!Claimed, IP!Claimed, I!Matching, IP!Matching, I!LiveRecord, IP!LiveRecord,
     I!Expired, IP!Expired

-----------------------------------------------------------------------------
(* How the record of a query moves. *)

\* Only q moves.
Moves(q) ==
    /\ qs' \in [Queries -> Query]
    /\ \A p \in Queries \ {q} : qs'[p] = qs[p]

\* A query moves by replacing its record.
LEMMA Replaced ==
    ASSUME Control, NEW q \in Queries, NEW x \in Query, qs' = [qs EXCEPT ![q] = x]
    PROVE  Moves(q) /\ qs'[q] = x
  BY DEF Control, Moves

\* Moving the control point changes nothing else.
LEMMA GotoEffect ==
    ASSUME Control, NEW q \in Queries, NEW pc \in PCs, Goto(q, pc)
    PROVE  /\ Moves(q) /\ qs'[q].pc = pc
           /\ qs'[q].todo = qs[q].todo /\ qs'[q].cur = qs[q].cur
           /\ qs'[q].dispatched = qs[q].dispatched
           /\ qs'[q].completed = qs[q].completed /\ qs'[q].accepted = qs[q].accepted
<1> DEFINE x == [qs[q] EXCEPT !.pc = pc]
<1>1. qs[q] \in Query
  BY DEF Control
<1>2. x \in Query
  BY <1>1 DEF Query
<1>3. qs' = [qs EXCEPT ![q] = x]
  BY DEF Goto, Control
<1>4. /\ x.pc = pc /\ x.todo = qs[q].todo /\ x.cur = qs[q].cur
      /\ x.dispatched = qs[q].dispatched /\ x.completed = qs[q].completed
      /\ x.accepted = qs[q].accepted
  BY <1>1 DEF Query
<1> HIDE DEF x
<1>5. QED
  BY <1>2, <1>3, <1>4, Replaced

\* Taking up a target.
LEMMA ReachEffect ==
    ASSUME Control, NEW q \in Queries, NEW pc \in PCs, NEW t \in Targets, Reach(q, t, pc)
    PROVE  /\ Moves(q) /\ qs'[q].pc = pc
           /\ qs'[q].todo = qs[q].todo \ {t} /\ qs'[q].cur = t
           /\ qs'[q].dispatched = qs[q].dispatched
           /\ qs'[q].completed = qs[q].completed /\ qs'[q].accepted = qs[q].accepted
<1> DEFINE x == [qs[q] EXCEPT !.pc = pc, !.cur = t, !.todo = qs[q].todo \ {t}]
<1>1. qs[q] \in Query
  BY DEF Control
<1>2. x \in Query
  BY <1>1 DEF Query
<1>3. qs' = [qs EXCEPT ![q] = x]
  BY DEF Reach, Control
<1>4. /\ x.pc = pc /\ x.todo = qs[q].todo \ {t} /\ x.cur = t
      /\ x.dispatched = qs[q].dispatched /\ x.completed = qs[q].completed
      /\ x.accepted = qs[q].accepted
  BY <1>1 DEF Query
<1> HIDE DEF x
<1>5. QED
  BY <1>2, <1>3, <1>4, Replaced

\* Dispatching the current target, which work may or may not reach.
LEMMA DispatchEffect ==
    ASSUME Control, NEW q \in Queries, DispatchTarget(q)
    PROVE  \E reached \in SUBSET {Cur(q)} :
              /\ Moves(q) /\ qs'[q].pc = "executing"
              /\ qs'[q].todo = qs[q].todo /\ qs'[q].cur = qs[q].cur
              /\ qs'[q].dispatched = qs[q].dispatched \cup {Cur(q)}
              /\ qs'[q].completed = qs[q].completed
              /\ qs'[q].accepted = qs[q].accepted \cup reached
              /\ IF UseKey /\ reached # {} /\ ~exec[q].ran THEN I!Dispatch(q)
                                                           ELSE UNCHANGED keyVars
<1>1. PICK reached \in SUBSET {Cur(q)} :
         /\ qs' = [qs EXCEPT ![q].pc = "executing", ![q].accepted = @ \cup reached,
                             ![q].dispatched = @ \cup {Cur(q)}]
         /\ IF UseKey /\ reached # {} /\ ~exec[q].ran THEN I!Dispatch(q) ELSE UNCHANGED keyVars
  BY DEF DispatchTarget
<1> DEFINE x == [qs[q] EXCEPT !.pc = "executing", !.accepted = qs[q].accepted \cup reached,
                              !.dispatched = qs[q].dispatched \cup {Cur(q)}]
<1>2. qs[q] \in Query /\ Cur(q) \in Targets
  BY DEF Control, Shape, Ahead, Cur, DispatchTarget, At
<1>3. x \in Query
  BY <1>2, <1>1 DEF Query, PCs
<1>4. qs' = [qs EXCEPT ![q] = x]
  BY <1>1 DEF Control
<1>5. /\ x.pc = "executing" /\ x.todo = qs[q].todo /\ x.cur = qs[q].cur
      /\ x.dispatched = qs[q].dispatched \cup {Cur(q)} /\ x.completed = qs[q].completed
      /\ x.accepted = qs[q].accepted \cup reached
  BY <1>2 DEF Query
<1> HIDE DEF x
<1>6. QED
  BY <1>1, <1>3, <1>4, <1>5, Replaced

\* The outcome of an execution completes the current target.
LEMMA OutcomeEffect ==
    ASSUME Control, NEW q \in Queries, Outcome(q)
    PROVE  /\ Moves(q) /\ qs'[q].pc \in {"reportSuccess", "reportFailure", "loop"}
           /\ qs'[q].todo = qs[q].todo /\ qs'[q].cur = qs[q].cur
           /\ qs'[q].dispatched = qs[q].dispatched
           /\ qs'[q].completed = qs[q].completed \cup {Cur(q)}
           /\ qs'[q].accepted = qs[q].accepted
<1>1. PICK pc \in {"reportSuccess", "reportFailure"} :
         qs' = [qs EXCEPT ![q].pc = IF UseBreaker THEN pc ELSE "loop",
                          ![q].completed = @ \cup {Cur(q)}]
  BY DEF Outcome
<1> DEFINE to == IF UseBreaker THEN pc ELSE "loop"
           x == [qs[q] EXCEPT !.pc = to, !.completed = qs[q].completed \cup {Cur(q)}]
<1>2. qs[q] \in Query /\ Cur(q) \in Targets
  BY DEF Control, Shape, Working, Cur, Outcome, At, Query
<1>a. to \in {"reportSuccess", "reportFailure", "loop"} /\ to \in PCs
  BY DEF PCs
<1>4. qs' = [qs EXCEPT ![q] = x]
  BY <1>1 DEF Control
<1> HIDE DEF to
<1>3. x \in Query
  BY <1>2, <1>a DEF Query
<1>5. /\ x.pc = to /\ x.todo = qs[q].todo /\ x.cur = qs[q].cur
      /\ x.dispatched = qs[q].dispatched /\ x.completed = qs[q].completed \cup {Cur(q)}
      /\ x.accepted = qs[q].accepted
  BY <1>2 DEF Query
<1> HIDE DEF x
<1>6. QED
  BY <1>3, <1>4, <1>5, <1>a, Replaced

\* A refusal before anything was sent takes the current target off the list.
LEMMA RefusedEffect ==
    ASSUME Control, NEW q \in Queries, RefusedBeforeSend(q)
    PROVE  /\ Moves(q) /\ qs'[q].pc \in {"preDispatch", "quota"}
           /\ qs'[q].todo = qs[q].todo /\ qs'[q].cur = qs[q].cur
           /\ qs'[q].dispatched = qs[q].dispatched \ {Cur(q)}
           /\ qs'[q].completed = qs[q].completed
           /\ qs'[q].accepted = qs[q].accepted
<1>1. PICK pc \in {"preDispatch", "quota"} :
         qs' = [qs EXCEPT ![q].pc = pc, ![q].dispatched = @ \ {Cur(q)}]
  BY DEF RefusedBeforeSend
<1> DEFINE x == [qs[q] EXCEPT !.pc = pc, !.dispatched = qs[q].dispatched \ {Cur(q)}]
<1>2. qs[q] \in Query
  BY DEF Control
<1>3. x \in Query
  BY <1>2 DEF Query, PCs
<1>4. qs' = [qs EXCEPT ![q] = x]
  BY <1>1 DEF Control
<1>5. /\ x.pc = pc /\ x.todo = qs[q].todo /\ x.cur = qs[q].cur
      /\ x.dispatched = qs[q].dispatched \ {Cur(q)} /\ x.completed = qs[q].completed
      /\ x.accepted = qs[q].accepted
  BY <1>2 DEF Query
<1> HIDE DEF x
<1>6. QED
  BY <1>3, <1>4, <1>5, Replaced

\* A refusal after the match takes it off as well, and disowns its work.
LEMMA LateEffect ==
    ASSUME Control, NEW q \in Queries, RefusedAfterMatch(q)
    PROVE  /\ Moves(q) /\ qs'[q].pc = "quota"
           /\ qs'[q].todo = qs[q].todo /\ qs'[q].cur = qs[q].cur
           /\ qs'[q].dispatched = qs[q].dispatched \ {Cur(q)}
           /\ qs'[q].completed = qs[q].completed
           /\ qs'[q].accepted = qs[q].accepted \ {Cur(q)}
           /\ qs'[q].refused # {}
<1> DEFINE x == [qs[q] EXCEPT !.pc = "quota", !.dispatched = qs[q].dispatched \ {Cur(q)},
                              !.accepted = qs[q].accepted \ {Cur(q)},
                              !.refused = qs[q].refused \cup {Cur(q)}]
<1>1. qs[q] \in Query /\ Cur(q) \in qs[q].accepted
  BY DEF Control, RefusedAfterMatch, Reached
<1>2. x \in Query
  BY <1>1 DEF Query, PCs
<1>3. qs' = [qs EXCEPT ![q] = x]
  BY DEF RefusedAfterMatch, Control
<1>4. /\ x.pc = "quota" /\ x.todo = qs[q].todo /\ x.cur = qs[q].cur
      /\ x.dispatched = qs[q].dispatched \ {Cur(q)} /\ x.completed = qs[q].completed
      /\ x.accepted = qs[q].accepted \ {Cur(q)} /\ x.refused # {}
  BY <1>1 DEF Query
<1> HIDE DEF x
<1>5. QED
  BY <1>2, <1>3, <1>4, Replaced

\* What the key store will be told of a query whose work was refused after the match.
LEMMA LateRan ==
    ASSUME Control, IP!TypeOK, NEW q \in Queries, RefusedAfterMatch(q)
    PROVE  /\ exec' \in [Queries -> IP!Execution]
           /\ \A p \in Queries \ {q} : exec'[p] = exec[p]
           /\ exec'[q].pc = exec[q].pc /\ exec'[q].since = exec[q].since
           /\ exec'[q].reply = exec[q].reply
           /\ exec'[q].ran <=> UseKey /\ qs'[q].accepted # {}
<1> DEFINE ran == UseKey /\ qs[q].accepted # {Cur(q)}
           y == [exec[q] EXCEPT !.ran = ran]
<1>1. exec \in [Queries -> IP!Execution]
  BY DEF IP!TypeOK
<1>2. ran \in BOOLEAN /\ (ran <=> UseKey /\ qs[q].accepted \ {Cur(q)} # {})
  BY SwitchAssumption DEF RefusedAfterMatch, Reached
<1>3. exec' = [exec EXCEPT ![q] = y]
  BY DEF RefusedAfterMatch
<1> HIDE DEF ran
<1>4. /\ y \in IP!Execution /\ y.ran = ran /\ y.pc = exec[q].pc /\ y.since = exec[q].since
      /\ y.reply = exec[q].reply
  BY <1>1, <1>2 DEF IP!Execution
<1> HIDE DEF y
<1>5. exec' \in [Queries -> IP!Execution] /\ exec'[q] = y
      /\ \A p \in Queries \ {q} : exec'[p] = exec[p]
  BY <1>1, <1>3, <1>4
<1>6. qs'[q].accepted = qs[q].accepted \ {Cur(q)}
  BY LateEffect
<1>7. exec'[q].ran <=> UseKey /\ qs'[q].accepted # {}
  BY <1>2, <1>4, <1>5, <1>6
<1>8. QED
  BY <1>4, <1>5, <1>7

-----------------------------------------------------------------------------
(* The lists of a query agree with its control point. *)

\* A move of the control point that Shape survives.
Fits(from, to) ==
    /\ to # "executing"
    /\ to \in Early => from \in Early
    /\ to \in Listed => from \in Listed \cup Early
    /\ to \in Ahead => from \in Ahead
    /\ to \in Working => from \in Working

\* Every step of a query that is not a dispatch, an outcome, a refusal or the next
\* target only moves its control point, in a way that Shape survives.
LEMMA QueryMoves ==
    ASSUME NEW q \in Queries, Progress(q) \/ StoreError(q) \/ Crash(q)
    PROVE  \/ \E to \in PCs : Goto(q, to) /\ Fits(qs[q].pc, to)
           \/ /\ At(q, "loop")
              /\ \E t \in qs[q].todo, to \in {"skip", "ready"} : Reach(q, t, to)
           \/ DispatchTarget(q) \/ Outcome(q) \/ RefusedBeforeSend(q) \/ RefusedAfterMatch(q)
<1> USE DEF At, Fits, Early, Listed, Ahead, Working, PCs
<1>1. CASE AcquireKey(q) \/ AwaitKey(q) \/ ReserveSlots(q) \/ AbortKey(q)
  BY <1>1 DEF AcquireKey, AwaitKey, ReserveSlots, AbortKey
<1>2. CASE DeadlineExhausted(q) \/ Admission(q)
  BY <1>2 DEF DeadlineExhausted, Admission
<1>3. CASE SkipTarget(q) \/ ReportSuccess(q) \/ ReportFailure(q) \/ SecurityError(q)
  BY <1>3 DEF SkipTarget, ReportSuccess, ReportFailure, SecurityError
<1>4. CASE \/ AbortProbe(q, "preDispatch", "skip")
           \/ AbortProbe(q, "quota", "quotaRelease")
           \/ AbortProbe(q, "security", "securityRelease")
  BY <1>4 DEF AbortProbe
<1>5. CASE QuotaRelease(q) \/ SecurityRelease(q) \/ SecurityClose(q) \/ CommitAndRaise(q)
  BY <1>5 DEF QuotaRelease, SecurityRelease, SecurityClose, CommitAndRaise, ReleaseSlots
<1>6. CASE FinishLoop(q) \/ CompleteKey(q) \/ Unwind(q) \/ FailKey(q)
  BY <1>6 DEF FinishLoop, CompleteKey, Unwind, FailKey, ReleaseSlots, AfterLoop
<1>7. CASE StoreError(q) \/ Crash(q)
  BY <1>7 DEF StoreError, Crash
<1>8. QED
  BY <1>1, <1>2, <1>3, <1>4, <1>5, <1>6, <1>7 DEF Progress

\* Shape is an invariant of the queries alone.
LEMMA ControlStep ==
    ASSUME Control, [Next]_vars
    PROVE  Control'
<1> USE DEF Shape
<1>1. ASSUME NEW q \in Queries, Moves(q), Shape(qs'[q])
      PROVE  Control'
  BY <1>1 DEF Moves, Control
<1>2. ASSUME NEW q \in Queries, NEW to \in PCs, Goto(q, to), Fits(qs[q].pc, to)
      PROVE  Control'
  <2>1. Shape(qs[q])
    BY DEF Control
  <2>2. Shape(qs'[q])
    BY <1>2, <2>1, GotoEffect DEF Fits
  <2>3. QED
    BY <1>1, <1>2, <2>2, GotoEffect
<1>3. ASSUME NEW q \in Queries, At(q, "loop"), NEW t \in qs[q].todo,
             NEW to \in {"skip", "ready"}, Reach(q, t, to)
      PROVE  Control'
  <2>1. Shape(qs[q]) /\ t \in Targets /\ to \in PCs
    BY DEF Control, Query, PCs
  <2>2. Shape(qs'[q])
    BY <1>3, <2>1, ReachEffect DEF At, Early, Listed, Ahead, Working
  <2>3. QED
    BY <1>1, <1>3, <2>1, <2>2, ReachEffect
<1>4. ASSUME NEW q \in Queries, DispatchTarget(q)
      PROVE  Control'
  <2>1. Shape(qs[q]) /\ At(q, "ready")
    BY <1>4 DEF Control, DispatchTarget
  <2>2. Moves(q) /\ Shape(qs'[q])
    BY <1>4, <2>1, DispatchEffect DEF At, Cur, Early, Listed, Ahead, Working
  <2>3. QED
    BY <1>1, <2>2
<1>5. ASSUME NEW q \in Queries, Outcome(q)
      PROVE  Control'
  <2>1. Shape(qs[q]) /\ At(q, "executing")
    BY <1>5 DEF Control, Outcome
  <2>2. Moves(q) /\ Shape(qs'[q])
    BY <1>5, <2>1, OutcomeEffect DEF At, Cur, Early, Listed, Ahead, Working
  <2>3. QED
    BY <1>1, <2>2
<1>6. ASSUME NEW q \in Queries, RefusedBeforeSend(q)
      PROVE  Control'
  <2>1. Shape(qs[q]) /\ At(q, "executing") /\ Cur(q) \notin qs[q].accepted
    BY <1>6 DEF Control, RefusedBeforeSend, Reached
  <2>2. Moves(q) /\ Shape(qs'[q])
    <3>1. qs[q].cur \in Targets
      BY <2>1 DEF At, Working, Control, Query
    <3>2. QED
      BY <1>6, <2>1, <3>1, RefusedEffect DEF At, Cur, Early, Listed, Ahead, Working
  <2>3. QED
    BY <1>1, <2>2
<1>7. ASSUME NEW q \in Queries, RefusedAfterMatch(q)
      PROVE  Control'
  <2>1. Shape(qs[q]) /\ At(q, "executing")
    BY <1>7 DEF Control, RefusedAfterMatch
  <2>2. qs[q].cur \in Targets
    BY <2>1 DEF At, Working, Control, Query
  <2>3. Moves(q) /\ Shape(qs'[q])
    BY <1>7, <2>1, <2>2, LateEffect DEF At, Cur, Early, Listed, Ahead, Working
  <2>4. QED
    BY <1>1, <2>3
<1>8. CASE UNCHANGED qs
  BY <1>8 DEF Control
<1>9. QED
  BY <1>2, <1>3, <1>4, <1>5, <1>6, <1>7, <1>8, QueryMoves DEF Next, StoreStart, Tick, vars

-----------------------------------------------------------------------------
(* What the budget transactions do to the slots. *)

\* No slot of p is newly reserved or newly released.
KeepsSlots(p) ==
    \A t \in Targets : /\ Slot(p, t)'.status = "RESERVED" => Slot(p, t).status = "RESERVED"
                       /\ Slot(p, t)'.status = "RELEASED" => Slot(p, t).status = "RELEASED"

\* A release hands back the named open slots and touches no other.
LEMMA ReleaseEffect ==
    ASSUME NEW q \in Queries, NEW S \in SUBSET Targets, B!Release(q, S, 0)
    PROVE  \A p \in Queries, t \in Targets :
              Slot(p, t)'.status = IF p = q /\ t \in S /\ Slot(p, t).status = "RESERVED"
                                   THEN "RELEASED" ELSE Slot(p, t).status
  BY DEF Slot, B!Release, B!Settle, B!Open, B!Slots

\* A commit or a fail-closed charges the named open slots and touches no other.
LEMMA ChargeEffect ==
    ASSUME NEW q \in Queries, NEW S \in SUBSET Targets, NEW status \in B!Charged,
           B!ChargeAs(B!Open(q, S), status, 0)
    PROVE  \A p \in Queries, t \in Targets :
              Slot(p, t)'.status = IF p = q /\ t \in S /\ Slot(p, t).status = "RESERVED"
                                   THEN status ELSE Slot(p, t).status
  BY DEF Slot, B!ChargeAs, B!Settle, B!Open, B!Slots

\* A reservation opens the slots of its query; of the others it may charge those
\* that have expired and forget those that are resolved.
LEMMA ReserveEffect ==
    ASSUME NEW q \in Queries, NEW clean \in BOOLEAN, B!Reserve(q, Targets, 0, clean)
    PROVE  /\ \A t \in Targets : Slot(q, t)'.status = "RESERVED"
           /\ \A p \in Queries \ {q} : KeepsSlots(p)
<1> DEFINE swept == B!SweptReservations(0)
           rows == IF clean THEN B!PruneReservations(swept, 0) ELSE swept
<1>1. resv' = B!Settle(rows, {q} \X Targets, "RESERVED", 0)
  BY DEF B!Reserve
<1>2. \A k \in B!Slots : /\ swept[k].status \in {resv[k].status, "FAILED_CLOSED"}
                         /\ rows[k].status \in {swept[k].status, "NONE"}
  BY DEF B!SweptReservations, B!Settle, B!Expired, B!PruneReservations, B!NoReservation
<1> HIDE DEF swept, rows
<1>3. \A k \in B!Slots : resv'[k].status = IF k[1] = q THEN "RESERVED" ELSE rows[k].status
  BY <1>1 DEF B!Settle, B!Slots
<1>4. \A p \in Queries, t \in Targets : <<p, t>> \in B!Slots
  BY DEF B!Slots
<1>5. QED
  BY <1>2, <1>3, <1>4 DEF KeepsSlots, Slot

\* Time changes the age of a slot only.
LEMMA TickEffect ==
    ASSUME BP!TypeOK, B!Tick
    PROVE  \A p \in Queries, t \in Targets : Slot(p, t)'.status = Slot(p, t).status
<1>1. \A k \in B!Slots : resv[k] \in B!Reservation
  BY BudgetSame DEF B!TypeOK
<1>2. QED
  BY <1>1 DEF B!Tick, Slot, B!Slots, B!Reservation

\* Settling no slot at all changes nothing.
LEMMA NothingToSettle ==
    ASSUME BP!TypeOK, NEW q \in Queries,
           B!Commit(q, {}, 0) \/ B!FailClosed(q, {}, 0) \/ B!Release(q, {}, 0)
    PROVE  UNCHANGED B!vars
<1>1. /\ resv \in [B!Slots -> B!Reservation] /\ hist \in [B!Slots -> Nat \cup {B!NoExecution}]
      /\ consumed \in [Targets -> Nat]
  BY BudgetSame DEF B!TypeOK
<1>2. B!Open(q, {}) = {}
  BY DEF B!Open
<1>3. \A status : B!Settle(resv, {}, status, 0) = resv
  BY <1>1 DEF B!Settle
<1>4. B!Execute(hist, {}, 0) = hist
  BY <1>1 DEF B!Execute
<1>5. B!Charge(consumed, {}) = consumed
  <2>1. \A t : B!Cardinality({k \in {} : k[2] = t}) = 0
    <3>1. \A t : {k \in {} : k[2] = t} = {}
      OBVIOUS
    <3>2. \A T : B!Cardinality(T) = Cardinality(T)
      BY DEF B!Cardinality, Cardinality
    <3>3. QED
      BY <3>1, <3>2, FS_EmptySet
  <2>2. QED
    BY <2>1, <1>1 DEF B!Charge
<1>6. QED
  BY <1>2, <1>3, <1>4, <1>5 DEF B!Commit, B!FailClosed, B!Release, B!ChargeAs, B!vars

-----------------------------------------------------------------------------
(* Every step of the composition is a step of each store, or leaves it alone. *)

\* Settling the slots of some targets is a transaction of the budget store.
LEMMA SettleStep ==
    ASSUME BP!TypeOK, NEW q \in Queries, NEW S \in SUBSET Targets,
           B!Commit(q, S, 0) \/ B!FailClosed(q, S, 0) \/ B!Release(q, S, 0)
    PROVE  [B!ServiceNext]_(B!vars)
<1>1. 0 \in B!Lags
  BY DEF B!Lags
<1>2. CASE S = {}
  BY <1>2, NothingToSettle
<1>3. CASE S # {}
  BY <1>1, <1>3 DEF B!ServiceNext, B!Requests
<1>4. QED
  BY <1>2, <1>3

\* The query uses the budget store as its specification allows.
LEMMA BudgetStep ==
    ASSUME BP!TypeOK, Control, [Next]_vars
    PROVE  [B!ServiceNext]_(B!vars)
<1> USE DEF budgetVars
<1>0. \A q \in Queries : qs[q] \in Query
  BY DEF Control
<1>1. ASSUME NEW q \in Queries, ReserveSlots(q)
      PROVE  [B!ServiceNext]_(B!vars)
  <2>1. 0 \in B!Lags /\ Targets \in B!Requests
    BY TargetAssumption DEF B!Lags, B!Requests
  <2>2. QED
    BY <1>1, <2>1 DEF ReserveSlots, B!ServiceNext
<1>2. ASSUME NEW q \in Queries, SkipTarget(q)
      PROVE  [B!ServiceNext]_(B!vars)
  <2>1. {Cur(q)} \in SUBSET Targets
    BY <1>2 DEF SkipTarget, At, Control, Shape, Ahead, Cur
  <2>2. QED
    BY <1>2, <2>1, SettleStep DEF SkipTarget
<1>3. ASSUME NEW q \in Queries, QuotaRelease(q) \/ SecurityRelease(q) \/ Unwind(q)
      PROVE  [B!ServiceNext]_(B!vars)
  BY <1>3, SettleStep DEF QuotaRelease, SecurityRelease, Unwind, ReleaseSlots
<1>4. ASSUME NEW q \in Queries, SecurityClose(q)
      PROVE  [B!ServiceNext]_(B!vars)
  <2>1. {Cur(q)} \in SUBSET Targets
    BY <1>4, <1>0 DEF SecurityClose, At, Control, Shape, Working, Cur, Query
  <2>2. QED
    BY <1>4, <2>1, SettleStep DEF SecurityClose
<1>5. ASSUME NEW q \in Queries, CommitAndRaise(q) \/ FinishLoop(q)
      PROVE  [B!ServiceNext]_(B!vars)
  <2>1. qs[q].completed \in SUBSET Targets
    BY <1>0 DEF Query
  <2>2. QED
    BY <1>5, <2>1, SettleStep DEF CommitAndRaise, FinishLoop
<1>6. ASSUME NEW q \in Queries, Progress(q) \/ StoreError(q) \/ Crash(q),
             ~(ReserveSlots(q) \/ SkipTarget(q) \/ QuotaRelease(q) \/ SecurityRelease(q)
               \/ Unwind(q) \/ SecurityClose(q) \/ CommitAndRaise(q) \/ FinishLoop(q))
      PROVE  UNCHANGED budgetVars
  BY <1>6 DEF Progress, AcquireKey, AwaitKey, AbortKey, DeadlineExhausted, Admission,
     DispatchTarget, Outcome, RefusedBeforeSend, RefusedAfterMatch, SecurityError, ReportSuccess, ReportFailure,
     AbortProbe, CompleteKey, FailKey, StoreError, Crash, OnlyKey, OnlyBreaker, OnlyQuery
<1>7. ASSUME UNCHANGED budgetVars
      PROVE  [B!ServiceNext]_(B!vars)
  BY <1>7 DEF B!vars
<1>8. CASE StoreStart \/ Tick
  BY <1>8 DEF StoreStart, Tick, B!ServiceNext
<1>9. CASE UNCHANGED vars
  BY <1>9, <1>7 DEF vars
<1>10. QED
  BY <1>1, <1>2, <1>3, <1>4, <1>5, <1>6, <1>7, <1>8, <1>9 DEF Next

\* The query uses the circuit breaker as its specification allows.
LEMMA BreakerStep ==
    ASSUME Control, [Next]_vars
    PROVE  [C!BreakerNext]_(C!breakerVars)
<1>0. \A q \in Queries : qs[q] \in Query
  BY DEF Control
<1>a. 0 \in C!ReportLags
  BY DEF C!ReportLags
<1>1. ASSUME NEW q \in Queries, Admission(q)
      PROVE  [C!BreakerNext]_(C!breakerVars)
  <2>1. PICK t \in qs[q].todo :
           \/ C!Admit(q, t)
           \/ \E p \in Probes : C!AdmitProbe(q, t, p)
           \/ C!Deny(q, t, Operational[q])
           \/ UNCHANGED breakerVars
    BY <1>1 DEF Admission
  <2>2. t \in Targets /\ Operational[q] \in BOOLEAN
    BY <1>0, SwitchAssumption DEF Query
  <2>3. QED
    BY <2>1, <2>2 DEF C!BreakerNext, C!Evaluate, C!breakerVars, breakerVars
<1>2. ASSUME NEW q \in Queries, Withdraw(q) \/ C!RecordSuccess(q)
                                \/ \E policy \in Policies : C!RecordFailure(q, policy, 0)
      PROVE  C!BreakerNext
  BY <1>2, <1>a DEF Withdraw, C!BreakerNext, C!Report
<1>3. ASSUME NEW q \in Queries, C!Crash(q)
      PROVE  C!BreakerNext
  BY <1>3 DEF C!BreakerNext
<1>4. ASSUME NEW q \in Queries, ReportSuccess(q) \/ ReportFailure(q)
      PROVE  C!BreakerNext
  BY <1>4, <1>2 DEF ReportSuccess, ReportFailure
<1>5. ASSUME NEW q \in Queries, NEW from, NEW to, AbortProbe(q, from, to)
      PROVE  [C!BreakerNext]_(C!breakerVars)
  BY <1>5, <1>2 DEF AbortProbe, breakerVars, C!breakerVars
<1>6. ASSUME NEW q \in Queries, StoreError(q) \/ Crash(q)
      PROVE  [C!BreakerNext]_(C!breakerVars)
  BY <1>6, <1>3 DEF StoreError, Crash, DropFlight, breakerVars, C!breakerVars
<1>7. ASSUME NEW q \in Queries, Progress(q),
             ~(Admission(q) \/ ReportSuccess(q) \/ ReportFailure(q)),
             \A from, to : ~AbortProbe(q, from, to)
      PROVE  UNCHANGED breakerVars
  BY <1>7 DEF Progress, AcquireKey, AwaitKey, ReserveSlots, AbortKey, DeadlineExhausted,
     SkipTarget, DispatchTarget, Outcome, RefusedBeforeSend, RefusedAfterMatch, SecurityError, QuotaRelease,
     SecurityRelease, SecurityClose, CommitAndRaise, FinishLoop, CompleteKey, Unwind, FailKey,
     ReleaseSlots, OnlyBudget, OnlyKey, OnlyQuery
<1>8. CASE Tick
  BY <1>8 DEF Tick, C!BreakerNext
<1>9. ASSUME UNCHANGED breakerVars
      PROVE  [C!BreakerNext]_(C!breakerVars)
  BY <1>9 DEF breakerVars, C!breakerVars
<1>10. CASE StoreStart \/ UNCHANGED vars
  BY <1>10, <1>9 DEF vars, StoreStart
<1>11. QED
  BY <1>1, <1>4, <1>5, <1>6, <1>7, <1>8, <1>9, <1>10 DEF Next

\* The query uses the idempotency store as its specification allows, unless work is
\* refused after its match: in particular it asks for a clean abort only when
\* none of its work is accepted.
LEMMA KeyStep ==
    ASSUME Control, \A q \in Queries : Links(q), [Next]_vars,
           \A q \in Queries : ~RefusedAfterMatch(q)
    PROVE  [I!Next]_(I!vars)
<1>1. ASSUME NEW q \in Queries, I!AbortIfClean(q) \/ I!FailIndeterminate(q) \/ I!Dispatch(q)
                                \/ I!Await(q) \/ I!Crash(q)
                                \/ \E clean \in BOOLEAN : I!Acquire(q, clean) \/ I!Complete(q, clean)
      PROVE  I!Next
  BY <1>1 DEF I!Next, I!CallerStep
<1>2. ASSUME NEW q \in Queries, AcquireKey(q)
      PROVE  I!Next
  BY <1>1, <1>2 DEF AcquireKey, I!Acquire
<1>3. ASSUME NEW q \in Queries, AbortKey(q) \/ FailKey(q)
      PROVE  I!Next
  <2>1. CASE AbortKey(q) \/ ~HasSideEffects(q)
    <3>1. qs[q].accepted = {}
      BY <1>3, <2>1 DEF Control, Shape, AbortKey, At, Early, HasSideEffects
    <3>2. ~exec[q].ran
      BY <3>1 DEF Links
    <3>3. I!Abort(q)
      BY <1>3, <2>1 DEF AbortKey, FailKey
    <3>4. QED
      BY <1>1, <3>2, <3>3 DEF I!AbortIfClean
  <2>2. CASE HasSideEffects(q) /\ FailKey(q)
    BY <1>1, <2>2 DEF FailKey
  <2>3. QED
    BY <1>3, <2>1, <2>2
<1>4. ASSUME NEW q \in Queries, AwaitKey(q) \/ CompleteKey(q)
      PROVE  I!Next
  BY <1>1, <1>4 DEF AwaitKey, CompleteKey
<1>5. ASSUME NEW q \in Queries, DispatchTarget(q) \/ Crash(q) \/ StoreError(q)
      PROVE  I!Next \/ UNCHANGED keyVars
  BY <1>1, <1>5 DEF DispatchTarget, Crash, StoreError, keyVars
<1>6. ASSUME NEW q \in Queries, Progress(q),
             ~(AcquireKey(q) \/ AbortKey(q) \/ FailKey(q) \/ AwaitKey(q) \/ CompleteKey(q)
               \/ DispatchTarget(q) \/ RefusedAfterMatch(q))
      PROVE  UNCHANGED keyVars
  BY <1>6 DEF Progress, ReserveSlots, DeadlineExhausted, Admission, SkipTarget, Outcome,
     RefusedBeforeSend, SecurityError, ReportSuccess, ReportFailure, AbortProbe, QuotaRelease,
     SecurityRelease, SecurityClose, CommitAndRaise, FinishLoop, Unwind, ReleaseSlots,
     OnlyBudget, OnlyBreaker, OnlyQuery
<1>7. CASE Tick
  BY <1>7 DEF Tick, I!Next
<1>8. CASE StoreStart \/ UNCHANGED vars
  BY <1>8 DEF StoreStart, vars, keyVars, I!vars
<1>9. QED
  BY <1>2, <1>3, <1>4, <1>5, <1>6, <1>7, <1>8 DEF Next, keyVars, I!vars

\* What was proved of the stores alone is preserved in the composition.
LEMMA StoresStep ==
    ASSUME Control, Stores, \A q \in Queries : Links(q), [Next]_vars
    PROVE  Stores'
<1>1. BP!TypeOK'
  <2>1. [BP!ServiceNext]_(BP!vars)
    BY BudgetStep, BudgetSame DEF Stores, B!vars, BP!vars
  <2>2. [BP!Next]_(BP!vars)
    BY <2>1 DEF BP!Next
  <2> HIDE DEF Stores
  <2>3. BP!TypeOK
    BY DEF Stores
  <2>4. QED
    BY <2>2, <2>3, BP!TypeStep, BudgetFacts, Zenon
<1>2. CP!IInv'
  <2>1. [CP!BreakerNext]_(CP!breakerVars)
    BY BreakerStep, BreakerSame DEF C!breakerVars, CP!breakerVars
  <2>2. CP!IInv
    BY DEF Stores
  <2>3. QED
    BY <2>1, <2>2, CP!IInvStep, BreakerFacts, Zenon
<1>3. IP!IInv'
  <2>0. IP!IInv
    BY DEF Stores
  <2>1. CASE \A q \in Queries : ~RefusedAfterMatch(q)
    <3>1. [IP!Next]_(IP!vars)
      BY <2>1, KeyStep, KeySame DEF I!vars, IP!vars
    <3>2. QED
      BY <2>0, <3>1, IP!IInvStep, KeyFacts, Zenon
  <2>2. ASSUME NEW q \in Queries, RefusedAfterMatch(q)
        PROVE  IP!IInv'
    <3>1. rec' = rec
      BY <2>2 DEF RefusedAfterMatch
    <3>2. /\ exec' \in [Queries -> IP!Execution]
          /\ \A p \in Queries \ {q} : exec'[p] = exec[p]
          /\ exec'[q].pc = exec[q].pc /\ exec'[q].since = exec[q].since
          /\ exec'[q].reply = exec[q].reply
          /\ exec'[q].ran <=> UseKey /\ qs'[q].accepted # {}
      BY <2>0, <2>2, LateRan DEF IP!IInv
    <3>3. exec'[q].ran => exec[q].ran
      BY <2>2, <3>2 DEF Links, RefusedAfterMatch, Reached
    <3>4. \A p \in Queries : /\ exec'[p].pc = exec[p].pc /\ exec'[p].since = exec[p].since
                             /\ exec'[p].reply = exec[p].reply
                             /\ exec'[p].ran => exec[p].ran
      BY <3>2, <3>3
    <3>5. QED
      BY <2>0, <3>1, <3>2, <3>4, IP!DisownStep, KeyFacts, Zenon
  <2>3. QED
    BY <2>1, <2>2
<1>4. QED
  BY <1>1, <1>2, <1>3 DEF Stores

-----------------------------------------------------------------------------
(* The slots of a query agree with its control point. *)

\* Slots survives when the slots of the other queries are kept and those of the
\* moving query fit its new control point.
LEMMA SlotsFrame ==
    ASSUME Slots, NEW q \in Queries, Moves(q),
           \A p \in Queries \ {q} : KeepsSlots(p),
           \A t \in Targets :
              /\ Slot(q, t)'.status = "RESERVED" => t \in OpenAt(qs'[q])
              /\ MaySend(qs'[q], t) => Slot(q, t)'.status # "RELEASED"
    PROVE  Slots'
<1> SUFFICES ASSUME NEW p \in Queries, NEW t \in Targets
             PROVE  /\ Slot(p, t)'.status = "RESERVED" => t \in OpenAt(qs'[p])
                    /\ MaySend(qs'[p], t) => Slot(p, t)'.status # "RELEASED"
  BY DEF Slots, SlotsOf
<1>1. CASE p = q
  BY <1>1
<1>2. CASE p # q
  <2>1. qs'[p] = qs[p] /\ KeepsSlots(p)
    BY <1>2 DEF Moves
  <2>2. QED
    BY <2>1 DEF KeepsSlots, Slots, SlotsOf
<1>3. QED
  BY <1>1, <1>2

\* A step that leaves the budget store alone keeps every slot.
LEMMA SlotsUntouched ==
    ASSUME UNCHANGED budgetVars
    PROVE  \A p \in Queries : KeepsSlots(p) /\ \A t \in Targets : Slot(p, t)' = Slot(p, t)
  BY DEF budgetVars, KeepsSlots, Slot

\* Where a query moves without a transaction of the budget store, or with a rejected
\* one, its slots may still be open as before, and it may not reach more targets.
LEMMA SlotsMove ==
    ASSUME Slots, NEW q \in Queries, Moves(q), UNCHANGED budgetVars,
           OpenAt(qs[q]) \subseteq OpenAt(qs'[q]),
           \A t \in Targets : MaySend(qs'[q], t) => MaySend(qs[q], t)
    PROVE  Slots'
<1>1. \A t \in Targets : Slot(q, t)' = Slot(q, t)
  BY SlotsUntouched
<1>2. QED
  BY <1>1, SlotsFrame, SlotsUntouched DEF Slots, SlotsOf

\* Releasing slots of targets that the query will not reach.
LEMMA SlotsRelease ==
    ASSUME Slots, NEW q \in Queries, Moves(q), NEW S \in SUBSET Targets, B!Release(q, S, 0),
           OpenAt(qs[q]) \ S \subseteq OpenAt(qs'[q]),
           \A t \in Targets : MaySend(qs'[q], t) => MaySend(qs[q], t) /\ t \notin S
    PROVE  Slots'
<1>1. \A p \in Queries \ {q} : KeepsSlots(p)
  BY ReleaseEffect DEF KeepsSlots
<1>2. ASSUME NEW t \in Targets
      PROVE  /\ Slot(q, t)'.status = "RESERVED" => t \in OpenAt(qs'[q])
             /\ MaySend(qs'[q], t) => Slot(q, t)'.status # "RELEASED"
  <2>1. Slot(q, t)'.status = IF t \in S /\ Slot(q, t).status = "RESERVED"
                             THEN "RELEASED" ELSE Slot(q, t).status
    BY ReleaseEffect
  <2>2. QED
    BY <2>1 DEF Slots, SlotsOf
<1>3. QED
  BY <1>1, <1>2, SlotsFrame

\* Charging slots.
LEMMA SlotsCharge ==
    ASSUME Slots, NEW q \in Queries, Moves(q), NEW S \in SUBSET Targets,
           B!Commit(q, S, 0) \/ B!FailClosed(q, S, 0),
           OpenAt(qs[q]) \ S \subseteq OpenAt(qs'[q]),
           \A t \in Targets : MaySend(qs'[q], t) => MaySend(qs[q], t)
    PROVE  Slots'
<1>1. PICK status \in B!Charged : B!ChargeAs(B!Open(q, S), status, 0)
  BY DEF B!Commit, B!FailClosed, B!Charged
<1>2. status # "RESERVED" /\ status # "RELEASED"
  BY DEF B!Charged
<1>3. \A p \in Queries \ {q} : KeepsSlots(p)
  BY <1>1, <1>2, ChargeEffect DEF KeepsSlots
<1>4. ASSUME NEW t \in Targets
      PROVE  /\ Slot(q, t)'.status = "RESERVED" => t \in OpenAt(qs'[q])
             /\ MaySend(qs'[q], t) => Slot(q, t)'.status # "RELEASED"
  <2>1. Slot(q, t)'.status = IF t \in S /\ Slot(q, t).status = "RESERVED"
                             THEN status ELSE Slot(q, t).status
    BY <1>1, ChargeEffect
  <2>2. QED
    BY <2>1, <1>2 DEF Slots, SlotsOf
<1>5. QED
  BY <1>3, <1>4, SlotsFrame

\* The steps that settle slots.
Settles(q) ==
    \/ SkipTarget(q) \/ QuotaRelease(q) \/ SecurityRelease(q) \/ Unwind(q)
    \/ SecurityClose(q) \/ CommitAndRaise(q) \/ FinishLoop(q)

\* A move after which every slot that may be open may still be, and no target that
\* was out of reach is within it.
Narrows(q) ==
    /\ OpenAt(qs[q]) \subseteq OpenAt(qs'[q])
    /\ \A t \in Targets : MaySend(qs'[q], t) => MaySend(qs[q], t)

\* The steps of a query that leave the budget store alone.
LEMMA QuietMoves ==
    ASSUME Control, NEW q \in Queries, Progress(q) \/ StoreError(q) \/ Crash(q),
           ~Settles(q), UNCHANGED budgetVars
    PROVE  Moves(q) /\ Narrows(q)
<1> USE DEF At, PCs, Early, Looping, OpenAt, MaySend
<1>0. qs[q] \in Query /\ Shape(qs[q])
  BY DEF Control
<1>a. OpenAt(qs[q]) \subseteq Targets
  <2>1. qs[q].pc \in {"skip", "ready", "preDispatch"} => qs[q].cur \in Targets
    BY <1>0 DEF Shape, Ahead
  <2>2. qs[q].todo \subseteq Targets /\ qs[q].dispatched \subseteq Targets
        /\ qs[q].completed \subseteq Targets
    BY <1>0 DEF Query
  <2>3. QED
    BY <2>1, <2>2
<1>1. ASSUME NEW to \in PCs, Goto(q, to),
             \/ to \in {"security", "quotaRelease", "securityRelease", "dead"}
             \/ to = "unwind" /\ Faults
             \/ qs[q].pc \in Early /\ to \in {"reserve", "wait", "abortKey", "done"}
             \/ qs[q].pc \in {"reportSuccess", "reportFailure"} /\ to = "loop"
             \/ qs[q].pc = "preDispatch" /\ to = "skip"
             \/ qs[q].pc \in {"complete", "failKey"} /\ to = "done"
      PROVE  Moves(q) /\ Narrows(q)
  <2>1. /\ Moves(q) /\ qs'[q].pc = to
        /\ qs'[q].todo = qs[q].todo /\ qs'[q].cur = qs[q].cur
        /\ qs'[q].dispatched = qs[q].dispatched
        /\ qs'[q].completed = qs[q].completed /\ qs'[q].accepted = qs[q].accepted
    BY <1>1, GotoEffect
  <2>2. OpenAt(qs[q]) \subseteq OpenAt(qs'[q])
    BY <1>1, <1>a, <2>1
  <2>3. \A t \in Targets : MaySend(qs'[q], t) => MaySend(qs[q], t)
    BY <1>1, <2>1
  <2>4. QED
    BY <2>1, <2>2, <2>3 DEF Narrows
<1>2. ASSUME At(q, "loop"), NEW t \in qs[q].todo, NEW to \in {"skip", "ready"}, Reach(q, t, to)
      PROVE  Moves(q) /\ Narrows(q)
  <2>0. t \in Targets /\ to \in PCs
    BY <1>0 DEF Query
  <2>1. /\ Moves(q) /\ qs'[q].pc = to
        /\ qs'[q].todo = qs[q].todo \ {t} /\ qs'[q].cur = t
        /\ qs'[q].dispatched = qs[q].dispatched
        /\ qs'[q].completed = qs[q].completed /\ qs'[q].accepted = qs[q].accepted
    BY <1>2, <2>0, ReachEffect
  <2>2. OpenAt(qs[q]) \subseteq OpenAt(qs'[q])
    BY <1>2, <2>1
  <2>3. \A u \in Targets : MaySend(qs'[q], u) => MaySend(qs[q], u)
    BY <1>2, <2>1
  <2>4. QED
    BY <2>1, <2>2, <2>3 DEF Narrows
<1>3. CASE DispatchTarget(q)
  <2>1. PICK reached \in SUBSET {Cur(q)} :
           /\ Moves(q) /\ qs'[q].pc = "executing"
           /\ qs'[q].todo = qs[q].todo /\ qs'[q].cur = qs[q].cur
           /\ qs'[q].dispatched = qs[q].dispatched \cup {Cur(q)}
           /\ qs'[q].accepted = qs[q].accepted \cup reached
    BY <1>3, DispatchEffect
  <2>2. qs[q].pc = "ready"
    BY <1>3 DEF DispatchTarget
  <2>3. OpenAt(qs[q]) \subseteq OpenAt(qs'[q])
    BY <2>1, <2>2 DEF Cur
  <2>4. \A t \in Targets : MaySend(qs'[q], t) => MaySend(qs[q], t)
    BY <2>1, <2>2 DEF Cur
  <2>5. QED
    BY <2>1, <2>3, <2>4 DEF Narrows
<1>4. CASE Outcome(q)
  <2>1. qs[q].pc = "executing"
    BY <1>4 DEF Outcome
  <2>2. OpenAt(qs[q]) \subseteq OpenAt(qs'[q])
    BY <1>4, <2>1, OutcomeEffect
  <2>3. \A t \in Targets : MaySend(qs'[q], t) => MaySend(qs[q], t)
    BY <1>4, <2>1, OutcomeEffect
  <2>4. QED
    BY <1>4, <2>2, <2>3, OutcomeEffect DEF Narrows
<1>5. CASE RefusedBeforeSend(q)
  <2>1. qs[q].pc = "executing"
    BY <1>5 DEF RefusedBeforeSend
  <2>2. OpenAt(qs[q]) \subseteq OpenAt(qs'[q])
    BY <1>5, <1>a, <2>1, RefusedEffect DEF Cur
  <2>3. \A t \in Targets : MaySend(qs'[q], t) => MaySend(qs[q], t)
    BY <1>5, <2>1, RefusedEffect
  <2>4. QED
    BY <1>5, <2>2, <2>3, RefusedEffect DEF Narrows
<1>12. CASE RefusedAfterMatch(q)
  <2>1. qs[q].pc = "executing"
    BY <1>12 DEF RefusedAfterMatch
  <2>2. OpenAt(qs[q]) \subseteq OpenAt(qs'[q])
    BY <1>12, <1>a, <2>1, LateEffect
  <2>3. \A t \in Targets : MaySend(qs'[q], t) => MaySend(qs[q], t)
    BY <1>12, <2>1, LateEffect
  <2>4. QED
    BY <1>12, <2>2, <2>3, LateEffect DEF Narrows
<1>6. CASE AcquireKey(q) \/ AwaitKey(q) \/ AbortKey(q) \/ CompleteKey(q) \/ FailKey(q)
           \/ SecurityError(q)
  BY <1>6, <1>1 DEF AcquireKey, AwaitKey, AbortKey, CompleteKey, FailKey, SecurityError
<1>7. CASE ReserveSlots(q)
  <2>1. ASSUME NEW clean \in BOOLEAN, B!Reserve(q, Targets, 0, clean)
        PROVE  FALSE
    BY <2>1 DEF B!Reserve, budgetVars
  <2>2. QED
    BY <1>7, <2>1, <1>1 DEF ReserveSlots
<1>8. CASE DeadlineExhausted(q) \/ Admission(q)
  BY <1>8, <1>2 DEF DeadlineExhausted, Admission
<1>9. CASE \/ ReportSuccess(q) \/ ReportFailure(q)
           \/ AbortProbe(q, "preDispatch", "skip")
           \/ AbortProbe(q, "quota", "quotaRelease")
           \/ AbortProbe(q, "security", "securityRelease")
  BY <1>9, <1>1 DEF ReportSuccess, ReportFailure, AbortProbe
<1>10. CASE StoreError(q) \/ Crash(q)
  BY <1>10, <1>1 DEF StoreError, Crash
<1>11. QED
  BY <1>3, <1>4, <1>5, <1>6, <1>7, <1>8, <1>9, <1>10, <1>12 DEF Progress, Settles

\* The steps of a query that settle slots: they release only slots of targets that
\* are out of its reach, and what they leave open may be open at the next point.
LEMMA SettleMoves ==
    ASSUME Control, NEW q \in Queries, Settles(q)
    PROVE  /\ Moves(q)
           /\ \A t \in Targets : MaySend(qs'[q], t) => MaySend(qs[q], t)
           /\ \E S \in SUBSET Targets :
                 /\ OpenAt(qs[q]) \ S \subseteq OpenAt(qs'[q])
                 /\ \/ B!Release(q, S, 0) /\ \A t \in S : ~MaySend(qs'[q], t)
                    \/ B!Commit(q, S, 0) \/ B!FailClosed(q, S, 0)
<1> USE DEF At, PCs, Early, Looping, OpenAt, MaySend
<1>0. qs[q] \in Query /\ Shape(qs[q])
  BY DEF Control
<1>1. ASSUME NEW to \in PCs, Goto(q, to)
      PROVE  /\ Moves(q) /\ qs'[q].pc = to
             /\ qs'[q].todo = qs[q].todo /\ qs'[q].cur = qs[q].cur
             /\ qs'[q].dispatched = qs[q].dispatched
             /\ qs'[q].completed = qs[q].completed /\ qs'[q].accepted = qs[q].accepted
  BY <1>1, GotoEffect
<1>2. /\ qs[q].completed \subseteq Targets /\ qs[q].dispatched \subseteq Targets
      /\ qs[q].completed \subseteq qs[q].dispatched /\ qs[q].accepted \subseteq qs[q].dispatched
  BY <1>0 DEF Query, Shape
<1>3. CASE SkipTarget(q)
  <2>1. At(q, "skip") /\ B!Release(q, {Cur(q)}, 0) /\ Goto(q, "loop")
    BY <1>3 DEF SkipTarget
  <2>2. Cur(q) = qs[q].cur /\ qs[q].cur \in Targets \ (qs[q].dispatched \cup qs[q].todo)
    BY <1>0, <2>1 DEF Shape, Ahead, Cur
  <2>3. OpenAt(qs[q]) \ {Cur(q)} \subseteq OpenAt(qs'[q])
    BY <1>1, <2>1, <2>2
  <2>4. \A t \in Targets : MaySend(qs'[q], t) => MaySend(qs[q], t) /\ t \notin {Cur(q)}
    BY <1>1, <1>2, <2>1, <2>2
  <2>5. QED
    BY <1>1, <2>1, <2>2, <2>3, <2>4
<1>4. CASE QuotaRelease(q)
  <2> DEFINE S == Targets \ qs[q].completed
  <2>1. At(q, "quotaRelease") /\ B!Release(q, S, 0) /\ Goto(q, "commitAndRaise")
    BY <1>4 DEF QuotaRelease, ReleaseSlots
  <2>2. qs[q].dispatched \subseteq qs[q].completed
    BY <1>0, <2>1 DEF Shape, Listed
  <2>3. OpenAt(qs[q]) \ S \subseteq OpenAt(qs'[q])
    BY <1>1, <2>1
  <2>4. \A t \in Targets : MaySend(qs'[q], t) => MaySend(qs[q], t) /\ t \notin S
    BY <1>1, <1>2, <2>1, <2>2
  <2>5. QED
    BY <1>1, <2>1, <2>3, <2>4
<1>5. CASE SecurityRelease(q)
  <2> DEFINE S == Targets \ qs[q].dispatched
  <2>1. At(q, "securityRelease") /\ B!Release(q, S, 0) /\ Goto(q, "securityClose")
    BY <1>5 DEF SecurityRelease, ReleaseSlots
  <2>2. OpenAt(qs[q]) \ S \subseteq OpenAt(qs'[q])
    BY <1>1, <2>1
  <2>3. \A t \in Targets : MaySend(qs'[q], t) => MaySend(qs[q], t) /\ t \notin S
    BY <1>1, <1>2, <2>1
  <2>4. QED
    BY <1>1, <2>1, <2>2, <2>3
<1>6. CASE Unwind(q)
  <2> DEFINE S == Targets \ (qs[q].dispatched \cup qs[q].completed)
             to == IF UseKey THEN "failKey" ELSE "done"
  <2>1. At(q, "unwind") /\ B!Release(q, S, 0) /\ Goto(q, to)
    BY <1>6 DEF Unwind, ReleaseSlots
  <2>a. to \in {"failKey", "done"}
    OBVIOUS
  <2> HIDE DEF to
  <2>2. OpenAt(qs[q]) \ S \subseteq OpenAt(qs'[q])
    BY <1>1, <1>2, <2>1, <2>a
  <2>3. \A t \in Targets : MaySend(qs'[q], t) => MaySend(qs[q], t) /\ t \notin S
    BY <1>1, <1>2, <2>1, <2>a
  <2>4. QED
    BY <1>1, <2>1, <2>a, <2>2, <2>3
<1>7. CASE SecurityClose(q)
  <2>1. At(q, "securityClose") /\ B!FailClosed(q, {Cur(q)}, 0) /\ Goto(q, "commitAndRaise")
    BY <1>7 DEF SecurityClose
  <2>2. /\ Cur(q) = qs[q].cur /\ qs[q].cur \in qs[q].dispatched
        /\ qs[q].dispatched \ {qs[q].cur} \subseteq qs[q].completed
    BY <1>0, <2>1 DEF Shape, Working, Cur
  <2>3. OpenAt(qs[q]) \ {Cur(q)} \subseteq OpenAt(qs'[q])
    BY <1>1, <2>1, <2>2
  <2>4. \A t \in Targets : MaySend(qs'[q], t) => MaySend(qs[q], t)
    BY <1>1, <2>1
  <2>5. {Cur(q)} \in SUBSET Targets
    BY <1>2, <2>2
  <2>6. QED
    BY <1>1, <2>1, <2>3, <2>4, <2>5
<1>8. CASE CommitAndRaise(q)
  <2>1. At(q, "commitAndRaise") /\ B!Commit(q, qs[q].completed, 0) /\ Goto(q, "unwind")
    BY <1>8 DEF CommitAndRaise
  <2>2. OpenAt(qs[q]) \ qs[q].completed \subseteq OpenAt(qs'[q])
    BY <1>1, <2>1
  <2>3. \A t \in Targets : MaySend(qs'[q], t) => MaySend(qs[q], t)
    BY <1>1, <2>1
  <2>4. QED
    BY <1>1, <1>2, <2>1, <2>2, <2>3
<1>9. CASE FinishLoop(q)
  <2>1. /\ At(q, "loop") /\ qs[q].todo = {} /\ B!Commit(q, qs[q].completed, 0)
        /\ Goto(q, AfterLoop) /\ AfterLoop \in {"complete", "done"}
    BY <1>9 DEF FinishLoop, AfterLoop
  <2>2. qs[q].dispatched \subseteq qs[q].completed
    BY <1>0, <2>1 DEF Shape, Listed
  <2>3. OpenAt(qs[q]) \ qs[q].completed \subseteq OpenAt(qs'[q])
    BY <1>1, <2>1, <2>2
  <2>4. \A t \in Targets : MaySend(qs'[q], t) => MaySend(qs[q], t)
    BY <1>1, <2>1
  <2>5. QED
    BY <1>1, <1>2, <2>1, <2>3, <2>4
<1>10. QED
  BY <1>3, <1>4, <1>5, <1>6, <1>7, <1>8, <1>9 DEF Settles

\* Every step keeps the slots in agreement with the control points.
LEMMA SlotsStep ==
    ASSUME Control, Stores, Slots, [Next]_vars
    PROVE  Slots'
<1>0. ASSUME NEW q \in Queries, Settles(q)
      PROVE  Slots'
  BY <1>0, SettleMoves, SlotsRelease, SlotsCharge
<1>1. ASSUME NEW q \in Queries, NEW clean \in BOOLEAN, At(q, "reserve"),
             B!Reserve(q, Targets, 0, clean), Goto(q, "loop")
      PROVE  Slots'
  <2>1. /\ Moves(q) /\ qs'[q].pc = "loop" /\ qs'[q].todo = Targets
    BY <1>1, GotoEffect DEF PCs, Control, Shape, Early, At
  <2>2. OpenAt(qs'[q]) = Targets \cup qs'[q].dispatched
    BY <2>1 DEF OpenAt, Early
  <2>3. QED
    BY <1>1, <2>1, <2>2, ReserveEffect, SlotsFrame
<1>2. ASSUME NEW q \in Queries, ReserveSlots(q)
      PROVE  Slots'
  <2>1. CASE B!RejectBatch(q, Targets, 0)
    <3>1. UNCHANGED budgetVars
      BY <2>1 DEF B!RejectBatch, B!vars, budgetVars
    <3>2. CASE Settles(q)
      BY <3>2, <1>0
    <3>3. CASE ~Settles(q)
      BY <1>2, <3>1, <3>3, QuietMoves, SlotsMove DEF Progress, Narrows
    <3>4. QED
      BY <3>2, <3>3
  <2>2. QED
    BY <1>1, <1>2, <2>1 DEF ReserveSlots
<1>3. ASSUME NEW q \in Queries, Progress(q) \/ StoreError(q) \/ Crash(q),
             ~Settles(q), ~ReserveSlots(q)
      PROVE  Slots'
  <2>1. UNCHANGED budgetVars
    BY <1>3 DEF Settles, Progress, AcquireKey, AwaitKey, AbortKey, DeadlineExhausted, Admission,
       DispatchTarget, Outcome, RefusedBeforeSend, RefusedAfterMatch, SecurityError, ReportSuccess, ReportFailure,
       AbortProbe, CompleteKey, FailKey, StoreError, Crash, OnlyKey, OnlyBreaker, OnlyQuery,
       budgetVars
  <2>2. QED
    BY <1>3, <2>1, QuietMoves, SlotsMove DEF Narrows
<1>4. CASE Tick
  <2>1. \A p \in Queries, t \in Targets : Slot(p, t)'.status = Slot(p, t).status
    BY <1>4, TickEffect DEF Tick, Stores
  <2>2. qs' = qs
    BY <1>4 DEF Tick
  <2>3. QED
    BY <2>1, <2>2 DEF Slots, SlotsOf
<1>5. CASE StoreStart \/ UNCHANGED vars
  BY <1>5 DEF StoreStart, B!InitDb, vars, budgetVars, Slots, SlotsOf, Slot
<1>6. QED
  BY <1>0, <1>2, <1>3, <1>4, <1>5 DEF Next

-----------------------------------------------------------------------------
(* The rows of the idempotency store. *)

\* A row that is cached after a step was cached by the same owner before, and a
\* row that is gone was gone before or past its retention.
KeepsRow(k) ==
    /\ rec'[k].status = "COMPLETED" =>
          rec[k].status = "COMPLETED" /\ rec'[k].owner = rec[k].owner
    /\ rec'[k].status = "NONE" => rec[k].status = "NONE" \/ rec[k].age > KeyRetention

\* A cleanup keeps each row or removes it past retention.
LEMMA CleanedRow ==
    ASSUME Stores, NEW clean \in BOOLEAN
    PROVE  /\ rec \in [Keys -> I!Record] /\ I!Cleaned(clean) \in [Keys -> I!Record]
           /\ \A k \in Keys : \/ I!Cleaned(clean)[k] = rec[k]
                              \/ /\ I!Cleaned(clean)[k].status = "NONE"
                                 /\ rec[k].age > KeyRetention
<1>1. rec \in [Keys -> I!Record]
  BY KeySame DEF Stores, IP!IInv, I!TypeOK
<1>2. I!NoRecord \in I!Record
  BY KeyAssumption DEF I!NoRecord, I!Record, I!Statuses
<1>3. QED
  BY <1>1, <1>2 DEF I!Cleaned, I!Purgeable, I!NoRecord

\* Replacing the status of one row.
LEMMA RowStatus ==
    ASSUME NEW rows \in [Keys -> I!Record], NEW k \in Keys, NEW status \in I!Statuses,
           rec' = [rows EXCEPT ![k].status = status, ![k].idle = 0]
    PROVE  /\ rec'[k].status = status /\ rec'[k].owner = rows[k].owner
           /\ \A other \in Keys \ {k} : rec'[other] = rows[other]
<1> DEFINE changed == [rows[k] EXCEPT !.status = status, !.idle = 0]
<1>1. changed.status = status /\ changed.owner = rows[k].owner
  BY DEF I!Record
<1>2. rec' = [rows EXCEPT ![k] = changed]
  OBVIOUS
<1> HIDE DEF changed
<1>3. QED
  BY <1>1, <1>2

\* An acquisition, a wait, a dispatch, an indeterminate failure or a death keeps
\* every row: none of them caches a response, and none gives a claimed key back.
LEMMA RowsKept ==
    ASSUME Stores, NEW q \in Queries, NEW k \in Keys,
           \/ \E clean \in BOOLEAN : I!Acquire(q, clean)
           \/ I!Await(q) \/ I!Dispatch(q) \/ I!FailIndeterminate(q) \/ I!Crash(q)
    PROVE  KeepsRow(k)
<1> USE DEF KeepsRow
<1>0. KeyOf[q] \in Keys
  BY KeyAssumption
<1>1. ASSUME NEW clean \in BOOLEAN, rec' = I!Cleaned(clean)
      PROVE  KeepsRow(k)
  BY <1>1, CleanedRow
<1>2. ASSUME rec' = rec
      PROVE  KeepsRow(k)
  BY <1>2
<1>3. ASSUME NEW clean \in BOOLEAN, I!AcquireNew(q, clean)
      PROVE  KeepsRow(k)
  <2>1. rec' = [I!Cleaned(clean) EXCEPT ![KeyOf[q]] = I!Claimed(q)]
    BY <1>3 DEF I!AcquireNew
  <2>2. I!Claimed(q).status = "IN_PROGRESS"
    BY DEF I!Claimed
  <2>3. QED
    BY <1>0, <2>1, <2>2, CleanedRow
<1>4. ASSUME NEW clean \in BOOLEAN, I!AcquireLeaseExpired(q, clean)
      PROVE  KeepsRow(k)
  <2>1. rec' = [I!Cleaned(clean) EXCEPT ![KeyOf[q]].status = "FAILED_AMBIGUOUS",
                                        ![KeyOf[q]].idle = 0]
    BY <1>4 DEF I!AcquireLeaseExpired
  <2>2. "FAILED_AMBIGUOUS" \in I!Statuses
    BY DEF I!Statuses
  <2>3. QED
    BY <1>0, <2>1, <2>2, RowStatus, CleanedRow
<1>5. ASSUME NEW clean \in BOOLEAN, I!Acquire(q, clean)
      PROVE  KeepsRow(k)
  BY <1>1, <1>2, <1>3, <1>4, <1>5 DEF I!Acquire, I!AcquireMismatch, I!AcquireCompleted,
     I!AcquireAmbiguous, I!AcquireInProgress
<1>6. CASE I!FailIndeterminate(q)
  <2>1. \/ rec' = rec
        \/ rec' = [rec EXCEPT ![KeyOf[q]].status = "FAILED_AMBIGUOUS", ![KeyOf[q]].idle = 0]
    BY <1>6 DEF I!FailIndeterminate
  <2>2. "FAILED_AMBIGUOUS" \in I!Statuses /\ rec \in [Keys -> I!Record]
    BY CleanedRow DEF I!Statuses
  <2>3. QED
    BY <1>0, <2>1, <2>2, RowStatus
<1>7. CASE I!Await(q) \/ I!Dispatch(q) \/ I!Crash(q)
  BY <1>7, <1>2 DEF I!Await, I!Dispatch, I!Crash
<1>8. QED
  BY <1>5, <1>6, <1>7

\* A completion caches the row of its own query and keeps every other.
LEMMA RowsCompleted ==
    ASSUME Stores, NEW q \in Queries, NEW clean \in BOOLEAN, I!Complete(q, clean), NEW k \in Keys
    PROVE  \/ KeepsRow(k)
           \/ rec'[k].status = "COMPLETED" /\ rec'[k].owner = q
<1>0. KeyOf[q] \in Keys
  BY KeyAssumption
<1> DEFINE rows == I!Cleaned(clean)
<1>1. \/ rec' = rows
      \/ /\ rows[KeyOf[q]].owner = q
         /\ rec' = [rows EXCEPT ![KeyOf[q]].status = "COMPLETED", ![KeyOf[q]].idle = 0]
  BY DEF I!Complete
<1>2. "COMPLETED" \in I!Statuses
  BY DEF I!Statuses
<1>3. rows \in [Keys -> I!Record]
  BY CleanedRow
<1>4. \A j \in Keys : rec'[j] = rows[j] => KeepsRow(j)
  BY CleanedRow DEF KeepsRow
<1> HIDE DEF rows
<1>5. QED
  BY <1>0, <1>1, <1>2, <1>3, <1>4, RowStatus

\* An abort gives back the row of its own query and keeps every other.
LEMMA RowsAborted ==
    ASSUME Stores, NEW q \in Queries, I!Abort(q), NEW k \in Keys
    PROVE  \/ KeepsRow(k)
           \/ rec'[k].status = "NONE" /\ rec[k].owner = q
<1>0. KeyOf[q] \in Keys /\ rec \in [Keys -> I!Record]
  BY KeyAssumption, CleanedRow
<1>1. \/ rec' = rec
      \/ rec[KeyOf[q]].owner = q /\ rec' = [rec EXCEPT ![KeyOf[q]] = I!NoRecord]
  BY DEF I!Abort, I!OwnsInProgress, I!Owns, I!OwnRecord
<1>2. QED
  BY <1>0, <1>1 DEF KeepsRow, I!NoRecord

\* Time changes the ages of a row only.
LEMMA RowsAged ==
    ASSUME Stores, I!Tick, NEW k \in Keys
    PROVE  KeepsRow(k)
<1>1. rec[k] \in I!Record
  BY CleanedRow
<1>2. rec'[k].status = rec[k].status /\ rec'[k].owner = rec[k].owner
  BY <1>1 DEF I!Tick, I!Record
<1>3. QED
  BY <1>2 DEF KeepsRow

\* Only a dispatch marks a query as one that ran.
LEMMA RanKept ==
    ASSUME Stores, NEW q \in Queries,
           \/ \E clean \in BOOLEAN : I!Acquire(q, clean) \/ I!Complete(q, clean)
           \/ I!Await(q) \/ I!FailIndeterminate(q) \/ I!Abort(q) \/ I!Crash(q)
           \/ I!Tick \/ UNCHANGED exec
    PROVE  \A p \in Queries : exec'[p].ran = exec[p].ran
<1>1. exec \in [Queries -> I!Execution]
  BY KeySame DEF Stores, IP!IInv, I!TypeOK
<1>2. ASSUME NEW reply, I!Finish(q, reply)
      PROVE  \A p \in Queries : exec'[p].ran = exec[p].ran
  <2> DEFINE x == [exec[q] EXCEPT !.pc = "done", !.reply = reply]
  <2>1. x.ran = exec[q].ran
    BY <1>1 DEF I!Execution
  <2>2. exec' = [exec EXCEPT ![q] = x]
    BY <1>2 DEF I!Finish
  <2> HIDE DEF x
  <2>3. QED
    BY <1>1, <2>1, <2>2
<1>3. ASSUME NEW clean \in BOOLEAN, I!AcquireNew(q, clean)
      PROVE  \A p \in Queries : exec'[p].ran = exec[p].ran
  <2> DEFINE x == [exec[q] EXCEPT !.pc = "running", !.since = 0]
  <2>1. x.ran = exec[q].ran
    BY <1>1 DEF I!Execution
  <2>2. exec' = [exec EXCEPT ![q] = x]
    BY <1>3 DEF I!AcquireNew
  <2> HIDE DEF x
  <2>3. QED
    BY <1>1, <2>1, <2>2
<1>4. ASSUME NEW clean \in BOOLEAN, I!Acquire(q, clean) \/ I!Complete(q, clean)
      PROVE  \A p \in Queries : exec'[p].ran = exec[p].ran
  <2>1. CASE I!AcquireInProgress(q, clean)
    BY <1>1, <2>1 DEF I!AcquireInProgress, I!Execution
  <2>2. QED
    BY <1>2, <1>3, <1>4, <2>1 DEF I!Acquire, I!AcquireMismatch, I!AcquireCompleted,
       I!AcquireAmbiguous, I!AcquireLeaseExpired, I!Complete
<1>5. CASE I!Await(q) \/ I!FailIndeterminate(q) \/ I!Abort(q)
  BY <1>2, <1>5 DEF I!Await, I!FailIndeterminate, I!Abort
<1>6. CASE I!Crash(q) \/ I!Tick
  BY <1>1, <1>6 DEF I!Crash, I!Tick, I!Execution
<1>7. QED
  BY <1>4, <1>5, <1>6

-----------------------------------------------------------------------------
(* Queries, keys and slots together. *)

\* A row is kept, or cached by a query that completes, or given back by one
\* none of whose work is accepted.
LEMMA StepRows ==
    ASSUME Control, Stores, [Next]_vars, NEW k \in Keys
    PROVE  \/ KeepsRow(k)
           \/ \E q \in Queries : CompleteKey(q) /\ rec'[k].status = "COMPLETED" /\ rec'[k].owner = q
           \/ \E q \in Queries : qs[q].accepted = {} /\ rec'[k].status = "NONE" /\ rec[k].owner = q
<1>1. CASE UNCHANGED keyVars \/ \E q \in Queries : RefusedAfterMatch(q)
  BY <1>1 DEF keyVars, KeepsRow, RefusedAfterMatch
<1>2. ASSUME NEW q \in Queries, AcquireKey(q) \/ AwaitKey(q) \/ DispatchTarget(q) \/ Crash(q)
      PROVE  KeepsRow(k)
  <2>1. \/ \E clean \in BOOLEAN : I!Acquire(q, clean)
        \/ I!Await(q) \/ I!Dispatch(q) \/ I!Crash(q) \/ UNCHANGED keyVars
    BY <1>2 DEF AcquireKey, AwaitKey, DispatchTarget, Crash, I!Acquire
  <2>2. QED
    BY <2>1, <1>1, RowsKept DEF keyVars, KeepsRow
<1>3. ASSUME NEW q \in Queries, AbortKey(q) \/ FailKey(q)
      PROVE  \/ KeepsRow(k)
             \/ qs[q].accepted = {} /\ rec'[k].status = "NONE" /\ rec[k].owner = q
  <2>1. CASE AbortKey(q) \/ ~HasSideEffects(q)
    <3>1. qs[q].accepted = {}
      BY <1>3, <2>1 DEF Control, Shape, AbortKey, At, Early, HasSideEffects
    <3>2. I!Abort(q)
      BY <1>3, <2>1 DEF AbortKey, FailKey
    <3>3. QED
      BY <3>1, <3>2, RowsAborted
  <2>2. CASE HasSideEffects(q) /\ FailKey(q)
    <3>1. I!FailIndeterminate(q)
      BY <2>2 DEF FailKey
    <3>2. QED
      BY <3>1, RowsKept
  <2>3. QED
    BY <1>3, <2>1, <2>2
<1>4. ASSUME NEW q \in Queries, CompleteKey(q)
      PROVE  \/ KeepsRow(k)
             \/ rec'[k].status = "COMPLETED" /\ rec'[k].owner = q
  BY <1>4, RowsCompleted DEF CompleteKey
<1>5. ASSUME NEW q \in Queries, StoreError(q)
      PROVE  UNCHANGED keyVars
  BY <1>5 DEF StoreError
<1>6. ASSUME NEW q \in Queries, Progress(q),
             ~(AcquireKey(q) \/ AbortKey(q) \/ FailKey(q) \/ AwaitKey(q) \/ CompleteKey(q)
               \/ DispatchTarget(q) \/ RefusedAfterMatch(q))
      PROVE  UNCHANGED keyVars
  BY <1>6 DEF Progress, ReserveSlots, DeadlineExhausted, Admission, SkipTarget, Outcome,
     RefusedBeforeSend, SecurityError, ReportSuccess, ReportFailure, AbortProbe, QuotaRelease,
     SecurityRelease, SecurityClose, CommitAndRaise, FinishLoop, Unwind, ReleaseSlots,
     OnlyBudget, OnlyBreaker, OnlyQuery
<1>7. CASE Tick
  BY <1>7, RowsAged DEF Tick
<1>8. QED
  BY <1>1, <1>2, <1>3, <1>4, <1>5, <1>6, <1>7 DEF Next, StoreStart, vars, keyVars

\* A query that has ended takes no more steps and its slots are not reopened.
LEMMA DoneKept ==
    ASSUME Control, Stores, [Next]_vars, NEW p \in Queries, At(p, "done")
    PROVE  qs'[p] = qs[p] /\ KeepsSlots(p)
<1>1. ASSUME NEW q \in Queries, Progress(q) \/ StoreError(q) \/ Crash(q)
      PROVE  q # p
  BY <1>1 DEF At, Progress, AcquireKey, AwaitKey, ReserveSlots, AbortKey, DeadlineExhausted,
     Admission, SkipTarget, DispatchTarget, Outcome, RefusedBeforeSend, RefusedAfterMatch, SecurityError,
     ReportSuccess, ReportFailure, AbortProbe, QuotaRelease, SecurityRelease, SecurityClose,
     CommitAndRaise, FinishLoop, CompleteKey, Unwind, FailKey, ReleaseSlots, StoreError, Crash
<1>2. ASSUME NEW q \in Queries, Progress(q) \/ StoreError(q) \/ Crash(q)
      PROVE  Moves(q)
  <2>1. \A t \in qs[q].todo : t \in Targets
    BY DEF Control, Query
  <2>2. "skip" \in PCs /\ "ready" \in PCs
    BY DEF PCs
  <2>3. QED
    BY <1>2, <2>1, <2>2, QueryMoves, GotoEffect, ReachEffect, DispatchEffect, OutcomeEffect,
       RefusedEffect, LateEffect
<1>3. ASSUME NEW q \in Queries, q # p, NEW S \in SUBSET Targets,
             B!Commit(q, S, 0) \/ B!FailClosed(q, S, 0) \/ B!Release(q, S, 0)
      PROVE  KeepsSlots(p)
  <2>1. ASSUME NEW status \in {"COMMITTED", "FAILED_CLOSED"}, B!ChargeAs(B!Open(q, S), status, 0)
        PROVE  KeepsSlots(p)
    BY <1>3, <2>1, ChargeEffect DEF KeepsSlots, B!Charged
  <2>2. QED
    BY <1>3, <2>1, ReleaseEffect DEF KeepsSlots, B!Commit, B!FailClosed
<1>4. ASSUME NEW q \in Queries, Settles(q), q # p
      PROVE  KeepsSlots(p)
  <2>1. qs[q] \in Query /\ Shape(qs[q])
    BY DEF Control
  <2>2. qs[q].pc \in {"skip", "securityClose"} => {Cur(q)} \in SUBSET Targets
    BY <2>1 DEF Shape, Ahead, Working, Query, Cur
  <2>3. qs[q].completed \in SUBSET Targets
    BY <2>1 DEF Query
  <2>4. QED
    BY <1>3, <1>4, <2>2, <2>3 DEF Settles, SkipTarget, QuotaRelease, SecurityRelease, Unwind,
       SecurityClose, CommitAndRaise, FinishLoop, ReleaseSlots, At
<1>5. ASSUME NEW q \in Queries, ReserveSlots(q), q # p
      PROVE  KeepsSlots(p)
  BY <1>5, ReserveEffect, SlotsUntouched
     DEF ReserveSlots, B!RejectBatch, B!vars, budgetVars
<1>6. ASSUME NEW q \in Queries, Progress(q) \/ StoreError(q) \/ Crash(q),
             ~Settles(q), ~ReserveSlots(q)
      PROVE  KeepsSlots(p)
  <2>1. UNCHANGED budgetVars
    BY <1>6 DEF Settles, Progress, AcquireKey, AwaitKey, AbortKey, DeadlineExhausted, Admission,
       DispatchTarget, Outcome, RefusedBeforeSend, RefusedAfterMatch, SecurityError, ReportSuccess, ReportFailure,
       AbortProbe, CompleteKey, FailKey, StoreError, Crash, OnlyKey, OnlyBreaker, OnlyQuery,
       budgetVars
  <2>2. QED
    BY <2>1, SlotsUntouched
<1>7. CASE Tick
  BY <1>7, TickEffect DEF Tick, Stores, KeepsSlots
<1>8. CASE StoreStart \/ UNCHANGED vars
  BY <1>8 DEF StoreStart, B!InitDb, vars, budgetVars, KeepsSlots, Slot
<1>9. QED
  BY <1>1, <1>2, <1>4, <1>5, <1>6, <1>7, <1>8 DEF Next, Moves, StoreStart, Tick, Settles

\* What is accepted, what ran and what is cached stay in agreement.
LEMMA KeyLinksStep ==
    ASSUME QInv, [Next]_vars
    PROVE  KeyLinks'
<1> USE DEF QInv
<1>1. ASSUME NEW q \in Queries, Progress(q) \/ StoreError(q) \/ Crash(q),
             ~DispatchTarget(q), ~RefusedAfterMatch(q)
      PROVE  \A p \in Queries : qs'[p].accepted = qs[p].accepted /\ exec'[p].ran = exec[p].ran
  <2>1. \A p \in Queries : qs'[p].accepted = qs[p].accepted
    <3>1. \A t \in qs[q].todo : t \in Targets
      BY DEF Control, Query
    <3>2. "skip" \in PCs /\ "ready" \in PCs
      BY DEF PCs
    <3>3. Moves(q) /\ qs'[q].accepted = qs[q].accepted
      BY <1>1, <3>1, <3>2, QueryMoves, GotoEffect, ReachEffect, OutcomeEffect, RefusedEffect
    <3>4. QED
      BY <3>3 DEF Moves
  <2>2. \/ \E clean \in BOOLEAN : I!Acquire(q, clean) \/ I!Complete(q, clean)
        \/ I!Await(q) \/ I!FailIndeterminate(q) \/ I!Abort(q) \/ I!Crash(q)
        \/ UNCHANGED keyVars
    <3>1. CASE AcquireKey(q) \/ AwaitKey(q) \/ AbortKey(q) \/ CompleteKey(q) \/ FailKey(q)
      BY <3>1 DEF AcquireKey, AwaitKey, AbortKey, CompleteKey, FailKey, I!Acquire
    <3>2. CASE StoreError(q) \/ Crash(q)
      BY <3>2 DEF StoreError, Crash
    <3>3. CASE /\ Progress(q)
               /\ ~(AcquireKey(q) \/ AwaitKey(q) \/ AbortKey(q) \/ CompleteKey(q) \/ FailKey(q))
      BY <1>1, <3>3 DEF Progress, ReserveSlots, DeadlineExhausted, Admission, SkipTarget, Outcome,
         RefusedBeforeSend, SecurityError, ReportSuccess, ReportFailure, AbortProbe, QuotaRelease,
         SecurityRelease, SecurityClose, CommitAndRaise, FinishLoop, Unwind, ReleaseSlots,
         OnlyBudget, OnlyBreaker, OnlyQuery
    <3>4. QED
      BY <1>1, <3>1, <3>2, <3>3
  <2>3. QED
    BY <2>1, <2>2, RanKept DEF keyVars
<1>2. ASSUME NEW q \in Queries, DispatchTarget(q)
      PROVE  \A p \in Queries : Links(p)'
  <2>1. PICK reached \in SUBSET {Cur(q)} :
           /\ Moves(q) /\ qs'[q].accepted = qs[q].accepted \cup reached
           /\ IF UseKey /\ reached # {} /\ ~exec[q].ran THEN I!Dispatch(q)
                                                        ELSE UNCHANGED keyVars
    BY <1>2, DispatchEffect
  <2>2. exec \in [Queries -> I!Execution]
    BY KeySame DEF Stores, IP!IInv, I!TypeOK
  <2>3. \A p \in Queries \ {q} : qs'[p] = qs[p] /\ exec'[p].ran = exec[p].ran
    BY <2>1, <2>2 DEF Moves, I!Dispatch, keyVars
  <2>4. CASE UseKey /\ reached # {} /\ ~exec[q].ran
    <3>1. exec'[q].ran = TRUE
      BY <2>1, <2>2, <2>4 DEF I!Dispatch, I!Execution
    <3>2. QED
      BY <2>1, <2>3, <2>4, <3>1 DEF Links, KeyLinks
  <2>5. CASE ~(UseKey /\ reached # {} /\ ~exec[q].ran)
    <3>1. exec' = exec
      BY <2>1, <2>5 DEF keyVars
    <3>2. QED
      BY <2>1, <2>3, <2>5, <3>1 DEF Links, KeyLinks
  <2>6. QED
    BY <2>4, <2>5
<1>6. ASSUME NEW q \in Queries, RefusedAfterMatch(q)
      PROVE  \A p \in Queries : Links(p)'
  <2>1. IP!TypeOK
    BY DEF Stores, IP!IInv
  <2>2. /\ \A p \in Queries \ {q} : exec'[p] = exec[p] /\ qs'[p] = qs[p]
        /\ exec'[q].ran <=> UseKey /\ qs'[q].accepted # {}
    BY <1>6, <2>1, LateRan, LateEffect DEF Moves
  <2>3. QED
    BY <2>2 DEF Links, KeyLinks
<1>3. \A p \in Queries : Links(p)'
  <2>1. CASE Tick
    <3>1. \A p \in Queries : exec'[p].ran = exec[p].ran
      BY <2>1, RanKept DEF Tick
    <3>2. QED
      BY <2>1, <3>1 DEF Tick, Links, KeyLinks
  <2>2. CASE StoreStart \/ UNCHANGED vars
    BY <2>2 DEF StoreStart, vars, keyVars, Links, KeyLinks
  <2>3. QED
    BY <1>1, <1>2, <1>6, <2>1, <2>2 DEF Next, Links, KeyLinks
<1>4. ASSUME NEW k \in Keys, rec'[k].status = "COMPLETED"
      PROVE  /\ qs'[rec'[k].owner].pc = "done"
             /\ \A t \in Targets : resv'[<<rec'[k].owner, t>>].status # "RESERVED"
  <2>1. CASE KeepsRow(k)
    <3> DEFINE o == rec[k].owner
    <3>1. rec[k].status = "COMPLETED" /\ rec'[k].owner = o
      BY <1>4, <2>1 DEF KeepsRow
    <3>2. o \in Queries
      BY <3>1 DEF Stores, IP!IInv, IP!Rest
    <3>3. At(o, "done") /\ \A t \in Targets : Slot(o, t).status # "RESERVED"
      BY <3>1 DEF KeyLinks, Cached
    <3>4. qs'[o] = qs[o] /\ KeepsSlots(o)
      BY <3>2, <3>3, DoneKept
    <3>5. QED
      BY <3>1, <3>3, <3>4 DEF At, KeepsSlots, Slot
  <2>2. ASSUME NEW q \in Queries, CompleteKey(q), rec'[k].owner = q
        PROVE  /\ qs'[rec'[k].owner].pc = "done"
               /\ \A t \in Targets : resv'[<<rec'[k].owner, t>>].status # "RESERVED"
    <3>1. At(q, "complete") /\ Goto(q, "done") /\ UNCHANGED budgetVars
      BY <2>2 DEF CompleteKey, OnlyKey
    <3>2. qs'[q].pc = "done"
      BY <3>1, GotoEffect DEF PCs
    <3>3. \A t \in Targets : Slot(q, t).status # "RESERVED"
      BY <3>1 DEF Slots, SlotsOf, OpenAt, At
    <3>4. QED
      BY <2>2, <3>1, <3>2, <3>3 DEF At, Slot, budgetVars
  <2>3. QED
    BY <1>4, <2>1, <2>2, StepRows
<1>5. QED
  BY <1>3, <1>4 DEF KeyLinks, Cached, At, Slot

-----------------------------------------------------------------------------
(* The invariant holds. *)

\* The initial states.
LEMMA InitQInv == Init => QInv
<1> SUFFICES ASSUME Init
             PROVE  QInv
  OBVIOUS
<1>1. Control
  BY SwitchAssumption DEF Init, Control, NewQuery, NoTarget, Query, PCs, Shape, Early, Listed,
     Ahead, Working
<1>2. BP!TypeOK
  <2>1. B!TypeOK
    BY DEF Init, B!Init, B!TypeOK, B!NoReservation, B!Reservation
  <2>2. QED
    BY <2>1, BudgetSame
<1>3. CP!IInv
  <2>1. C!BreakerTypeOK
    <3>1. C!Healthy \in C!Rows
      BY BreakerAssumption DEF C!Healthy, C!Rows, C!States
    <3>2. ASSUME NEW p \in Policies
          PROVE  C!Opened(FailureCap, p, 0) \in C!Rows
      BY BreakerAssumption DEF C!Opened, C!Rows, C!States, C!CooldownOf
    <3>3. QED
      BY <3>1, <3>2 DEF Init, C!BreakerTypeOK
  <2>2. /\ \A t \in Targets : row[t].state # "HALF_OPEN" /\ row[t].probe = NoProbe
        /\ \A t \in Targets : row[t].state # "OPEN" => row[t].cooldown = 0
        /\ \A q \in Queries : flight[q].probe = NoProbe
    BY DEF Init, C!Healthy, C!Opened, C!Idle
  <2>3. \A t \in Targets : row[t].cooldown \in Nat
    BY <2>1 DEF C!BreakerTypeOK, C!Rows
  <2>4. QED
    BY <2>1, <2>2, <2>3, BreakerSame
       DEF CP!IInv, CP!RowShape, CP!ProbeNeverSuperseded, CP!ProbesDistinct
<1>4. IP!IInv
  <2>1. I!TypeOK
    BY KeyAssumption DEF Init, I!Init, I!TypeOK, I!NoRecord, I!Record, I!Statuses,
       I!NewExecution, I!Execution
  <2>2. IP!Rest
    BY KeyAssumption DEF Init, I!Init, I!NoRecord, I!NewExecution, IP!Rest, IP!Holds
  <2>3. QED
    BY <2>1, <2>2, KeySame DEF IP!IInv
<1>5. Slots
  BY DEF Init, B!Init, B!NoReservation, B!Slots, Slots, SlotsOf, Slot
<1>6. KeyLinks
  BY DEF Init, I!Init, I!NoRecord, I!NewExecution, NewQuery, KeyLinks, Links, Cached
<1>7. QED
  BY <1>1, <1>2, <1>3, <1>4, <1>5, <1>6 DEF QInv, Stores

\* The invariant is inductive.
LEMMA QInvHolds == Spec => []QInv
<1>1. QInv /\ [Next]_vars => QInv'
  BY ControlStep, StoresStep, SlotsStep, KeyLinksStep DEF QInv, KeyLinks
<1>2. QED
  BY <1>1, InitQInv, PTL DEF Spec

-----------------------------------------------------------------------------
(* The theorems. *)

\* The stores and the queries keep their types, and the lists of a query never lag
\* behind what was done: Spec => []TypeOK.
THEOREM TypeCorrect == Spec => []TypeOK
<1>1. QInv => TypeOK
  <2> SUFFICES ASSUME QInv
               PROVE  TypeOK
    OBVIOUS
  <2>1. B!TypeOK /\ C!BreakerTypeOK /\ I!TypeOK
    BY BudgetSame, BreakerSame, KeySame DEF QInv, Stores, CP!IInv, IP!IInv
  <2>2. QED
    BY <2>1 DEF QInv, Control, Shape, TypeOK
<1>2. QED
  BY <1>1, QInvHolds, PTL

\* Work that reached a counterparty and was not refused after its match never has
\* its slot handed back, on any error path and after any fault or expiry: Spec => []AcceptedIsNeverReleased.
THEOREM AcceptedStaysPaid == Spec => []AcceptedIsNeverReleased
<1>1. QInv => AcceptedIsNeverReleased
  BY DEF QInv, Control, Query, Slots, SlotsOf, MaySend, AcceptedIsNeverReleased
<1>2. QED
  BY <1>1, QInvHolds, PTL

\* A query that has ended leaves to the expiry sweep only slots of targets it
\* dispatched: Spec => []UnsettledWasDispatched.
THEOREM NoSlotLost == Spec => []UnsettledWasDispatched
<1>1. QInv => UnsettledWasDispatched
  BY DEF QInv, Slots, SlotsOf, OpenAt, Early, At, UnsettledWasDispatched
<1>2. QED
  BY <1>1, QInvHolds, PTL

\* Without faults every query that has ended has settled all its slots.
THEOREM DoneSettled ==
    ASSUME ~Faults
    PROVE  Spec => []DoneIsSettled
<1>1. QInv => DoneIsSettled
  BY DEF QInv, Slots, SlotsOf, OpenAt, Early, At, DoneIsSettled
<1>2. QED
  BY <1>1, QInvHolds, PTL

\* A response that can be replayed has been paid for:
\* Spec => []CachedResponseIsSettled.
THEOREM CachedSettled == Spec => []CachedResponseIsSettled
<1>1. QInv => CachedResponseIsSettled
  BY DEF QInv, KeyLinks, Cached, CachedResponseIsSettled
<1>2. QED
  BY <1>1, QInvHolds, PTL

\* Where requests carry a key, two queries with one key never both have work at a
\* counterparty that was not refused after its match, while both claims are within
\* retention: Spec => []OneAcceptedPerKey.
THEOREM OneAccepted ==
    ASSUME UseKey
    PROVE  Spec => []OneAcceptedPerKey
<1>1. QInv => OneAcceptedPerKey
  <2> SUFFICES ASSUME QInv, NEW q1 \in Queries, NEW q2 \in Queries, q1 # q2,
                      KeyOf[q1] = KeyOf[q2], qs[q1].accepted # {}, qs[q2].accepted # {},
                      ~(exec[q1].since >= KeyRetention), ~(exec[q2].since >= KeyRetention)
               PROVE  FALSE
    BY DEF OneAcceptedPerKey
  <2>1. exec[q1].ran /\ exec[q2].ran
    BY DEF QInv, KeyLinks, Links
  <2>2. exec \in [Queries -> I!Execution]
    BY KeySame DEF QInv, Stores, IP!IInv, I!TypeOK
  <2>3. exec[q1].since < KeyRetention /\ exec[q2].since < KeyRetention
    <3>1. exec[q1].since \in 0 .. KeyHorizon /\ exec[q2].since \in 0 .. KeyHorizon
      BY <2>2 DEF I!Execution
    <3>2. QED
      BY <3>1, KeyAssumption
  <2>4. rec[KeyOf[q1]].owner = q1 /\ rec[KeyOf[q2]].owner = q2
    BY <2>1, <2>3 DEF QInv, Stores, IP!IInv, IP!Rest, IP!Holds, IP!OwnRecord
  <2>5. QED
    BY <2>4
<1>2. QED
  BY <1>1, QInvHolds, PTL

\* A key is given back before its retention ends only by a query all of whose
\* work, if any, was refused: Spec => KeyFreedOnlyIfNothingAccepted.
THEOREM KeysFreedSafely == Spec => KeyFreedOnlyIfNothingAccepted
<1> DEFINE Freed(k) == rec[k].status # "NONE" /\ rec[k].age < KeyRetention
                       /\ rec'[k].status = "NONE"
<1>1. ASSUME QInv, [Next]_vars, NEW k \in Keys, Freed(k)
      PROVE  qs[rec[k].owner].accepted = {}
  <2>1. rec[k].age \in 0 .. KeyHorizon
    BY <1>1, KeySame DEF QInv, Stores, IP!IInv, I!TypeOK, I!Record
  <2>2. ~(rec[k].age > KeyRetention)
    BY <1>1, <2>1, KeyAssumption
  <2>3. ~KeepsRow(k)
    BY <1>1, <2>2 DEF KeepsRow
  <2>4. QED
    BY <1>1, <2>3, StepRows DEF QInv
<1>2. QInv /\ [Next]_vars => \A k \in Keys : Freed(k) => qs[rec[k].owner].accepted = {}
  BY <1>1
<1>3. QED
  BY <1>2, QInvHolds, PTL DEF Spec, KeyFreedOnlyIfNothingAccepted

-----------------------------------------------------------------------------
(* The stores in the composition implement their specifications. *)

\* The queries use the execution budget store within the specification under which
\* its quota was proved.
THEOREM ImplementsBudget == Spec => B!FixedSpec
<1>1. Init => B!Init
  BY DEF Init
<1>2. QInv /\ [Next]_vars => [B!ServiceNext]_(B!vars)
  BY BudgetStep DEF QInv, Stores
<1>3. QED
  BY <1>1, <1>2, QInvHolds, PTL DEF Spec, B!FixedSpec

\* As long as no work is refused after its match, the queries use the idempotency
\* store as its specification allows: they ask for a clean abort only when nothing
\* ran under the key.  A late refusal breaks that: its query aborts after work was
\* done.
THEOREM ImplementsIdempotency == Spec /\ []NothingRefusedLate => I!Spec
<1>1. Init => I!Init
  BY DEF Init
<1>2. QInv /\ NothingRefusedLate' /\ [Next]_vars => [I!Next]_(I!vars)
  <2>1. QInv /\ NothingRefusedLate' => \A q \in Queries : ~RefusedAfterMatch(q)
    BY LateEffect DEF QInv, NothingRefusedLate
  <2>2. QED
    BY <2>1, KeyStep DEF QInv, KeyLinks
<1>3. QED
  BY <1>1, <1>2, QInvHolds, PTL DEF Spec, I!Spec

\* Every step of the queries is a step of the circuit breaker store or leaves it
\* alone; its rows may start open, which its own initial state leaves out.
THEOREM ImplementsBreaker == Spec => [][C!BreakerNext]_(C!breakerVars)
<1>1. QInv /\ [Next]_vars => [C!BreakerNext]_(C!breakerVars)
  BY BreakerStep DEF QInv
<1>2. QED
  BY <1>1, QInvHolds, PTL DEF Spec

\* At most one live recovery probe of a pair, over all queries.
THEOREM OneProbe == Spec => []C!SingleProbe
<1>1. CP!IInv => C!SingleProbe
  BY CP!ProbesAreSingle, BreakerFacts, BreakerSame, Zenon
<1>2. QInv => C!SingleProbe
  BY <1>1 DEF QInv, Stores
<1>3. QED
  BY <1>2, QInvHolds, PTL

-----------------------------------------------------------------------------
(* Accepted work is counted against the budget. *)

\* The slots for t that are no longer open though their query reached t or may:
\* they were charged, by expiry or by their query, and count as consumed from then on.
Spent(t) ==
    {k \in B!Slots : k[2] = t /\ MaySend(qs[k[1]], t) /\ resv[k].status # "RESERVED"}

Paid == \A t \in Targets : Cardinality(Spent(t)) <= consumed[t]

\* Finitely many slots.
LEMMA SlotsFinite ==
    /\ IsFiniteSet(B!Slots)
    /\ \A S \in SUBSET B!Slots : IsFiniteSet(S) /\ Cardinality(S) \in Nat
<1>1. IsFiniteSet(B!Slots)
  BY TargetAssumption, FS_Product DEF B!Slots
<1>2. QED
  BY <1>1, FS_Subset, FS_CardinalityType

\* A union is no larger than its parts together.
LEMMA UnionBound ==
    ASSUME NEW S \in SUBSET B!Slots, NEW T \in SUBSET B!Slots
    PROVE  /\ Cardinality(S) \in Nat /\ Cardinality(T) \in Nat /\ Cardinality(S \cup T) \in Nat
           /\ Cardinality(S \cup T) <= Cardinality(S) + Cardinality(T)
<1>1. /\ IsFiniteSet(S) /\ IsFiniteSet(T)
      /\ Cardinality(S) \in Nat /\ Cardinality(T) \in Nat
      /\ Cardinality(S \cap T) \in Nat /\ Cardinality(S \cup T) \in Nat
  BY SlotsFinite
<1>2. Cardinality(S \cup T) = Cardinality(S) + Cardinality(T) - Cardinality(S \cap T)
  BY <1>1, FS_Union
<1>3. QED
  BY <1>1, <1>2

\* Both count alike.
LEMMA CountSame == \A S : B!Cardinality(S) = Cardinality(S)
  BY DEF B!Cardinality, Cardinality

\* Slots may become spent when as many are charged.
LEMMA PaidFrame ==
    ASSUME Stores, Paid, NEW K \in SUBSET B!Slots,
           \A t \in Targets : /\ Spent(t)' \subseteq Spent(t) \cup K
                              /\ consumed'[t] = consumed[t] + Cardinality({k \in K : k[2] = t})
    PROVE  Paid'
<1> SUFFICES ASSUME NEW t \in Targets
             PROVE  Cardinality(Spent(t)') <= consumed'[t]
  BY DEF Paid
<1> DEFINE Of == {k \in K : k[2] = t}
           now == Spent(t)'
<1>1. now \subseteq Spent(t) \cup Of /\ now \subseteq B!Slots
  BY DEF Spent, B!Slots
<1>2. Spent(t) \in SUBSET B!Slots /\ Of \in SUBSET B!Slots
  BY DEF Spent
<1>3. /\ Cardinality(Spent(t)) \in Nat /\ Cardinality(Of) \in Nat
      /\ Cardinality(Spent(t) \cup Of) \in Nat
      /\ Cardinality(Spent(t) \cup Of) <= Cardinality(Spent(t)) + Cardinality(Of)
  BY <1>2, UnionBound
<1>4. consumed[t] \in Nat /\ Cardinality(Spent(t)) <= consumed[t]
  BY BudgetSame DEF Stores, B!TypeOK, Paid
<1>5. consumed'[t] = consumed[t] + Cardinality(Of)
  OBVIOUS
<1> HIDE DEF Of, now
<1>6. Spent(t) \cup Of \in SUBSET B!Slots
  BY <1>2
<1>7. Cardinality(now) \in Nat /\ Cardinality(now) <= Cardinality(Spent(t) \cup Of)
  BY <1>1, <1>6, FS_Subset, SlotsFinite
<1>8. Cardinality(now) <= consumed'[t]
  BY <1>3, <1>4, <1>5, <1>7
<1>9. QED
  BY <1>8 DEF now

\* Nothing becomes spent and nothing is charged.
LEMMA PaidQuietly ==
    ASSUME Stores, Paid, UNCHANGED consumed, \A t \in Targets : Spent(t)' \subseteq Spent(t)
    PROVE  Paid'
<1>1. \A t \in Targets : consumed[t] \in Nat
  BY BudgetSame DEF Stores, B!TypeOK
<1>2. \A t \in Targets : consumed'[t] = consumed[t] + Cardinality({k \in {} : k[2] = t})
  <2>1. \A t : {k \in {} : k[2] = t} = {}
    OBVIOUS
  <2>2. QED
    BY <1>1, <2>1, FS_EmptySet
<1>3. QED
  BY <1>2, PaidFrame

\* A query that moves narrows by itself what work it may have.
LEMMA SpentMoves ==
    ASSUME NEW q \in Queries, Moves(q), \A u \in Targets : MaySend(qs'[q], u) => MaySend(qs[q], u)
    PROVE  \A p \in Queries, t \in Targets : MaySend(qs'[p], t) => MaySend(qs[p], t)
  BY DEF Moves

\* Releasing slots of targets out of reach.
LEMMA PaidRelease ==
    ASSUME Stores, Paid, NEW q \in Queries, Moves(q), NEW S \in SUBSET Targets,
           \A u \in Targets : MaySend(qs'[q], u) => MaySend(qs[q], u),
           B!Release(q, S, 0), \A t \in S : ~MaySend(qs'[q], t)
    PROVE  Paid'
<1>1. UNCHANGED consumed
  BY DEF B!Release
<1>2. ASSUME NEW t \in Targets, NEW k \in Spent(t)'
      PROVE  k \in Spent(t)
  <2>1. PICK p \in Queries : k = <<p, t>>
    BY <1>2 DEF Spent, B!Slots
  <2>2. MaySend(qs'[p], t) /\ resv'[<<p, t>>].status # "RESERVED"
    BY <1>2, <2>1 DEF Spent, B!Slots
  <2>3. ~(p = q /\ t \in S)
    BY <2>2
  <2>4. resv'[<<p, t>>].status = resv[<<p, t>>].status
    BY <2>3, ReleaseEffect DEF Slot
  <2>5. QED
    BY <2>1, <2>2, <2>4, SpentMoves DEF Spent, B!Slots
<1>3. QED
  BY <1>1, <1>2, PaidQuietly

\* Charging slots.
LEMMA PaidCharge ==
    ASSUME Stores, Paid, NEW q \in Queries, Moves(q), NEW S \in SUBSET Targets,
           \A u \in Targets : MaySend(qs'[q], u) => MaySend(qs[q], u),
           B!Commit(q, S, 0) \/ B!FailClosed(q, S, 0)
    PROVE  Paid'
<1> DEFINE K == B!Open(q, S)
<1>1. PICK status \in B!Charged : B!ChargeAs(K, status, 0)
  BY DEF B!Commit, B!FailClosed, B!Charged
<1>2. K \in SUBSET B!Slots
  BY DEF B!Open, B!Slots
<1>3. \A t \in Targets : consumed'[t] = consumed[t] + Cardinality({k \in K : k[2] = t})
  BY <1>1, CountSame DEF B!ChargeAs, B!Charge
<1>4. ASSUME NEW t \in Targets, NEW k \in Spent(t)'
      PROVE  k \in Spent(t) \cup K
  <2>1. PICK p \in Queries : k = <<p, t>>
    BY <1>4 DEF Spent, B!Slots
  <2>2. MaySend(qs'[p], t) /\ resv'[<<p, t>>].status # "RESERVED"
    BY <1>4, <2>1 DEF Spent, B!Slots
  <2>3. CASE p = q /\ t \in S /\ resv[<<p, t>>].status = "RESERVED"
    BY <2>1, <2>3 DEF B!Open
  <2>4. CASE ~(p = q /\ t \in S /\ resv[<<p, t>>].status = "RESERVED")
    <3>1. resv'[<<p, t>>].status = resv[<<p, t>>].status
      BY <1>1, <2>4, ChargeEffect DEF Slot
    <3>2. QED
      BY <2>1, <2>2, <3>1, SpentMoves DEF Spent, B!Slots
  <2>5. QED
    BY <2>3, <2>4
<1>5. QED
  BY <1>2, <1>3, <1>4, PaidFrame

\* Reserving charges what has expired, and opens every slot of the query.
LEMMA PaidReserve ==
    ASSUME Stores, Paid, NEW q \in Queries, Moves(q), NEW clean \in BOOLEAN,
           B!Reserve(q, Targets, 0, clean)
    PROVE  Paid'
<1> DEFINE K == B!Expired(0)
           swept == B!SweptReservations(0)
           rows == IF clean THEN B!PruneReservations(swept, 0) ELSE swept
<1>1. K \in SUBSET B!Slots
  BY DEF B!Expired
<1>2. \A t \in Targets : consumed'[t] = consumed[t] + Cardinality({k \in K : k[2] = t})
  BY CountSame DEF B!Reserve, B!SweptLedger, B!Charge
<1>3. resv' = B!Settle(rows, {q} \X Targets, "RESERVED", 0)
  BY DEF B!Reserve
<1>4. \A k \in B!Slots : rows[k].status = "RESERVED" \/ k \in K \/ resv[k].status # "RESERVED"
  BY DEF B!SweptReservations, B!Settle, B!PruneReservations, B!Resolved, B!Charged
<1> HIDE DEF K, swept, rows
<1>5. ASSUME NEW t \in Targets, NEW k \in Spent(t)'
      PROVE  k \in Spent(t) \cup K
  <2>1. PICK p \in Queries : k = <<p, t>>
    BY <1>5 DEF Spent, B!Slots
  <2>2. MaySend(qs'[p], t) /\ resv'[<<p, t>>].status # "RESERVED"
    BY <1>5, <2>1 DEF Spent, B!Slots
  <2>3. <<p, t>> \in B!Slots
    BY DEF B!Slots
  <2>4. p # q /\ rows[<<p, t>>].status # "RESERVED"
    BY <1>3, <2>2, <2>3 DEF B!Settle
  <2>5. qs'[p] = qs[p]
    BY <2>4 DEF Moves
  <2>6. QED
    BY <1>4, <2>1, <2>2, <2>3, <2>4, <2>5 DEF Spent
<1>6. QED
  BY <1>1, <1>2, <1>5, PaidFrame

\* A step that leaves the budget store alone and adds no work.
LEMMA PaidMove ==
    ASSUME Stores, Paid, NEW q \in Queries, Moves(q), UNCHANGED budgetVars,
           \A u \in Targets : MaySend(qs'[q], u) => MaySend(qs[q], u)
    PROVE  Paid'
<1>1. resv' = resv /\ consumed' = consumed
  BY DEF budgetVars
<1>2. ASSUME NEW t \in Targets, NEW k \in Spent(t)'
      PROVE  k \in Spent(t)
  BY <1>1, <1>2, SpentMoves DEF Spent, B!Slots
<1>3. QED
  BY <1>1, <1>2, PaidQuietly

\* Accepted work stays counted.
LEMMA PaidStep ==
    ASSUME Control, Stores, Paid, [Next]_vars
    PROVE  Paid'
<1>0. ASSUME NEW q \in Queries, Settles(q)
      PROVE  Paid'
  BY <1>0, SettleMoves, PaidRelease, PaidCharge
<1>1. ASSUME NEW q \in Queries, Progress(q) \/ StoreError(q) \/ Crash(q),
             ~Settles(q), UNCHANGED budgetVars
      PROVE  Paid'
  BY <1>1, QuietMoves, PaidMove DEF Narrows
<1>2. ASSUME NEW q \in Queries, ReserveSlots(q)
      PROVE  Paid'
  <2>1. CASE B!RejectBatch(q, Targets, 0)
    <3>1. UNCHANGED budgetVars
      BY <2>1 DEF B!RejectBatch, B!vars, budgetVars
    <3>2. QED
      BY <1>0, <1>1, <1>2, <3>1 DEF Progress
  <2>2. ASSUME NEW clean \in BOOLEAN, B!Reserve(q, Targets, 0, clean), Goto(q, "loop")
        PROVE  Paid'
    <3>1. Moves(q)
      BY <2>2, GotoEffect DEF PCs
    <3>2. QED
      BY <2>2, <3>1, PaidReserve
  <2>3. QED
    BY <1>2, <2>1, <2>2 DEF ReserveSlots
<1>3. ASSUME NEW q \in Queries, Progress(q) \/ StoreError(q) \/ Crash(q),
             ~Settles(q), ~ReserveSlots(q)
      PROVE  Paid'
  <2>1. UNCHANGED budgetVars
    BY <1>3 DEF Settles, Progress, AcquireKey, AwaitKey, AbortKey, DeadlineExhausted, Admission,
       DispatchTarget, Outcome, RefusedBeforeSend, RefusedAfterMatch, SecurityError, ReportSuccess, ReportFailure,
       AbortProbe, CompleteKey, FailKey, StoreError, Crash, OnlyKey, OnlyBreaker, OnlyQuery,
       budgetVars
  <2>2. QED
    BY <1>1, <1>3, <2>1
<1>4. CASE Tick
  <2>1. qs' = qs /\ consumed' = consumed
    BY <1>4 DEF Tick, B!Tick
  <2>2. \A p \in Queries, t \in Targets : resv'[<<p, t>>].status = resv[<<p, t>>].status
    BY <1>4, TickEffect DEF Tick, Stores, Slot
  <2>3. \A t \in Targets : Spent(t)' \subseteq Spent(t)
    BY <2>1, <2>2 DEF Spent, B!Slots
  <2>4. QED
    BY <2>1, <2>3, PaidQuietly
<1>5. CASE StoreStart
  <2>1. \A t \in Targets : consumed[t] \in Nat /\ Spent(t)' = Spent(t)
    BY <1>5, BudgetSame DEF StoreStart, B!InitDb, Stores, B!TypeOK, Spent, B!Slots
  <2>2. \A t \in Targets : consumed[t] # 0 => consumed'[t] = consumed[t]
    BY <1>5 DEF StoreStart, B!InitDb
  <2>3. ASSUME NEW t \in Targets, consumed[t] = 0
        PROVE  consumed'[t] \in Nat
    <3>1. B!Documented(resv, t) \in SUBSET B!Slots
      BY DEF B!Documented
    <3>2. consumed'[t] = Cardinality(B!Documented(resv, t))
      BY <1>5, <2>3, CountSame DEF StoreStart, B!InitDb
    <3>3. QED
      BY <3>1, <3>2, SlotsFinite
  <2>4. ASSUME NEW t \in Targets
        PROVE  Cardinality(Spent(t)') <= consumed'[t]
    <3>1. Spent(t) \in SUBSET B!Slots
      BY DEF Spent
    <3>2. Cardinality(Spent(t)) \in Nat /\ Cardinality(Spent(t)) <= consumed[t]
      BY <3>1, SlotsFinite DEF Paid
    <3>3. consumed'[t] \in Nat /\ consumed[t] <= consumed'[t]
      BY <2>1, <2>2, <2>3
    <3>4. Cardinality(Spent(t)) <= consumed'[t]
      BY <2>1, <3>2, <3>3
    <3>5. QED
      BY <2>1, <3>4
  <2>5. QED
    BY <2>4 DEF Paid
<1>6. CASE UNCHANGED vars
  BY <1>6 DEF vars, budgetVars, Paid, Spent
<1>7. QED
  BY <1>0, <1>2, <1>3, <1>4, <1>5, <1>6 DEF Next

\* Accepted work never exceeds what the store holds against the pair.
LEMMA AcceptedWithinDebt ==
    ASSUME QInv, Paid, NEW t \in Targets
    PROVE  Cardinality({q \in Queries : t \in qs[q].accepted}) <= B!Debt(t)
<1> DEFINE A == {q \in Queries : t \in qs[q].accepted}
           R == B!Reserved(resv, t)
           D == Spent(t) \cup R
           f == [q \in A |-> <<q, t>>]
<1>1. Spent(t) \in SUBSET B!Slots /\ R \in SUBSET B!Slots /\ D \in SUBSET B!Slots
  BY DEF Spent, B!Reserved
<1>2. /\ Cardinality(Spent(t)) \in Nat /\ Cardinality(R) \in Nat /\ Cardinality(D) \in Nat
      /\ Cardinality(D) <= Cardinality(Spent(t)) + Cardinality(R)
  BY <1>1, UnionBound
<1>3. \A q \in A : f[q] \in D
  BY DEF Spent, MaySend, B!Reserved, B!Slots
<1>4. f \in Injection(A, D)
  <2>1. f \in [A -> D]
    BY <1>3
  <2>2. \A p, q \in A : f[p] = f[q] => p = q
    OBVIOUS
  <2> HIDE DEF A, D, f
  <2>3. QED
    BY <2>1, <2>2 DEF Injection, IsInjective
<1>5. IsFiniteSet(A)
  BY TargetAssumption, FS_Subset
<1>6. consumed[t] \in Nat /\ Cardinality(Spent(t)) <= consumed[t]
  BY BudgetSame DEF QInv, Stores, B!TypeOK, Paid
<1>7. B!Debt(t) = consumed[t] + Cardinality(R)
  BY CountSame DEF B!Debt
<1>8. IsFiniteSet(D)
  BY <1>1, SlotsFinite
<1> HIDE DEF A, R, D, f
<1>9. Cardinality(A) \in Nat /\ Cardinality(A) <= Cardinality(D)
  BY <1>4, <1>5, <1>8, FS_Injection, FS_CardinalityType
<1>10. Cardinality(A) <= B!Debt(t)
  BY <1>2, <1>6, <1>7, <1>9
<1>11. QED
  BY <1>10 DEF A

\* The specification the composition implements is the one proved about.
LEMMA FixedSame == B!FixedSpec <=> BP!FixedSpec
<1>1. B!Init <=> BP!Init
  BY BudgetSame
<1>2. [B!ServiceNext]_(B!vars) <=> [BP!ServiceNext]_(BP!vars)
  BY BudgetSame DEF B!vars, BP!vars
<1>3. QED
  BY <1>1, <1>2, PTL DEF B!FixedSpec, BP!FixedSpec

\* The debt of a pair stays within its total budget, here as in the store alone.
LEMMA DebtBounded == Spec => []B!WithinTotalBudget
<1>1. B!FixedSpec <=> BP!FixedSpec
  BY FixedSame
<1>2. BP!FixedSpec => []BP!WithinTotalBudget
  BY BP!TotalBudgetRespected, BudgetFacts
<1>3. BP!WithinTotalBudget => B!WithinTotalBudget
  BY BudgetSame
<1>4. QED
  BY <1>1, <1>2, <1>3, ImplementsBudget, PTL

\* End to end, the executions a pair really performed and that no late refusal
\* disowned never exceed its total budget: Spec => []AcceptedWithinBudget.
THEOREM AcceptedBounded == Spec => []AcceptedWithinBudget
<1>1. Init => Paid
  <2> SUFFICES ASSUME Init, NEW t \in Targets
               PROVE  Cardinality(Spent(t)) <= consumed[t]
    BY DEF Paid
  <2>1. \A q \in Queries : ~MaySend(qs[q], t)
    BY DEF Init, NewQuery, MaySend, Looping
  <2>2. Spent(t) = {}
    BY <2>1 DEF Spent, B!Slots
  <2>3. QED
    BY <2>2, FS_EmptySet DEF Init, B!Init
<1>2. QInv /\ Paid /\ [Next]_vars => Paid'
  BY PaidStep DEF QInv
<1>3. QInv /\ Paid /\ B!WithinTotalBudget => AcceptedWithinBudget
  <2> SUFFICES ASSUME QInv, Paid, B!WithinTotalBudget, NEW t \in Targets,
                      B!Limit(t) # B!NoLimit, B!Window(t) = 0
               PROVE  Cardinality({q \in Queries : t \in qs[q].accepted}) <= B!Limit(t)
    BY DEF AcceptedWithinBudget
  <2>1. Cardinality({q \in Queries : t \in qs[q].accepted}) <= B!Debt(t)
    BY AcceptedWithinDebt
  <2>2. B!Debt(t) <= B!Limit(t)
    BY DEF B!WithinTotalBudget
  <2>3. /\ Cardinality({q \in Queries : t \in qs[q].accepted}) \in Nat
        /\ B!Debt(t) \in Nat
    <3>1. IsFiniteSet({q \in Queries : t \in qs[q].accepted})
      BY TargetAssumption, FS_Subset
    <3>2. B!Reserved(resv, t) \in SUBSET B!Slots
      BY DEF B!Reserved
    <3>3. Cardinality(B!Reserved(resv, t)) \in Nat /\ consumed[t] \in Nat
      BY <3>2, SlotsFinite, BudgetSame DEF QInv, Stores, B!TypeOK
    <3>4. QED
      BY <3>1, <3>3, FS_CardinalityType, CountSame DEF B!Debt
  <2>4. B!Limit(t) \in Int
    <3>1. budget[t] \in BudgetRows \cup {B!NoRow} /\ GrantBudget[t] \in Int
      BY BudgetSame, BudgetAssumption DEF QInv, Stores, B!TypeOK
    <3>2. QED
      BY <3>1, BudgetAssumption DEF B!Limit
  <2>5. QED
    BY <2>1, <2>2, <2>3, <2>4
<1>4. QED
  BY <1>1, <1>2, <1>3, QInvHolds, DebtBounded, PTL DEF Spec

-----------------------------------------------------------------------------
(* The queries and the abstract ledger. *)

\* The ledger of the composition's store is the one proved about.
LEMMA LedgerSame ==
    /\ B!Ledger!LedgerInit <=> BP!Ledger!LedgerInit
    /\ [B!Ledger!LedgerNext]_(B!Ledger!ledgerVars) <=> [BP!Ledger!LedgerNext]_(BP!Ledger!ledgerVars)
  BY Zenon DEF B!Ledger!LedgerInit, BP!Ledger!LedgerInit, B!Ledger!LedgerNext, BP!Ledger!LedgerNext,
     B!Ledger!ledgerVars, BP!Ledger!ledgerVars, B!Ledger!Grant, BP!Ledger!Grant,
     B!Ledger!SpendSlots, BP!Ledger!SpendSlots, B!Ledger!GiveBack, BP!Ledger!GiveBack,
     B!Ledger!Spend, BP!Ledger!Spend, B!Ledger!Covered, BP!Ledger!Covered,
     B!Ledger!InTarget, BP!Ledger!InTarget, B!Ledger!Cardinality, BP!Ledger!Cardinality,
     B!Limit, BP!Limit, B!Window, BP!Window, B!Slots, BP!Slots, B!NoRow, BP!NoRow,
     B!NoLimit, BP!NoLimit

\* Crashes, raising calls and error paths included, the slots of the queries are
\* granted, spent and given back as the abstract ledger allows.
THEOREM QueriesKeepTheLedger == Spec => B!KeepsTheLedger
<1>1. B!FixedSpec <=> BP!FixedSpec
  BY FixedSame
<1>2. BP!FixedSpec => BP!KeepsTheLedger
  BY BP!ImplementsLedger, BudgetFacts
<1>3. BP!KeepsTheLedger => B!KeepsTheLedger
  <2>1. B!Ledger!LedgerInit <=> BP!Ledger!LedgerInit
    BY LedgerSame
  <2>2. [B!Ledger!LedgerNext]_(B!Ledger!ledgerVars) <=> [BP!Ledger!LedgerNext]_(BP!Ledger!ledgerVars)
    BY LedgerSame
  <2>3. QED
    BY <2>1, <2>2, PTL
       DEF B!KeepsTheLedger, BP!KeepsTheLedger, B!Ledger!LedgerSpec, BP!Ledger!LedgerSpec
<1>4. QED
  BY <1>1, <1>2, <1>3, ImplementsBudget, PTL

-----------------------------------------------------------------------------
(* The queries and the abstract claims on their keys. *)

\* The claims of the composition's store are the ones proved about.
LEMMA ClaimsSame ==
    /\ I!Claims!ClaimsInit <=> IP!Claims!ClaimsInit
    /\ I!Claims!ClaimsNext <=> IP!Claims!ClaimsNext
    /\ (UNCHANGED [k \in Keys |-> I!ClaimOf(k)]) <=> (UNCHANGED [k \in Keys |-> IP!ClaimOf(k)])
  BY Zenon DEF I!Claims!ClaimsInit, IP!Claims!ClaimsInit, I!Claims!ClaimsNext, IP!Claims!ClaimsNext,
     I!Claims!Take, IP!Claims!Take, I!Claims!Work, IP!Claims!Work,
     I!Claims!Answer, IP!Claims!Answer, I!Claims!LeaveInDoubt, IP!Claims!LeaveInDoubt,
     I!Claims!GiveBack, IP!Claims!GiveBack, I!Claims!TimePasses, IP!Claims!TimePasses,
     I!Claims!Becomes, IP!Claims!Becomes, I!Claims!Free, IP!Claims!Free,
     I!Claims!Held, IP!Claims!Held, I!Claims!NoClaim, IP!Claims!NoClaim,
     I!ClaimOf, IP!ClaimOf, I!StandsFor, IP!StandsFor, I!LiveRecord, IP!LiveRecord,
     I!Absent, IP!Absent, I!NoRecord, IP!NoRecord, I!Expired, IP!Expired

\* The key store of the queries, driven by them, is the specification proved about.
LEMMA KeySpecSame == I!Spec <=> IP!Spec
<1>1. I!Init <=> IP!Init
  BY KeySame
<1>2. [I!Next]_(I!vars) <=> [IP!Next]_(IP!vars)
  BY KeySame DEF I!vars, IP!vars
<1>3. QED
  BY <1>1, <1>2, PTL DEF I!Spec, IP!Spec

\* As long as no work is refused after its match: whatever a query does between its
\* calls of the store, crashes and error paths included, the keys of the queries are claimed, resolved and given back as the
\* abstract claims allow.
THEOREM QueriesHonourClaims == Spec /\ []NothingRefusedLate => I!HonoursClaims
<1>1. IP!Spec => IP!HonoursClaims
  BY IP!ImplementsClaims, KeyFacts
<1>2. IP!HonoursClaims => I!HonoursClaims
  <2>1. I!Claims!ClaimsInit <=> IP!Claims!ClaimsInit
    BY ClaimsSame
  <2>2. [I!Claims!ClaimsNext]_([k \in Keys |-> I!ClaimOf(k)])
        <=> [IP!Claims!ClaimsNext]_([k \in Keys |-> IP!ClaimOf(k)])
    BY ClaimsSame
  <2>3. QED
    BY <2>1, <2>2, PTL
       DEF I!HonoursClaims, IP!HonoursClaims, I!Claims!ClaimsSpec, IP!Claims!ClaimsSpec
<1>3. QED
  BY <1>1, <1>2, KeySpecSame, ImplementsIdempotency, PTL

-----------------------------------------------------------------------------
(* The queries and the gates of the counterparties. *)

\* The gates of the composition's store are the ones proved about.
LEMMA GateSame ==
    [C!Gate!GateNext]_(C!Gate!gateVars) <=> [CP!Gate!GateNext]_(CP!Gate!gateVars)
  BY Zenon DEF C!Gate!GateNext, CP!Gate!GateNext, C!Gate!gateVars, CP!Gate!gateVars,
     C!Gate!Pass, CP!Gate!Pass, C!Gate!Try, CP!Gate!Try, C!Gate!Decide, CP!Gate!Decide,
     C!Gate!Leave, CP!Gate!Leave, C!Gate!StepIn, CP!Gate!StepIn,
     C!Gate!Outside, CP!Gate!Outside, C!Gate!Settles, CP!Gate!Settles,
     C!Live, CP!Live, C!Ordinary, CP!Ordinary, C!Probing, CP!Probing

\* Queries start at circuits that are closed, or that earlier traffic left open.  There
\* and later, whatever a query does or fails to do, it moves them as the gates allow.
THEOREM QueriesMoveTheGates == Spec => [][C!Gate!GateNext]_(C!Gate!gateVars)
<1>1. Init => CP!OrphansOut
  BY DEF Init, CP!OrphansOut, C!Idle
<1>2. QInv /\ [Next]_vars => CP!IInv /\ [CP!BreakerNext]_(CP!breakerVars)
  BY BreakerStep, BreakerSame DEF QInv, Stores, C!breakerVars, CP!breakerVars
<1>3. CP!IInv /\ CP!OrphansOut /\ [CP!BreakerNext]_(CP!breakerVars) => CP!OrphansOut'
  BY CP!OrphansStep, BreakerFacts, Zenon
<1>4. CP!IInv /\ CP!OrphansOut /\ [CP!BreakerNext]_(CP!breakerVars) => [CP!Gate!GateNext]_(CP!Gate!gateVars)
  BY CP!GateStep, BreakerFacts, Zenon
<1>5. QED
  BY <1>1, <1>2, <1>3, <1>4, GateSame, QInvHolds, PTL DEF Spec
=============================================================================
