---------------------------- MODULE CircuitBreaker ----------------------------
(***************************************************************************)
(* The durable counterparty circuit breaker: one row per directional pair, *)
(* shared by every service instance, each method one SQLite transaction.   *)
(* A dispatch asks evaluate_and_acquire_dispatch for admission and reports *)
(* its outcome later; between the two, other instances move the row, so    *)
(* reports arrive late, out of order, or (after a crash) never.            *)
(*                                                                         *)
(* Abstractions.  An absent row behaves as CLOSED with no failures, so the *)
(* two are one state.  The cooldown deadline is the number of ticks left;  *)
(* reporting methods read the clock before the write lock and may start a  *)
(* cooldown that is up to MaxReportLag ticks shorter.  The counter         *)
(* consecutive_failures saturates at FailureCap, no smaller than any       *)
(* threshold.  Reasons and audit columns are left out, with them           *)
(* half_open_probe_started_at: no method reads it.                         *)
(***************************************************************************)
EXTENDS Integers, FiniteSets

CONSTANTS
    Peers,       \* counterparty banks (consortium and requester are fixed)
    Callers,     \* dispatches that may be in flight at once
    Probes,      \* recovery probe ids
    NoProbe,     \* the NULL probe id
    Policies,    \* breaker policies in use: [threshold, cooldown]
    MaxReportLag, \* how stale a reporter's clock reading may be
    FailureCap   \* where the failure counter saturates

ASSUME ProbeAssumption == NoProbe \notin Probes \cup Peers

ASSUME PolicyAssumption ==
    /\ MaxReportLag \in Nat /\ FailureCap \in Nat
    /\ Policies \subseteq [threshold : 1 .. FailureCap, cooldown : Nat \ {0}]

VARIABLES
    row,      \* cross_bank_circuit_breaker_states, per target
    flight    \* per caller: the dispatch it was admitted for, and its probe id;
              \* observed only: the circuit was reset under the probe

breakerVars == <<row, flight>>

-----------------------------------------------------------------------------

States == {"CLOSED", "OPEN", "HALF_OPEN"}
Rows == [state : States, failures : 0 .. FailureCap, cooldown : Nat,
         probe : Probes \cup {NoProbe}]
Idle == [target |-> NoProbe, probe |-> NoProbe, orphan |-> FALSE]
Dispatches == [target : Peers, probe : Probes \cup {NoProbe}, orphan : BOOLEAN]
Healthy == [state |-> "CLOSED", failures |-> 0, cooldown |-> 0, probe |-> NoProbe]

BreakerTypeOK ==
    /\ row \in [Peers -> Rows]
    /\ flight \in [Callers -> Dispatches \cup {Idle}]

\* What the row says agrees with its state: only HALF_OPEN carries a probe, and
\* only OPEN a running cooldown.
RowShape ==
    \A t \in Peers :
        /\ row[t].state = "HALF_OPEN" <=> row[t].probe # NoProbe
        /\ row[t].cooldown > 0 => row[t].state = "OPEN"

Busy(c) == flight[c] # Idle
Probing(t) == {c \in Callers : flight[c].target = t /\ flight[c].probe # NoProbe}
Admitted(t, p) == [target |-> t, probe |-> p, orphan |-> FALSE]
ReportLags == 0 .. MaxReportLag

Counted(n) == IF n < FailureCap THEN n + 1 ELSE FailureCap
CooldownOf(policy, lag) ==
    IF policy.cooldown > lag THEN policy.cooldown - lag ELSE 0

\* uuid4: an id neither stored in any row nor held by any caller.
Fresh(p) ==
    /\ \A t \in Peers : row[t].probe # p
    /\ \A c \in Callers : flight[c].probe # p

-----------------------------------------------------------------------------
(* evaluate_and_acquire_dispatch. *)

\* CLOSED: normal execution permitted, nothing is written.
Admit(c, t) ==
    /\ ~Busy(c)
    /\ row[t].state = "CLOSED"
    /\ flight' = [flight EXCEPT ![c] = Admitted(t, NoProbe)]
    /\ UNCHANGED row

ProbeFreeWhenHalfOpen(t) ==
    \/ row[t].state = "OPEN" /\ row[t].cooldown = 0
    \/ row[t].state = "HALF_OPEN"

ProbeFree(t) ==
    \/ row[t].state = "OPEN" /\ row[t].cooldown = 0
    \/ row[t].state = "HALF_OPEN" /\ row[t].probe = NoProbe

\* Cooldown over: the caller gets the single recovery probe.
AdmitProbe(c, t, p) ==
    /\ ~Busy(c)
    /\ ProbeFree(t)
    /\ Fresh(p)
    /\ row' = [row EXCEPT ![t].state = "HALF_OPEN", ![t].probe = p]
    /\ flight' = [flight EXCEPT ![c] = Admitted(t, p)]

\* Cooling down, probe in flight, or a probe wanted by an unverified request.
Deny(c, t, allowProbe) ==
    /\ ~Busy(c)
    /\ row[t].state # "CLOSED"
    /\ ProbeFree(t) => ~allowProbe
    /\ UNCHANGED breakerVars

-----------------------------------------------------------------------------
(* The reports.  Each is fenced on the row's state and, in HALF_OPEN, on the *)
(* caller's probe id; a report that is fenced off changes nothing.           *)

MatchingTarget(c) == row[flight[c].target].state = "HALF_OPEN"

Matches(c) ==
    LET r == row[flight[c].target]
    IN  /\ r.state = "HALF_OPEN"
        /\ flight[c].probe # NoProbe
        /\ flight[c].probe = r.probe

\* In CLOSED only normal traffic counts; a late probe's report is ignored.
CountsInClosed(c) ==
    /\ row[flight[c].target].state = "CLOSED"
    /\ flight[c].probe = NoProbe

Opened(failures, policy, lag) ==
    [state |-> "OPEN", failures |-> failures,
     cooldown |-> CooldownOf(policy, lag), probe |-> NoProbe]

Land(c) == flight' = [flight EXCEPT ![c] = Idle]

RecordSuccess(c) ==
    LET t == flight[c].target
    IN  /\ Busy(c)
        /\ row' = IF Matches(c) \/ CountsInClosed(c)
                  THEN [row EXCEPT ![t] = Healthy] ELSE row
        /\ Land(c)

\* After one more eligible failure of normal traffic.
AfterFailure(r, policy, lag) ==
    LET n == Counted(r.failures)
    IN  IF n >= policy.threshold THEN Opened(n, policy, lag) ELSE [Healthy EXCEPT !.failures = n]

\* Restarting the cooldown on every late failure.
RecordFailureUnfenced(c, policy, lag) ==
    LET t == flight[c].target
    IN  /\ Busy(c)
        /\ row' = CASE Matches(c) -> [row EXCEPT ![t] = Opened(Counted(@.failures), policy, lag)]
                    [] CountsInClosed(c) -> [row EXCEPT ![t] = AfterFailure(@, policy, lag)]
                    [] OTHER -> [row EXCEPT ![t] = Opened(@.failures, policy, lag)]
        /\ Land(c)

RecordFailure(c, policy, lag) ==
    LET t == flight[c].target
    IN  /\ Busy(c)
        /\ row' = CASE Matches(c) -> [row EXCEPT ![t] = Opened(Counted(@.failures), policy, lag)]
                    [] CountsInClosed(c) -> [row EXCEPT ![t] = AfterFailure(@, policy, lag)]
                    [] OTHER -> row
        /\ Land(c)

\* A probe that ended in a security or indeterminate error: back to OPEN with a
\* new cooldown, no failure counted.
RecordProbeAborted(c, policy, lag) ==
    LET t == flight[c].target
    IN  /\ Busy(c) /\ flight[c].probe # NoProbe
        /\ row' = IF Matches(c) THEN [row EXCEPT ![t] = Opened(@.failures, policy, lag)] ELSE row
        /\ Land(c)

\* A normal dispatch that ends in a failure the breaker must not count.
EndUnreported(c) ==
    /\ Busy(c) /\ flight[c].probe = NoProbe
    /\ Land(c)
    /\ UNCHANGED row

\* The instance running the dispatch dies before it reports.
Crash(c) ==
    /\ Busy(c)
    /\ Land(c)
    /\ UNCHANGED row

CooldownTick ==
    /\ row' = [t \in Peers |-> [row[t] EXCEPT !.cooldown = IF @ > 0 THEN @ - 1 ELSE 0]]
    /\ UNCHANGED flight

\* Administrative reset; no code of the service calls it.
ResetCircuit(t) ==
    /\ row' = [row EXCEPT ![t] = Healthy]
    /\ flight' = [c \in Callers |-> IF c \in Probing(t) THEN [flight[c] EXCEPT !.orphan = TRUE]
                                    ELSE flight[c]]

-----------------------------------------------------------------------------

BreakerInit ==
    /\ row = [t \in Peers |-> Healthy]
    /\ flight = [c \in Callers |-> Idle]

Evaluate(c, t) ==
    \/ Admit(c, t)
    \/ \E p \in Probes : AdmitProbe(c, t, p)
    \/ \E allowProbe \in BOOLEAN : Deny(c, t, allowProbe)

Report(c) ==
    \/ RecordSuccess(c)
    \/ \E policy \in Policies, lag \in ReportLags :
          RecordFailure(c, policy, lag) \/ RecordProbeAborted(c, policy, lag)
    \/ EndUnreported(c)

BreakerNext ==
    \/ \E c \in Callers : (\E t \in Peers : Evaluate(c, t)) \/ Report(c) \/ Crash(c)
    \/ \E t \in Peers : ResetCircuit(t)
    \/ CooldownTick

BreakerSpec == BreakerInit /\ [][BreakerNext]_breakerVars

-----------------------------------------------------------------------------
(* Properties. *)

\* At most one recovery probe of a pair is in flight over all service instances,
\* whatever crashed or reported late before it; only an administrator's reset,
\* which forgets the stored probe, can let a second one start.
SingleProbe ==
    \A t \in Peers : Cardinality({c \in Probing(t) : ~flight[c].orphan}) <= 1

\* Unless the circuit was reset under it, a probe in flight holds the id stored
\* in the row: its report will be accepted, no later admission superseded it.
ProbeNeverSuperseded ==
    \A c \in Callers : flight[c].probe # NoProbe /\ ~flight[c].orphan =>
        /\ row[flight[c].target].state = "HALF_OPEN"
        /\ row[flight[c].target].probe = flight[c].probe

\* An administrator's reset: no dispatch is admitted or reported in the step.
ByReset(t) == row'[t] = Healthy /\ \A c \in Callers : flight'[c].target = flight[c].target

\* HALF_OPEN is left only by the report of the caller holding the stored probe
\* id, or by an administrator: reports of dispatches admitted before the circuit
\* opened, and probes orphaned by a reset, cannot close or reopen it.
ProbeFencing ==
    [][\A t \in Peers :
          (row[t].state = "HALF_OPEN" /\ row'[t] # row[t]) =>
              \/ ByReset(t)
              \/ \E c \in Probing(t) : flight[c].probe = row[t].probe /\ flight'[c] = Idle]_breakerVars

\* A cooldown once started is neither cut short nor restarted by anything but
\* an administrator, and nobody is dispatched while it runs.
CooldownHolds ==
    [][\A t \in Peers : row[t].cooldown > 0 =>
          /\ \/ ByReset(t)
             \/ row'[t].state = "OPEN" /\ row'[t].cooldown \in {row[t].cooldown, row[t].cooldown - 1}
          /\ \A c \in Callers : flight'[c].target = t => flight[c].target = t]_breakerVars

-----------------------------------------------------------------------------
(* The table and the dispatches, read as gates. *)

\* The probes in flight that no reset has orphaned.
Live(t) == {c \in Probing(t) : ~flight[c].orphan}
Ordinary(t) == {c \in Callers : flight[c].target = t} \ Live(t)

Gate == INSTANCE TrialGate
    WITH Doors <- Peers, Guests <- Callers,
         gate <- [t \in Peers |-> row[t].state],
         trial <- [t \in Peers |-> Live(t)],
         inside <- [t \in Peers |-> Ordinary(t)]

\* Late, lost and out-of-order reports over any number of instances come down to
\* one trial at a time, decided by the dispatch whose trial it is.
KeepsTheGate == Gate!GateSpec
=============================================================================
