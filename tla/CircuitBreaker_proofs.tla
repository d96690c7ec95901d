------------------------- MODULE CircuitBreaker_proofs -------------------------
(***************************************************************************)
(* Machine-checked proofs about the circuit breaker, for any number of     *)
(* counterparties, dispatches and probes, and any policies.                *)
(*                                                                         *)
(* ImplementsGate puts it together: to a counterparty the breaker is a     *)
(* gate with one trial at a time.  It needs to know, beyond the invariant, *)
(* that a probe whose circuit was reset matches no row (OrphansOut).       *)
(***************************************************************************)
EXTENDS CircuitBreaker, FiniteSetTheorems, TLAPS

\* No two dispatches hold the same probe id.
ProbesDistinct ==
    \A c, d \in Callers :
        flight[c].probe # NoProbe /\ flight[c].probe = flight[d].probe => c = d

\* The inductive invariant.  SingleProbe follows from ProbeNeverSuperseded, which
\* ties every probe in flight to the one id its row stores, once ids are distinct.
IInv == BreakerTypeOK /\ RowShape /\ ProbeNeverSuperseded /\ ProbesDistinct

\* What a report may leave in a row: no probe, and a cooldown only when OPEN.
Settled(r) ==
    /\ r \in Rows
    /\ r.state # "HALF_OPEN" /\ r.probe = NoProbe
    /\ r.cooldown > 0 => r.state = "OPEN"

-----------------------------------------------------------------------------
(* What the actions do, in one form. *)

\* The two rows a report can write.
LEMMA SettledRows ==
    /\ Settled(Healthy)
    /\ \A r \in Rows, policy \in Policies, lag \in ReportLags :
          /\ Settled(Opened(Counted(r.failures), policy, lag))
          /\ Settled(Opened(r.failures, policy, lag))
          /\ Settled(AfterFailure(r, policy, lag))
<1>1. 0 \in 0 .. FailureCap /\ 0 \in Nat
  BY PolicyAssumption
<1>2. Settled(Healthy)
  BY <1>1 DEF Settled, Healthy, Rows, States
<1>3. \A n \in 0 .. FailureCap : Counted(n) \in 0 .. FailureCap
  BY PolicyAssumption DEF Counted
<1>4. \A policy \in Policies, lag \in ReportLags : CooldownOf(policy, lag) \in Nat
  <2> SUFFICES ASSUME NEW policy \in Policies, NEW lag \in ReportLags
               PROVE  CooldownOf(policy, lag) \in Nat
    OBVIOUS
  <2>1. policy.cooldown \in Nat /\ lag \in Nat
    BY PolicyAssumption DEF ReportLags
  <2>2. QED
    BY <2>1 DEF CooldownOf
<1>5. \A n \in 0 .. FailureCap, policy \in Policies, lag \in ReportLags : Settled(Opened(n, policy, lag))
  BY <1>4 DEF Settled, Opened, Rows, States
<1>6. \A n \in 0 .. FailureCap : Settled([Healthy EXCEPT !.failures = n])
  BY <1>1 DEF Settled, Healthy, Rows, States
<1>7. \A r \in Rows : r.failures \in 0 .. FailureCap
  BY DEF Rows
<1>8. QED
  BY <1>2, <1>3, <1>5, <1>6, <1>7 DEF AfterFailure

\* A report, or the loss of one, ends the caller's dispatch and either leaves the
\* table alone or, when it is accepted, settles the row it was dispatched for.
LEMMA ReportEffect ==
    ASSUME BreakerTypeOK, NEW c \in Callers, Report(c) \/ Crash(c)
    PROVE  /\ Busy(c) /\ Land(c)
           /\ \/ row' = row
              \/ /\ Matches(c) \/ CountsInClosed(c)
                 /\ \E r : Settled(r) /\ row' = [row EXCEPT ![flight[c].target] = r]
<1>1. Busy(c) /\ Land(c)
  BY DEF Report, RecordSuccess, RecordFailure, RecordProbeAborted, EndUnreported, Crash
<1>2. flight[c].target \in Peers /\ row[flight[c].target] \in Rows
  BY <1>1 DEF Busy, BreakerTypeOK, Dispatches
<1>3. CASE RecordSuccess(c)
  BY <1>1, <1>3, SettledRows DEF RecordSuccess
<1>4. ASSUME NEW policy \in Policies, NEW lag \in ReportLags, RecordFailure(c, policy, lag)
      PROVE  \/ row' = row
             \/ /\ Matches(c) \/ CountsInClosed(c)
                /\ \E r : Settled(r) /\ row' = [row EXCEPT ![flight[c].target] = r]
  <2> DEFINE t == flight[c].target
  <2>1. CASE Matches(c)
    <3>1. row' = [row EXCEPT ![t] = Opened(Counted(row[t].failures), policy, lag)]
      BY <1>2, <1>4, <2>1 DEF RecordFailure, Matches, CountsInClosed
    <3>2. QED
      BY <1>2, <2>1, <3>1, SettledRows
  <2>2. CASE CountsInClosed(c)
    <3>1. row' = [row EXCEPT ![t] = AfterFailure(row[t], policy, lag)]
      BY <1>2, <1>4, <2>2 DEF RecordFailure, Matches, CountsInClosed
    <3>2. QED
      BY <1>2, <2>2, <3>1, SettledRows
  <2>3. CASE ~Matches(c) /\ ~CountsInClosed(c)
    BY <1>4, <2>3 DEF RecordFailure
  <2>4. QED
    BY <2>1, <2>2, <2>3
<1>5. ASSUME NEW policy \in Policies, NEW lag \in ReportLags, RecordProbeAborted(c, policy, lag)
      PROVE  \/ row' = row
             \/ /\ Matches(c)
                /\ \E r : Settled(r) /\ row' = [row EXCEPT ![flight[c].target] = r]
  BY <1>2, <1>5, SettledRows DEF RecordProbeAborted
<1>6. CASE EndUnreported(c) \/ Crash(c)
  BY <1>6 DEF EndUnreported, Crash
<1>7. QED
  BY <1>1, <1>3, <1>4, <1>5, <1>6 DEF Report

-----------------------------------------------------------------------------
(* The invariant is inductive. *)

\* A normal admission.
LEMMA AdmitStep ==
    ASSUME IInv, NEW c \in Callers, NEW t \in Peers, Admit(c, t)
    PROVE  IInv'
<1> USE ProbeAssumption DEF IInv, Admit
<1>1. Admitted(t, NoProbe) \in Dispatches
  BY DEF Admitted, Dispatches
<1>2. flight'[c].probe = NoProbe /\ \A d \in Callers \ {c} : flight'[d] = flight[d]
  BY DEF BreakerTypeOK, Admitted
<1>3. BreakerTypeOK'
  BY <1>1 DEF BreakerTypeOK
<1>4. ProbesDistinct' /\ ProbeNeverSuperseded'
  BY <1>2 DEF ProbesDistinct, ProbeNeverSuperseded
<1>5. QED
  BY <1>3, <1>4 DEF RowShape

\* The admission of a recovery probe: nobody holds a live probe of this row,
\* because the row stores none.
LEMMA AdmitProbeStep ==
    ASSUME IInv, NEW c \in Callers, NEW t \in Peers, NEW p \in Probes, AdmitProbe(c, t, p)
    PROVE  IInv'
<1> USE DEF IInv
<1>0. p # NoProbe
  BY ProbeAssumption
<1> DEFINE taken == [row[t] EXCEPT !.state = "HALF_OPEN", !.probe = p]
<1>1. /\ taken \in Rows /\ taken.state = "HALF_OPEN" /\ taken.probe = p
      /\ taken.cooldown = row[t].cooldown
  BY DEF BreakerTypeOK, Rows, States
<1>2. row' = [row EXCEPT ![t] = taken]
  BY DEF AdmitProbe, BreakerTypeOK
<1> HIDE DEF taken
<1>3. Admitted(t, p) \in Dispatches
  BY DEF Admitted, Dispatches
<1>4. BreakerTypeOK'
  BY <1>1, <1>2, <1>3 DEF AdmitProbe, BreakerTypeOK
<1>5. /\ row'[t] = taken /\ \A u \in Peers \ {t} : row'[u] = row[u]
      /\ flight'[c] = Admitted(t, p) /\ \A d \in Callers \ {c} : flight'[d] = flight[d]
  BY <1>2 DEF AdmitProbe, BreakerTypeOK
<1>6. row[t].cooldown = 0 /\ row[t].probe = NoProbe
  <2>1. row[t].cooldown \in Nat
    BY DEF BreakerTypeOK, Rows
  <2>2. QED
    BY <2>1 DEF AdmitProbe, ProbeFree, RowShape
<1>7. RowShape'
  <2> SUFFICES ASSUME NEW u \in Peers
               PROVE  /\ row'[u].state = "HALF_OPEN" <=> row'[u].probe # NoProbe
                      /\ row'[u].cooldown > 0 => row'[u].state = "OPEN"
    BY DEF RowShape
  <2>1. CASE u = t
    BY <1>0, <1>1, <1>5, <1>6, <2>1
  <2>2. CASE u # t
    BY <1>5, <2>2 DEF RowShape
  <2>3. QED
    BY <2>1, <2>2
<1>8. ProbeNeverSuperseded'
  <2> SUFFICES ASSUME NEW d \in Callers, flight'[d].probe # NoProbe, ~flight'[d].orphan
               PROVE  /\ row'[flight'[d].target].state = "HALF_OPEN"
                      /\ row'[flight'[d].target].probe = flight'[d].probe
    BY DEF ProbeNeverSuperseded
  <2>1. CASE d = c
    BY <1>1, <1>5, <2>1 DEF Admitted
  <2>2. CASE d # c
    <3>1. flight'[d] = flight[d] /\ flight[d].target \in Peers
      BY <1>5, <2>2 DEF BreakerTypeOK, Dispatches, Idle
    <3>2. flight[d].target # t
      BY <1>6, <3>1 DEF ProbeNeverSuperseded
    <3>3. QED
      BY <1>5, <3>1, <3>2 DEF ProbeNeverSuperseded
  <2>3. QED
    BY <2>1, <2>2
<1>9. ProbesDistinct'
  BY <1>5 DEF AdmitProbe, ProbesDistinct, Fresh, Admitted
<1>10. QED
  BY <1>4, <1>7, <1>8, <1>9

\* A report, accepted or fenced off.  A row is settled only by the holder of its
\* probe id or in CLOSED, so no other live probe loses its row.
LEMMA ReportStep ==
    ASSUME IInv, NEW c \in Callers, Report(c) \/ Crash(c)
    PROVE  IInv'
<1> USE ProbeAssumption DEF IInv
<1> DEFINE t == flight[c].target
<1>1. /\ Busy(c) /\ Land(c)
      /\ \/ row' = row
         \/ /\ Matches(c) \/ CountsInClosed(c)
            /\ \E r : Settled(r) /\ row' = [row EXCEPT ![t] = r]
  BY ReportEffect
<1>2. t \in Peers
  BY <1>1 DEF Busy, BreakerTypeOK, Dispatches
<1>3. flight'[c] = Idle /\ \A d \in Callers \ {c} : flight'[d] = flight[d]
  BY <1>1 DEF Land, BreakerTypeOK
<1>4. BreakerTypeOK'
  BY <1>1 DEF Land, BreakerTypeOK, Settled
<1>5. \A u \in Peers : row'[u] = row[u] \/ Settled(row'[u])
  BY <1>1, <1>2 DEF BreakerTypeOK
<1>6. RowShape'
  BY <1>5 DEF RowShape, Settled
<1>7. ProbesDistinct'
  BY <1>3 DEF ProbesDistinct, Idle
<1>8. ProbeNeverSuperseded'
  <2> SUFFICES ASSUME NEW d \in Callers, flight'[d].probe # NoProbe, ~flight'[d].orphan
               PROVE  row'[flight'[d].target] = row[flight[d].target] /\ flight'[d] = flight[d]
    BY DEF ProbeNeverSuperseded
  <2>1. d # c /\ flight'[d] = flight[d]
    BY <1>3 DEF Idle
  <2>2. flight[d].target \in Peers
    BY <2>1 DEF BreakerTypeOK, Dispatches, Idle
  <2>3. /\ row[flight[d].target].state = "HALF_OPEN"
        /\ row[flight[d].target].probe = flight[d].probe
    BY <2>1 DEF ProbeNeverSuperseded
  <2>4. CASE flight[d].target = t
    <3>1. ~Matches(c)
      BY <2>1, <2>3, <2>4 DEF Matches, ProbesDistinct
    <3>2. ~CountsInClosed(c)
      BY <2>3, <2>4 DEF CountsInClosed
    <3>3. QED
      BY <1>1, <2>1, <2>4, <3>1, <3>2
  <2>5. CASE flight[d].target # t
    BY <1>1, <2>1, <2>2, <2>5 DEF BreakerTypeOK
  <2>6. QED
    BY <2>4, <2>5
<1>9. QED
  BY <1>4, <1>6, <1>7, <1>8

\* An administrator's reset orphans the probes of the row it forgets.
LEMMA ResetStep ==
    ASSUME IInv, NEW t \in Peers, ResetCircuit(t)
    PROVE  IInv'
<1> USE ProbeAssumption DEF IInv, ResetCircuit
<1>1. Settled(Healthy)
  BY SettledRows
<1>2. row'[t] = Healthy /\ \A u \in Peers \ {t} : row'[u] = row[u]
  BY DEF BreakerTypeOK
<1>3. \A d \in Callers :
         /\ flight'[d].target = flight[d].target /\ flight'[d].probe = flight[d].probe
         /\ flight'[d].orphan = IF d \in Probing(t) THEN TRUE ELSE flight[d].orphan
         /\ flight'[d] \in Dispatches \cup {Idle}
  <2> SUFFICES ASSUME NEW d \in Callers
               PROVE  /\ flight'[d].target = flight[d].target /\ flight'[d].probe = flight[d].probe
                      /\ flight'[d].orphan = IF d \in Probing(t) THEN TRUE ELSE flight[d].orphan
                      /\ flight'[d] \in Dispatches \cup {Idle}
    OBVIOUS
  <2>1. CASE d \in Probing(t)
    <3>1. flight[d] \in Dispatches
      BY <2>1 DEF BreakerTypeOK, Probing, Idle
    <3>2. flight'[d] = [flight[d] EXCEPT !.orphan = TRUE]
      BY <2>1
    <3>3. QED
      BY <2>1, <3>1, <3>2 DEF Dispatches
  <2>2. CASE d \notin Probing(t)
    BY <2>2 DEF BreakerTypeOK
  <2>3. QED
    BY <2>1, <2>2
<1>4. BreakerTypeOK'
  <2>1. row' \in [Peers -> Rows]
    BY <1>1 DEF BreakerTypeOK, Settled
  <2>2. flight' \in [Callers -> Dispatches \cup {Idle}]
    BY <1>3
  <2>3. QED
    BY <2>1, <2>2 DEF BreakerTypeOK
<1>5. RowShape'
  BY <1>1, <1>2 DEF RowShape, Settled
<1>6. ProbesDistinct'
  BY <1>3 DEF ProbesDistinct
<1>7. ProbeNeverSuperseded'
  <2> SUFFICES ASSUME NEW d \in Callers, flight'[d].probe # NoProbe, ~flight'[d].orphan
               PROVE  row'[flight'[d].target] = row[flight[d].target]
    BY <1>3 DEF ProbeNeverSuperseded
  <2>1. flight[d].target # t
    BY <1>3 DEF Probing
  <2>2. flight[d].target \in Peers
    BY <1>3 DEF BreakerTypeOK, Dispatches, Idle
  <2>3. QED
    BY <1>2, <1>3, <2>1, <2>2
<1>8. QED
  BY <1>4, <1>5, <1>6, <1>7

\* Time runs the cooldowns down and touches nothing else.
LEMMA TickStep ==
    ASSUME IInv, CooldownTick
    PROVE  IInv'
<1> USE DEF IInv, CooldownTick
<1>1. \A u \in Peers :
         /\ row'[u] \in Rows
         /\ row'[u].state = row[u].state /\ row'[u].probe = row[u].probe
         /\ row'[u].cooldown > 0 => row[u].cooldown > 0
  BY DEF BreakerTypeOK, Rows
<1>2. BreakerTypeOK'
  BY <1>1 DEF BreakerTypeOK
<1>3. RowShape'
  BY <1>1 DEF RowShape
<1>4. ProbesDistinct'
  BY DEF ProbesDistinct
<1>5. ProbeNeverSuperseded'
  <2> SUFFICES ASSUME NEW d \in Callers, flight[d].probe # NoProbe, ~flight[d].orphan
               PROVE  /\ row'[flight[d].target].state = row[flight[d].target].state
                      /\ row'[flight[d].target].probe = row[flight[d].target].probe
    BY DEF ProbeNeverSuperseded
  <2>1. flight[d].target \in Peers
    BY DEF BreakerTypeOK, Dispatches, Idle
  <2>2. QED
    BY <1>1, <2>1
<1>6. QED
  BY <1>2, <1>3, <1>4, <1>5

\* Every step keeps the invariant.
LEMMA IInvStep == IInv /\ [BreakerNext]_breakerVars => IInv'
<1> SUFFICES ASSUME IInv, [BreakerNext]_breakerVars
             PROVE  IInv'
  OBVIOUS
<1>1. ASSUME NEW c \in Callers, NEW t \in Peers, Evaluate(c, t)
      PROVE  IInv'
  <2>1. ASSUME UNCHANGED breakerVars
        PROVE  IInv'
    BY <2>1 DEF breakerVars, IInv, BreakerTypeOK, RowShape, ProbeNeverSuperseded, ProbesDistinct
  <2>2. QED
    BY <1>1, <2>1, AdmitStep, AdmitProbeStep DEF Evaluate, Deny
<1>2. CASE UNCHANGED breakerVars
  BY <1>2 DEF breakerVars, IInv, BreakerTypeOK, RowShape, ProbeNeverSuperseded, ProbesDistinct
<1>3. QED
  BY <1>1, <1>2, ReportStep, ResetStep, TickStep DEF BreakerNext

\* The invariant holds in every reachable state.
LEMMA IInvHolds == BreakerSpec => []IInv
<1>1. BreakerInit => IInv
  BY SettledRows DEF BreakerInit, IInv, BreakerTypeOK, RowShape, ProbeNeverSuperseded, ProbesDistinct,
                     Settled, Healthy, Idle
<1>2. QED
  BY <1>1, IInvStep, PTL DEF BreakerSpec

-----------------------------------------------------------------------------
(* The theorems. *)

\* The table and the dispatches stay well typed: BreakerSpec => []BreakerTypeOK.
THEOREM TypeCorrect == BreakerSpec => []BreakerTypeOK
<1>1. IInv => BreakerTypeOK
  BY DEF IInv
<1>2. QED
  BY <1>1, IInvHolds, PTL

\* A row carries a probe exactly when HALF_OPEN and a cooldown only when OPEN:
\* BreakerSpec => []RowShape.
THEOREM RowsConsistent == BreakerSpec => []RowShape
<1>1. IInv => RowShape
  BY DEF IInv
<1>2. QED
  BY <1>1, IInvHolds, PTL

\* No admission supersedes a probe in flight: BreakerSpec => []ProbeNeverSuperseded.
THEOREM ProbeKept == BreakerSpec => []ProbeNeverSuperseded
<1>1. IInv => ProbeNeverSuperseded
  BY DEF IInv
<1>2. QED
  BY <1>1, IInvHolds, PTL

\* The invariant admits at most one live probe of a pair.
LEMMA ProbesAreSingle == IInv => SingleProbe
<1> SUFFICES ASSUME IInv, NEW t \in Peers
             PROVE  Cardinality({c \in Probing(t) : ~flight[c].orphan}) <= 1
  BY DEF SingleProbe
<1> DEFINE InFlight == {c \in Probing(t) : ~flight[c].orphan}
<1>1. \A c, d \in InFlight : c = d
  BY DEF IInv, ProbeNeverSuperseded, ProbesDistinct, Probing
<1> HIDE DEF InFlight
<1>2. CASE InFlight = {}
  BY <1>2, FS_EmptySet DEF InFlight
<1>3. CASE InFlight # {}
  <2>1. PICK c : c \in InFlight
    BY <1>3
  <2>2. InFlight = {c}
    BY <1>1, <2>1
  <2>3. Cardinality(InFlight) = 1
    BY <2>2, FS_Singleton
  <2>4. QED
    BY <2>3 DEF InFlight
<1>4. QED
  BY <1>2, <1>3

\* At most one live recovery probe of a pair over all instances:
\* BreakerSpec => []SingleProbe.
THEOREM OneProbe == BreakerSpec => []SingleProbe
  BY ProbesAreSingle, IInvHolds, PTL

\* What a report changes in a row: only its own, and only when it is accepted.
LEMMA ReportedRow ==
    ASSUME IInv, NEW c \in Callers, Report(c) \/ Crash(c), NEW t \in Peers, row'[t] # row[t]
    PROVE  /\ t = flight[c].target /\ flight'[c] = Idle
           /\ Matches(c) \/ CountsInClosed(c)
<1>1. Land(c) /\ \/ row' = row
                 \/ /\ Matches(c) \/ CountsInClosed(c)
                    /\ \E r : Settled(r) /\ row' = [row EXCEPT ![flight[c].target] = r]
  BY ReportEffect DEF IInv
<1>2. QED
  BY <1>1 DEF Land, IInv, BreakerTypeOK

\* A reset moves no dispatch and rewrites one row.
LEMMA ResetEffect ==
    ASSUME BreakerTypeOK, NEW u \in Peers, ResetCircuit(u), NEW t \in Peers
    PROVE  /\ \A c \in Callers : flight'[c].target = flight[c].target
           /\ row'[t] = row[t] \/ ByReset(t)
<1>1. \A c \in Callers : flight'[c].target = flight[c].target
  <2> SUFFICES ASSUME NEW c \in Callers
               PROVE  flight'[c].target = flight[c].target
    OBVIOUS
  <2>1. flight[c] \in Dispatches \cup {Idle}
    BY DEF BreakerTypeOK
  <2>2. [flight[c] EXCEPT !.orphan = TRUE].target = flight[c].target
    BY <2>1 DEF Dispatches, Idle
  <2>3. QED
    BY <2>2 DEF ResetCircuit
<1>2. QED
  BY <1>1 DEF ResetCircuit, ByReset, BreakerTypeOK

\* HALF_OPEN is left only through the holder of the stored probe id or an
\* administrator: BreakerSpec => ProbeFencing.
THEOREM ProbesFenced == BreakerSpec => ProbeFencing
<1> DEFINE Fenced(t) ==
       (row[t].state = "HALF_OPEN" /\ row'[t] # row[t]) =>
              \/ ByReset(t)
              \/ \E c \in Probing(t) : flight[c].probe = row[t].probe /\ flight'[c] = Idle
<1>1. ASSUME IInv, [BreakerNext]_breakerVars, NEW t \in Peers
      PROVE  Fenced(t)
  <2> SUFFICES ASSUME row[t].state = "HALF_OPEN", row'[t] # row[t]
               PROVE  \/ ByReset(t)
                      \/ \E c \in Probing(t) : flight[c].probe = row[t].probe /\ flight'[c] = Idle
    OBVIOUS
  <2>1. row[t] \in Rows /\ row[t].probe # NoProbe /\ ~(row[t].cooldown > 0)
    BY <1>1 DEF IInv, BreakerTypeOK, RowShape
  <2>2. ASSUME NEW c \in Callers, NEW u \in Peers, Evaluate(c, u)
        PROVE  FALSE
    BY <1>1, <2>1, <2>2 DEF Evaluate, Admit, AdmitProbe, Deny, ProbeFree, breakerVars, IInv, BreakerTypeOK
  <2>3. ASSUME NEW c \in Callers, Report(c) \/ Crash(c)
        PROVE  c \in Probing(t) /\ flight[c].probe = row[t].probe /\ flight'[c] = Idle
    BY <1>1, <2>3, ReportedRow DEF Matches, CountsInClosed, Probing
  <2>4. ASSUME NEW u \in Peers, ResetCircuit(u)
        PROVE  ByReset(t)
    BY <1>1, <2>4, ResetEffect DEF IInv
  <2>5. CASE CooldownTick
    <3>1. row'[t] = [row[t] EXCEPT !.cooldown = 0]
      BY <2>1, <2>5 DEF CooldownTick
    <3>2. row[t].cooldown = 0
      BY <2>1 DEF Rows
    <3>3. QED
      BY <2>1, <3>1, <3>2 DEF Rows
  <2>6. CASE UNCHANGED breakerVars
    BY <2>6 DEF breakerVars
  <2>7. QED
    BY <1>1, <2>2, <2>3, <2>4, <2>5, <2>6 DEF BreakerNext
<1>2. IInv /\ [BreakerNext]_breakerVars => \A t \in Peers : Fenced(t)
  BY <1>1
<1>3. QED
  BY <1>2, IInvHolds, PTL DEF BreakerSpec, ProbeFencing

\* While a cooldown runs the row ignores reports and admits nobody:
\* BreakerSpec => CooldownHolds.
THEOREM CooldownsHold == BreakerSpec => CooldownHolds
<1> DEFINE Held(t) ==
       row[t].cooldown > 0 =>
          /\ \/ ByReset(t)
             \/ row'[t].state = "OPEN" /\ row'[t].cooldown \in {row[t].cooldown, row[t].cooldown - 1}
          /\ \A c \in Callers : flight'[c].target = t => flight[c].target = t
<1>1. ASSUME IInv, [BreakerNext]_breakerVars, NEW t \in Peers
      PROVE  Held(t)
  <2> SUFFICES ASSUME row[t].cooldown > 0
               PROVE  /\ \/ ByReset(t)
                         \/ /\ row'[t].state = "OPEN"
                            /\ row'[t].cooldown \in {row[t].cooldown, row[t].cooldown - 1}
                      /\ \A c \in Callers : flight'[c].target = t => flight[c].target = t
    OBVIOUS
  <2>1. row[t] \in Rows /\ row[t].state = "OPEN" /\ row[t].cooldown # 0
    BY <1>1 DEF IInv, BreakerTypeOK, RowShape, Rows
  <2>2. ASSUME NEW c \in Callers, NEW u \in Peers, Evaluate(c, u)
        PROVE  /\ row'[t] = row[t]
               /\ \A d \in Callers : flight'[d].target = t => flight[d].target = t
    <3>1. CASE Admit(c, u)
      BY <1>1, <2>1, <3>1 DEF Admit, Admitted, IInv, BreakerTypeOK
    <3>2. ASSUME NEW p \in Probes, AdmitProbe(c, u, p)
          PROVE  u # t
      BY <2>1, <3>2 DEF AdmitProbe, ProbeFree
    <3>3. ASSUME NEW p \in Probes, AdmitProbe(c, u, p)
          PROVE  /\ row'[t] = row[t]
                 /\ \A d \in Callers : flight'[d].target = t => flight[d].target = t
      BY <1>1, <3>2, <3>3 DEF AdmitProbe, Admitted, IInv, BreakerTypeOK
    <3>4. QED
      BY <2>2, <3>1, <3>3 DEF Evaluate, Deny, breakerVars
  <2>3. ASSUME NEW c \in Callers, Report(c) \/ Crash(c)
        PROVE  /\ row'[t] = row[t]
               /\ \A d \in Callers : flight'[d].target = t => flight[d].target = t
    <3>1. row'[t] = row[t]
      BY <1>1, <2>1, <2>3, ReportedRow DEF Matches, CountsInClosed
    <3>2. Land(c)
      BY <1>1, <2>3, ReportEffect DEF IInv
    <3>3. QED
      BY <1>1, <3>1, <3>2, ProbeAssumption DEF Land, Idle, IInv, BreakerTypeOK
  <2>4. ASSUME NEW u \in Peers, ResetCircuit(u)
        PROVE  /\ row'[t] = row[t] \/ ByReset(t)
               /\ \A d \in Callers : flight'[d].target = flight[d].target
    BY <1>1, <2>4, ResetEffect DEF IInv
  <2>5. CASE CooldownTick
    BY <2>1, <2>5 DEF CooldownTick, Rows
  <2>6. CASE UNCHANGED breakerVars
    BY <2>1, <2>6 DEF breakerVars
  <2>7. QED
    BY <1>1, <2>1, <2>2, <2>3, <2>4, <2>5, <2>6 DEF BreakerNext
<1>2. IInv /\ [BreakerNext]_breakerVars => \A t \in Peers : Held(t)
  BY <1>1
<1>3. QED
  BY <1>2, IInvHolds, PTL DEF BreakerSpec, CooldownHolds

-----------------------------------------------------------------------------
(* The breaker keeps the gate.                                             *)

\* The probe of a reset circuit has lost its say: no row it could still move
\* stores its id.
OrphansOut ==
    \A c \in Callers : flight[c].orphan =>
        /\ flight[c].target \in Peers /\ flight[c].probe # NoProbe
        /\ row[flight[c].target].probe # flight[c].probe

\* A reset orphans the probes of its circuit and touches no other dispatch.
LEMMA ResetFlights ==
    ASSUME BreakerTypeOK, NEW t \in Peers, ResetCircuit(t), NEW c \in Callers
    PROVE  /\ flight'[c].target = flight[c].target /\ flight'[c].probe = flight[c].probe
           /\ flight'[c].orphan <=> c \in Probing(t) \/ flight[c].orphan
<1>1. flight[c] \in Dispatches \cup {Idle}
  BY DEF BreakerTypeOK
<1>2. CASE c \in Probing(t)
  <2>1. flight'[c] = [flight[c] EXCEPT !.orphan = TRUE]
    BY <1>2 DEF ResetCircuit
  <2>2. QED
    BY <1>1, <1>2, <2>1 DEF Dispatches, Idle
<1>3. CASE c \notin Probing(t)
  <2>1. flight'[c] = flight[c]
    BY <1>3 DEF ResetCircuit
  <2>2. QED
    BY <1>3, <2>1
<1>4. QED
  BY <1>2, <1>3

\* An admission concerns one dispatch.
LEMMA AdmissionEffect ==
    ASSUME BreakerTypeOK, NEW c \in Callers, NEW t \in Peers, NEW p \in Probes \cup {NoProbe},
           flight' = [flight EXCEPT ![c] = Admitted(t, p)]
    PROVE  /\ flight'[c].target = t /\ flight'[c].probe = p /\ flight'[c].orphan = FALSE
           /\ \A d \in Callers \ {c} : flight'[d] = flight[d]
  BY DEF BreakerTypeOK, Admitted

\* A report ends one dispatch, and settles its own row or none.
LEMMA LandingEffect ==
    ASSUME IInv, NEW c \in Callers, Report(c) \/ Crash(c)
    PROVE  /\ flight[c].target \in Peers
           /\ flight'[c] = Idle /\ \A d \in Callers \ {c} : flight'[d] = flight[d]
           /\ \A u \in Peers \ {flight[c].target} : row'[u] = row[u]
           /\ LET t == flight[c].target
              IN  \/ row' = row
                  \/ /\ Matches(c) \/ CountsInClosed(c)
                     /\ row'[t].probe = NoProbe /\ row'[t].state \in {"CLOSED", "OPEN"}
<1>1. /\ Busy(c) /\ Land(c)
      /\ \/ row' = row
         \/ /\ Matches(c) \/ CountsInClosed(c)
            /\ \E r : Settled(r) /\ row' = [row EXCEPT ![flight[c].target] = r]
  BY ReportEffect DEF IInv
<1>2. flight[c].target \in Peers
  BY <1>1 DEF Busy, IInv, BreakerTypeOK, Dispatches
<1>3. \A r : Settled(r) => r.probe = NoProbe /\ r.state \in {"CLOSED", "OPEN"}
  BY DEF Settled, Rows, States
<1>4. QED
  BY <1>1, <1>2, <1>3 DEF Land, IInv, BreakerTypeOK

\* Orphans stay out: a new probe gets an id that is nobody's.
LEMMA OrphansStep == IInv /\ OrphansOut /\ [BreakerNext]_breakerVars => OrphansOut'
<1> SUFFICES ASSUME IInv, OrphansOut, [BreakerNext]_breakerVars, NEW c \in Callers, flight'[c].orphan
             PROVE  /\ flight'[c].target \in Peers /\ flight'[c].probe # NoProbe
                    /\ row'[flight'[c].target].probe # flight'[c].probe
  BY DEF OrphansOut
<1>1. ASSUME NEW d \in Callers, NEW t \in Peers, Admit(d, t)
      PROVE  c # d /\ flight'[c] = flight[c] /\ row' = row
  BY <1>1, AdmissionEffect DEF Admit, IInv
<1>2. ASSUME NEW d \in Callers, NEW t \in Peers, NEW p \in Probes, AdmitProbe(d, t, p)
      PROVE  /\ flight'[c] = flight[c]
             /\ \A u \in Peers : row'[u].probe = row[u].probe \/ row'[u].probe # flight[c].probe
  <2>1. c # d /\ flight'[c] = flight[c]
    BY <1>2, AdmissionEffect DEF AdmitProbe, IInv
  <2>2. \A u \in Peers : row'[u].probe = row[u].probe \/ row'[u].probe = p
    BY <1>2 DEF AdmitProbe, IInv, BreakerTypeOK, Rows
  <2>3. flight[c].probe # p
    BY <1>2 DEF AdmitProbe, Fresh
  <2>4. QED
    BY <2>1, <2>2, <2>3
<1>3. ASSUME NEW d \in Callers, Report(d) \/ Crash(d)
      PROVE  /\ flight'[c] = flight[c]
             /\ \A u \in Peers : row'[u].probe \in {row[u].probe, NoProbe}
  BY <1>3, LandingEffect DEF Idle
<1>4. ASSUME NEW t \in Peers, ResetCircuit(t)
      PROVE  /\ flight'[c].target \in Peers /\ flight'[c].probe # NoProbe
             /\ row'[flight'[c].target].probe # flight'[c].probe
  <2>1. /\ row'[t].probe = NoProbe /\ \A u \in Peers \ {t} : row'[u] = row[u]
    BY <1>4 DEF ResetCircuit, Healthy, IInv, BreakerTypeOK
  <2>2. /\ flight'[c].target = flight[c].target /\ flight'[c].probe = flight[c].probe
        /\ c \in Probing(t) \/ flight[c].orphan
    BY <1>4, ResetFlights DEF IInv
  <2>3. CASE c \in Probing(t)
    BY <2>1, <2>2, <2>3 DEF Probing
  <2>4. CASE flight[c].orphan
    BY <2>1, <2>2, <2>4 DEF OrphansOut
  <2>5. QED
    BY <2>2, <2>3, <2>4
<1>5. CASE CooldownTick
  <2>1. flight'[c] = flight[c] /\ \A u \in Peers : row'[u].probe = row[u].probe
    BY <1>5 DEF CooldownTick, IInv, BreakerTypeOK, Rows
  <2>2. QED
    BY <2>1 DEF OrphansOut
<1>6. CASE UNCHANGED breakerVars
  BY <1>6 DEF breakerVars, OrphansOut
<1>7. ASSUME NEW d \in Callers, NEW t \in Peers, Evaluate(d, t)
      PROVE  /\ flight'[c].target \in Peers /\ flight'[c].probe # NoProbe
             /\ row'[flight'[c].target].probe # flight'[c].probe
  <2>1. flight[c].orphan
    BY <1>1, <1>2, <1>7 DEF Evaluate, Deny, breakerVars
  <2>2. QED
    BY <1>1, <1>2, <1>7, <2>1 DEF Evaluate, Deny, breakerVars, OrphansOut
<1>8. ASSUME NEW d \in Callers, Report(d) \/ Crash(d)
      PROVE  /\ flight'[c].target \in Peers /\ flight'[c].probe # NoProbe
             /\ row'[flight'[c].target].probe # flight'[c].probe
  BY <1>3, <1>8 DEF OrphansOut
<1>9. QED
  BY <1>4, <1>5, <1>6, <1>7, <1>8 DEF BreakerNext

\* An idle caller is at no gate.
LEMMA IdleOutside ==
    ASSUME NEW c \in Callers, ~Busy(c)
    PROVE  /\ Gate!Outside(c)
           /\ \A u \in Peers : c \notin Live(u) /\ c \notin Ordinary(u)
<1>1. \A u \in Peers : flight[c].target # u
  BY ProbeAssumption DEF Busy, Idle
<1>2. \A u \in Peers : c \notin Live(u) /\ c \notin Ordinary(u)
  BY <1>1 DEF Live, Probing, Ordinary
<1>3. QED
  BY <1>2 DEF Gate!Outside

\* Only the gates at which a caller is or was can tell that it moved.
LEMMA OneMoves ==
    ASSUME NEW c \in Callers, \A d \in Callers \ {c} : flight'[d] = flight[d],
           NEW u \in Peers
    PROVE  /\ Live(u)' \ {c} = Live(u) \ {c}
           /\ Ordinary(u)' \ {c} = Ordinary(u) \ {c}
           /\ c \in Live(u)' <=> /\ flight'[c].target = u /\ flight'[c].probe # NoProbe
                                 /\ ~flight'[c].orphan
           /\ c \in Ordinary(u)' <=> flight'[c].target = u /\ c \notin Live(u)'
  BY DEF Live, Probing, Ordinary

\* A normal admission passes the closed gate.
LEMMA AdmitPasses ==
    ASSUME IInv, NEW c \in Callers, NEW t \in Peers, Admit(c, t)
    PROVE  Gate!Pass(c, t)
<1>1. /\ flight'[c].target = t /\ flight'[c].probe = NoProbe /\ flight'[c].orphan = FALSE
      /\ \A d \in Callers \ {c} : flight'[d] = flight[d]
  BY AdmissionEffect DEF Admit, IInv
<1>2. Gate!Outside(c) /\ \A u \in Peers : c \notin Live(u) /\ c \notin Ordinary(u)
  BY IdleOutside DEF Admit
<1>3. ASSUME NEW u \in Peers
      PROVE  /\ Live(u)' = Live(u)
             /\ Ordinary(u)' = IF u = t THEN Ordinary(u) \cup {c} ELSE Ordinary(u)
  <2>1. c \notin Live(u)' /\ (c \in Ordinary(u)' <=> u = t)
    BY <1>1, OneMoves
  <2>2. Live(u)' \ {c} = Live(u) \ {c} /\ Ordinary(u)' \ {c} = Ordinary(u) \ {c}
    BY <1>1, OneMoves
  <2>3. c \notin Live(u) /\ c \notin Ordinary(u)
    BY <1>2
  <2>4. Live(u)' = Live(u)
    BY <2>1, <2>2, <2>3
  <2>5. Ordinary(u)' = IF u = t THEN Ordinary(u) \cup {c} ELSE Ordinary(u)
    BY <2>1, <2>2, <2>3
  <2>6. QED
    BY <2>4, <2>5
<1>4. row' = row /\ row[t].state = "CLOSED"
  BY DEF Admit
<1>5. QED
  BY <1>2, <1>3, <1>4 DEF Gate!Pass

\* A probe's admission begins the trial of an open gate.
LEMMA ProbeTries ==
    ASSUME IInv, NEW c \in Callers, NEW t \in Peers, NEW p \in Probes, AdmitProbe(c, t, p)
    PROVE  Gate!Try(c, t)
<1>1. /\ flight'[c].target = t /\ flight'[c].probe = p /\ flight'[c].orphan = FALSE
      /\ \A d \in Callers \ {c} : flight'[d] = flight[d]
  BY AdmissionEffect DEF AdmitProbe, IInv
<1>2. Gate!Outside(c) /\ \A u \in Peers : c \notin Live(u) /\ c \notin Ordinary(u)
  BY IdleOutside DEF AdmitProbe
<1>3. row[t].state = "OPEN"
  BY DEF AdmitProbe, ProbeFree, IInv, RowShape
<1>4. Live(t) = {}
  BY <1>3 DEF IInv, ProbeNeverSuperseded, Live, Probing
<1>5. p # NoProbe
  BY ProbeAssumption
<1>6. ASSUME NEW u \in Peers
      PROVE  /\ Live(u)' = IF u = t THEN {c} ELSE Live(u)
             /\ Ordinary(u)' = Ordinary(u)
             /\ row'[u].state = IF u = t THEN "HALF_OPEN" ELSE row[u].state
  <2>1. row'[u].state = IF u = t THEN "HALF_OPEN" ELSE row[u].state
    BY DEF AdmitProbe, IInv, BreakerTypeOK, Rows
  <2>2. /\ c \in Live(u)' <=> u = t
        /\ c \notin Ordinary(u)'
    BY <1>1, <1>5, OneMoves
  <2>3. Live(u)' \ {c} = Live(u) /\ Ordinary(u)' \ {c} = Ordinary(u)
    BY <1>1, <1>2, OneMoves
  <2>4. Live(u)' = IF u = t THEN {c} ELSE Live(u)
    BY <1>4, <2>2, <2>3
  <2>5. QED
    BY <2>1, <2>2, <2>3, <2>4
<1>7. QED
  BY <1>2, <1>3, <1>6 DEF Gate!Try

\* A report is the decision of the trial, or somebody leaving.
LEMMA ReportDecides ==
    ASSUME IInv, OrphansOut, NEW c \in Callers, Report(c) \/ Crash(c),
           NEW t \in Peers, t = flight[c].target
    PROVE  Gate!Decide(c, t) \/ Gate!Leave(c, t)
<1> DEFINE gates == [u \in Peers |-> row[u].state]
<1>1. /\ flight'[c] = Idle /\ \A d \in Callers \ {c} : flight'[d] = flight[d]
      /\ \A u \in Peers \ {t} : row'[u] = row[u]
      /\ \/ row' = row
         \/ /\ Matches(c) \/ CountsInClosed(c)
            /\ row'[t].state \in {"CLOSED", "OPEN"}
  BY LandingEffect
<1>2. gates' = gates \/ \E s \in {"CLOSED", "OPEN"} : gates' = [gates EXCEPT ![t] = s]
  BY <1>1
<1>3. flight[c].target = t
  OBVIOUS
<1>4. ASSUME NEW u \in Peers
      PROVE  Live(u)' = Live(u) \ {c} /\ Ordinary(u)' = Ordinary(u) \ {c}
  <2>1. c \notin Live(u)' /\ c \notin Ordinary(u)'
    BY <1>1, OneMoves, ProbeAssumption DEF Idle
  <2>2. QED
    BY <1>1, <2>1, OneMoves
<1>5. ASSUME NEW u \in Peers, u # t
      PROVE  c \notin Live(u) /\ c \notin Ordinary(u)
  BY <1>3, <1>5 DEF Live, Probing, Ordinary
<1>6. CASE c \in Live(t)
  <2>1. Live(t) = {c}
    BY <1>6 DEF Live, Probing, IInv, ProbeNeverSuperseded, ProbesDistinct
  <2>2. c \notin Ordinary(t)
    BY <1>6 DEF Ordinary
  <2>3. \A u \in Peers : /\ Live(u)' = IF u = t THEN {} ELSE Live(u)
                         /\ Ordinary(u)' = Ordinary(u)
    BY <1>4, <1>5, <2>1, <2>2
  <2>4. Gate!Settles(t) \/ gates' = gates
    BY <1>2 DEF Gate!Settles
  <2>5. QED
    BY <1>1, <1>6, <2>3, <2>4 DEF Gate!Decide
<1>7. CASE c \notin Live(t)
  <2>1. c \in Ordinary(t)
    BY <1>3, <1>7 DEF Ordinary
  <2>2. ~Matches(c)
    <3>1. flight[c].probe # NoProbe => flight[c].orphan
      BY <1>3, <1>7 DEF Live, Probing
    <3>2. QED
      BY <3>1 DEF OrphansOut, Matches
  <2>3. gates' = gates \/ gates[t] = "CLOSED"
    BY <1>1, <1>3, <2>2 DEF CountsInClosed
  <2>4. \A u \in Peers : /\ Live(u)' = Live(u)
                         /\ Ordinary(u)' = IF u = t THEN Ordinary(u) \ {c} ELSE Ordinary(u)
    <3> SUFFICES ASSUME NEW u \in Peers
                 PROVE  /\ Live(u)' = Live(u)
                        /\ Ordinary(u)' = IF u = t THEN Ordinary(u) \ {c} ELSE Ordinary(u)
      OBVIOUS
    <3>1. Live(u)' = Live(u) \ {c} /\ Ordinary(u)' = Ordinary(u) \ {c}
      BY <1>4
    <3>2. c \notin Live(u) /\ (u # t => c \notin Ordinary(u))
      BY <1>5, <1>7
    <3>3. Live(u) \ {c} = Live(u) /\ (u # t => Ordinary(u) \ {c} = Ordinary(u))
      BY <3>2
    <3>4. QED
      BY <3>1, <3>3
  <2>5. \/ gates[t] = "CLOSED" /\ Gate!Settles(t)
        \/ gates' = gates
    BY <1>2, <2>3 DEF Gate!Settles
  <2>6. QED
    BY <1>1, <2>1, <2>4, <2>5 DEF Gate!Leave
<1>8. QED
  BY <1>6, <1>7

\* A reset is the operator's.
LEMMA ResetStepsIn ==
    ASSUME IInv, NEW t \in Peers, ResetCircuit(t)
    PROVE  Gate!StepIn(t)
<1>1. ASSUME NEW u \in Peers
      PROVE  row'[u].state = IF u = t THEN "CLOSED" ELSE row[u].state
  BY DEF ResetCircuit, Healthy, IInv, BreakerTypeOK
<1>2. ASSUME NEW u \in Peers
      PROVE  /\ Live(u)' = IF u = t THEN {} ELSE Live(u)
             /\ Ordinary(u)' = IF u = t THEN Ordinary(u) \cup Live(u) ELSE Ordinary(u)
  <2>1. ASSUME NEW c \in Callers
        PROVE  /\ c \in Live(u)' <=> c \in Live(u) /\ u # t
               /\ c \in Ordinary(u)' <=> \/ c \in Ordinary(u)
                                         \/ c \in Live(u) /\ u = t
    <3>1. /\ flight'[c].target = flight[c].target /\ flight'[c].probe = flight[c].probe
          /\ flight'[c].orphan <=> c \in Probing(t) \/ flight[c].orphan
      BY ResetFlights DEF IInv
    <3>2. QED
      BY <3>1 DEF Live, Ordinary, Probing
  <2>2. Live(u) \subseteq Callers /\ Live(u)' \subseteq Callers
    BY DEF Live, Probing
  <2>3. Ordinary(u) \subseteq Callers /\ Ordinary(u)' \subseteq Callers
    BY DEF Ordinary
  <2>4. QED
    BY <2>1, <2>2, <2>3
<1>3. QED
  BY <1>1, <1>2 DEF Gate!StepIn

\* Time moves no gate.
LEMMA TimeMovesNoGate ==
    ASSUME IInv, CooldownTick \/ UNCHANGED breakerVars, NEW u \in Peers
    PROVE  row'[u].state = row[u].state /\ Live(u)' = Live(u) /\ Ordinary(u)' = Ordinary(u)
<1>1. row'[u].state = row[u].state /\ flight' = flight
  BY DEF CooldownTick, breakerVars, IInv, BreakerTypeOK, Rows
<1>2. QED
  BY <1>1 DEF Live, Ordinary, Probing

\* Every step of the breaker is a step of the gate, or moves none.
LEMMA GateStep == IInv /\ OrphansOut /\ [BreakerNext]_breakerVars => [Gate!GateNext]_(Gate!gateVars)
<1> SUFFICES ASSUME IInv, OrphansOut, [BreakerNext]_breakerVars
             PROVE  [Gate!GateNext]_(Gate!gateVars)
  OBVIOUS
<1>1. ASSUME NEW c \in Callers, NEW t \in Peers, Evaluate(c, t)
      PROVE  Gate!GateNext \/ UNCHANGED breakerVars
  BY <1>1, AdmitPasses, ProbeTries DEF Evaluate, Deny, Gate!GateNext
<1>2. ASSUME NEW c \in Callers, Report(c) \/ Crash(c)
      PROVE  Gate!GateNext
  <2>1. PICK t \in Peers : t = flight[c].target
    BY <1>2, LandingEffect
  <2>2. Gate!Decide(c, t) \/ Gate!Leave(c, t)
    BY <1>2, <2>1, ReportDecides
  <2>3. QED
    BY <2>2 DEF Gate!GateNext
<1>3. ASSUME NEW t \in Peers, ResetCircuit(t)
      PROVE  Gate!GateNext
  BY <1>3, ResetStepsIn DEF Gate!GateNext
<1>4. CASE CooldownTick \/ UNCHANGED breakerVars
  BY <1>4, TimeMovesNoGate DEF Gate!gateVars
<1>5. QED
  BY <1>1, <1>2, <1>3, <1>4 DEF BreakerNext

\* The breaker keeps its promise to a counterparty: one trial at a time, decided by
\* the dispatch whose trial it is, and nobody else gets in meanwhile.
THEOREM ImplementsGate == BreakerSpec => KeepsTheGate
<1>1. BreakerInit => Gate!GateInit
  BY ProbeAssumption
     DEF BreakerInit, Gate!GateInit, Live, Probing, Ordinary, Healthy, Idle
<1>2. BreakerInit => OrphansOut
  BY DEF BreakerInit, OrphansOut, Idle
<1>3. QED
  BY <1>1, <1>2, IInvHolds, OrphansStep, GateStep, PTL DEF BreakerSpec, KeepsTheGate, Gate!GateSpec
=============================================================================
