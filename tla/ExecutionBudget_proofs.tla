------------------------ MODULE ExecutionBudget_proofs ------------------------
(***************************************************************************)
(* Machine-checked proofs about the execution budget store, for any finite *)
(* sets of batches and counterparties, any budgets, grants, reservation    *)
(* lifetime, retention and clock lag.                                      *)
(***************************************************************************)
EXTENDS ExecutionBudget, FiniteSetTheorems, TLAPS

\* The part of a set of reservations that belongs to one pair.
Of(K, t) == {k \in K : k[2] = t}

-----------------------------------------------------------------------------
(* Counting reservations. *)

\* Every set of reservations is finite, and so is its part of a pair.
LEMMA FiniteKeys ==
    ASSUME NEW K \in SUBSET Slots
    PROVE  /\ IsFiniteSet(K) /\ Cardinality(K) \in Nat
           /\ \A t : /\ IsFiniteSet(Of(K, t)) /\ Cardinality(Of(K, t)) \in Nat
                     /\ Of(K, t) \in SUBSET Slots
<1>1. IsFiniteSet(Slots)
  BY FiniteAssumption, FS_Product DEF Slots
<1>2. \A L \in SUBSET Slots : IsFiniteSet(L) /\ Cardinality(L) \in Nat
  BY <1>1, FS_Subset, FS_CardinalityType
<1>3. \A t : Of(K, t) \in SUBSET Slots
  BY DEF Of
<1>4. QED
  BY <1>2, <1>3

\* Removing K from the reservations of a pair.
LEMMA Removal ==
    ASSUME NEW R \in SUBSET Slots, NEW K \in SUBSET R
    PROVE  Cardinality(R \ K) = Cardinality(R) - Cardinality(K)
<1>1. IsFiniteSet(R) /\ R \cap K = K
  BY FiniteKeys
<1>2. QED
  BY <1>1, FS_Difference

\* A union has at most as many members as its parts together.
LEMMA Addition ==
    ASSUME NEW R \in SUBSET Slots, NEW K \in SUBSET Slots
    PROVE  /\ Cardinality(R \cup K) \in Nat
           /\ Cardinality(R \cup K) <= Cardinality(R) + Cardinality(K)
<1>1. /\ IsFiniteSet(R) /\ IsFiniteSet(K)
      /\ Cardinality(R) \in Nat /\ Cardinality(K) \in Nat
      /\ Cardinality(R \cap K) \in Nat /\ Cardinality(R \cup K) \in Nat
  BY FiniteKeys
<1>2. Cardinality(R \cup K) = Cardinality(R) + Cardinality(K) - Cardinality(R \cap K)
  BY <1>1, FS_Union
<1>3. QED
  BY <1>1, <1>2

\* A smaller set has no more members.
LEMMA Monotone ==
    ASSUME NEW R \in SUBSET Slots, NEW K \in SUBSET R
    PROVE  /\ Cardinality(K) \in Nat /\ Cardinality(R) \in Nat
           /\ Cardinality(K) <= Cardinality(R)
  BY FiniteKeys, FS_Subset

-----------------------------------------------------------------------------
(* Types. *)

\* The row updates keep their tables well typed.
LEMMA UpdatesTyped ==
    ASSUME NEW rows \in [Slots -> Reservation], NEW K \in SUBSET Slots, NEW lag \in Lags,
           NEW ledger \in [Targets -> Nat], NEW h \in [Slots -> Nat \cup {NoExecution}]
    PROVE  /\ \A status \in Resolved \cup {"RESERVED"} :
                 Settle(rows, K, status, lag) \in [Slots -> Reservation]
           /\ PruneReservations(rows, lag) \in [Slots -> Reservation]
           /\ Charge(ledger, K) \in [Targets -> Nat]
           /\ Execute(h, K, lag) \in [Slots -> Nat \cup {NoExecution}]
           /\ PruneHistory(h, lag) \in [Slots -> Nat \cup {NoExecution}]
<1>1. lag \in Nat /\ 0 \in Nat
  BY TimeAssumption DEF Lags
<1>2. ASSUME NEW status \in Resolved \cup {"RESERVED"}
      PROVE  Settle(rows, K, status, lag) \in [Slots -> Reservation]
  <2>1. [status |-> status, age |-> lag] \in Reservation
    BY <1>1 DEF Reservation
  <2>2. QED
    BY <2>1 DEF Settle
<1>3. NoReservation \in Reservation
  BY <1>1 DEF NoReservation, Reservation
<1>4. PruneReservations(rows, lag) \in [Slots -> Reservation]
  BY <1>3 DEF PruneReservations
<1>5. \A t \in Targets : Cardinality(Of(K, t)) \in Nat
  BY FiniteKeys
<1>6. \A t \in Targets : ledger[t] + Cardinality(Of(K, t)) \in Nat
  BY <1>5
<1>7. Charge(ledger, K) \in [Targets -> Nat]
  BY <1>6 DEF Charge, Of
<1>8. QED
  BY <1>1, <1>2, <1>4, <1>7 DEF Execute, PruneHistory

\* Every step keeps the tables well typed.
LEMMA TypeStep ==
    ASSUME TypeOK, [Next]_vars
    PROVE  TypeOK'
<1> USE DEF TypeOK
<1>0. \A lag : Expired(lag) \in SUBSET Slots
  BY DEF Expired
<1>1. ASSUME NEW K \in SUBSET Slots, NEW status \in Charged, NEW lag \in Lags,
             ChargeAs(K, status, lag), UNCHANGED budget, issued' \subseteq Batches
      PROVE  TypeOK'
  BY <1>1, UpdatesTyped DEF ChargeAs, Resolved
<1>2. ASSUME NEW b \in Batches, NEW S \in Requests, NEW lag \in Lags, NEW clean \in BOOLEAN,
             Reserve(b, S, lag, clean)
      PROVE  TypeOK'
  <2>1. {b} \X S \in SUBSET Slots
    BY DEF Requests, Slots
  <2>2. /\ SweptReservations(lag) \in [Slots -> Reservation]
        /\ SweptLedger(lag) \in [Targets -> Nat]
        /\ SweptHistory(lag) \in [Slots -> Nat \cup {NoExecution}]
    BY <1>0, UpdatesTyped DEF SweptReservations, SweptLedger, SweptHistory, Resolved, Charged
  <2>3. /\ PruneReservations(SweptReservations(lag), lag) \in [Slots -> Reservation]
        /\ PruneHistory(SweptHistory(lag), lag) \in [Slots -> Nat \cup {NoExecution}]
    BY <1>0, <2>2, UpdatesTyped
  <2>4. resv' \in [Slots -> Reservation]
    <3> DEFINE rows == IF clean THEN PruneReservations(SweptReservations(lag), lag)
                                ELSE SweptReservations(lag)
    <3>1. rows \in [Slots -> Reservation]
      BY <2>2, <2>3
    <3>2. resv' = Settle(rows, {b} \X S, "RESERVED", lag)
      BY <1>2 DEF Reserve
    <3> HIDE DEF rows
    <3>3. QED
      BY <2>1, <3>1, <3>2, UpdatesTyped
  <2>5. hist' \in [Slots -> Nat \cup {NoExecution}]
    BY <1>2, <2>2, <2>3 DEF Reserve
  <2>6. QED
    BY <1>2, <2>2, <2>4, <2>5 DEF Reserve
<1>3. ASSUME NEW b \in Batches, NEW S \in Requests
      PROVE  Open(b, S) \in SUBSET Slots
  BY DEF Open, Requests, Slots
<1>4. ASSUME NEW b \in Batches, NEW S \in Requests, NEW lag \in Lags,
             Commit(b, S, lag) \/ FailClosed(b, S, lag)
      PROVE  TypeOK'
  BY <1>1, <1>3, <1>4 DEF Commit, FailClosed, Charged
<1>5. ASSUME NEW b \in Batches, NEW S \in Requests, NEW lag \in Lags, Release(b, S, lag)
      PROVE  TypeOK'
  BY <1>3, <1>5, UpdatesTyped DEF Release, Resolved
<1>6. CASE Tick
  <2>1. \A n \in Nat : Older(n) \in Nat
    BY TimeAssumption DEF Older
  <2>2. \A k \in Slots : resv'[k] \in Reservation /\ hist'[k] \in Nat \cup {NoExecution}
    BY <1>6, <2>1 DEF Tick, Reservation
  <2>3. QED
    BY <1>6, <2>2 DEF Tick
<1>7. ASSUME NEW lag \in Lags, GetBudget(lag)
      PROVE  TypeOK'
  BY <1>0, <1>1, <1>7 DEF GetBudget, Charged
<1>8. ASSUME NEW t \in Targets, DeleteBudget(t) \/ ResetConsumption(t)
      PROVE  TypeOK'
  BY <1>8 DEF DeleteBudget, ResetConsumption, NoReservation, Reservation
<1>9. ASSUME NEW t \in Targets, NEW row \in BudgetRows, SetBudget(t, row)
      PROVE  TypeOK'
  BY <1>9 DEF SetBudget
<1>10. CASE UNCHANGED vars
  BY <1>10 DEF vars
<1>11. CASE InitDb
  <2>1. \A t \in Targets : Cardinality(Documented(resv, t)) \in Nat
    BY FiniteKeys DEF Documented
  <2>2. \A k \in Slots : resv[k].age \in Nat
    BY DEF Reservation
  <2>3. QED
    BY <1>11, <2>1, <2>2 DEF InitDb
<1>12. QED
  BY <1>2, <1>4, <1>5, <1>6, <1>7, <1>8, <1>9, <1>10, <1>11
     DEF Next, ServiceNext, AdminNext, RejectBatch

\* The tables stay well typed: Spec => []TypeOK.
THEOREM TypeCorrect == Spec => []TypeOK
<1>1. Init => TypeOK
  BY DEF Init, TypeOK, NoReservation, Reservation
<1>2. TypeOK /\ [Next]_vars => TypeOK'
  BY TypeStep
<1>3. QED
  BY <1>1, <1>2, PTL DEF Spec

-----------------------------------------------------------------------------
(* What a step does to the reservations of a pair. *)

\* Resolving the open reservations K takes exactly K's part from a pair.
LEMMA Handover ==
    ASSUME TypeOK, NEW t \in Targets, NEW K \in SUBSET Slots, NEW rows,
           \A k \in K : resv[k].status = "RESERVED",
           \A k \in Slots : rows[k].status = "RESERVED" <=> resv[k].status = "RESERVED" /\ k \notin K
    PROVE  /\ Reserved(resv, t) \in SUBSET Slots /\ Reserved(rows, t) \in SUBSET Slots
           /\ Of(K, t) \in SUBSET Reserved(resv, t)
           /\ Cardinality(Reserved(resv, t)) \in Nat
           /\ Cardinality(Reserved(rows, t)) \in Nat
           /\ Cardinality(Of(K, t)) \in Nat
           /\ Cardinality(Reserved(rows, t)) + Cardinality(Of(K, t)) = Cardinality(Reserved(resv, t))
           /\ Charge(consumed, K)[t] = consumed[t] + Cardinality(Of(K, t))
           /\ consumed[t] \in Nat
<1>1. Reserved(rows, t) = Reserved(resv, t) \ Of(K, t)
  BY DEF Reserved, Of
<1>2. Reserved(resv, t) \in SUBSET Slots /\ Of(K, t) \in SUBSET Reserved(resv, t)
  BY DEF Reserved, Of
<1>3. /\ Reserved(rows, t) \in SUBSET Slots
      /\ Cardinality(Reserved(resv, t)) \in Nat
      /\ Cardinality(Reserved(rows, t)) \in Nat
      /\ Cardinality(Of(K, t)) \in Nat
  BY <1>1, <1>2, FiniteKeys
<1>4. Cardinality(Reserved(rows, t)) = Cardinality(Reserved(resv, t)) - Cardinality(Of(K, t))
  BY <1>1, <1>2, Removal
<1>5. Charge(consumed, K)[t] = consumed[t] + Cardinality(Of(K, t)) /\ consumed[t] \in Nat
  BY DEF Charge, Of, TypeOK
<1>6. QED
  BY <1>2, <1>3, <1>4, <1>5

\* Settling a set of rows closes these and no other.
LEMMA SettledStatus ==
    ASSUME NEW K \in SUBSET Slots, NEW status \in Resolved, NEW lag
    PROVE  \A k \in Slots : Settle(resv, K, status, lag)[k].status = "RESERVED"
                               <=> resv[k].status = "RESERVED" /\ k \notin K
  BY DEF Settle, Resolved, Charged

\* The expiry sweep settles exactly the open reservations past their lifetime.
LEMMA SweepEffect ==
    ASSUME NEW lag
    PROVE  /\ Expired(lag) \in SUBSET Slots
           /\ \A k \in Expired(lag) : resv[k].status = "RESERVED"
           /\ \A k \in Slots : SweptReservations(lag)[k].status = "RESERVED"
                                  <=> resv[k].status = "RESERVED" /\ k \notin Expired(lag)
<1>1. Expired(lag) \in SUBSET Slots /\ \A k \in Expired(lag) : resv[k].status = "RESERVED"
  BY DEF Expired
<1>2. QED
  BY <1>1, SettledStatus DEF SweptReservations, Resolved, Charged

\* An admitted batch opens at most one reservation of a pair it asked for, and
\* none of another pair, beyond those the sweep left.
LEMMA ReserveEffect ==
    ASSUME TypeOK, NEW b \in Batches, NEW S \in Requests, NEW lag \in Lags, NEW clean \in BOOLEAN,
           Reserve(b, S, lag, clean), NEW t \in Targets
    PROVE  /\ Reserved(resv', t) \in SUBSET (Reserved(SweptReservations(lag), t) \cup {<<b, t>>})
           /\ t \notin S => Reserved(resv', t) \in SUBSET Reserved(SweptReservations(lag), t)
<1> DEFINE rows == IF clean THEN PruneReservations(SweptReservations(lag), lag)
                            ELSE SweptReservations(lag)
<1>1. \A k \in Slots : rows[k].status = "RESERVED" => SweptReservations(lag)[k].status = "RESERVED"
  BY DEF PruneReservations, NoReservation
<1>2. resv' = Settle(rows, {b} \X S, "RESERVED", lag)
  BY DEF Reserve
<1> HIDE DEF rows
<1>3. \A k \in Slots : resv'[k].status = "RESERVED" =>
          k \in {b} \X S \/ SweptReservations(lag)[k].status = "RESERVED"
  BY <1>1, <1>2 DEF Settle
<1>4. \A k \in {b} \X S : k = <<b, k[2]>> /\ k[2] \in S
  OBVIOUS
<1>5. QED
  BY <1>3, <1>4 DEF Reserved

\* The quota check counts every reservation the sweep leaves, whenever no
\* window, or one at least as long as a reservation lives, is configured.
LEMMA CheckCountsAll ==
    ASSUME TypeOK, NEW t \in Targets, NEW lag \in Lags,
           Window(t) > 0 => ReservationTTL <= Window(t)
    PROVE  InFlightSinceWindow(t, lag) = Reserved(SweptReservations(lag), t)
<1>1. \A k \in Slots : resv[k].age \in Nat
  BY DEF TypeOK, Reservation
<1>2. Window(t) \in Nat
  BY LimitAssumption DEF Window, TypeOK, NoRow
<1>3. lag \in Nat
  BY TimeAssumption DEF Lags
<1>4. \A k \in Reserved(SweptReservations(lag), t) : resv[k].age < ReservationTTL + lag
  BY <1>1, <1>3, SweepEffect, TimeAssumption DEF Reserved, Expired
<1>5. \A k \in Reserved(SweptReservations(lag), t) :
          Window(t) > 0 => resv[k].age <= Window(t) + lag
  BY <1>1, <1>2, <1>3, <1>4, TimeAssumption DEF Reserved
<1>6. QED
  BY <1>4, <1>5 DEF InFlightSinceWindow

-----------------------------------------------------------------------------
(* Total budgets. *)

\* A process start leaves the ledger of a pair, or restores it.
LEMMA StartRestores ==
    ASSUME TypeOK, InitDb, NEW t \in Targets
    PROVE  consumed'[t] = consumed[t] \/ Restored(t)
  BY DEF InitDb, Restored

\* Every step but an admission or the restoring of a deleted ledger leaves the
\* debt of a pair or lowers it.
LEMMA DebtDoesNotGrow ==
    ASSUME TypeOK, [Next]_vars, NEW t \in Targets, ~Restored(t),
           \A b \in Batches, S \in Requests, lag \in Lags, clean \in BOOLEAN :
               ~Reserve(b, S, lag, clean)
    PROVE  Debt(t)' <= Debt(t)
<1>0. /\ Reserved(resv, t) \in SUBSET Slots /\ Cardinality(Reserved(resv, t)) \in Nat
      /\ consumed[t] \in Nat
  BY FiniteKeys DEF Reserved, TypeOK
<1>1. ASSUME NEW K \in SUBSET Slots, NEW status \in Charged, NEW lag,
             \A k \in K : resv[k].status = "RESERVED", ChargeAs(K, status, lag)
      PROVE  Debt(t)' <= Debt(t)
  <2>1. \A k \in Slots : resv'[k].status = "RESERVED" <=> resv[k].status = "RESERVED" /\ k \notin K
    BY <1>1, SettledStatus DEF ChargeAs, Resolved
  <2>2. /\ Cardinality(Reserved(resv', t)) + Cardinality(Of(K, t)) = Cardinality(Reserved(resv, t))
        /\ consumed'[t] = consumed[t] + Cardinality(Of(K, t))
        /\ Cardinality(Of(K, t)) \in Nat /\ Cardinality(Reserved(resv', t)) \in Nat
    BY <1>1, <2>1, Handover DEF ChargeAs
  <2>3. QED
    BY <1>0, <2>2 DEF Debt
<1>2. ASSUME NEW b \in Batches, NEW S \in Requests
      PROVE  Open(b, S) \in SUBSET Slots /\ \A k \in Open(b, S) : resv[k].status = "RESERVED"
  BY DEF Open, Requests, Slots
<1>3. ASSUME NEW b \in Batches, NEW S \in Requests, NEW lag \in Lags,
             Commit(b, S, lag) \/ FailClosed(b, S, lag)
      PROVE  Debt(t)' <= Debt(t)
  BY <1>1, <1>2, <1>3 DEF Commit, FailClosed, Charged
<1>4. ASSUME consumed'[t] \in Nat, consumed'[t] <= consumed[t],
             Reserved(resv', t) \in SUBSET Reserved(resv, t)
      PROVE  Debt(t)' <= Debt(t)
  BY <1>0, <1>4, Monotone DEF Debt
<1>5. ASSUME NEW b \in Batches, NEW S \in Requests, NEW lag \in Lags, Release(b, S, lag)
      PROVE  Debt(t)' <= Debt(t)
  <2>1. Reserved(resv', t) \in SUBSET Reserved(resv, t)
    BY <1>2, <1>5, SettledStatus DEF Release, Reserved, Resolved
  <2>2. QED
    BY <1>0, <1>4, <1>5, <2>1 DEF Release
<1>6. CASE Tick
  <2>1. Reserved(resv', t) \in SUBSET Reserved(resv, t)
    BY <1>6 DEF Tick, Reserved, TypeOK, Reservation
  <2>2. QED
    BY <1>0, <1>4, <1>6, <2>1 DEF Tick
<1>7. ASSUME NEW lag \in Lags, GetBudget(lag)
      PROVE  Debt(t)' <= Debt(t)
  BY <1>1, <1>7, SweepEffect DEF GetBudget, Charged
<1>8. ASSUME NEW u \in Targets, DeleteBudget(u) \/ ResetConsumption(u)
      PROVE  Debt(t)' <= Debt(t)
  <2>1. consumed'[t] \in Nat /\ consumed'[t] <= consumed[t]
    BY <1>0, <1>8 DEF DeleteBudget, ResetConsumption, TypeOK
  <2>2. Reserved(resv', t) \in SUBSET Reserved(resv, t)
    BY <1>8 DEF DeleteBudget, ResetConsumption, Reserved, NoReservation
  <2>3. QED
    BY <1>4, <2>1, <2>2
<1>9. ASSUME consumed'[t] = consumed[t], resv' = resv
      PROVE  Debt(t)' <= Debt(t)
  BY <1>0, <1>4, <1>9
<1>10. CASE InitDb
  <2>1. consumed'[t] = consumed[t] /\ resv' = resv
    BY <1>10, StartRestores DEF InitDb
  <2>2. QED
    BY <1>9, <2>1
<1>11. QED
  BY <1>3, <1>5, <1>6, <1>7, <1>8, <1>9, <1>10
     DEF Next, ServiceNext, AdminNext, RejectBatch, SetBudget, vars

\* An admission raises the debt of a total budget only up to its limit.
LEMMA AdmissionWithinLimit ==
    ASSUME TypeOK, NEW t \in Targets, NEW b \in Batches, NEW S \in Requests, NEW lag \in Lags,
           NEW clean \in BOOLEAN, Reserve(b, S, lag, clean),
           Limit(t) # NoLimit, Window(t) = 0, Debt(t)' > Debt(t)
    PROVE  Debt(t)' <= Limit(t)
<1> DEFINE left == Reserved(SweptReservations(lag), t)
           owed == SweptLedger(lag)[t]
<1>1. /\ left \in SUBSET Slots /\ Cardinality(left) \in Nat
      /\ owed \in Nat /\ owed + Cardinality(left) = Debt(t)
      /\ consumed'[t] = owed
  <2>1. /\ left \in SUBSET Slots /\ Cardinality(left) \in Nat
        /\ Cardinality(left) + Cardinality(Of(Expired(lag), t)) = Cardinality(Reserved(resv, t))
        /\ Charge(consumed, Expired(lag))[t] = consumed[t] + Cardinality(Of(Expired(lag), t))
        /\ Cardinality(Of(Expired(lag), t)) \in Nat /\ consumed[t] \in Nat
    BY SweepEffect, Handover
  <2>2. QED
    BY <2>1 DEF SweptLedger, Debt, Reserve
<1>2. CASE t \notin S
  <2>1. Reserved(resv', t) \in SUBSET left
    BY <1>2, ReserveEffect
  <2>2. /\ Cardinality(Reserved(resv', t)) \in Nat
        /\ Cardinality(Reserved(resv', t)) <= Cardinality(left)
    BY <1>1, <2>1, Monotone
  <2>3. Debt(t)' <= Debt(t)
    BY <1>1, <2>2 DEF Debt
  <2>4. Debt(t) \in Nat /\ Debt(t)' \in Nat
    BY <1>1, <2>2 DEF Debt
  <2>5. QED
    BY <2>3, <2>4
<1>3. CASE t \in S
  <2>1. Cardinality(left) + owed + 1 <= Limit(t)
    <3>1. InFlightSinceWindow(t, lag) = left
      BY CheckCountsAll
    <3>2. Admits(t, lag)
      BY <1>3 DEF Reserve
    <3>3. QED
      BY <3>1, <3>2 DEF Admits, Used
  <2>2. <<b, t>> \in Slots
    BY DEF Slots
  <2>3. /\ Cardinality(left \cup {<<b, t>>}) \in Nat
        /\ Cardinality(left \cup {<<b, t>>}) <= Cardinality(left) + 1
        /\ left \cup {<<b, t>>} \in SUBSET Slots
    BY <1>1, <2>2, Addition, FS_Singleton
  <2>4. /\ Cardinality(Reserved(resv', t)) \in Nat
        /\ Cardinality(Reserved(resv', t)) <= Cardinality(left \cup {<<b, t>>})
    BY <2>3, ReserveEffect, Monotone
  <2>5. Limit(t) \in Int
    BY LimitAssumption DEF Limit, TypeOK, NoRow, NoLimit
  <2>6. QED
    BY <1>1, <2>1, <2>3, <2>4, <2>5 DEF Debt
<1>4. QED
  BY <1>2, <1>3

\* No interleaving of requests, late resolutions, expiries, stale clocks,
\* administrator calls and process starts raises what a pair owes above its
\* limit, except a start that restores a deleted ledger, to what the stored
\* reservations document: Spec => DebtGrowsWithinLimit.
THEOREM QuotaRespected == Spec => DebtGrowsWithinLimit
<1>1. TypeOK /\ [Next]_vars =>
         \A t \in Targets : (Limit(t) # NoLimit /\ Window(t) = 0 /\ Debt(t)' > Debt(t))
                               => Debt(t)' <= Limit(t) \/ Restored(t)
  <2> SUFFICES ASSUME TypeOK, [Next]_vars, NEW t \in Targets, ~Restored(t),
                      Limit(t) # NoLimit, Window(t) = 0, Debt(t)' > Debt(t)
               PROVE  Debt(t)' <= Limit(t)
    OBVIOUS
  <2>1. Debt(t) \in Nat /\ Debt(t)' \in Nat
    <3>1. TypeOK'
      BY TypeStep
    <3>2. Reserved(resv, t) \in SUBSET Slots /\ Reserved(resv', t) \in SUBSET Slots
      BY DEF Reserved
    <3>3. QED
      BY <3>1, <3>2, FiniteKeys DEF Debt, TypeOK
  <2>2. ~(Debt(t)' <= Debt(t))
    BY <2>1
  <2>3. QED
    BY <2>2, DebtDoesNotGrow, AdmissionWithinLimit
<1>2. QED
  BY <1>1, TypeCorrect, PTL DEF Spec, DebtGrowsWithinLimit

\* With fixed budgets a step of the service is a step of the system that leaves
\* every limit and window as configured.
LEMMA ServiceStep ==
    ASSUME [ServiceNext]_vars
    PROVE  /\ [Next]_vars /\ budget' = budget
           /\ \A t \in Targets : Limit(t)' = Limit(t) /\ Window(t)' = Window(t)
<1>1. budget' = budget
  BY DEF ServiceNext, Reserve, RejectBatch, Commit, FailClosed, Release, InitDb, Tick, vars
<1>2. QED
  BY <1>1 DEF Next, Limit, Window

\* The tables stay well typed with fixed budgets too.
LEMMA FixedTypes == FixedSpec => []TypeOK
<1>1. Init => TypeOK
  BY DEF Init, TypeOK, NoReservation, Reservation
<1>2. TypeOK /\ [ServiceNext]_vars => TypeOK'
  BY TypeStep, ServiceStep
<1>3. QED
  BY <1>1, <1>2, PTL DEF FixedSpec

\* What a charged reservation documents is in the tables already, while nobody
\* resets them: its pair's ledger counts it, and its execution is in the history,
\* at the same time, or is older than the pair's window.
Recorded ==
    \A k \in Slots : resv[k].status \in Charged =>
        /\ consumed[k[2]] > 0
        /\ hist[k] # NoExecution => hist[k] = resv[k].age
        /\ hist[k] = NoExecution /\ Window(k[2]) > 0 => resv[k].age > Window(k[2])

\* Charging the open reservations K records them.
LEMMA ChargeRecords ==
    ASSUME TypeOK, Recorded, NEW K \in SUBSET Slots, NEW status \in Charged, NEW lag \in Lags,
           NEW k \in Slots, Settle(resv, K, status, lag)[k].status \in Charged
    PROVE  /\ Charge(consumed, K)[k[2]] > 0
           /\ Execute(hist, K, lag)[k] # NoExecution
                 => Execute(hist, K, lag)[k] = Settle(resv, K, status, lag)[k].age
           /\ Execute(hist, K, lag)[k] = NoExecution /\ Window(k[2]) > 0
                 => Settle(resv, K, status, lag)[k].age > Window(k[2])
<1>1. k[2] \in Targets /\ lag \in Nat /\ consumed[k[2]] \in Nat
  BY TimeAssumption DEF Slots, Lags, TypeOK
<1>2. IsFiniteSet(Of(K, k[2])) /\ Cardinality(Of(K, k[2])) \in Nat
  BY FiniteKeys
<1>3. Charge(consumed, K)[k[2]] = consumed[k[2]] + Cardinality(Of(K, k[2]))
  BY <1>1 DEF Charge, Of
<1>4. CASE k \in K
  <2>1. Cardinality(Of(K, k[2])) # 0
    BY <1>2, <1>4, FS_EmptySet DEF Of
  <2>2. Settle(resv, K, status, lag)[k].age = lag /\ Execute(hist, K, lag)[k] = lag
    BY <1>4 DEF Settle, Execute
  <2>3. QED
    BY <1>1, <1>2, <1>3, <2>1, <2>2 DEF NoExecution
<1>5. CASE k \notin K
  <2>1. Settle(resv, K, status, lag)[k] = resv[k] /\ Execute(hist, K, lag)[k] = hist[k]
    BY <1>5 DEF Settle, Execute
  <2>2. consumed[k[2]] > 0
    BY <2>1 DEF Recorded
  <2>3. QED
    BY <1>1, <1>2, <1>3, <2>1, <2>2 DEF Recorded
<1>6. QED
  BY <1>4, <1>5

\* Every step of the service keeps the tables complete.
LEMMA RecordedStep ==
    ASSUME TypeOK, Recorded, [ServiceNext]_vars
    PROVE  Recorded'
<1>0. \A t \in Targets : Window(t)' = Window(t) /\ Window(t) \in Nat
  BY ServiceStep, LimitAssumption DEF Window, TypeOK, NoRow
<1>1. \A k \in Slots : k[2] \in Targets
  BY DEF Slots
<1>2. ASSUME NEW K \in SUBSET Slots, NEW status \in Charged, NEW lag \in Lags,
             ChargeAs(K, status, lag)
      PROVE  Recorded'
  <2>1. ASSUME NEW k \in Slots, resv'[k].status \in Charged
        PROVE  /\ consumed'[k[2]] > 0
               /\ hist'[k] # NoExecution => hist'[k] = resv'[k].age
               /\ hist'[k] = NoExecution /\ Window(k[2]) > 0 => resv'[k].age > Window(k[2])
    BY <1>2, <2>1, ChargeRecords DEF ChargeAs
  <2>2. QED
    BY <1>0, <1>1, <2>1 DEF Recorded
<1>3. ASSUME NEW b \in Batches, NEW S \in Requests
      PROVE  Open(b, S) \in SUBSET Slots
  BY DEF Open, Requests, Slots
<1>4. ASSUME NEW b \in Batches, NEW S \in Requests, NEW lag \in Lags,
             Commit(b, S, lag) \/ FailClosed(b, S, lag)
      PROVE  Recorded'
  BY <1>2, <1>3, <1>4 DEF Commit, FailClosed, Charged
<1>5. ASSUME NEW b \in Batches, NEW S \in Requests, NEW lag \in Lags, NEW clean \in BOOLEAN,
             Reserve(b, S, lag, clean)
      PROVE  Recorded'
  <2> DEFINE swept == SweptReservations(lag)
             rows == IF clean THEN PruneReservations(swept, lag) ELSE swept
             past == SweptHistory(lag)
  <2>1. lag \in Nat
    BY TimeAssumption DEF Lags
  <2>2. /\ resv' = Settle(rows, {b} \X S, "RESERVED", lag)
        /\ consumed' = SweptLedger(lag)
        /\ hist' = past \/ hist' = PruneHistory(past, lag)
    BY <1>5 DEF Reserve
  <2>3. \A k \in Slots : rows[k].status \in Charged => rows[k] = swept[k]
    BY DEF PruneReservations, NoReservation, Charged
  <2> HIDE DEF rows
  <2>4. \A k \in Slots : resv'[k].status \in Charged => resv'[k] = swept[k]
    BY <2>2, <2>3 DEF Settle, Charged
  <2>5. ASSUME NEW k \in Slots, resv'[k].status \in Charged
        PROVE  /\ consumed'[k[2]] > 0
               /\ hist'[k] # NoExecution => hist'[k] = resv'[k].age
               /\ hist'[k] = NoExecution /\ Window(k[2]) > 0 => resv'[k].age > Window(k[2])
    <3>1. Expired(lag) \in SUBSET Slots /\ "FAILED_CLOSED" \in Charged
      BY SweepEffect DEF Charged
    <3>2. /\ SweptLedger(lag)[k[2]] > 0
          /\ past[k] # NoExecution => past[k] = swept[k].age
          /\ past[k] = NoExecution /\ Window(k[2]) > 0 => swept[k].age > Window(k[2])
      BY <2>4, <2>5, <3>1, ChargeRecords DEF SweptReservations, SweptLedger, SweptHistory
    <3>3. past[k] \in Nat \cup {NoExecution} /\ swept[k].age \in Nat
      <4>1. past \in [Slots -> Nat \cup {NoExecution}]
        BY <3>1, UpdatesTyped DEF SweptHistory, TypeOK
      <4>2. swept \in [Slots -> Reservation]
        BY <3>1, UpdatesTyped DEF SweptReservations, TypeOK, Resolved
      <4> HIDE DEF past, swept
      <4>3. QED
        BY <4>1, <4>2 DEF Reservation
    <3>4. hist'[k] = past[k] \/ (hist'[k] = NoExecution /\ past[k] > HistoryKept(k[2]) + lag)
      BY <2>2 DEF PruneHistory
    <3>5. Window(k[2]) > 0 => HistoryKept(k[2]) = Window(k[2])
      BY DEF HistoryKept
    <3>6. past[k] > HistoryKept(k[2]) + lag /\ Window(k[2]) > 0
             => past[k] # NoExecution /\ past[k] > Window(k[2])
      BY <1>0, <1>1, <2>1, <3>3, <3>5 DEF NoExecution
    <3> HIDE DEF past, swept
    <3>7. QED
      BY <2>2, <2>4, <2>5, <3>2, <3>4, <3>6
  <2>6. QED
    BY <1>0, <1>1, <2>5 DEF Recorded
<1>6. ASSUME NEW b \in Batches, NEW S \in Requests, NEW lag \in Lags, Release(b, S, lag)
      PROVE  Recorded'
  <2>1. \A k \in Slots : resv'[k].status \in Charged => resv'[k] = resv[k]
    BY <1>6 DEF Release, Settle, Charged
  <2>2. QED
    BY <1>0, <1>1, <1>6, <2>1 DEF Recorded, Release
<1>7. CASE Tick
  <2>1. \A n \in Nat : Older(n) \in Nat /\ Older(n) >= n
    BY TimeAssumption DEF Older
  <2>2. ASSUME NEW k \in Slots, resv'[k].status \in Charged
        PROVE  /\ consumed'[k[2]] > 0
               /\ hist'[k] # NoExecution => hist'[k] = resv'[k].age
               /\ hist'[k] = NoExecution /\ Window(k[2]) > 0 => resv'[k].age > Window(k[2])
    <3>1. /\ resv[k].status \in Charged /\ resv'[k].age = Older(resv[k].age)
          /\ resv[k].age \in Nat /\ hist[k] \in Nat \cup {NoExecution}
      BY <1>7, <2>2 DEF Tick, TypeOK, Reservation, Charged
    <3>2. hist'[k] = IF hist[k] = NoExecution THEN NoExecution ELSE Older(hist[k])
      BY <1>7 DEF Tick
    <3>3. Older(hist[k]) # NoExecution \/ hist[k] = NoExecution
      BY <2>1, <3>1 DEF NoExecution
    <3>4. QED
      BY <1>0, <1>1, <1>7, <2>1, <3>1, <3>2, <3>3 DEF Recorded, Tick
  <2>3. QED
    BY <1>0, <1>1, <2>2 DEF Recorded
<1>8. CASE InitDb
  <2>1. \A t \in Targets : consumed[t] > 0 => consumed'[t] = consumed[t]
    BY <1>8 DEF InitDb, TypeOK
  <2>2. \A k \in Slots : resv'[k] = resv[k] /\ resv[k].age \in Nat
    BY <1>8 DEF InitDb, TypeOK, Reservation
  <2>3. \A k \in Slots : resv[k].status \in Charged =>
           hist'[k] = resv[k].age /\ hist'[k] # NoExecution
    BY <1>8, <2>2 DEF InitDb, Recorded, NoExecution
  <2>4. QED
    BY <1>0, <1>1, <2>1, <2>2, <2>3 DEF Recorded
<1>9. CASE UNCHANGED vars
  BY <1>0, <1>1, <1>9 DEF Recorded, vars
<1>10. QED
  BY <1>4, <1>5, <1>6, <1>7, <1>8, <1>9 DEF ServiceNext, RejectBatch

\* With fixed budgets nothing is ever missing for a process start to restore.
LEMMA FixedTables == FixedSpec => [](TypeOK /\ Recorded)
<1>1. Init => Recorded
  BY DEF Init, Recorded, NoReservation, Charged
<1>2. TypeOK /\ Recorded /\ [ServiceNext]_vars => Recorded'
  BY RecordedStep
<1>3. QED
  BY <1>1, <1>2, FixedTypes, PTL DEF FixedSpec

\* Restoring a ledger to what complete tables document leaves it as it is.
LEMMA RestoresNothing ==
    ASSUME TypeOK, Recorded, NEW t \in Targets, Restored(t)
    PROVE  consumed'[t] = consumed[t] /\ resv' = resv
<1>1. Documented(resv, t) = {}
  BY DEF Documented, Recorded, Restored
<1>2. QED
  BY <1>1, FS_EmptySet DEF Restored

\* Without administrators a process start therefore changes neither a ledger nor
\* what lies inside a rolling window.
LEMMA StartIsIdle ==
    ASSUME TypeOK, Recorded, InitDb
    PROVE  /\ consumed' = consumed /\ resv' = resv
           /\ \A t \in Targets : Window(t) > 0 =>
                 Recent(hist', t, Window(t)) \in SUBSET Recent(hist, t, Window(t))
<1>1. \A t \in Targets : consumed'[t] = consumed[t]
  BY StartRestores, RestoresNothing
<1>2. consumed' = consumed
  BY <1>1 DEF InitDb, TypeOK
<1>3. ASSUME NEW t \in Targets, Window(t) > 0, NEW k \in Recent(hist', t, Window(t))
      PROVE  k \in Recent(hist, t, Window(t))
  <2>1. /\ k \in Slots /\ k[2] = t
        /\ hist'[k] # NoExecution /\ hist'[k] <= Window(t)
    BY <1>3 DEF Recent
  <2>2. Window(t) \in Nat /\ resv[k].age \in Nat
    BY <2>1, LimitAssumption DEF Window, TypeOK, NoRow, Reservation
  <2>3. CASE hist'[k] = hist[k]
    BY <2>1, <2>3 DEF Recent
  <2>4. CASE resv[k].status \in Charged /\ hist[k] = NoExecution /\ hist'[k] = resv[k].age
    <3>1. resv[k].age > Window(t)
      BY <1>3, <2>1, <2>4 DEF Recorded
    <3>2. QED
      BY <2>1, <2>2, <2>4, <3>1
  <2>5. QED
    BY <2>1, <2>3, <2>4 DEF InitDb
<1>4. QED
  BY <1>2, <1>3 DEF InitDb

\* Executions charged and slots reserved never exceed a fixed total budget:
\* FixedSpec => []WithinTotalBudget.
THEOREM TotalBudgetRespected == FixedSpec => []WithinTotalBudget
<1>1. Init => WithinTotalBudget
  <2> SUFFICES ASSUME Init, NEW t \in Targets, Limit(t) # NoLimit
               PROVE  Debt(t) <= Limit(t)
    BY DEF WithinTotalBudget
  <2>1. Reserved(resv, t) = {}
    BY DEF Init, Reserved, NoReservation
  <2>2. Debt(t) = 0
    BY <2>1, FS_EmptySet DEF Init, Debt
  <2>3. Limit(t) \in Nat
    BY LimitAssumption DEF Init, Limit, NoRow, NoLimit
  <2>4. QED
    BY <2>2, <2>3
<1>2. TypeOK /\ Recorded /\ TypeOK' /\ WithinTotalBudget /\ [ServiceNext]_vars => WithinTotalBudget'
  <2> SUFFICES ASSUME TypeOK, Recorded, TypeOK', WithinTotalBudget, [ServiceNext]_vars,
                      NEW t \in Targets,
                      Limit(t) # NoLimit, Window(t) = 0
               PROVE  Debt(t)' <= Limit(t)
    BY ServiceStep DEF WithinTotalBudget
  <2>1. Debt(t) \in Nat /\ Debt(t)' \in Nat /\ Limit(t) \in Int
    <3>1. Reserved(resv, t) \in SUBSET Slots /\ Reserved(resv', t) \in SUBSET Slots
      BY DEF Reserved
    <3>2. Limit(t) \in Int
      BY LimitAssumption DEF Limit, TypeOK, NoRow, NoLimit
    <3>3. QED
      BY <3>1, <3>2, FiniteKeys DEF Debt, TypeOK
  <2>2. Debt(t) <= Limit(t)
    BY DEF WithinTotalBudget
  <2>3. Debt(t)' <= Debt(t) \/ Debt(t)' <= Limit(t)
    <3>1. Debt(t)' <= Debt(t) \/ Debt(t)' > Debt(t)
      BY <2>1
    <3>2. CASE Restored(t)
      BY <2>1, <3>2, RestoresNothing DEF Debt
    <3>3. QED
      BY <3>1, <3>2, ServiceStep, DebtDoesNotGrow, AdmissionWithinLimit
  <2>4. QED
    BY <2>1, <2>2, <2>3
<1>3. QED
  BY <1>1, <1>2, FixedTables, PTL DEF FixedSpec

-----------------------------------------------------------------------------
(* Rolling budgets. *)

\* What a rolling budget limits: open reservations and executions in the window.
Load(t) == Cardinality(Reserved(resv, t)) + Cardinality(Recent(hist, t, Window(t)))

\* A rewritten history adds to a window at most the executions it stamps.
LEMMA HistoryEffect ==
    ASSUME TypeOK, NEW t \in Targets, NEW K \in SUBSET Slots, NEW lag \in Lags, NEW w \in Nat
    PROVE  /\ Recent(hist, t, w) \in SUBSET Slots
           /\ Recent(Execute(hist, K, lag), t, w) \in SUBSET (Recent(hist, t, w) \cup Of(K, t))
           /\ Recent(PruneHistory(Execute(hist, K, lag), lag), t, w)
                 \in SUBSET Recent(Execute(hist, K, lag), t, w)
           /\ Recent(Execute(hist, K, lag), t, w) \in SUBSET Recent(Execute(hist, K, lag), t, w + lag)
<1>1. lag \in Nat
  BY TimeAssumption DEF Lags
<1>2. Execute(hist, K, lag) \in [Slots -> Nat \cup {NoExecution}]
  BY <1>1 DEF Execute, TypeOK
<1>3. \A n \in Nat \cup {NoExecution} : n <= w => n <= w + lag
  BY <1>1 DEF NoExecution
<1>4. Recent(PruneHistory(Execute(hist, K, lag), lag), t, w)
         \in SUBSET Recent(Execute(hist, K, lag), t, w)
  BY DEF Recent, PruneHistory
<1>5. Recent(Execute(hist, K, lag), t, w) \in SUBSET Recent(Execute(hist, K, lag), t, w + lag)
  BY <1>2, <1>3 DEF Recent
<1>6. Recent(Execute(hist, K, lag), t, w) \in SUBSET (Recent(hist, t, w) \cup Of(K, t))
  BY DEF Recent, Execute, Of
<1>7. QED
  BY <1>4, <1>5, <1>6 DEF Recent

\* Moving the open reservations K of a pair into its history, and forgetting
\* others, does not raise its load.
LEMMA LoadMoves ==
    ASSUME TypeOK, NEW t \in Targets, NEW K \in SUBSET Slots, NEW R \in SUBSET Slots,
           NEW H \in SUBSET Slots,
           \A k \in K : resv[k].status = "RESERVED",
           R \in SUBSET (Reserved(resv, t) \ Of(K, t)),
           H \in SUBSET (Recent(hist, t, Window(t)) \cup Of(K, t))
    PROVE  /\ Cardinality(R) + Cardinality(H) \in Nat /\ Load(t) \in Nat
           /\ Cardinality(R) + Cardinality(H) <= Load(t)
<1> DEFINE before == Reserved(resv, t)
           moved == Of(K, t)
           recent == Recent(hist, t, Window(t))
<1>1. /\ before \in SUBSET Slots /\ moved \in SUBSET before /\ recent \in SUBSET Slots
      /\ recent \cup moved \in SUBSET Slots
  BY DEF Reserved, Of, Recent
<1>2. /\ Cardinality(R) \in Nat /\ Cardinality(H) \in Nat /\ Cardinality(before) \in Nat
      /\ Cardinality(moved) \in Nat /\ Cardinality(recent) \in Nat
  BY <1>1, FiniteKeys
<1> HIDE DEF before, moved, recent
<1>3. Cardinality(R) <= Cardinality(before) - Cardinality(moved)
  <2>1. before \ moved \in SUBSET Slots
    BY <1>1
  <2>2. Cardinality(R) <= Cardinality(before \ moved)
    BY <2>1, Monotone DEF before, moved
  <2>3. QED
    BY <1>1, <2>2, Removal
<1>4. Cardinality(H) <= Cardinality(recent) + Cardinality(moved)
  <2>1. Cardinality(H) <= Cardinality(recent \cup moved)
    BY <1>1, Monotone DEF recent, moved
  <2>2. /\ Cardinality(recent \cup moved) \in Nat
        /\ Cardinality(recent \cup moved) <= Cardinality(recent) + Cardinality(moved)
    BY <1>1, Addition
  <2>3. QED
    BY <1>2, <2>1, <2>2
<1>5. Load(t) = Cardinality(before) + Cardinality(recent)
  BY DEF Load, before, recent
<1>6. QED
  BY <1>2, <1>3, <1>4, <1>5

\* Every step of the service but an admission leaves the load or lowers it.
LEMMA LoadDoesNotGrow ==
    ASSUME TypeOK, Recorded, [ServiceNext]_vars, NEW t \in Targets, Window(t) > 0,
           \A b \in Batches, S \in Requests, lag \in Lags, clean \in BOOLEAN :
               ~Reserve(b, S, lag, clean)
    PROVE  Load(t)' <= Load(t)
<1>0. Window(t) \in Nat /\ Window(t)' = Window(t)
  BY LimitAssumption, ServiceStep DEF Window, TypeOK, NoRow
<1>1. ASSUME NEW K \in SUBSET Slots,
             \A k \in K : resv[k].status = "RESERVED",
             Reserved(resv', t) \in SUBSET (Reserved(resv, t) \ Of(K, t)),
             Recent(hist', t, Window(t)) \in SUBSET (Recent(hist, t, Window(t)) \cup Of(K, t))
      PROVE  Load(t)' <= Load(t)
  <2>1. Reserved(resv', t) \in SUBSET Slots /\ Recent(hist', t, Window(t)) \in SUBSET Slots
    BY DEF Reserved, Recent
  <2>2. Load(t)' = Cardinality(Reserved(resv', t)) + Cardinality(Recent(hist', t, Window(t)))
    BY <1>0 DEF Load
  <2>3. QED
    BY <1>1, <2>1, <2>2, LoadMoves
<1>2. ASSUME NEW b \in Batches, NEW S \in Requests
      PROVE  Open(b, S) \in SUBSET Slots /\ \A k \in Open(b, S) : resv[k].status = "RESERVED"
  BY DEF Open, Requests, Slots
<1>3. ASSUME NEW b \in Batches, NEW S \in Requests, NEW lag \in Lags,
             Commit(b, S, lag) \/ FailClosed(b, S, lag)
      PROVE  Load(t)' <= Load(t)
  <2> DEFINE K == Open(b, S)
  <2>1. PICK status \in Charged : ChargeAs(K, status, lag)
    BY <1>3 DEF Commit, FailClosed, Charged
  <2>2. Reserved(resv', t) \in SUBSET (Reserved(resv, t) \ Of(K, t))
    BY <1>2, <2>1, SettledStatus DEF ChargeAs, Reserved, Of, Resolved
  <2>3. Recent(hist', t, Window(t)) \in SUBSET (Recent(hist, t, Window(t)) \cup Of(K, t))
    BY <1>0, <1>2, <2>1, HistoryEffect DEF ChargeAs
  <2>4. QED
    BY <1>1, <1>2, <2>2, <2>3
<1>4. ASSUME Reserved(resv', t) \in SUBSET Reserved(resv, t),
             Recent(hist', t, Window(t)) \in SUBSET Recent(hist, t, Window(t))
      PROVE  Load(t)' <= Load(t)
  <2>1. Of({}, t) = {}
    BY DEF Of
  <2>2. QED
    BY <1>1, <1>4, <2>1
<1>5. ASSUME NEW b \in Batches, NEW S \in Requests, NEW lag \in Lags, Release(b, S, lag)
      PROVE  Load(t)' <= Load(t)
  <2>1. Reserved(resv', t) \in SUBSET Reserved(resv, t) /\ hist' = hist
    BY <1>2, <1>5, SettledStatus DEF Release, Reserved, Resolved
  <2>2. QED
    BY <1>4, <2>1
<1>6. CASE Tick
  <2>1. Reserved(resv', t) \in SUBSET Reserved(resv, t)
    BY <1>6 DEF Tick, Reserved, TypeOK, Reservation
  <2>2. \A n \in Nat : Older(n) <= Window(t) => n <= Window(t)
    BY <1>0, TimeAssumption DEF Older
  <2>3. Recent(hist', t, Window(t)) \in SUBSET Recent(hist, t, Window(t))
    BY <1>6, <2>2 DEF Tick, Recent, TypeOK
  <2>4. QED
    BY <1>4, <2>1, <2>3
<1>7. CASE UNCHANGED vars
  BY <1>4, <1>7 DEF vars
<1>8. CASE InitDb
  BY <1>4, <1>8, StartIsIdle
<1>9. QED
  BY <1>3, <1>5, <1>6, <1>7, <1>8 DEF ServiceNext, RejectBatch

\* An admission keeps the load of a rolling budget within its limit, if no
\* window is shorter than the lifetime of a reservation.
LEMMA AdmissionWithinWindow ==
    ASSUME TypeOK, NEW t \in Targets, NEW b \in Batches, NEW S \in Requests, NEW lag \in Lags,
           NEW clean \in BOOLEAN, Reserve(b, S, lag, clean),
           Window(t) > 0, ReservationTTL <= Window(t), Load(t) <= Limit(t)
    PROVE  Load(t)' <= Limit(t)
<1> DEFINE left == Reserved(SweptReservations(lag), t)
           w == Window(t)
           swept == Execute(hist, Expired(lag), lag)
<1>1. /\ w \in Nat /\ Window(t)' = w /\ lag \in Nat
      /\ Limit(t) \in Int /\ Limit(t) # NoLimit
  BY LimitAssumption, TimeAssumption DEF Window, Limit, TypeOK, NoRow, NoLimit, Reserve, Lags
<1>2. /\ Reserved(resv', t) \in SUBSET Slots /\ Recent(hist', t, w) \in SUBSET Slots
      /\ left \in SUBSET Slots /\ Recent(swept, t, w + lag) \in SUBSET Slots
      /\ <<b, t>> \in Slots
  BY DEF Reserved, Recent, Slots
<1>3. /\ Cardinality(Reserved(resv', t)) \in Nat /\ Cardinality(Recent(hist', t, w)) \in Nat
      /\ Cardinality(left) \in Nat /\ Cardinality(Recent(swept, t, w + lag)) \in Nat
  BY <1>2, FiniteKeys
<1>4. Load(t)' = Cardinality(Reserved(resv', t)) + Cardinality(Recent(hist', t, w))
  BY <1>1 DEF Load
<1>5. Recent(hist', t, w) \in SUBSET Recent(swept, t, w)
  <2>1. hist' = swept \/ hist' = PruneHistory(swept, lag)
    BY DEF Reserve, SweptHistory
  <2>2. QED
    BY <1>1, <2>1, SweepEffect, HistoryEffect
<1>6. CASE t \notin S
  <2>1. Reserved(resv', t) \in SUBSET (Reserved(resv, t) \ Of(Expired(lag), t))
    BY <1>6, ReserveEffect, SweepEffect DEF Reserved, Of
  <2>2. Recent(hist', t, w) \in SUBSET (Recent(hist, t, w) \cup Of(Expired(lag), t))
    BY <1>1, <1>5, SweepEffect, HistoryEffect
  <2>3. /\ Cardinality(Reserved(resv', t)) + Cardinality(Recent(hist', t, w)) <= Load(t)
        /\ Load(t) \in Nat
    BY <1>2, <2>1, <2>2, SweepEffect, LoadMoves
  <2>4. QED
    BY <1>1, <1>3, <1>4, <2>3
<1>7. CASE t \in S
  <2>1. Cardinality(left) + Cardinality(Recent(swept, t, w + lag)) + 1 <= Limit(t)
    <3>1. InFlightSinceWindow(t, lag) = left
      BY CheckCountsAll
    <3>2. Admits(t, lag)
      BY <1>7 DEF Reserve
    <3>3. QED
      BY <1>1, <3>1, <3>2 DEF Admits, Used, SweptHistory
  <2>2. Cardinality(Reserved(resv', t)) <= Cardinality(left) + 1
    <3>1. /\ Cardinality(left \cup {<<b, t>>}) \in Nat
          /\ Cardinality(left \cup {<<b, t>>}) <= Cardinality(left) + 1
          /\ left \cup {<<b, t>>} \in SUBSET Slots
      BY <1>2, Addition, FS_Singleton
    <3>2. Cardinality(Reserved(resv', t)) <= Cardinality(left \cup {<<b, t>>})
      BY <3>1, ReserveEffect, Monotone
    <3>3. QED
      BY <1>3, <3>1, <3>2
  <2>3. Cardinality(Recent(hist', t, w)) <= Cardinality(Recent(swept, t, w + lag))
    <3>1. Recent(hist', t, w) \in SUBSET Recent(swept, t, w + lag)
      BY <1>1, <1>5, SweepEffect, HistoryEffect
    <3>2. QED
      BY <1>2, <3>1, Monotone
  <2>4. QED
    BY <1>1, <1>3, <1>4, <2>1, <2>2, <2>3
<1>8. QED
  BY <1>6, <1>7

\* With fixed budgets whose windows are no shorter than the lifetime of a
\* reservation, executions inside the rolling window and open reservations never
\* exceed the window's limit: FixedSpec => []WithinRollingBudget.
THEOREM RollingBudgetRespected ==
    ASSUME \A row \in BudgetRows : row.window > 0 => ReservationTTL <= row.window
    PROVE  FixedSpec => []WithinRollingBudget
<1>1. Init => WithinRollingBudget
  <2> SUFFICES ASSUME Init, NEW t \in Targets, Window(t) > 0
               PROVE  Load(t) <= Limit(t)
    BY DEF WithinRollingBudget, Load
  <2>1. Reserved(resv, t) = {} /\ Recent(hist, t, Window(t)) = {}
    BY DEF Init, Reserved, NoReservation, Recent
  <2>2. Load(t) = 0
    BY <2>1, FS_EmptySet DEF Load
  <2>3. Limit(t) \in Nat
    BY LimitAssumption DEF Init, Limit, Window, NoRow
  <2>4. QED
    BY <2>2, <2>3
<1>2. TypeOK /\ Recorded /\ WithinRollingBudget /\ [ServiceNext]_vars => WithinRollingBudget'
  <2> SUFFICES ASSUME TypeOK, Recorded, WithinRollingBudget, [ServiceNext]_vars,
                      NEW t \in Targets, Window(t) > 0
               PROVE  Load(t)' <= Limit(t)
    BY ServiceStep DEF WithinRollingBudget, Load
  <2>1. Load(t) <= Limit(t)
    BY DEF WithinRollingBudget, Load
  <2>2. ReservationTTL <= Window(t)
    BY DEF TypeOK, Window, NoRow
  <2>3. CASE \E b \in Batches, S \in Requests, lag \in Lags, clean \in BOOLEAN :
                 Reserve(b, S, lag, clean)
    BY <2>1, <2>2, <2>3, AdmissionWithinWindow
  <2>4. CASE \A b \in Batches, S \in Requests, lag \in Lags, clean \in BOOLEAN :
                 ~Reserve(b, S, lag, clean)
    <3>1. Load(t)' <= Load(t)
      BY <2>4, LoadDoesNotGrow
    <3>2. Load(t) \in Nat /\ Load(t)' \in Nat /\ Limit(t) \in Int
      <4>1. /\ Reserved(resv, t) \in SUBSET Slots /\ Recent(hist, t, Window(t)) \in SUBSET Slots
            /\ Reserved(resv', t) \in SUBSET Slots
            /\ Recent(hist', t, Window(t)') \in SUBSET Slots
        BY DEF Reserved, Recent
      <4>2. Limit(t) \in Int
        BY LimitAssumption DEF Limit, TypeOK, NoRow, NoLimit
      <4>3. QED
        BY <4>1, <4>2, FiniteKeys DEF Load
    <3>3. QED
      BY <2>1, <3>1, <3>2
  <2>5. QED
    BY <2>3, <2>4
<1>3. QED
  BY <1>1, <1>2, FixedTables, PTL DEF FixedSpec

\* Where the docstring's promise holds: no rolling window of a pair ever contains
\* more charged executions than its limit, unless the window is shorter than the
\* lifetime of a reservation, as it is in the run that violates it:
\* FixedSpec => []ExecutionsWithinWindow.
THEOREM NeverOversubscribedUnlessShortWindow ==
    ASSUME \A row \in BudgetRows : row.window > 0 => ReservationTTL <= row.window
    PROVE  FixedSpec => []ExecutionsWithinWindow
<1>1. FixedSpec => []WithinRollingBudget
  BY RollingBudgetRespected
<1>2. TypeOK /\ WithinRollingBudget => ExecutionsWithinWindow
  <2> SUFFICES ASSUME TypeOK, WithinRollingBudget, NEW t \in Targets, Window(t) > 0
               PROVE  Cardinality(Recent(hist, t, Window(t))) <= Limit(t)
    BY DEF ExecutionsWithinWindow
  <2>1. /\ Cardinality(Reserved(resv, t)) \in Nat
        /\ Cardinality(Recent(hist, t, Window(t))) \in Nat
    BY FiniteKeys DEF Reserved, Recent
  <2>2. Limit(t) \in Int
    BY LimitAssumption DEF Limit, TypeOK, NoRow, NoLimit
  <2>3. QED
    BY <2>1, <2>2 DEF WithinRollingBudget
<1>3. QED
  BY <1>1, <1>2, FixedTypes, PTL

-----------------------------------------------------------------------------
(* The ledger and the reservations move together. *)

\* Batches are issued once: a reservation exists only for an issued batch.  An
\* admission therefore never overwrites one.
IssuedRows == \A k \in Slots : resv[k].status # "NONE" => k[1] \in issued

\* Every step keeps that.
LEMMA IssuedStep ==
    ASSUME TypeOK, IssuedRows, [Next]_vars
    PROVE  IssuedRows'
<1> USE DEF IssuedRows
<1>1. ASSUME NEW K \in SUBSET Slots, NEW status, NEW lag, NEW rows, issued' = issued,
             \A k \in K : resv[k].status = "RESERVED", resv' = Settle(resv, K, status, lag)
      PROVE  IssuedRows'
  BY <1>1 DEF Settle
<1>2. ASSUME NEW b \in Batches, NEW S \in Requests, NEW lag \in Lags, NEW clean \in BOOLEAN,
             Reserve(b, S, lag, clean)
      PROVE  IssuedRows'
  <2>1. \A k \in Slots : k \notin {b} \X S /\ resv'[k].status # "NONE" => resv[k].status # "NONE"
    BY <1>2 DEF Reserve, Settle, PruneReservations, NoReservation, SweptReservations, Expired
  <2>2. \A k \in {b} \X S : k[1] = b
    OBVIOUS
  <2>3. QED
    BY <1>2, <2>1, <2>2 DEF Reserve
<1>3. ASSUME NEW b \in Batches, NEW S \in Requests
      PROVE  Open(b, S) \in SUBSET Slots /\ \A k \in Open(b, S) : resv[k].status = "RESERVED"
  BY DEF Open, Requests, Slots
<1>4. ASSUME NEW b \in Batches, NEW S \in Requests, NEW lag \in Lags,
             Commit(b, S, lag) \/ FailClosed(b, S, lag) \/ Release(b, S, lag)
      PROVE  IssuedRows'
  BY <1>1, <1>3, <1>4 DEF Commit, FailClosed, Release, ChargeAs
<1>5. CASE Tick
  BY <1>5 DEF Tick, TypeOK, Reservation
<1>6. ASSUME NEW lag \in Lags, GetBudget(lag)
      PROVE  IssuedRows'
  BY <1>1, <1>6, SweepEffect DEF GetBudget, ChargeAs
<1>7. ASSUME NEW u \in Targets, DeleteBudget(u) \/ ResetConsumption(u)
      PROVE  IssuedRows'
  BY <1>7 DEF DeleteBudget, ResetConsumption, NoReservation
<1>8. ASSUME UNCHANGED <<resv, issued>>
      PROVE  IssuedRows'
  BY <1>8
<1>9. QED
  BY <1>2, <1>4, <1>5, <1>6, <1>7, <1>8
     DEF Next, ServiceNext, AdminNext, RejectBatch, SetBudget, InitDb, vars

\* It holds, with the types, in every reachable state.
LEMMA IssuedHolds == Spec => [](TypeOK /\ IssuedRows)
<1>1. Init => IssuedRows
  BY DEF Init, IssuedRows, NoReservation
<1>2. TypeOK /\ IssuedRows /\ [Next]_vars => IssuedRows'
  BY IssuedStep
<1>3. QED
  BY <1>1, <1>2, TypeCorrect, PTL DEF Spec

\* The rows of an admission: its batch's are opened, expired ones are charged,
\* resolved ones are kept or pruned.
LEMMA ReserveRows ==
    ASSUME TypeOK, IssuedRows, NEW b \in Batches, NEW S \in Requests, NEW lag \in Lags,
           NEW clean \in BOOLEAN, Reserve(b, S, lag, clean), NEW k \in Slots
    PROVE  /\ k \in Expired(lag) => resv'[k].status = "FAILED_CLOSED"
           /\ resv[k].status = "RESERVED" /\ k \notin Expired(lag) => resv'[k].status = "RESERVED"
           /\ resv[k].status \in Resolved => resv'[k].status \in {resv[k].status, "NONE"}
<1> DEFINE swept == SweptReservations(lag)
           rows == IF clean THEN PruneReservations(swept, lag) ELSE swept
<1>1. lag \in Nat /\ Retention \in Nat
  BY TimeAssumption DEF Lags
<1>2. k \in {b} \X S => resv[k].status = "NONE"
  BY DEF IssuedRows, Reserve
<1>3. resv' = Settle(rows, {b} \X S, "RESERVED", lag)
  BY DEF Reserve
<1>4. k \in Expired(lag) => swept[k] = [status |-> "FAILED_CLOSED", age |-> lag]
  BY DEF SweptReservations, Settle
<1>5. k \notin Expired(lag) => swept[k] = resv[k]
  BY DEF SweptReservations, Settle
<1>6. \/ rows[k] = swept[k]
      \/ /\ rows[k] = NoReservation /\ swept[k].status \in Resolved
         /\ swept[k].age > Retention + lag
  BY DEF PruneReservations
<1> HIDE DEF swept, rows
<1>7. resv[k].status # "NONE" => resv'[k] = rows[k]
  BY <1>2, <1>3 DEF Settle
<1>8. k \in Expired(lag) => resv[k].status = "RESERVED"
  BY DEF Expired
<1>9. ~(lag > Retention + lag)
  BY <1>1
<1>10. QED
  BY <1>4, <1>5, <1>6, <1>7, <1>8, <1>9 DEF Resolved, Charged, NoReservation

\* A resolved reservation is never reopened or resolved another way:
\* Spec => ResolutionIsFinal.
THEOREM ResolutionsFinal == Spec => ResolutionIsFinal
<1>1. ASSUME TypeOK, IssuedRows, [Next]_vars, NEW k \in Slots, resv[k].status \in Resolved
      PROVE  resv'[k].status \in {resv[k].status, "NONE"}
  <2>1. ASSUME NEW K \in SUBSET Slots, NEW status, NEW lag,
               \A j \in K : resv[j].status = "RESERVED", resv' = Settle(resv, K, status, lag)
        PROVE  resv'[k] = resv[k]
    BY <1>1, <2>1 DEF Settle, Resolved, Charged
  <2>2. ASSUME NEW b \in Batches, NEW S \in Requests
        PROVE  Open(b, S) \in SUBSET Slots /\ \A j \in Open(b, S) : resv[j].status = "RESERVED"
    BY DEF Open, Requests, Slots
  <2>3. ASSUME NEW b \in Batches, NEW S \in Requests, NEW lag \in Lags,
               Commit(b, S, lag) \/ FailClosed(b, S, lag) \/ Release(b, S, lag)
        PROVE  resv'[k] = resv[k]
    BY <2>1, <2>2, <2>3 DEF Commit, FailClosed, Release, ChargeAs
  <2>4. CASE Tick
    BY <1>1, <2>4 DEF Tick, TypeOK, Reservation
  <2>5. ASSUME NEW lag \in Lags, GetBudget(lag)
        PROVE  resv'[k] = resv[k]
    BY <2>1, <2>5, SweepEffect DEF GetBudget, ChargeAs
  <2>6. ASSUME NEW u \in Targets, DeleteBudget(u) \/ ResetConsumption(u)
        PROVE  resv'[k].status \in {resv[k].status, "NONE"}
    BY <1>1, <2>6 DEF DeleteBudget, ResetConsumption, NoReservation
  <2>7. CASE UNCHANGED resv
    BY <2>7
  <2>8. QED
    BY <1>1, <2>3, <2>4, <2>5, <2>6, <2>7, ReserveRows
       DEF Next, ServiceNext, AdminNext, RejectBatch, SetBudget, InitDb, vars
<1>2. TypeOK /\ IssuedRows /\ [Next]_vars =>
         \A k \in Slots : resv[k].status \in Resolved => resv'[k].status \in {resv[k].status, "NONE"}
  BY <1>1
<1>3. QED
  BY <1>2, IssuedHolds, PTL DEF Spec, ResolutionIsFinal

\* The ledger is charged exactly for the reservations that turn into executions;
\* beyond that it is only cleared by an administrator and restored by a process
\* start: Spec => ChargedExactlyOnce.
THEOREM LedgerExact == Spec => ChargedExactlyOnce
<1> DEFINE Exact(t) == \/ consumed'[t] = consumed[t] + Cardinality(NewlyCharged(t))
                       \/ consumed'[t] = 0 /\ NewlyCharged(t) = {}
                       \/ Restored(t)
<1>1. ASSUME TypeOK, IssuedRows, [Next]_vars, NEW t \in Targets
      PROVE  Exact(t)
  <2>0. consumed[t] \in Nat
    BY <1>1 DEF TypeOK
  <2>1. ASSUME NEW K \in SUBSET Slots, NewlyCharged(t) = Of(K, t), consumed' = Charge(consumed, K)
        PROVE  Exact(t)
    BY <2>1 DEF Charge, Of
  <2>2. ASSUME consumed'[t] = consumed[t], NewlyCharged(t) = {}
        PROVE  Exact(t)
    BY <2>0, <2>2, FS_EmptySet
  <2>3. ASSUME NEW K \in SUBSET Slots, NEW status \in Charged, NEW lag,
               \A k \in K : resv[k].status = "RESERVED", ChargeAs(K, status, lag)
        PROVE  Exact(t)
    <3>1. NewlyCharged(t) = Of(K, t)
      BY <2>3 DEF ChargeAs, Settle, NewlyCharged, Of, Charged
    <3>2. QED
      BY <2>1, <2>3, <3>1 DEF ChargeAs
  <2>4. ASSUME NEW b \in Batches, NEW S \in Requests, NEW lag \in Lags, NEW clean \in BOOLEAN,
               Reserve(b, S, lag, clean)
        PROVE  Exact(t)
    <3>1. NewlyCharged(t) = Of(Expired(lag), t)
      BY <1>1, <2>4, ReserveRows, SweepEffect DEF NewlyCharged, Of, Charged
    <3>2. QED
      BY <2>1, <2>4, <3>1, SweepEffect DEF Reserve, SweptLedger
  <2>5. ASSUME NEW b \in Batches, NEW S \in Requests
        PROVE  Open(b, S) \in SUBSET Slots /\ \A k \in Open(b, S) : resv[k].status = "RESERVED"
    BY DEF Open, Requests, Slots
  <2>6. ASSUME NEW b \in Batches, NEW S \in Requests, NEW lag \in Lags,
               Commit(b, S, lag) \/ FailClosed(b, S, lag)
        PROVE  Exact(t)
    BY <2>3, <2>5, <2>6 DEF Commit, FailClosed, Charged
  <2>7. ASSUME NEW b \in Batches, NEW S \in Requests, NEW lag \in Lags, Release(b, S, lag)
        PROVE  Exact(t)
    <3>1. NewlyCharged(t) = {}
      BY <2>7 DEF Release, Settle, NewlyCharged, Charged
    <3>2. QED
      BY <2>2, <2>7, <3>1 DEF Release
  <2>8. CASE Tick
    <3>1. NewlyCharged(t) = {}
      BY <1>1, <2>8 DEF Tick, NewlyCharged, Charged, TypeOK, Reservation
    <3>2. QED
      BY <2>2, <2>8, <3>1 DEF Tick
  <2>9. ASSUME NEW lag \in Lags, GetBudget(lag)
        PROVE  Exact(t)
    BY <2>3, <2>9, SweepEffect DEF GetBudget, Charged
  <2>10. ASSUME NEW u \in Targets, DeleteBudget(u) \/ ResetConsumption(u)
         PROVE  Exact(t)
    <3>1. NewlyCharged(t) = {}
      BY <2>10 DEF DeleteBudget, ResetConsumption, NewlyCharged, Charged, NoReservation
    <3>2. consumed'[t] = 0 \/ consumed'[t] = consumed[t]
      BY <1>1, <2>10 DEF DeleteBudget, ResetConsumption, TypeOK
    <3>3. QED
      BY <2>2, <3>1, <3>2
  <2>11. CASE UNCHANGED <<consumed, resv>>
    <3>1. NewlyCharged(t) = {}
      BY <2>11 DEF NewlyCharged, Charged
    <3>2. QED
      BY <2>2, <2>11, <3>1
  <2>12. CASE InitDb
    <3>1. NewlyCharged(t) = {}
      BY <2>12 DEF InitDb, NewlyCharged, Charged
    <3>2. QED
      BY <1>1, <2>2, <2>12, <3>1, StartRestores
  <2>13. QED
    BY <1>1, <2>4, <2>6, <2>7, <2>8, <2>9, <2>10, <2>11, <2>12
       DEF Next, ServiceNext, AdminNext, RejectBatch, SetBudget, vars
<1>2. TypeOK /\ IssuedRows /\ [Next]_vars => \A t \in Targets : Exact(t)
  BY <1>1
<1>3. QED
  BY <1>2, IssuedHolds, PTL DEF Spec, ChargedExactlyOnce

\* An execution that still counts against a rolling window is never forgotten:
\* FixedSpec => WindowHistoryKept.
THEOREM HistoryOfWindowKept == FixedSpec => WindowHistoryKept
<1>1. ASSUME TypeOK, [ServiceNext]_vars, NEW k \in Slots,
             hist[k] # NoExecution, Window(k[2]) > 0, hist[k] <= Window(k[2])
      PROVE  hist'[k] # NoExecution
  <2>1. hist[k] \in Nat /\ Window(k[2]) \in Nat
    BY <1>1, LimitAssumption DEF TypeOK, Window, NoRow, Slots
  <2>2. \A lag \in Lags : lag \in Nat
    BY TimeAssumption DEF Lags
  <2>3. ASSUME NEW K, NEW lag \in Lags
        PROVE  /\ Execute(hist, K, lag)[k] # NoExecution
               /\ PruneHistory(Execute(hist, K, lag), lag)[k] # NoExecution
    <3>1. Execute(hist, K, lag)[k] \in {lag, hist[k]}
      BY DEF Execute
    <3>2. HistoryKept(k[2]) = Window(k[2])
      BY <1>1 DEF HistoryKept
    <3>3. ~(Execute(hist, K, lag)[k] > Window(k[2]) + lag)
      BY <1>1, <2>1, <2>2, <3>1
    <3>4. QED
      BY <2>1, <2>2, <3>1, <3>2, <3>3 DEF PruneHistory, NoExecution
  <2>4. ASSUME NEW b \in Batches, NEW S \in Requests, NEW lag \in Lags, NEW clean \in BOOLEAN,
               Reserve(b, S, lag, clean)
        PROVE  hist'[k] # NoExecution
    BY <2>3, <2>4 DEF Reserve, SweptHistory
  <2>5. ASSUME NEW b \in Batches, NEW S \in Requests, NEW lag \in Lags,
               Commit(b, S, lag) \/ FailClosed(b, S, lag)
        PROVE  hist'[k] # NoExecution
    BY <2>3, <2>5 DEF Commit, FailClosed, ChargeAs
  <2>6. CASE Tick
    <3>1. Older(hist[k]) \in Nat
      BY <2>1, TimeAssumption DEF Older
    <3>2. QED
      BY <1>1, <2>6, <3>1 DEF Tick, NoExecution
  <2>7. CASE UNCHANGED hist
    BY <1>1, <2>7
  <2>8. CASE InitDb
    BY <1>1, <2>8 DEF InitDb
  <2>9. QED
    BY <1>1, <2>4, <2>5, <2>6, <2>7, <2>8 DEF ServiceNext, Release, RejectBatch, vars
<1>2. TypeOK /\ [ServiceNext]_vars =>
         \A k \in Slots : hist[k] # NoExecution /\ Window(k[2]) > 0 /\ hist[k] <= Window(k[2])
            => hist'[k] # NoExecution
  BY <1>1
<1>3. QED
  BY <1>2, FixedTypes, PTL DEF FixedSpec, WindowHistoryKept

-----------------------------------------------------------------------------
(* The store implements the ledger. *)

\* The ledger counts as the store does.
LEMMA SameCount == \A S : Ledger!Cardinality(S) = Cardinality(S)
  BY DEF Ledger!Cardinality, Cardinality

\* Resolving open reservations as executed spends their slots.
LEMMA ChargeSpends ==
    ASSUME NEW K \in SUBSET Slots, NEW status \in Charged, NEW lag,
           \A k \in K : resv[k].status = "RESERVED", ChargeAs(K, status, lag),
           budget' = budget, issued' = issued
    PROVE  Ledger!SpendSlots(K)
<1>1. \A k \in Slots : resv'[k].status = "RESERVED" <=> resv[k].status = "RESERVED" /\ k \notin K
  BY SettledStatus DEF ChargeAs, Resolved
<1>2. /\ K \subseteq {k \in Slots : resv[k].status = "RESERVED"}
      /\ {k \in Slots : resv'[k].status = "RESERVED"}
            = {k \in Slots : resv[k].status = "RESERVED"} \ K
  BY <1>1
<1>3. consumed' = [t \in Targets |-> consumed[t] + Cardinality({k \in K : k[2] = t})]
  BY DEF ChargeAs, Charge
<1>4. Ledger!Spend(K)
  BY <1>2, <1>3, SameCount DEF Ledger!Spend, Ledger!InTarget
<1>5. QED
  BY <1>2, <1>4 DEF Ledger!SpendSlots, Limit, Window

\* Releasing open reservations gives their slots back.
LEMMA ReleaseGivesBack ==
    ASSUME NEW b \in Batches, NEW S \in Requests, NEW lag, Release(b, S, lag)
    PROVE  Ledger!GiveBack(Open(b, S))
<1>1. Open(b, S) \in SUBSET Slots /\ \A k \in Open(b, S) : resv[k].status = "RESERVED"
  BY DEF Open, Requests, Slots
<1>2. \A k \in Slots :
          resv'[k].status = "RESERVED" <=> resv[k].status = "RESERVED" /\ k \notin Open(b, S)
  BY <1>1, SettledStatus DEF Release, Resolved
<1>3. QED
  BY <1>1, <1>2 DEF Release, Ledger!GiveBack, Limit, Window

\* An admission leaves open what the sweep left, and opens its own slots.
LEMMA ReserveOpens ==
    ASSUME TypeOK, IssuedRows, NEW b \in Batches, NEW S \in Requests, NEW lag \in Lags,
           NEW clean \in BOOLEAN, Reserve(b, S, lag, clean)
    PROVE  {k \in Slots : resv'[k].status = "RESERVED"}
              = ({k \in Slots : resv[k].status = "RESERVED"} \ Expired(lag)) \cup ({b} \X S)
<1> DEFINE rows == IF clean THEN PruneReservations(SweptReservations(lag), lag)
                            ELSE SweptReservations(lag)
<1>1. {b} \X S \in SUBSET Slots
  BY DEF Requests, Slots
<1>2. \A k \in Slots : rows[k].status = "RESERVED" => SweptReservations(lag)[k].status = "RESERVED"
  BY DEF PruneReservations, NoReservation
<1>3. resv' = Settle(rows, {b} \X S, "RESERVED", lag)
  BY DEF Reserve
<1> HIDE DEF rows
<1>4. \A k \in {b} \X S : resv'[k].status = "RESERVED"
  BY <1>1, <1>3 DEF Settle
<1>5. \A k \in Slots : resv'[k].status = "RESERVED" /\ k \notin {b} \X S
                          => resv[k].status = "RESERVED" /\ k \notin Expired(lag)
  BY <1>2, <1>3, SweepEffect DEF Settle
<1>6. \A k \in Slots : resv[k].status = "RESERVED" /\ k \notin Expired(lag)
                          => resv'[k].status = "RESERVED"
  BY ReserveRows
<1>7. QED
  BY <1>1, <1>4, <1>5, <1>6

\* An admission grants the batch its slots; those swept on the way are spent.
LEMMA ReserveGrants ==
    ASSUME TypeOK, IssuedRows, WithinTotalBudget', NEW b \in Batches, NEW S \in Requests,
           NEW lag \in Lags, NEW clean \in BOOLEAN, Reserve(b, S, lag, clean)
    PROVE  Ledger!LedgerNext
<1>1. /\ Expired(lag) \subseteq {k \in Slots : resv[k].status = "RESERVED"}
      /\ consumed' = [t \in Targets |-> consumed[t] + Cardinality({k \in Expired(lag) : k[2] = t})]
  BY SweepEffect DEF Reserve, SweptLedger, Charge
<1>2. Ledger!Spend(Expired(lag))
  BY <1>1, SameCount DEF Ledger!Spend, Ledger!InTarget
<1>3. ASSUME NEW t \in S
      PROVE  Ledger!Covered(t)
  <2>1. t \in Targets
    BY DEF Requests
  <2>2. budget' = budget
    BY DEF Reserve
  <2>3. {k \in {j \in Slots : resv'[j].status = "RESERVED"} : k[2] = t} = Reserved(resv', t)
    BY DEF Reserved
  <2>4. Limit(t) # NoLimit /\ Window(t) = 0
           => consumed'[t] + Cardinality(Reserved(resv', t)) <= Limit(t)
    BY <2>1, <2>2 DEF WithinTotalBudget, Debt, Limit, Window
  <2>5. QED
    BY <2>1, <2>3, <2>4, SameCount DEF Ledger!Covered, Ledger!InTarget
<1>4. b \notin issued /\ issued' = issued \cup {b} /\ budget' = budget
  BY DEF Reserve
<1>5. Ledger!Grant(b, S, Expired(lag))
  BY <1>2, <1>3, <1>4, ReserveOpens DEF Ledger!Grant, Limit, Window
<1>6. S \in SUBSET Targets
  BY DEF Requests
<1>7. QED
  BY <1>1, <1>5, <1>6 DEF Ledger!LedgerNext, Ledger!Grant, Ledger!Spend

\* Every transaction of the service is a step of the ledger, or invisible to it.
LEMMA LedgerStep ==
    ASSUME TypeOK, Recorded, IssuedRows, WithinTotalBudget', [ServiceNext]_vars
    PROVE  [Ledger!LedgerNext]_(Ledger!ledgerVars)
<1> USE DEF Ledger!SpendSlots, Ledger!GiveBack, Ledger!Spend
<1>1. ASSUME NEW b \in Batches, NEW S \in Requests
      PROVE  /\ Open(b, S) \in SUBSET Slots
             /\ Open(b, S) \in SUBSET {k \in Slots : resv[k].status = "RESERVED"}
             /\ \A k \in Open(b, S) : resv[k].status = "RESERVED"
  BY DEF Open, Requests, Slots
<1>2. ASSUME NEW b \in Batches, NEW S \in Requests, NEW lag \in Lags, NEW clean \in BOOLEAN,
             Reserve(b, S, lag, clean)
      PROVE  Ledger!LedgerNext
  BY <1>2, ReserveGrants
<1>3. ASSUME NEW b \in Batches, NEW S \in Requests, NEW lag \in Lags,
             Commit(b, S, lag) \/ FailClosed(b, S, lag)
      PROVE  Ledger!LedgerNext
  <2>1. Ledger!SpendSlots(Open(b, S))
    BY <1>1, <1>3, ChargeSpends DEF Commit, FailClosed, Charged
  <2>2. QED
    BY <1>1, <2>1 DEF Ledger!LedgerNext
<1>4. ASSUME NEW b \in Batches, NEW S \in Requests, NEW lag \in Lags, Release(b, S, lag)
      PROVE  Ledger!LedgerNext
  BY <1>1, <1>4, ReleaseGivesBack DEF Ledger!LedgerNext
<1>5. ASSUME Tick \/ UNCHANGED vars
      PROVE  UNCHANGED Ledger!ledgerVars
  <2>1. UNCHANGED <<budget, consumed, issued>>
    BY <1>5 DEF Tick, vars
  <2>2. \A k \in Slots : resv'[k].status = resv[k].status
    BY <1>5 DEF Tick, vars, TypeOK, Reservation
  <2>3. {k \in Slots : resv'[k].status = "RESERVED"} = {k \in Slots : resv[k].status = "RESERVED"}
    BY <2>2
  <2>4. QED
    BY <2>1, <2>3 DEF Ledger!ledgerVars, Limit, Window
<1>6. CASE InitDb
  <2>1. UNCHANGED <<budget, consumed, resv, issued>>
    BY <1>6, StartIsIdle DEF InitDb
  <2>2. QED
    BY <2>1 DEF Ledger!ledgerVars, Limit, Window
<1>7. QED
  BY <1>2, <1>3, <1>4, <1>5, <1>6 DEF ServiceNext, RejectBatch

\* The tables, issued batches and total budgets hold together with fixed budgets.
LEMMA FixedInvariant == FixedSpec => [](TypeOK /\ Recorded /\ IssuedRows /\ WithinTotalBudget)
<1>1. Init => IssuedRows
  BY DEF Init, IssuedRows, NoReservation
<1>2. TypeOK /\ IssuedRows /\ [ServiceNext]_vars => IssuedRows'
  BY IssuedStep, ServiceStep
<1>3. QED
  BY <1>1, <1>2, FixedTables, TotalBudgetRespected, PTL DEF FixedSpec

\* As long as budgets stay as configured, the store implements the abstract
\* ledger of slots: FixedSpec => KeepsTheLedger.
THEOREM ImplementsLedger == FixedSpec => KeepsTheLedger
<1>1. Init => Ledger!LedgerInit
  BY DEF Init, Ledger!LedgerInit, NoReservation
<1>2. TypeOK /\ Recorded /\ IssuedRows /\ WithinTotalBudget' /\ [ServiceNext]_vars
         => [Ledger!LedgerNext]_(Ledger!ledgerVars)
  BY LedgerStep
<1>3. QED
  BY <1>1, <1>2, FixedInvariant, PTL DEF FixedSpec, KeepsTheLedger, Ledger!LedgerSpec
=============================================================================
