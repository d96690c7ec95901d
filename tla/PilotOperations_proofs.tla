------------------------ MODULE PilotOperations_proofs ------------------------
(***************************************************************************)
(* What a stale save of a pilot cannot do: the kill switch, the end of a   *)
(* pilot, its approvals and the evidence drawn from it hold for any number *)
(* of officers, banks and queries, and any quotas.                         *)
(*                                                                         *)
(* What it can do is take a charge back, and nothing else breaks a quota:  *)
(* QuotasHoldUnlessTakenBack.  ImplementsSwitch reads the pilot as the     *)
(* abstract publication switch.                                            *)
(***************************************************************************)
EXTENDS PilotOperations, FiniteSetTheorems, TLAPS

-----------------------------------------------------------------------------
(* The lifecycle operations. *)

Approval(p) == p.status \in {"AUTHORIZED", "ACTIVE", "PAUSED"} => FullyApproved(p)

\* What a lifecycle operation makes of a pilot row is a pilot row.
LEMMA MovedRow ==
    ASSUME NEW p \in PilotRow, NEW s \in PilotStatuses, NEW r \in Moved(p, s)
    PROVE  r \in PilotRow /\ r.status = s /\ r.approvals = p.approvals
           /\ s \in Transitions[p.status]
  BY DEF Moved, PilotRow

LEMMA RecordedRow ==
    ASSUME NEW p \in PilotRow, NEW a \in Approvers
    PROVE  Recorded(p, a) \in PilotRow /\ Recorded(p, a).status = p.status
  BY DEF Recorded, PilotRow

\* PAUSED and ACTIVE are only reached from states past approval.
LEMMA OnlyFromApproved ==
    ASSUME NEW s \in PilotStatuses
    PROVE  /\ "AUTHORIZED" \in Transitions[s] => s = "AWAITING_APPROVAL"
           /\ "ACTIVE" \in Transitions[s] => s \in {"AUTHORIZED", "PAUSED"}
           /\ "PAUSED" \in Transitions[s] => s = "ACTIVE"
  BY DEF Transitions, PilotStatuses, Terminal

\* The copies an officer may come to hold of a pilot p.
Changed(p) ==
    Provisioned(p) \cup Preflighted(p) \cup (UNION {Approved(p, a) : a \in Approvers})
    \cup Activated(p) \cup Paused(p) \cup Resumed(p) \cup Moved(p, "ABORTED")
    \cup Moved(p, "COMPLETED")

\* No operation changes the copy of a pilot into one past approval that some
\* institution or the operator has not approved.
LEMMA ChangedRow ==
    ASSUME NEW p \in PilotRow, Approval(p), NEW c \in Changed(p)
    PROVE  c \in PilotRow /\ Approval(c)
  <1>1. CASE c \in Provisioned(p)
    BY <1>1 DEF Provisioned, NewPilot, PilotRow, PilotStatuses, Approvers, Approval
  <1>2. CASE c \in Preflighted(p)
    <2> DEFINE probing == IF p.status = "DRAFT" THEN Moved(p, "PREFLIGHT") ELSE {p}
    <2>1. \A r \in probing : r \in PilotRow
      BY MovedRow DEF PilotStatuses
    <2>2. PICK r \in probing : c \in Moved(r, "AWAITING_APPROVAL") \cup Moved(r, "FAILED")
      BY <1>2 DEF Preflighted
    <2>3. c \in PilotRow /\ c.status \in {"AWAITING_APPROVAL", "FAILED"}
      BY <2>1, <2>2, MovedRow DEF PilotStatuses, Terminal
    <2> QED  BY <2>3 DEF Approval
  <1>3. ASSUME NEW a \in Approvers, c \in Approved(p, a)
        PROVE  c \in PilotRow /\ Approval(c)
    <2>1. p.status \in {"AWAITING_APPROVAL", "PREFLIGHT", "DRAFT"}
      BY <1>3 DEF Approved
    <2>2. CASE c = Recorded(p, a)
      BY <2>1, <2>2, RecordedRow DEF Approval
    <2>3. CASE FullyApproved(Recorded(p, a)) /\ c \in Moved(Recorded(p, a), "AUTHORIZED")
      BY <2>3, RecordedRow, MovedRow DEF Approval, FullyApproved, PilotStatuses
    <2> QED  BY <1>3, <2>1, <2>2, <2>3 DEF Approved
  <1>4. CASE c \in Activated(p)
    BY <1>4, MovedRow DEF Activated, Approval, FullyApproved, PilotStatuses
  <1>5. CASE c \in Paused(p)
    BY <1>5, MovedRow DEF Paused, Approval, FullyApproved, PilotStatuses
  <1>6. CASE c \in Resumed(p)
    BY <1>6, MovedRow DEF Resumed, Approval, FullyApproved, PilotStatuses
  <1>7. CASE c \in Moved(p, "ABORTED") \cup Moved(p, "COMPLETED")
    BY <1>7, MovedRow DEF Approval, PilotStatuses, Terminal
  <1> QED  BY <1>1, <1>2, <1>3, <1>4, <1>5, <1>6, <1>7 DEF Changed

-----------------------------------------------------------------------------
(* The inductive invariant. *)

\* A copy past approval is fully approved, whenever it will be saved.
CopiesApproved == \A o \in Officers : copy[o] # Nothing => Approval(copy[o])

\* A query that has not asked holds no slot, and the publication of one that
\* is prepared was not finalized by anybody else.
StagesMatch ==
    \A q \in Queries :
        /\ stage[q] = "new" => reservation[q] = "NONE"
        /\ stage[q] = "prepared" =>
             reservation[q] \in {"PUBLICATION_PREPARED", "PUBLICATION_REJECTED"}

PilotInv ==
    /\ PilotTypeOK
    /\ ActiveIsApproved /\ CopiesApproved
    /\ StagesMatch
    /\ NothingPendingWhenStopped
    /\ EvidenceWasPublished

\* An officer changes a copy; the pilot, the slots and the evidence stay.
Loading(o) ==
    /\ \E c \in Changed(pilot) : copy' = [copy EXCEPT ![o] = c]
    /\ UNCHANGED <<pilot, reservation, stage, published, evidence>>

LEMMA LifecycleSteps ==
    ASSUME NEW o \in Officers, Lifecycle(o)
    PROVE  Loading(o) \/ SavePilot(o)
  <1>1. ASSUME NEW copies, Load(o, copies), copies \subseteq Changed(pilot)
        PROVE  Loading(o)
    BY <1>1 DEF Load, Loading
  <1>2. /\ Provisioned(pilot) \subseteq Changed(pilot)
        /\ Preflighted(pilot) \subseteq Changed(pilot)
        /\ \A a \in Approvers : Approved(pilot, a) \subseteq Changed(pilot)
        /\ Activated(pilot) \subseteq Changed(pilot)
        /\ Paused(pilot) \subseteq Changed(pilot)
        /\ Resumed(pilot) \subseteq Changed(pilot)
        /\ Moved(pilot, "ABORTED") \subseteq Changed(pilot)
        /\ Moved(pilot, "COMPLETED") \subseteq Changed(pilot)
    BY Zenon DEF Changed
  <1> QED
    BY <1>1, <1>2 DEF Lifecycle, ProvisionPilot, RunPreflight, ActivatePilot, PausePilot,
       ResumePilot, AbortPilot, CompletePilot, ApprovePilot

LEMMA PilotInitially == ASSUME PilotAssumption, PilotInit PROVE PilotInv
  <1>1. pilot \in PilotRow /\ pilot.status = "ABSENT"
    BY DEF PilotInit, NewPilot, PilotRow, PilotStatuses, Approvers
  <1>2. PilotTypeOK
    BY <1>1 DEF PilotInit, PilotTypeOK, ReservationStatuses, Stages
  <1> QED
    BY <1>1, <1>2 DEF PilotInit, PilotInv, ActiveIsApproved, CopiesApproved, StagesMatch,
       NothingPendingWhenStopped, EvidenceWasPublished, Stopped, Terminal

-----------------------------------------------------------------------------
(* What a step does to the reservations. *)

\* A step changes the reservation of a query, if at all, in one of these ways;
\* a stop rejects what is prepared.
SlotMoves(q) ==
    \/ reservation'[q] = reservation[q]
    \/ /\ reservation'[q] = "RESERVED" /\ pilot.status = "ACTIVE"
       /\ reservation[q] = "NONE"
    \/ reservation'[q] = "RELEASED" /\ reservation[q] = "RESERVED"
    \/ reservation'[q] = "COMMITTED" /\ pilot.status = "ACTIVE" /\ reservation[q] = "RESERVED"
    \/ reservation'[q] = "ABORTED" /\ reservation[q] = "RESERVED"
    \/ /\ reservation'[q] = "PUBLICATION_PREPARED" /\ pilot.status = "ACTIVE"
       /\ pilot'.status = "ACTIVE" /\ reservation[q] = "COMMITTED"
    \/ /\ reservation'[q] = "PUBLICATION_REJECTED"
       /\ reservation[q] \in {"COMMITTED", "PUBLICATION_PREPARED", "PUBLICATION_REJECTED"}
    \/ reservation'[q] = "PUBLISHED" /\ pilot.status = "ACTIVE"
       /\ reservation[q] = "PUBLICATION_PREPARED"
    \/ reservation'[q] = "PUBLICATION_FAILED" /\ stage[q] = "unwritten"

LEMMA MarkedSlots ==
    ASSUME PilotTypeOK, NEW q \in Queries, NEW s, Mark(q, s)
    PROVE  reservation'[q] = s /\ \A r \in Queries \ {q} : reservation'[r] = reservation[r]
  BY DEF PilotTypeOK, Mark

LEMMA SlotsMove ==
    ASSUME PilotInv, [PilotNext]_pilotVars
    PROVE  \A q \in Queries : SlotMoves(q)
  <1> USE DEF PilotInv
  <1>1. ASSUME NEW o \in Officers, Lifecycle(o) PROVE \A q \in Queries : SlotMoves(q)
    BY <1>1, LifecycleSteps DEF Loading, SavePilot, RejectPrepared, SlotMoves
  <1>2. ASSUME NEW q \in Queries, Query(q) PROVE \A r \in Queries : SlotMoves(r)
    <2>1. CASE ReserveQuerySlot(q)
      BY <2>1, MarkedSlots DEF ReserveQuerySlot, SlotMoves, StagesMatch
    <2>2. CASE ReleaseQueryReservation(q)
      BY <2>2, MarkedSlots DEF ReleaseQueryReservation, SlotMoves
    <2>3. CASE CommitQueryReservation(q)
      BY <2>3, MarkedSlots DEF CommitQueryReservation, SlotMoves
    <2>4. CASE PrepareQueryPublication(q)
      BY <2>4, MarkedSlots DEF PrepareQueryPublication, SlotMoves
    <2>5. CASE FinalizeQueryPublication(q)
      BY <2>5, MarkedSlots DEF FinalizeQueryPublication, SlotMoves, StagesMatch
    <2>6. CASE RecordPublicationFailure(q)
      BY <2>6, MarkedSlots DEF RecordPublicationFailure, SlotMoves
    <2>7. CASE RevalidatePilotActive(q) \/ PublishSignalRecord(q)
               \/ CheckEvidence(q) \/ AttachEvidence(q)
      BY <2>7 DEF RevalidatePilotActive, PublishSignalRecord, CheckEvidence,
         AttachEvidence, SlotMoves
    <2> QED  BY <1>2, <2>1, <2>2, <2>3, <2>4, <2>5, <2>6, <2>7 DEF Query
  <1>3. CASE UNCHANGED pilotVars
    BY <1>3 DEF pilotVars, SlotMoves
  <1> QED  BY <1>1, <1>2, <1>3 DEF PilotNext

-----------------------------------------------------------------------------
(* Each part of the invariant is kept by every step. *)

\* SavePilot leaves a pilot row: the one there was, or the copy.
LEMMA SavedRow ==
    ASSUME PilotInv, NEW o \in Officers, SavePilot(o)
    PROVE  /\ pilot' \in {pilot, copy[o]} /\ pilot' \in PilotRow
           /\ Approval(pilot')
           /\ copy' \in [Officers -> PilotRow \cup {Nothing}]
           /\ \A r \in Officers : copy'[r] \in {copy[r], Nothing}
  BY DEF PilotInv, PilotTypeOK, SavePilot, CopiesApproved, ActiveIsApproved, Approval

LEMMA CountedRow ==
    ASSUME PilotAssumption, PilotTypeOK, NEW q \in Queries
    PROVE  /\ Counted(q) \in PilotRow
           /\ Counted(q).status = pilot.status /\ Counted(q).approvals = pilot.approvals
  <1>1. pilot.byBank \in [Banks -> Nat] /\ BankOf[q] \in Banks /\ pilot.executed \in Nat
    BY DEF PilotTypeOK, PilotRow, PilotAssumption
  <1> DEFINE charged == [pilot.byBank EXCEPT ![BankOf[q]] = pilot.byBank[BankOf[q]] + 1]
  <1>2. charged \in [Banks -> Nat]
    BY <1>1
  <1> DEFINE ran == [pilot EXCEPT !.executed = pilot.executed + 1]
  <1>3. ran \in PilotRow /\ ran.status = pilot.status /\ ran.approvals = pilot.approvals
    BY <1>1 DEF PilotTypeOK, PilotRow
  <1>4. Counted(q) = [ran EXCEPT !.byBank = charged]
    BY DEF Counted, PilotTypeOK, PilotRow
  <1> HIDE DEF charged, ran
  <1> QED  BY <1>2, <1>3, <1>4 DEF PilotRow

LEMMA RowStep ==
    ASSUME PilotAssumption, PilotInv, [PilotNext]_pilotVars
    PROVE  /\ pilot' \in PilotRow /\ copy' \in [Officers -> PilotRow \cup {Nothing}]
           /\ ActiveIsApproved' /\ CopiesApproved'
  <1> USE DEF PilotInv
  <1>1. ASSUME NEW o \in Officers, Loading(o)
        PROVE  /\ pilot' \in PilotRow /\ copy' \in [Officers -> PilotRow \cup {Nothing}]
               /\ ActiveIsApproved' /\ CopiesApproved'
    <2>1. Approval(pilot) /\ pilot \in PilotRow
      BY DEF ActiveIsApproved, Approval, PilotTypeOK
    <2>2. PICK c \in Changed(pilot) : copy' = [copy EXCEPT ![o] = c]
      BY <1>1 DEF Loading
    <2>3. c \in PilotRow /\ Approval(c)
      BY <2>1, ChangedRow
    <2>4. \A r \in Officers : copy'[r] = IF r = o THEN c ELSE copy[r]
      BY <2>2 DEF PilotTypeOK
    <2>5. CopiesApproved'
      BY <2>3, <2>4 DEF CopiesApproved, Approval, FullyApproved
    <2> QED
      BY <1>1, <2>2, <2>3, <2>5 DEF Loading, PilotTypeOK, ActiveIsApproved, FullyApproved
  <1>2. ASSUME NEW o \in Officers, SavePilot(o)
        PROVE  /\ pilot' \in PilotRow /\ copy' \in [Officers -> PilotRow \cup {Nothing}]
               /\ ActiveIsApproved' /\ CopiesApproved'
    <2>1. CopiesApproved'
      BY <1>2, SavedRow DEF CopiesApproved, Approval, FullyApproved
    <2> QED
      BY <1>2, <2>1, SavedRow DEF ActiveIsApproved, Approval, FullyApproved
  <1>3. ASSUME NEW q \in Queries, Query(q)
        PROVE  UNCHANGED copy /\ pilot' \in {pilot, Counted(q)}
    BY <1>3 DEF Query, ReserveQuerySlot, RevalidatePilotActive, ReleaseQueryReservation,
       CommitQueryReservation, PrepareQueryPublication, FinalizeQueryPublication,
       PublishSignalRecord, RecordPublicationFailure, CheckEvidence, AttachEvidence
  <1>4. ASSUME NEW q \in Queries, Query(q)
        PROVE  /\ pilot' \in PilotRow /\ copy' \in [Officers -> PilotRow \cup {Nothing}]
               /\ ActiveIsApproved' /\ CopiesApproved'
    BY <1>3, <1>4, CountedRow
       DEF PilotTypeOK, ActiveIsApproved, CopiesApproved, Approval, FullyApproved
  <1>5. CASE UNCHANGED pilotVars
    BY <1>5 DEF pilotVars, PilotTypeOK, ActiveIsApproved, CopiesApproved, Approval, FullyApproved
  <1> QED  BY <1>1, <1>2, <1>4, <1>5, LifecycleSteps DEF PilotNext

\* The functions a query's step changes stay functions.
LEMMA TypeStep ==
    ASSUME PilotAssumption, PilotInv, [PilotNext]_pilotVars
    PROVE  PilotTypeOK'
  <1> DEFINE Rest == /\ reservation' \in [Queries -> ReservationStatuses]
                     /\ stage' \in [Queries -> Stages]
                     /\ published' \subseteq Queries
                     /\ evidence' \in [Queries -> {"none", "checked", "attached"}]
  <1> USE DEF PilotInv, PilotTypeOK, ReservationStatuses, Stages
  <1>1. ASSUME NEW o \in Officers, Lifecycle(o) PROVE Rest
    BY <1>1, LifecycleSteps DEF Loading, SavePilot, RejectPrepared
  <1>2. ASSUME NEW q \in Queries, Query(q) PROVE Rest
    <2>1. CASE ReserveQuerySlot(q) \/ RevalidatePilotActive(q) \/ ReleaseQueryReservation(q)
      BY <2>1 DEF ReserveQuerySlot, RevalidatePilotActive, ReleaseQueryReservation, Mark, Goto
    <2>2. CASE CommitQueryReservation(q) \/ PrepareQueryPublication(q)
      BY <2>2 DEF CommitQueryReservation, PrepareQueryPublication, Mark, Goto
    <2>3. CASE FinalizeQueryPublication(q) \/ RecordPublicationFailure(q)
      BY <2>3 DEF FinalizeQueryPublication, RecordPublicationFailure, Mark, Goto
    <2>4. CASE PublishSignalRecord(q)
      BY <2>4 DEF PublishSignalRecord, Goto
    <2>5. CASE CheckEvidence(q) \/ AttachEvidence(q)
      BY <2>5 DEF CheckEvidence, AttachEvidence
    <2> QED  BY <1>2, <2>1, <2>2, <2>3, <2>4, <2>5 DEF Query
  <1>3. CASE UNCHANGED pilotVars
    BY <1>3 DEF pilotVars
  <1>4. Rest
    BY <1>1, <1>2, <1>3 DEF PilotNext
  <1> QED  BY <1>4, RowStep

LEMMA StagesStep ==
    ASSUME PilotInv, [PilotNext]_pilotVars
    PROVE  StagesMatch'
  <1> USE DEF PilotInv
  <1>1. ASSUME NEW q \in Queries, NEW s \in Stages, Goto(q, s)
        PROVE  stage'[q] = s /\ \A r \in Queries \ {q} : stage'[r] = stage[r]
    BY <1>1 DEF Goto, PilotTypeOK
  <1>2. ASSUME NEW o \in Officers, Lifecycle(o) PROVE StagesMatch'
    BY <1>2, LifecycleSteps DEF Loading, SavePilot, RejectPrepared, StagesMatch
  <1>3. ASSUME NEW q \in Queries, Query(q) PROVE StagesMatch'
    <2>1. CASE ReserveQuerySlot(q)
      BY <2>1, <1>1, MarkedSlots DEF ReserveQuerySlot, StagesMatch, Stages
    <2>2. CASE RevalidatePilotActive(q)
      BY <2>2, <1>1 DEF RevalidatePilotActive, StagesMatch, Stages
    <2>3. CASE ReleaseQueryReservation(q)
      BY <2>3, <1>1, MarkedSlots DEF ReleaseQueryReservation, StagesMatch, Stages
    <2>4. CASE CommitQueryReservation(q)
      BY <2>4, <1>1, MarkedSlots DEF CommitQueryReservation, StagesMatch, Stages
    <2>5. CASE PrepareQueryPublication(q)
      BY <2>5, <1>1, MarkedSlots DEF PrepareQueryPublication, StagesMatch, Stages
    <2>6. CASE FinalizeQueryPublication(q)
      BY <2>6, <1>1, MarkedSlots DEF FinalizeQueryPublication, StagesMatch, Stages
    <2>7. CASE PublishSignalRecord(q)
      BY <2>7, <1>1 DEF PublishSignalRecord, StagesMatch, Stages
    <2>8. CASE RecordPublicationFailure(q)
      BY <2>8, <1>1, MarkedSlots DEF RecordPublicationFailure, StagesMatch, Stages
    <2>9. CASE CheckEvidence(q) \/ AttachEvidence(q)
      BY <2>9 DEF CheckEvidence, AttachEvidence, StagesMatch
    <2> QED
      BY <1>3, <2>1, <2>2, <2>3, <2>4, <2>5, <2>6, <2>7, <2>8, <2>9 DEF Query
  <1>4. CASE UNCHANGED pilotVars
    BY <1>4 DEF pilotVars, StagesMatch
  <1> QED  BY <1>2, <1>3, <1>4 DEF PilotNext

LEMMA PendingStep ==
    ASSUME PilotAssumption, PilotInv, [PilotNext]_pilotVars
    PROVE  NothingPendingWhenStopped'
  <1> USE DEF PilotInv
  <1>1. SUFFICES ASSUME pilot'.status \in Stopped, NEW q \in Queries
                 PROVE  reservation'[q] # "PUBLICATION_PREPARED"
    BY DEF NothingPendingWhenStopped, InState
  <1>2. ASSUME NEW o \in Officers, SavePilot(o)
        PROVE  reservation'[q] # "PUBLICATION_PREPARED"
    BY <1>1, <1>2 DEF SavePilot, RejectPrepared, NothingPendingWhenStopped, InState
  <1>3. ASSUME pilot'.status = pilot.status
        PROVE  reservation'[q] # "PUBLICATION_PREPARED"
    BY <1>1, <1>3, SlotsMove DEF SlotMoves, NothingPendingWhenStopped, InState, Stopped, Terminal
  <1>4. \/ \E o \in Officers : SavePilot(o)
        \/ pilot'.status = pilot.status
    <2>1. ASSUME NEW r \in Queries, Query(r) PROVE pilot'.status = pilot.status
      BY <2>1, CountedRow DEF Query, ReserveQuerySlot, RevalidatePilotActive,
         ReleaseQueryReservation, CommitQueryReservation, PrepareQueryPublication,
         FinalizeQueryPublication, PublishSignalRecord, RecordPublicationFailure,
         CheckEvidence, AttachEvidence
    <2>2. ASSUME NEW o \in Officers, Lifecycle(o)
          PROVE  SavePilot(o) \/ pilot'.status = pilot.status
      BY <2>2, LifecycleSteps DEF Loading
    <2> QED  BY <2>1, <2>2 DEF PilotNext, pilotVars
  <1> QED  BY <1>2, <1>3, <1>4

LEMMA EvidenceStep ==
    ASSUME PilotInv, [PilotNext]_pilotVars
    PROVE  EvidenceWasPublished'
  <1> USE DEF PilotInv
  <1>1. SUFFICES ASSUME NEW q \in Queries, evidence'[q] # "none"
                 PROVE  q \in published' /\ reservation'[q] \in {"PUBLISHED", "PUBLICATION_FAILED"}
    BY DEF EvidenceWasPublished
  <1>2. published \subseteq published'
    <2>1. ASSUME NEW r \in Queries, Query(r) PROVE published \subseteq published'
      BY <2>1 DEF Query, ReserveQuerySlot, RevalidatePilotActive,
         ReleaseQueryReservation, CommitQueryReservation, PrepareQueryPublication,
         FinalizeQueryPublication, PublishSignalRecord, RecordPublicationFailure,
         CheckEvidence, AttachEvidence
    <2>2. ASSUME NEW o \in Officers, Lifecycle(o) PROVE published \subseteq published'
      BY <2>2, LifecycleSteps DEF Loading, SavePilot
    <2> QED  BY <2>1, <2>2 DEF PilotNext, pilotVars
  <1>3. \/ evidence'[q] = evidence[q]
        \/ evidence[q] # "none"
        \/ q \in published /\ reservation[q] = "PUBLISHED"
    <2>1. ASSUME NEW r \in Queries, Query(r)
          PROVE  \/ UNCHANGED evidence
                 \/ CheckEvidence(r) \/ AttachEvidence(r)
      BY <2>1 DEF Query, ReserveQuerySlot, RevalidatePilotActive,
         ReleaseQueryReservation, CommitQueryReservation, PrepareQueryPublication,
         FinalizeQueryPublication, PublishSignalRecord, RecordPublicationFailure
    <2>2. ASSUME NEW o \in Officers, Lifecycle(o) PROVE UNCHANGED evidence
      BY <2>2, LifecycleSteps DEF Loading, SavePilot
    <2>3. ASSUME NEW r \in Queries, CheckEvidence(r) \/ AttachEvidence(r),
                 evidence'[q] # evidence[q]
          PROVE  evidence[q] # "none" \/ (q \in published /\ reservation[q] = "PUBLISHED")
      BY <2>3 DEF CheckEvidence, AttachEvidence, Attachable, PilotTypeOK
    <2> QED  BY <2>1, <2>2, <2>3 DEF PilotNext, pilotVars
  <1>4. q \in published /\ reservation[q] \in {"PUBLISHED", "PUBLICATION_FAILED"}
    BY <1>1, <1>3 DEF EvidenceWasPublished
  <1>5. reservation'[q] \in {"PUBLISHED", "PUBLICATION_FAILED"}
    BY <1>4, SlotsMove DEF SlotMoves
  <1> QED  BY <1>2, <1>4, <1>5

-----------------------------------------------------------------------------
(* Theorems. *)

LEMMA PilotInvariant == ASSUME PilotAssumption PROVE PilotSpec => []PilotInv
  <1>1. PilotInit => PilotInv
    BY PilotInitially
  <1>2. PilotInv /\ [PilotNext]_pilotVars => PilotInv'
    BY RowStep, TypeStep, StagesStep, PendingStep, EvidenceStep DEF PilotInv
  <1> QED  BY <1>1, <1>2, PTL DEF PilotSpec

\* Every reachable state of a pilot is well typed.
THEOREM PilotTypes == PilotSpec => []PilotTypeOK
  <1>1. PilotInv => PilotTypeOK
    BY DEF PilotInv
  <1> QED  BY <1>1, PilotAssumption, PilotInvariant, PTL

\* The kill switch of durable_pilot_store.py leaves no publication pending on a
\* paused or ended pilot, for any number of officers and queries.
THEOREM KillSwitch == PilotSpec => []NothingPendingWhenStopped
  <1>1. PilotInv => NothingPendingWhenStopped
    BY DEF PilotInv
  <1> QED  BY <1>1, PilotAssumption, PilotInvariant, PTL

\* An authorized, active or paused pilot carries every approval, whichever
\* copies of it were saved in whichever order.
THEOREM RunsApproved == PilotSpec => []ActiveIsApproved
  <1>1. PilotInv => ActiveIsApproved
    BY DEF PilotInv
  <1> QED  BY <1>1, PilotAssumption, PilotInvariant, PTL

\* Only signals whose publication was finalized and written become evidence.
THEOREM EvidencePublished == PilotSpec => []EvidenceWasPublished
  <1>1. PilotInv => EvidenceWasPublished
    BY DEF PilotInv
  <1> QED  BY <1>1, PilotAssumption, PilotInvariant, PTL

\* A completed, aborted or failed pilot stays ended, and nothing is reserved,
\* charged, prepared or published under it any more.
THEOREM EndIsFinal == PilotSpec => EndedForGood
  <1> DEFINE Ended ==
        pilot.status \in Terminal =>
          /\ pilot'.status \in Terminal
          /\ \A q \in Queries : reservation'[q] \in Refusing \cup {reservation[q]}
  <1>1. ASSUME PilotInv, [PilotNext]_pilotVars PROVE Ended
    <2>1. SUFFICES ASSUME pilot.status \in Terminal
                   PROVE  /\ pilot'.status \in Terminal
                          /\ \A q \in Queries : reservation'[q] \in Refusing \cup {reservation[q]}
      OBVIOUS
    <2>2. \A q \in Queries : reservation'[q] \in Refusing \cup {reservation[q]}
      BY <1>1, <2>1, SlotsMove DEF SlotMoves, Terminal, Refusing
    <2>3. pilot'.status \in Terminal
      <3>1. ASSUME NEW o \in Officers, Lifecycle(o) PROVE pilot'.status \in Terminal
        BY <2>1, <3>1, LifecycleSteps DEF Loading, SavePilot, RevivesTerminal
      <3>2. ASSUME NEW q \in Queries, Query(q) PROVE pilot'.status \in Terminal
        BY <1>1, <2>1, <3>2, PilotAssumption, CountedRow DEF PilotInv, Query, ReserveQuerySlot,
           RevalidatePilotActive, ReleaseQueryReservation, CommitQueryReservation,
           PrepareQueryPublication, FinalizeQueryPublication, PublishSignalRecord,
           RecordPublicationFailure, CheckEvidence, AttachEvidence
      <3> QED  BY <1>1, <2>1, <3>1, <3>2 DEF PilotNext, pilotVars
    <2> QED  BY <2>2, <2>3
  <1>2. PilotInv /\ [PilotNext]_pilotVars => [Ended]_pilotVars
    BY <1>1
  <1> QED  BY <1>2, PilotAssumption, PilotInvariant, PTL DEF PilotSpec, EndedForGood

-----------------------------------------------------------------------------
(* The quotas.  Only a save that takes charges back exceeds them. *)

\* The slots held and the slots charged by some of the queries, and those of a bank.
Held(S) == InState("RESERVED") \cap S
Spent(S) == Charged \cap S
QueriesOf(b) == {q \in Queries : BankOf[q] = b}

\* A counter of the row counts the slots charged, and the quota covers them
\* together with those held.
Accounted(n, S, quota) ==
    n = Cardinality(Spent(S)) /\ n + Cardinality(Held(S)) <= quota

\* The inductive invariant where nothing is taken back: no copy counts more than
\* the row, so that a save changes no counter.
RowCounts ==
    /\ Accounted(pilot.executed, Queries, PilotQuota)
    /\ \A b \in Banks : Accounted(pilot.byBank[b], QueriesOf(b), BankQuota)
CopiesBehind ==
    \A o \in Officers : copy[o] # Nothing =>
        /\ copy[o].executed <= pilot.executed
        /\ \A b \in Banks : copy[o].byBank[b] <= pilot.byBank[b]
WrittenArePublished ==
    \A q \in Queries : stage[q] \in {"finalized", "unwritten"} => reservation[q] = "PUBLISHED"

QuotaInv == RowCounts /\ CopiesBehind /\ WrittenArePublished

\* What NothingTakenBack says of a step.
Upwards ==
    /\ pilot'.executed >= pilot.executed
    /\ \A b \in Banks : pilot'.byBank[b] >= pilot.byBank[b]

\* Slots are finitely many.
LEMMA SlotsFinite ==
    ASSUME PilotAssumption, NEW S \in SUBSET Queries
    PROVE  /\ IsFiniteSet(Held(S)) /\ IsFiniteSet(Spent(S))
           /\ Cardinality(Held(S)) \in Nat /\ Cardinality(Spent(S)) \in Nat
  <1>1. IsFiniteSet(Queries) /\ Held(S) \subseteq Queries /\ Spent(S) \subseteq Queries
    BY DEF PilotAssumption, Held, Spent, InState, Charged
  <1>2. IsFiniteSet(Held(S)) /\ IsFiniteSet(Spent(S))
    BY <1>1, FS_Subset
  <1> QED  BY <1>2, FS_CardinalityType

\* What is accounted stays so, as slots are neither held nor charged anew, or one
\* is taken within the quota, given back, or charged.
LEMMA StillAccounted ==
    ASSUME PilotAssumption, NEW S \in SUBSET Queries, NEW n, NEW quota \in Nat,
           Accounted(n, S, quota), Spent(S)' = Spent(S),
           \/ Held(S)' = Held(S)
           \/ \E q : Held(S)' = Held(S) \cup {q} /\ n + Cardinality(Held(S)) < quota
           \/ \E q : Held(S)' = Held(S) \ {q}
    PROVE  n = Cardinality(Spent(S)') /\ n + Cardinality(Held(S)') <= quota
  <1>1. IsFiniteSet(Held(S)) /\ Cardinality(Held(S)) \in Nat /\ Cardinality(Spent(S)) \in Nat
    BY SlotsFinite
  <1>2. n \in Nat /\ n = Cardinality(Spent(S)) /\ n + Cardinality(Held(S)) <= quota
    BY <1>1 DEF Accounted
  <1>3. ASSUME NEW q, Held(S)' = Held(S) \cup {q}, n + Cardinality(Held(S)) < quota
        PROVE  n + Cardinality(Held(S)') <= quota
    <2>1. Cardinality(Held(S)') \in {Cardinality(Held(S)), Cardinality(Held(S)) + 1}
      BY <1>1, <1>3, FS_AddElement
    <2> QED  BY <1>1, <1>2, <1>3, <2>1
  <1>4. ASSUME NEW q, Held(S)' = Held(S) \ {q}
        PROVE  n + Cardinality(Held(S)') <= quota
    <2>1. Cardinality(Held(S)') \in {Cardinality(Held(S)), Cardinality(Held(S)) - 1}
      BY <1>1, <1>4, FS_RemoveElement
    <2> QED  BY <1>1, <1>2, <2>1
  <1> QED  BY <1>2, <1>3, <1>4

LEMMA ChargedAccounted ==
    ASSUME PilotAssumption, NEW S \in SUBSET Queries, NEW n, NEW quota \in Nat,
           Accounted(n, S, quota), NEW q \in Held(S), q \notin Spent(S),
           Spent(S)' = Spent(S) \cup {q}, Held(S)' = Held(S) \ {q}
    PROVE  n + 1 = Cardinality(Spent(S)') /\ n + 1 + Cardinality(Held(S)') <= quota
  <1>1. /\ IsFiniteSet(Held(S)) /\ Cardinality(Held(S)) \in Nat
        /\ IsFiniteSet(Spent(S)) /\ Cardinality(Spent(S)) \in Nat
    BY SlotsFinite
  <1>2. n \in Nat /\ n = Cardinality(Spent(S)) /\ n + Cardinality(Held(S)) <= quota
    BY <1>1 DEF Accounted
  <1>3. Cardinality(Spent(S)') = Cardinality(Spent(S)) + 1
    BY <1>1, FS_AddElement
  <1>4. Cardinality(Held(S)') = Cardinality(Held(S)) - 1
    BY <1>1, FS_RemoveElement
  <1> QED  BY <1>1, <1>2, <1>3, <1>4

\* A lifecycle operation keeps the counters of the pilot it loaded, or starts at 0.
LEMMA ChangedCounts ==
    ASSUME NEW p \in PilotRow, NEW c \in Changed(p)
    PROVE  /\ c.executed \in Nat /\ c.executed <= p.executed
           /\ \A b \in Banks : c.byBank[b] \in Nat /\ c.byBank[b] <= p.byBank[b]
  <1> DEFINE Same(r) == r \in PilotRow /\ r.executed = p.executed /\ r.byBank = p.byBank
  <1>1. ASSUME NEW r, Same(r), NEW s \in PilotStatuses, NEW m \in Moved(r, s)
        PROVE  Same(m)
    BY <1>1 DEF Moved, PilotRow
  <1>2. ASSUME NEW a \in Approvers PROVE Same(Recorded(p, a))
    BY <1>2 DEF Recorded, PilotRow
  <1>3. Same(p)
    OBVIOUS
  <1> HIDE DEF Same
  <1>4. CASE c \in Provisioned(p)
    BY <1>4 DEF Provisioned, NewPilot, PilotRow
  <1>5. CASE c \in Preflighted(p)
    <2> DEFINE probing == IF p.status = "DRAFT" THEN Moved(p, "PREFLIGHT") ELSE {p}
    <2>1. \A r \in probing : Same(r)
      BY <1>1, <1>3 DEF PilotStatuses
    <2>2. PICK r \in probing : c \in Moved(r, "AWAITING_APPROVAL") \cup Moved(r, "FAILED")
      BY <1>5 DEF Preflighted
    <2>3. Same(c)
      BY <1>1, <2>1, <2>2 DEF PilotStatuses, Terminal
    <2> QED  BY <2>3 DEF Same, PilotRow
  <1>6. ASSUME NEW a \in Approvers, c \in Approved(p, a) PROVE Same(c)
    BY <1>1, <1>2, <1>6 DEF Approved, PilotStatuses
  <1>7. CASE c \in Activated(p) \cup Paused(p) \cup Resumed(p) \cup Moved(p, "ABORTED")
                   \cup Moved(p, "COMPLETED")
    <2>1. Same(c)
      BY <1>1, <1>3, <1>7 DEF Activated, Paused, Resumed, PilotStatuses, Terminal
    <2> QED  BY <2>1 DEF Same, PilotRow
  <1>8. Same(c) => /\ c.executed \in Nat /\ c.executed <= p.executed
                   /\ \A b \in Banks : c.byBank[b] \in Nat /\ c.byBank[b] <= p.byBank[b]
    BY DEF Same, PilotRow
  <1> QED  BY <1>4, <1>5, <1>6, <1>7, <1>8 DEF Changed

\* The counters of a charged row.
LEMMA CountedCounts ==
    ASSUME PilotAssumption, PilotTypeOK, NEW q \in Queries
    PROVE  /\ Counted(q).executed = pilot.executed + 1
           /\ \A b \in Banks : Counted(q).byBank[b] =
                 IF b = BankOf[q] THEN pilot.byBank[b] + 1 ELSE pilot.byBank[b]
  <1>1. pilot.byBank \in [Banks -> Nat] /\ BankOf[q] \in Banks /\ pilot.executed \in Nat
    BY DEF PilotTypeOK, PilotRow, PilotAssumption
  <1> DEFINE charged == [pilot.byBank EXCEPT ![BankOf[q]] = pilot.byBank[BankOf[q]] + 1]
             ran == [pilot EXCEPT !.executed = pilot.executed + 1]
  <1>2. \A b \in Banks : charged[b] =
           IF b = BankOf[q] THEN pilot.byBank[b] + 1 ELSE pilot.byBank[b]
    BY <1>1
  <1>3. ran \in PilotRow /\ ran.executed = pilot.executed + 1
    BY <1>1 DEF PilotTypeOK, PilotRow
  <1>4. Counted(q) = [ran EXCEPT !.byBank = charged]
    BY DEF Counted, PilotTypeOK, PilotRow
  <1> HIDE DEF charged, ran
  <1> QED  BY <1>2, <1>3, <1>4 DEF PilotRow

\* A step that neither holds nor charges other slots, and keeps the counters.
LEMMA SlotsStay ==
    ASSUME RowCounts, InState("RESERVED")' = InState("RESERVED"), Charged' = Charged,
           pilot'.executed = pilot.executed, \A b \in Banks : pilot'.byBank[b] = pilot.byBank[b]
    PROVE  RowCounts'
  BY DEF RowCounts, Accounted, Held, Spent, QueriesOf

\* The step takes, gives back or charges the slot of a query.
LEMMA SlotTaken ==
    ASSUME PilotAssumption, PilotInv, RowCounts, NEW q \in Queries, ReserveQuerySlot(q)
    PROVE  RowCounts'
  <1>1. /\ UNCHANGED pilot /\ reservation[q] = "NONE"
        /\ reservation'[q] = "RESERVED" /\ \A r \in Queries \ {q} : reservation'[r] = reservation[r]
    BY MarkedSlots DEF ReserveQuerySlot, PilotInv, StagesMatch
  <1>2. InState("RESERVED")' = InState("RESERVED") \cup {q} /\ Charged' = Charged
    BY <1>1 DEF InState, Charged
  <1>3. /\ pilot.executed + Cardinality(InState("RESERVED")) < PilotQuota
        /\ pilot.byBank[BankOf[q]] + Cardinality(HeldSlots(BankOf[q])) < BankQuota
    BY DEF ReserveQuerySlot, WithinQuota
  <1>4. /\ Held(Queries) = InState("RESERVED")
        /\ \A b \in Banks : HeldSlots(b) = Held(QueriesOf(b))
    BY DEF Held, HeldSlots, QueriesOf, InState
  <1>5. Accounted(pilot.executed, Queries, PilotQuota)'
    <2>1. Spent(Queries)' = Spent(Queries) /\ Held(Queries)' = Held(Queries) \cup {q}
      BY <1>2 DEF Spent, Held
    <2> QED
      BY <1>1, <1>3, <1>4, <2>1, StillAccounted DEF RowCounts, PilotAssumption, Accounted
  <1>6. ASSUME NEW b \in Banks
        PROVE  Accounted(pilot.byBank[b], QueriesOf(b), BankQuota)'
    <2>1. /\ Spent(QueriesOf(b))' = Spent(QueriesOf(b))
          /\ \/ Held(QueriesOf(b))' = Held(QueriesOf(b))
             \/ b = BankOf[q] /\ Held(QueriesOf(b))' = Held(QueriesOf(b)) \cup {q}
      BY <1>2 DEF Spent, Held, QueriesOf
    <2>2. QueriesOf(b) \in SUBSET Queries /\ QueriesOf(b)' = QueriesOf(b)
      BY DEF QueriesOf
    <2> QED
      BY <1>1, <1>3, <1>4, <2>1, <2>2, StillAccounted DEF RowCounts, PilotAssumption, Accounted
  <1> QED  BY <1>5, <1>6 DEF RowCounts

LEMMA SlotGivenBack ==
    ASSUME PilotAssumption, PilotInv, RowCounts, UNCHANGED pilot, NEW q \in Queries,
           InState("RESERVED")' = InState("RESERVED") \ {q}, Charged' = Charged
    PROVE  RowCounts'
  <1>1. Accounted(pilot.executed, Queries, PilotQuota)'
    <2>1. Spent(Queries)' = Spent(Queries) /\ Held(Queries)' = Held(Queries) \ {q}
      BY DEF Spent, Held
    <2> QED
      BY <2>1, StillAccounted DEF RowCounts, PilotAssumption, Accounted
  <1>2. ASSUME NEW b \in Banks
        PROVE  Accounted(pilot.byBank[b], QueriesOf(b), BankQuota)'
    <2>1. /\ Spent(QueriesOf(b))' = Spent(QueriesOf(b))
          /\ Held(QueriesOf(b))' = Held(QueriesOf(b)) \ {q}
      BY DEF Spent, Held, QueriesOf
    <2>2. QueriesOf(b) \in SUBSET Queries /\ QueriesOf(b)' = QueriesOf(b)
      BY DEF QueriesOf
    <2> QED
      BY <2>1, <2>2, StillAccounted DEF RowCounts, PilotAssumption, Accounted
  <1> QED  BY <1>1, <1>2 DEF RowCounts

LEMMA SlotCharged ==
    ASSUME PilotAssumption, PilotInv, RowCounts, NEW q \in Queries, reservation[q] = "RESERVED",
           pilot' = Counted(q), Mark(q, "COMMITTED")
    PROVE  RowCounts'
  <1>1. reservation'[q] = "COMMITTED" /\ \A r \in Queries \ {q} : reservation'[r] = reservation[r]
    BY MarkedSlots DEF PilotInv
  <1>2. /\ InState("RESERVED")' = InState("RESERVED") \ {q} /\ Charged' = Charged \cup {q}
        /\ q \in InState("RESERVED") /\ q \notin Charged
    BY <1>1 DEF InState, Charged
  <1>3. /\ pilot'.executed = pilot.executed + 1
        /\ \A b \in Banks : pilot'.byBank[b] =
              IF b = BankOf[q] THEN pilot.byBank[b] + 1 ELSE pilot.byBank[b]
    BY CountedCounts DEF PilotInv
  <1>4. Accounted(pilot.executed, Queries, PilotQuota)'
    <2>1. /\ Spent(Queries)' = Spent(Queries) \cup {q} /\ Held(Queries)' = Held(Queries) \ {q}
          /\ q \in Held(Queries) /\ q \notin Spent(Queries)
      BY <1>2 DEF Spent, Held
    <2> QED
      BY <1>3, <2>1, ChargedAccounted DEF RowCounts, PilotAssumption, Accounted
  <1>5. ASSUME NEW b \in Banks
        PROVE  Accounted(pilot.byBank[b], QueriesOf(b), BankQuota)'
    <2>1. QueriesOf(b) \in SUBSET Queries /\ QueriesOf(b)' = QueriesOf(b)
      BY DEF QueriesOf
    <2>2. CASE b = BankOf[q]
      <3>1. /\ Spent(QueriesOf(b))' = Spent(QueriesOf(b)) \cup {q}
            /\ Held(QueriesOf(b))' = Held(QueriesOf(b)) \ {q}
            /\ q \in Held(QueriesOf(b)) /\ q \notin Spent(QueriesOf(b))
        BY <1>2, <2>2 DEF Spent, Held, QueriesOf
      <3> QED
        BY <1>3, <2>1, <2>2, <3>1, ChargedAccounted DEF RowCounts, PilotAssumption, Accounted
    <2>3. CASE b # BankOf[q]
      <3>1. /\ Spent(QueriesOf(b))' = Spent(QueriesOf(b))
            /\ Held(QueriesOf(b))' = Held(QueriesOf(b))
        BY <1>2, <2>3 DEF Spent, Held, QueriesOf
      <3> QED
        BY <1>3, <2>1, <2>3, <3>1 DEF RowCounts, Accounted
    <2> QED  BY <2>2, <2>3
  <1> QED  BY <1>4, <1>5 DEF RowCounts

\* The signal of a query is written only after its publication was finalized.
LEMMA WrittenStep ==
    ASSUME PilotInv, WrittenArePublished, [PilotNext]_pilotVars
    PROVE  WrittenArePublished'
  <1> USE DEF PilotInv
  <1>1. ASSUME NEW q \in Queries, NEW s \in Stages, Goto(q, s)
        PROVE  stage'[q] = s /\ \A r \in Queries \ {q} : stage'[r] = stage[r]
    BY <1>1 DEF Goto, PilotTypeOK
  <1>2. ASSUME NEW o \in Officers, Lifecycle(o) PROVE WrittenArePublished'
    BY <1>2, LifecycleSteps DEF Loading, SavePilot, RejectPrepared, WrittenArePublished
  <1>3. ASSUME NEW q \in Queries, Query(q) PROVE WrittenArePublished'
    <2>1. CASE ReserveQuerySlot(q) \/ ReleaseQueryReservation(q)
      BY <2>1, <1>1, MarkedSlots DEF ReserveQuerySlot, ReleaseQueryReservation,
         WrittenArePublished, Stages
    <2>2. CASE CommitQueryReservation(q) \/ PrepareQueryPublication(q)
      BY <2>2, <1>1, MarkedSlots DEF CommitQueryReservation, PrepareQueryPublication,
         WrittenArePublished, Stages
    <2>3. CASE FinalizeQueryPublication(q) \/ RecordPublicationFailure(q)
      BY <2>3, <1>1, MarkedSlots DEF FinalizeQueryPublication, RecordPublicationFailure,
         WrittenArePublished, Stages
    <2>4. CASE RevalidatePilotActive(q) \/ PublishSignalRecord(q)
      BY <2>4, <1>1 DEF RevalidatePilotActive, PublishSignalRecord, WrittenArePublished, Stages
    <2>5. CASE CheckEvidence(q) \/ AttachEvidence(q)
      BY <2>5 DEF CheckEvidence, AttachEvidence, WrittenArePublished
    <2> QED  BY <1>3, <2>1, <2>2, <2>3, <2>4, <2>5 DEF Query
  <1>4. CASE UNCHANGED pilotVars
    BY <1>4 DEF pilotVars, WrittenArePublished
  <1> QED  BY <1>2, <1>3, <1>4 DEF PilotNext

\* A query's step that moves its slot among the charged ones, or not at all.
LEMMA OtherQuerySteps ==
    ASSUME PilotInv, WrittenArePublished, NEW q \in Queries, Query(q)
    PROVE  \/ ReserveQuerySlot(q)
           \/ /\ UNCHANGED pilot /\ Charged' = Charged
              /\ InState("RESERVED")' = InState("RESERVED") \ {q}
           \/ reservation[q] = "RESERVED" /\ pilot' = Counted(q) /\ Mark(q, "COMMITTED")
           \/ /\ UNCHANGED pilot /\ Charged' = Charged
              /\ InState("RESERVED")' = InState("RESERVED")
  <1> USE DEF PilotInv
  <1>1. ASSUME NEW s, Mark(q, s), reservation[q] = "RESERVED", s \in {"RELEASED", "ABORTED"}
        PROVE  Charged' = Charged /\ InState("RESERVED")' = InState("RESERVED") \ {q}
    <2>1. reservation'[q] = s /\ \A r \in Queries \ {q} : reservation'[r] = reservation[r]
      BY <1>1, MarkedSlots
    <2> QED  BY <1>1, <2>1 DEF Charged, InState
  <1>2. ASSUME NEW s, Mark(q, s), q \in Charged,
               s \in {"PUBLICATION_PREPARED", "PUBLICATION_REJECTED", "PUBLISHED",
                      "PUBLICATION_FAILED"}
        PROVE  Charged' = Charged /\ InState("RESERVED")' = InState("RESERVED")
    <2>1. reservation'[q] = s /\ \A r \in Queries \ {q} : reservation'[r] = reservation[r]
      BY <1>2, MarkedSlots
    <2> QED  BY <1>2, <2>1 DEF Charged, InState
  <1>3. ASSUME UNCHANGED reservation
        PROVE  Charged' = Charged /\ InState("RESERVED")' = InState("RESERVED")
    BY <1>3 DEF Charged, InState
  <1>4. CASE ReleaseQueryReservation(q)
    BY <1>1, <1>3, <1>4 DEF ReleaseQueryReservation
  <1>5. CASE CommitQueryReservation(q)
    BY <1>1, <1>5 DEF CommitQueryReservation
  <1>6. CASE PrepareQueryPublication(q)
    BY <1>2, <1>6 DEF PrepareQueryPublication, Charged
  <1>7. CASE FinalizeQueryPublication(q)
    <2>1. q \in Charged
      BY <1>7 DEF FinalizeQueryPublication, StagesMatch, Charged
    <2> QED  BY <1>2, <1>7, <2>1 DEF FinalizeQueryPublication
  <1>8. CASE RecordPublicationFailure(q)
    <2>1. q \in Charged
      BY <1>8 DEF RecordPublicationFailure, WrittenArePublished, Charged
    <2> QED  BY <1>2, <1>8, <2>1 DEF RecordPublicationFailure
  <1>9. CASE RevalidatePilotActive(q) \/ PublishSignalRecord(q) \/ CheckEvidence(q)
             \/ AttachEvidence(q)
    BY <1>3, <1>9 DEF RevalidatePilotActive, PublishSignalRecord, CheckEvidence, AttachEvidence
  <1> QED  BY <1>4, <1>5, <1>6, <1>7, <1>8, <1>9 DEF Query

LEMMA QuotaStep ==
    ASSUME PilotAssumption, PilotInv, QuotaInv, [PilotNext]_pilotVars, Upwards \/ UNCHANGED pilotVars
    PROVE  QuotaInv'
  <1> USE DEF PilotInv, QuotaInv
  <1>1. PilotInv' /\ WrittenArePublished'
    BY RowStep, TypeStep, StagesStep, PendingStep, EvidenceStep, WrittenStep
  <1>2. /\ pilot.executed \in Nat /\ \A b \in Banks : pilot.byBank[b] \in Nat
        /\ pilot'.executed \in Nat /\ \A b \in Banks : pilot'.byBank[b] \in Nat
    BY <1>1 DEF PilotTypeOK, PilotRow
  <1>3. ASSUME \A o \in Officers : copy'[o] \in {copy[o], Nothing}, Upwards
        PROVE  CopiesBehind'
    <2>1. ASSUME NEW o \in Officers, copy'[o] # Nothing
          PROVE  /\ copy'[o].executed <= pilot'.executed
                 /\ \A b \in Banks : copy'[o].byBank[b] <= pilot'.byBank[b]
      <3>1. copy'[o] = copy[o] /\ copy[o] \in PilotRow
        BY <1>3, <2>1 DEF PilotTypeOK
      <3>2. copy[o].executed \in Nat /\ \A b \in Banks : copy[o].byBank[b] \in Nat
        BY <3>1 DEF PilotRow
      <3>3. /\ copy[o].executed <= pilot.executed
            /\ \A b \in Banks : copy[o].byBank[b] <= pilot.byBank[b]
        BY <2>1, <3>1 DEF CopiesBehind
      <3> QED  BY <1>2, <1>3, <3>1, <3>2, <3>3 DEF Upwards
    <2> QED  BY <2>1 DEF CopiesBehind
  <1>4. ASSUME NEW o \in Officers, Loading(o) PROVE RowCounts' /\ CopiesBehind'
    <2>1. PICK c \in Changed(pilot) : copy' = [copy EXCEPT ![o] = c]
      BY <1>4 DEF Loading
    <2>2. /\ c.executed <= pilot.executed
          /\ \A b \in Banks : c.byBank[b] <= pilot.byBank[b]
      BY ChangedCounts DEF PilotTypeOK
    <2>3. \A r \in Officers : copy'[r] = IF r = o THEN c ELSE copy[r]
      BY <2>1 DEF PilotTypeOK
    <2>4. CopiesBehind'
      BY <1>4, <2>2, <2>3 DEF CopiesBehind, Loading
    <2>5. RowCounts'
      BY <1>4, SlotsStay DEF Loading, InState, Charged
    <2> QED  BY <2>4, <2>5
  <1>5. ASSUME NEW o \in Officers, SavePilot(o), Upwards PROVE RowCounts' /\ CopiesBehind'
    <2>1. pilot' \in {pilot, copy[o]} /\ \A r \in Officers : copy'[r] \in {copy[r], Nothing}
      BY <1>5, SavedRow
    <2>2. copy[o] # Nothing
      BY <1>5 DEF SavePilot
    <2>3. /\ pilot'.executed <= pilot.executed
          /\ \A b \in Banks : pilot'.byBank[b] <= pilot.byBank[b]
      BY <1>2, <2>1, <2>2 DEF CopiesBehind
    <2>4. /\ pilot'.executed = pilot.executed
          /\ \A b \in Banks : pilot'.byBank[b] = pilot.byBank[b]
      BY <1>2, <1>5, <2>3 DEF Upwards
    <2>5. Charged' = Charged /\ InState("RESERVED")' = InState("RESERVED")
      BY <1>5 DEF SavePilot, RejectPrepared, Charged, InState
    <2> QED  BY <1>3, <1>5, <2>1, <2>4, <2>5, SlotsStay
  <1>6. ASSUME NEW q \in Queries, Query(q), Upwards PROVE RowCounts' /\ CopiesBehind'
    <2>1. UNCHANGED copy
      BY <1>6 DEF Query, ReserveQuerySlot, RevalidatePilotActive, ReleaseQueryReservation,
         CommitQueryReservation, PrepareQueryPublication, FinalizeQueryPublication,
         PublishSignalRecord, RecordPublicationFailure, CheckEvidence, AttachEvidence
    <2>2. RowCounts'
      BY <1>6, OtherQuerySteps, SlotTaken, SlotGivenBack, SlotCharged, SlotsStay
    <2> QED  BY <1>3, <1>6, <2>1, <2>2
  <1>7. CASE UNCHANGED pilotVars
    <2>1. Charged' = Charged /\ InState("RESERVED")' = InState("RESERVED") /\ UNCHANGED <<pilot, copy>>
      BY <1>7 DEF pilotVars, Charged, InState
    <2> QED  BY <1>1, <2>1, SlotsStay DEF CopiesBehind
  <1> QED  BY <1>1, <1>4, <1>5, <1>6, <1>7, LifecycleSteps DEF PilotNext, Upwards

\* What run pilot_quota finds violated has this one cause: as long as no stale save
\* writes back fewer executed queries, the slots in flight and charged never
\* exceed the quota of the pilot or of an institution, whatever else is raced.
THEOREM QuotasHoldUnlessTakenBack ==
    PilotSpec /\ NothingTakenBack => [](QuotaHolds /\ BankQuotasHold)
  <1>1. ASSUME PilotInit PROVE QuotaInv
    <2>1. \A S : Held(S) = {} /\ Spent(S) = {}
      BY <1>1 DEF PilotInit, Held, Spent, InState, Charged
    <2>2. /\ pilot.executed = 0 /\ \A b \in Banks : pilot.byBank[b] = 0
          /\ WrittenArePublished /\ CopiesBehind
      BY <1>1 DEF PilotInit, NewPilot, WrittenArePublished, CopiesBehind
    <2>3. PilotQuota \in Nat /\ BankQuota \in Nat
      BY PilotAssumption DEF PilotAssumption
    <2> QED  BY <2>1, <2>2, <2>3, FS_EmptySet DEF QuotaInv, RowCounts, Accounted
  <1>2. PilotInv /\ QuotaInv /\ [PilotNext]_pilotVars /\ [Upwards]_pilotVars => QuotaInv'
    BY PilotAssumption, QuotaStep
  <1>3. ASSUME QuotaInv PROVE QuotaHolds /\ BankQuotasHold
    <2>1. ASSUME NEW S \in SUBSET Queries, NEW n, NEW quota \in Nat, Accounted(n, S, quota)
          PROVE  Cardinality(Held(S) \cup Spent(S)) <= quota
      <3>1. /\ IsFiniteSet(Held(S)) /\ Cardinality(Held(S)) \in Nat
            /\ IsFiniteSet(Spent(S)) /\ Cardinality(Spent(S)) \in Nat
        BY PilotAssumption, SlotsFinite
      <3>2. Held(S) \cap Spent(S) = {}
        BY DEF Held, Spent, InState, Charged
      <3>3. Cardinality(Held(S) \cup Spent(S)) = Cardinality(Held(S)) + Cardinality(Spent(S))
        <4>1. Cardinality(Held(S) \cap Spent(S)) = 0
          BY <3>2, FS_EmptySet
        <4>2. Cardinality(Held(S) \cup Spent(S)) =
                Cardinality(Held(S)) + Cardinality(Spent(S)) - Cardinality(Held(S) \cap Spent(S))
          BY <3>1, FS_Union
        <4> QED  BY <3>1, <4>1, <4>2
      <3> QED  BY <2>1, <3>1, <3>3 DEF Accounted
    <2>2. /\ InState("RESERVED") \cup Charged = Held(Queries) \cup Spent(Queries)
          /\ \A b \in Banks : {q \in InState("RESERVED") \cup Charged : BankOf[q] = b} =
                Held(QueriesOf(b)) \cup Spent(QueriesOf(b))
      BY DEF InState, Charged, Held, Spent, QueriesOf
    <2>3. PilotQuota \in Nat /\ BankQuota \in Nat /\ \A b : QueriesOf(b) \in SUBSET Queries
      BY PilotAssumption DEF PilotAssumption, QueriesOf
    <2> QED
      BY <1>3, <2>1, <2>2, <2>3 DEF QuotaInv, RowCounts, QuotaHolds, BankQuotasHold
  <1>4. (PilotInit => QuotaInv) /\ (QuotaInv => QuotaHolds /\ BankQuotasHold)
    BY <1>1, <1>3
  <1> QED
    BY <1>2, <1>4, PilotAssumption, PilotInvariant, PTL DEF PilotSpec, NothingTakenBack, Upwards

-----------------------------------------------------------------------------
(* The kill switch. *)

\* What the switch sees of the reservations and the cases.
PendingSignals == InState("PUBLICATION_PREPARED")
OutSignals == InState("PUBLISHED") \cup InState("PUBLICATION_FAILED")
AttachedSignals == {q \in Queries : evidence[q] = "attached"}

\* A pilot row whose reservations and cases look the same to the switch.
LEMMA SwitchUnmoved ==
    ASSUME UNCHANGED <<Mode, PendingSignals, OutSignals, AttachedSignals>>
    PROVE  UNCHANGED Switch!switchVars
  BY DEF PendingSignals, OutSignals, AttachedSignals, Switch!switchVars

\* A save turns the switch, or leaves it where the pilot has ended.
LEMMA SaveTurns ==
    ASSUME PilotInv, NEW o \in Officers, SavePilot(o)
    PROVE  [Switch!SwitchNext]_(Switch!switchVars)
  <1> DEFINE m == Mode'
  <1>1. m \in {"setup", "running", "stopped", "ended"}
    BY DEF Mode
  <1>2. UNCHANGED <<OutSignals, AttachedSignals>>
    BY DEF SavePilot, RejectPrepared, OutSignals, AttachedSignals, InState
  <1>3. CASE RevivesTerminal(copy[o])
    <2>1. UNCHANGED <<Mode, PendingSignals>>
      BY <1>3 DEF SavePilot, Mode, PendingSignals, InState
    <2> QED  BY <1>2, <2>1, SwitchUnmoved
  <1>4. CASE ~ RevivesTerminal(copy[o])
    <2>1. pilot' = copy[o] /\ RejectPrepared(copy[o])
      BY <1>4 DEF SavePilot
    <2>2. (Mode = "ended" => m = "ended") /\ (m \in {"stopped", "ended"} <=> copy[o].status \in Stopped)
      BY <1>4, <2>1 DEF Mode, RevivesTerminal, Stopped, Terminal
    <2>3. PendingSignals' = IF m \in {"stopped", "ended"} THEN {} ELSE PendingSignals
      BY <2>1, <2>2 DEF RejectPrepared, PendingSignals, InState
    <2>4. Switch!Turn(m)
      BY <1>2, <2>2, <2>3 DEF Switch!Turn, PendingSignals, OutSignals, AttachedSignals
    <2> QED  BY <1>1, <2>4 DEF Switch!SwitchNext
  <1> QED  BY <1>3, <1>4

\* A step of a query prepares, publishes, drops or attaches its signal, unless
\* the switch does not see it.
LEMMA QuerySwitches ==
    ASSUME PilotAssumption, PilotInv, WrittenArePublished, NEW q \in Queries, Query(q)
    PROVE  [Switch!SwitchNext]_(Switch!switchVars)
  <1> USE DEF PilotInv
  <1>1. UNCHANGED Mode
    <2>1. pilot'.status = pilot.status
      BY CountedRow DEF Query, ReserveQuerySlot, RevalidatePilotActive,
         ReleaseQueryReservation, CommitQueryReservation, PrepareQueryPublication,
         FinalizeQueryPublication, PublishSignalRecord, RecordPublicationFailure,
         CheckEvidence, AttachEvidence
    <2> QED  BY <2>1 DEF Mode
  <1>2. ASSUME NEW s, Mark(q, s), UNCHANGED evidence,
               s \notin {"PUBLICATION_PREPARED", "PUBLISHED", "PUBLICATION_FAILED"},
               q \notin PendingSignals \cup OutSignals
        PROVE  UNCHANGED <<PendingSignals, OutSignals, AttachedSignals>>
    <2>1. reservation'[q] = s /\ \A r \in Queries \ {q} : reservation'[r] = reservation[r]
      BY <1>2, MarkedSlots
    <2> QED  BY <1>2, <2>1 DEF PendingSignals, OutSignals, AttachedSignals, InState
  <1>3. CASE ReserveQuerySlot(q) \/ ReleaseQueryReservation(q) \/ CommitQueryReservation(q)
    <2>1. UNCHANGED <<PendingSignals, OutSignals, AttachedSignals>>
      <3>1. CASE UNCHANGED <<reservation, evidence>>
        BY <3>1 DEF PendingSignals, OutSignals, AttachedSignals, InState
      <3>2. CASE ~ UNCHANGED <<reservation, evidence>>
        BY <1>2, <1>3, <3>2 DEF ReserveQuerySlot, ReleaseQueryReservation,
           CommitQueryReservation, StagesMatch, PendingSignals, OutSignals, InState
      <3> QED  BY <3>1, <3>2
    <2> QED  BY <1>1, <2>1, SwitchUnmoved
  <1>4. CASE PrepareQueryPublication(q)
    <2>1. CASE pilot.status = "ACTIVE"
      <3>1. /\ reservation[q] = "COMMITTED" /\ reservation'[q] = "PUBLICATION_PREPARED"
            /\ \A r \in Queries \ {q} : reservation'[r] = reservation[r]
            /\ UNCHANGED evidence
        BY <1>4, <2>1, MarkedSlots DEF PrepareQueryPublication
      <3>2. /\ PendingSignals' = PendingSignals \cup {q} /\ q \notin PendingSignals \cup OutSignals
            /\ UNCHANGED <<OutSignals, AttachedSignals>>
        BY <3>1 DEF PendingSignals, OutSignals, AttachedSignals, InState
      <3>3. Mode = "running"
        BY <2>1 DEF Mode
      <3>4. Switch!Prepare(q)
        BY <1>1, <3>2, <3>3 DEF Switch!Prepare, PendingSignals, OutSignals, AttachedSignals
      <3> QED  BY <3>4 DEF Switch!SwitchNext
    <2>2. CASE pilot.status # "ACTIVE"
      <3>1. UNCHANGED <<PendingSignals, OutSignals, AttachedSignals>>
        BY <1>2, <1>4, <2>2 DEF PrepareQueryPublication, PendingSignals, OutSignals, InState
      <3> QED  BY <1>1, <3>1, SwitchUnmoved
    <2> QED  BY <2>1, <2>2
  <1>5. CASE FinalizeQueryPublication(q)
    <2>0. UNCHANGED evidence
      BY <1>5 DEF FinalizeQueryPublication
    <2>1. CASE reservation[q] = "PUBLICATION_PREPARED" /\ pilot.status = "ACTIVE"
      <3>1. /\ reservation'[q] = "PUBLISHED"
            /\ \A r \in Queries \ {q} : reservation'[r] = reservation[r]
        BY <1>5, <2>1, MarkedSlots DEF FinalizeQueryPublication
      <3>2. /\ PendingSignals' = PendingSignals \ {q} /\ q \in PendingSignals
            /\ OutSignals' = OutSignals \cup {q} /\ UNCHANGED AttachedSignals
        BY <2>0, <2>1, <3>1 DEF PendingSignals, OutSignals, AttachedSignals, InState
      <3>3. Mode = "running"
        BY <2>1 DEF Mode
      <3>4. Switch!Publish(q)
        BY <1>1, <3>2, <3>3 DEF Switch!Publish, PendingSignals, OutSignals, AttachedSignals
      <3> QED  BY <3>4 DEF Switch!SwitchNext
    <2>2. CASE reservation[q] = "PUBLICATION_PREPARED" /\ pilot.status # "ACTIVE"
      <3>1. /\ reservation'[q] = "PUBLICATION_REJECTED"
            /\ \A r \in Queries \ {q} : reservation'[r] = reservation[r]
        BY <1>5, <2>2, MarkedSlots DEF FinalizeQueryPublication
      <3>2. /\ PendingSignals' = PendingSignals \ {q} /\ q \in PendingSignals
            /\ UNCHANGED <<OutSignals, AttachedSignals>>
        BY <2>0, <2>2, <3>1 DEF PendingSignals, OutSignals, AttachedSignals, InState
      <3>3. Mode # "running"
        BY <2>2 DEF Mode
      <3>4. Switch!Drop(q)
        BY <1>1, <3>2, <3>3 DEF Switch!Drop, PendingSignals, OutSignals, AttachedSignals
      <3> QED  BY <3>4 DEF Switch!SwitchNext
    <2>3. CASE reservation[q] # "PUBLICATION_PREPARED"
      <3>1. Mark(q, "PUBLICATION_REJECTED") /\ reservation[q] = "PUBLICATION_REJECTED"
        BY <1>5, <2>3 DEF FinalizeQueryPublication, StagesMatch
      <3>2. UNCHANGED <<PendingSignals, OutSignals, AttachedSignals>>
        BY <1>2, <2>0, <3>1 DEF PendingSignals, OutSignals, InState
      <3> QED  BY <1>1, <3>2, SwitchUnmoved
    <2> QED  BY <2>1, <2>2, <2>3
  <1>6. CASE RecordPublicationFailure(q)
    <2>1. /\ reservation[q] = "PUBLISHED" /\ reservation'[q] = "PUBLICATION_FAILED"
          /\ \A r \in Queries \ {q} : reservation'[r] = reservation[r]
          /\ UNCHANGED evidence
      BY <1>6, MarkedSlots DEF RecordPublicationFailure, WrittenArePublished
    <2>2. UNCHANGED <<PendingSignals, OutSignals, AttachedSignals>>
      BY <2>1 DEF PendingSignals, OutSignals, AttachedSignals, InState
    <2> QED  BY <1>1, <2>2, SwitchUnmoved
  <1>7. CASE RevalidatePilotActive(q) \/ PublishSignalRecord(q) \/ CheckEvidence(q)
    <2>1. /\ UNCHANGED reservation
          /\ \A r \in Queries : evidence'[r] = "attached" <=> evidence[r] = "attached"
      BY <1>7 DEF RevalidatePilotActive, PublishSignalRecord, CheckEvidence, PilotTypeOK
    <2>2. UNCHANGED <<PendingSignals, OutSignals, AttachedSignals>>
      BY <2>1 DEF PendingSignals, OutSignals, AttachedSignals, InState
    <2> QED  BY <1>1, <2>2, SwitchUnmoved
  <1>8. CASE AttachEvidence(q)
    <2>1. /\ UNCHANGED reservation /\ evidence[q] = "checked" /\ evidence'[q] = "attached"
          /\ \A r \in Queries \ {q} : evidence'[r] = evidence[r]
      BY <1>8 DEF AttachEvidence, PilotTypeOK
    <2>2. q \in OutSignals
      BY <2>1 DEF EvidenceWasPublished, OutSignals, InState
    <2>3. /\ AttachedSignals' = AttachedSignals \cup {q} /\ q \notin AttachedSignals
          /\ UNCHANGED <<PendingSignals, OutSignals>>
      BY <2>1 DEF PendingSignals, OutSignals, AttachedSignals, InState
    <2>4. Switch!Attach(q)
      BY <1>1, <2>2, <2>3 DEF Switch!Attach, PendingSignals, OutSignals, AttachedSignals
    <2> QED  BY <2>4 DEF Switch!SwitchNext
  <1> QED  BY <1>3, <1>4, <1>5, <1>6, <1>7, <1>8 DEF Query

\* A pilot of durable_pilot_store.py is the kill switch it promises to be, for any
\* number of officers, banks and queries, however late and stale the saves are.
THEOREM ImplementsSwitch == PilotSpec => KeepsTheSwitch
  <1>1. PilotInit => Switch!SwitchInit /\ WrittenArePublished
    BY DEF PilotInit, NewPilot, Switch!SwitchInit, Mode, InState, Terminal, WrittenArePublished
  <1>2. ASSUME PilotInv, WrittenArePublished, [PilotNext]_pilotVars
        PROVE  [Switch!SwitchNext]_(Switch!switchVars)
    <2>1. ASSUME NEW o \in Officers, Lifecycle(o)
          PROVE  [Switch!SwitchNext]_(Switch!switchVars)
      <3>1. CASE Loading(o)
        <4>1. UNCHANGED <<Mode, PendingSignals, OutSignals, AttachedSignals>>
          BY <3>1 DEF Loading, Mode, PendingSignals, OutSignals, AttachedSignals, InState
        <4> QED  BY <4>1, SwitchUnmoved
      <3> QED  BY <1>2, <2>1, <3>1, LifecycleSteps, SaveTurns
    <2>2. CASE UNCHANGED pilotVars
      <3>1. UNCHANGED <<Mode, PendingSignals, OutSignals, AttachedSignals>>
        BY <2>2 DEF pilotVars, Mode, PendingSignals, OutSignals, AttachedSignals, InState
      <3> QED  BY <3>1, SwitchUnmoved
    <2> QED  BY <1>2, <2>1, <2>2, PilotAssumption, QuerySwitches DEF PilotNext
  <1>3. PilotInv /\ WrittenArePublished /\ [PilotNext]_pilotVars =>
            WrittenArePublished' /\ [Switch!SwitchNext]_(Switch!switchVars)
    BY <1>2, WrittenStep
  <1> QED
    BY <1>1, <1>3, PilotAssumption, PilotInvariant, PTL
       DEF PilotSpec, KeepsTheSwitch, Switch!SwitchSpec

=============================================================================
