--------------------------- MODULE PilotOperations ---------------------------
(***************************************************************************)
(* One controlled pilot: its durable row, the query slots reserved against *)
(* its quotas, the officers who drive its lifecycle and the queries that   *)
(* run under it, up to the attachment of their signals to a case.          *)
(*                                                                         *)
(* The store's own transactions (reserve, commit, prepare, finalize,       *)
(* release) are atomic.  The lifecycle operations are not: each loads the  *)
(* pilot, decides and changes its copy, and saves the copy later.          *)
(* save_pilot compares state_version with the value it has just read       *)
(* itself, which refuses nothing but a commit between two statements of    *)
(* the same call; the version is left out and a refused save is an officer *)
(* who does not save.                                                      *)
(*                                                                         *)
(* Abstractions.  Approver identities are told apart by institution.  The  *)
(* expiry of the pilot, the consortium and grant checks and the probes can *)
(* only refuse: they are the steps an officer or a query does not take, or *)
(* its failure.  queries_denied and the latencies have no reader.  No step *)
(* is forced, so a process that dies is one that takes no further step:    *)
(* nothing sweeps what it had reserved or prepared.                        *)
(***************************************************************************)
EXTENDS Integers, FiniteSets

CONSTANTS
    Officers,      \* concurrent callers of the lifecycle operations
    Queries,       \* cross-bank queries, each with its own reservation id
    Banks,         \* participating institutions
    BankOf,        \* the requesting institution of a query
    PilotQuota,    \* query_quota_total
    BankQuota,     \* query_quota_per_institution
    Operator,      \* the approval key "OPERATOR"
    Nothing        \* an officer who holds no copy of the pilot

ASSUME PilotAssumption ==
    /\ IsFiniteSet(Queries)
    /\ BankOf \in [Queries -> Banks]
    /\ PilotQuota \in Nat /\ BankQuota \in Nat
    /\ Operator \notin Banks

VARIABLES
    pilot,         \* pilot_operations row, its data_json
    copy,          \* per officer: the changed copy it is about to save
    reservation,   \* pilot_query_reservations.status, per query
    stage,         \* where each query is in the service's call sequence
    published,     \* queries whose signal record is authoritative and attachable
    evidence       \* attachment of a query's signal to a case

pilotVars == <<pilot, copy, reservation, stage, published, evidence>>

-----------------------------------------------------------------------------

Terminal == {"COMPLETED", "ABORTED", "FAILED"}
PilotStatuses == Terminal \cup {"ABSENT", "DRAFT", "PREFLIGHT", "AWAITING_APPROVAL",
                                "AUTHORIZED", "ACTIVE", "PAUSED"}
Approvers == Banks \cup {Operator}
PilotRow == [status : PilotStatuses, executed : Nat, byBank : [Banks -> Nat],
             approvals : SUBSET Approvers]
NewPilot == [status |-> "DRAFT", executed |-> 0, byBank |-> [b \in Banks |-> 0],
             approvals |-> {}]
ReservationStatuses == {"NONE", "RESERVED", "RELEASED", "ABORTED", "COMMITTED",
    "PUBLICATION_PREPARED", "PUBLICATION_REJECTED", "PUBLISHED", "PUBLICATION_FAILED"}
Stages == {"new", "matching", "admitted", "committed", "prepared", "finalized",
           "unwritten", "ended"}

PilotTypeOK ==
    /\ pilot \in PilotRow
    /\ copy \in [Officers -> PilotRow \cup {Nothing}]
    /\ reservation \in [Queries -> ReservationStatuses]
    /\ stage \in [Queries -> Stages]
    /\ published \subseteq Queries
    /\ evidence \in [Queries -> {"none", "checked", "attached"}]

PilotInit ==
    /\ pilot = [NewPilot EXCEPT !.status = "ABSENT"]
    /\ copy = [o \in Officers |-> Nothing]
    /\ reservation = [q \in Queries |-> "NONE"]
    /\ stage = [q \in Queries |-> "new"]
    /\ published = {}
    /\ evidence = [q \in Queries |-> "none"]

-----------------------------------------------------------------------------
(* The lifecycle operations: what each makes of the copy it loaded.        *)

Transitions ==
    [s \in PilotStatuses |->
       CASE s = "DRAFT"     -> {"PREFLIGHT", "AWAITING_APPROVAL", "FAILED", "ABORTED"}
         [] s = "PREFLIGHT" -> {"AWAITING_APPROVAL", "FAILED", "ABORTED"}
         [] s = "AWAITING_APPROVAL" -> {"AUTHORIZED", "DRAFT", "PREFLIGHT", "ABORTED"}
         [] s = "AUTHORIZED" -> {"ACTIVE", "ABORTED"}
         [] s = "ACTIVE"    -> {"PAUSED", "COMPLETED", "ABORTED"}
         [] s = "PAUSED"    -> {"ACTIVE", "COMPLETED", "ABORTED"}
         [] OTHER           -> {}]

Moved(p, s) == IF s \in Transitions[p.status] THEN {[p EXCEPT !.status = s]} ELSE {}
FullyApproved(p) == p.approvals = Approvers
BanksApproved(p) == Banks \subseteq p.approvals

Provisioned(p) == IF p.status = "ABSENT" THEN {NewPilot} ELSE {}
Preflighted(p) ==
    LET probing == IF p.status = "DRAFT" THEN Moved(p, "PREFLIGHT") ELSE {p}
    IN  IF p.status \in {"DRAFT", "PREFLIGHT", "AWAITING_APPROVAL"}
        THEN UNION {Moved(r, "AWAITING_APPROVAL") \cup Moved(r, "FAILED") : r \in probing}
        ELSE {}
Recorded(p, a) == [p EXCEPT !.approvals = @ \cup {a}]
ApprovedByBanks(p, a) ==
    IF p.status \notin {"AWAITING_APPROVAL", "PREFLIGHT", "DRAFT"} THEN {}
    ELSE IF BanksApproved(Recorded(p, a)) /\ p.status = "AWAITING_APPROVAL"
         THEN Moved(Recorded(p, a), "AUTHORIZED")
         ELSE {Recorded(p, a)}
Approved(p, a) ==
    IF p.status \notin {"AWAITING_APPROVAL", "PREFLIGHT", "DRAFT"} THEN {}
    ELSE IF FullyApproved(Recorded(p, a)) /\ p.status = "AWAITING_APPROVAL"
         THEN Moved(Recorded(p, a), "AUTHORIZED")
         ELSE {Recorded(p, a)}
Activated(p) ==
    IF FullyApproved(p) /\ p.status = "AUTHORIZED" THEN Moved(p, "ACTIVE") ELSE {}
Paused(p) == IF p.status = "ACTIVE" THEN Moved(p, "PAUSED") ELSE {}
Resumed(p) ==
    IF p.status = "PAUSED" /\ p.executed < PilotQuota THEN Moved(p, "ACTIVE") ELSE {}

\* The officer loads the pilot and changes its copy; nothing is written yet.
Load(o, copies) ==
    /\ copy[o] = Nothing
    /\ \E c \in copies : copy' = [copy EXCEPT ![o] = c]
    /\ UNCHANGED <<pilot, reservation, stage, published, evidence>>

ProvisionPilot(o) == Load(o, Provisioned(pilot))
RunPreflight(o) == Load(o, Preflighted(pilot))
ApprovePilot(o, a) == Load(o, Approved(pilot, a))
ActivatePilot(o) == Load(o, Activated(pilot))
PausePilot(o) == Load(o, Paused(pilot))
ResumePilot(o) == Load(o, Resumed(pilot))
AbortPilot(o) == Load(o, Moved(pilot, "ABORTED"))
CompletePilot(o) == Load(o, Moved(pilot, "COMPLETED"))

Stopped == {"PAUSED"} \cup Terminal
RejectPreparedAtEnd(held) ==
    reservation' = [q \in Queries |->
        IF held.status \in Terminal /\ reservation[q] = "PUBLICATION_PREPARED"
        THEN "PUBLICATION_REJECTED" ELSE reservation[q]]
RejectPrepared(held) ==
    reservation' = [q \in Queries |->
        IF held.status \in Stopped /\ reservation[q] = "PUBLICATION_PREPARED"
        THEN "PUBLICATION_REJECTED" ELSE reservation[q]]

NeverRevives(held) == FALSE
RevivesTerminal(held) == pilot.status \in Terminal /\ held.status \notin Terminal

\* save_pilot: insert the first row, or overwrite whatever row is there now.
SavePilot(o) ==
    /\ copy[o] # Nothing
    /\ IF RevivesTerminal(copy[o])
       THEN UNCHANGED <<pilot, reservation>>     \* InvalidPilotTransitionError
       ELSE pilot' = copy[o] /\ RejectPrepared(copy[o])
    /\ copy' = [copy EXCEPT ![o] = Nothing]
    /\ UNCHANGED <<stage, published, evidence>>

-----------------------------------------------------------------------------
(* The store's transactions, in the order a query calls them.              *)

InState(s) == {q \in Queries : reservation[q] = s}
HeldSlots(b) == {q \in InState("RESERVED") : BankOf[q] = b}
WithinQuota(q) ==
    /\ pilot.executed + Cardinality(InState("RESERVED")) < PilotQuota
    /\ pilot.byBank[BankOf[q]] + Cardinality(HeldSlots(BankOf[q])) < BankQuota

Goto(q, s) == stage' = [stage EXCEPT ![q] = s]
Mark(q, s) == reservation' = [reservation EXCEPT ![q] = s]

ReserveQuerySlot(q) ==
    /\ stage[q] = "new"
    /\ pilot.status = "ACTIVE" /\ WithinQuota(q)
    /\ Mark(q, "RESERVED") /\ Goto(q, "matching")
    /\ UNCHANGED <<pilot, copy, published, evidence>>

\* revalidate_pilot_active, after the match and before the commit.
RevalidatePilotActive(q) ==
    /\ stage[q] = "matching"
    /\ pilot.status = "ACTIVE"
    /\ pilot.executed < PilotQuota /\ pilot.byBank[BankOf[q]] < BankQuota
    /\ Goto(q, "admitted")
    /\ UNCHANGED <<pilot, copy, reservation, published, evidence>>

\* Matching, revalidation, admission or the commit raised: the handler gives the
\* slot back.
ReleaseQueryReservation(q) ==
    /\ stage[q] \in {"matching", "admitted"}
    /\ IF reservation[q] = "RESERVED" THEN Mark(q, "RELEASED") ELSE UNCHANGED reservation
    /\ Goto(q, "ended")
    /\ UNCHANGED <<pilot, copy, published, evidence>>

Counted(q) == [pilot EXCEPT !.executed = @ + 1, !.byBank[BankOf[q]] = @ + 1]

\* The kill switch: a pilot that stopped meanwhile aborts the reservation.
CommitQueryReservation(q) ==
    /\ stage[q] = "admitted" /\ reservation[q] = "RESERVED"
    /\ IF pilot.status = "ACTIVE"
       THEN pilot' = Counted(q) /\ Mark(q, "COMMITTED") /\ Goto(q, "committed")
       ELSE UNCHANGED pilot /\ Mark(q, "ABORTED") /\ Goto(q, "ended")
    /\ UNCHANGED <<copy, published, evidence>>

PrepareQueryPublication(q) ==
    /\ stage[q] = "committed" /\ reservation[q] = "COMMITTED"
    /\ IF pilot.status = "ACTIVE"
       THEN Mark(q, "PUBLICATION_PREPARED") /\ Goto(q, "prepared")
       ELSE Mark(q, "PUBLICATION_REJECTED") /\ Goto(q, "ended")
    /\ UNCHANGED <<pilot, copy, published, evidence>>

\* A rejected publication stays rejected, a pilot that is not ACTIVE rejects it now.
FinalizeQueryPublication(q) ==
    /\ stage[q] = "prepared"
    /\ IF reservation[q] = "PUBLICATION_PREPARED" /\ pilot.status = "ACTIVE"
       THEN Mark(q, "PUBLISHED") /\ Goto(q, "finalized")
       ELSE Mark(q, "PUBLICATION_REJECTED") /\ Goto(q, "ended")
    /\ UNCHANGED <<pilot, copy, published, evidence>>

\* The signal record; the write may raise after it was applied.
PublishSignalRecord(q) ==
    /\ stage[q] = "finalized"
    /\ \/ published' = published \cup {q} /\ Goto(q, "ended")
       \/ published' \in {published, published \cup {q}} /\ Goto(q, "unwritten")
    /\ UNCHANGED <<pilot, copy, reservation, evidence>>

RecordPublicationFailure(q) ==
    /\ stage[q] = "unwritten"
    /\ Mark(q, "PUBLICATION_FAILED") /\ Goto(q, "ended")
    /\ UNCHANGED <<pilot, copy, published, evidence>>

-----------------------------------------------------------------------------
(* Attachment of the signal to a case: checked first, written later.       *)

AttachableByReservation(q) == pilot.status = "ACTIVE" /\ reservation[q] = "PUBLISHED"
Attachable(q) ==
    /\ q \in published
    /\ pilot.status = "ACTIVE"
    /\ reservation[q] = "PUBLISHED"

CheckEvidence(q) ==
    /\ evidence[q] = "none" /\ Attachable(q)
    /\ evidence' = [evidence EXCEPT ![q] = "checked"]
    /\ UNCHANGED <<pilot, copy, reservation, stage, published>>

AttachEvidence(q) ==
    /\ evidence[q] = "checked"
    /\ evidence' = [evidence EXCEPT ![q] = "attached"]
    /\ UNCHANGED <<pilot, copy, reservation, stage, published>>

Lifecycle(o) ==
    \/ ProvisionPilot(o) \/ RunPreflight(o) \/ ActivatePilot(o) \/ PausePilot(o)
    \/ ResumePilot(o) \/ AbortPilot(o) \/ CompletePilot(o) \/ SavePilot(o)
    \/ \E a \in Approvers : ApprovePilot(o, a)
Query(q) ==
    \/ ReserveQuerySlot(q) \/ RevalidatePilotActive(q) \/ ReleaseQueryReservation(q)
    \/ CommitQueryReservation(q) \/ PrepareQueryPublication(q)
    \/ FinalizeQueryPublication(q) \/ PublishSignalRecord(q)
    \/ RecordPublicationFailure(q)
    \/ CheckEvidence(q) \/ AttachEvidence(q)

PilotNext == (\E o \in Officers : Lifecycle(o)) \/ (\E q \in Queries : Query(q))
PilotSpec == PilotInit /\ [][PilotNext]_pilotVars

-----------------------------------------------------------------------------
(* Properties. *)

\* The kill switch leaves nothing half published: however late or stale the
\* saves are, no publication is pending once the pilot is paused or ended, so
\* a pilot resumed before finalize_query_publication runs publishes nothing
\* that was prepared before the pause.
NothingPendingWhenStopped ==
    pilot.status \in Stopped => InState("PUBLICATION_PREPARED") = {}

\* An ended pilot stays ended, and from then on no reservation is taken,
\* charged, prepared or published, whichever copies officers still hold.
Refusing == {"RELEASED", "ABORTED", "PUBLICATION_REJECTED", "PUBLICATION_FAILED"}
EndedForGood ==
    [][pilot.status \in Terminal =>
         /\ pilot'.status \in Terminal
         /\ \A q \in Queries : reservation'[q] \in Refusing \cup {reservation[q]}]_pilotVars

\* Queries run only under an approved scope: whatever the races of approvals
\* and saves, a pilot past approval carries the approval of every
\* participating institution and of the operator.
ActiveIsApproved == pilot.status \in {"AUTHORIZED", "ACTIVE", "PAUSED"} => FullyApproved(pilot)

\* Case evidence stands on a finalized publication: a signal attached to a
\* case, or about to be, was PUBLISHED, and at worst its writer then reported
\* the write as failed.
EvidenceWasPublished ==
    \A q \in Queries : evidence[q] # "none" =>
        q \in published /\ reservation[q] \in {"PUBLISHED", "PUBLICATION_FAILED"}

\* Slots in flight and slots charged never exceed the quota (durable_pilot_store
\* lines 6-7, reserve_query_slot).  A stale save takes charges back.
Charged == {q \in Queries : reservation[q] \in
    {"COMMITTED", "PUBLICATION_PREPARED", "PUBLICATION_REJECTED", "PUBLISHED", "PUBLICATION_FAILED"}}
QuotaHolds == Cardinality(InState("RESERVED") \cup Charged) <= PilotQuota

\* The same for the quota of each institution.
BankQuotasHold ==
    \A b \in Banks :
        Cardinality({q \in InState("RESERVED") \cup Charged : BankOf[q] = b}) <= BankQuota

\* No save writes back fewer executed queries than the row has: what a
\* state_version compared with the version that was loaded would ensure.
NothingTakenBack ==
    [][/\ pilot'.executed >= pilot.executed
       /\ \A b \in Banks : pilot'.byBank[b] >= pilot.byBank[b]]_pilotVars

\* To the outside a pilot is its kill switch: whatever officers save and when,
\* signals become pending and leave only while it is ACTIVE, a stop drops the
\* pending ones, the end is final, and evidence draws on what left.
Mode == IF pilot.status = "ACTIVE" THEN "running"
        ELSE IF pilot.status = "PAUSED" THEN "stopped"
        ELSE IF pilot.status \in Terminal THEN "ended" ELSE "setup"
Switch == INSTANCE PublicationSwitch WITH
    Signals <- Queries,
    mode <- Mode,
    pending <- InState("PUBLICATION_PREPARED"),
    out <- InState("PUBLISHED") \cup InState("PUBLICATION_FAILED"),
    attached <- {q \in Queries : evidence[q] = "attached"}
KeepsTheSwitch == Switch!SwitchSpec
=============================================================================
