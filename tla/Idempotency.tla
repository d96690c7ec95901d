----------------------------- MODULE Idempotency -----------------------------
(***************************************************************************)
(* The durable idempotency store of cross-bank queries, with the requests  *)
(* that use it.  Every caller is one request carrying a fresh owner uuid;  *)
(* a retry is another caller with the same key.  A caller that acquires    *)
(* the key executes (and may dispatch work to counterparties), then        *)
(* completes, fails, aborts, or dies without a word.                       *)
(*                                                                         *)
(* Abstractions.  Principal and request fingerprint are one identity.      *)
(* Timestamps are ages in ticks, saturated at Horizon.  The cached         *)
(* response is identified by the owner that computed it.  The institution  *)
(* and consortium checks are left out: both are part of the lookup key.    *)
(***************************************************************************)
EXTENDS Integers

CONSTANTS
    Callers,       \* requests, each with its own owner id
    Keys,          \* idempotency keys
    KeyOf,         \* the key each request carries
    IdentityOf,    \* its principal and fingerprint
    NoOwner,       \* owner column of an absent row
    Lease,         \* in_progress_timeout: 60 s
    Grace,         \* in_progress_grace_seconds: 300 s
    Retention,     \* retention_seconds: 24 h
    Horizon        \* where ages saturate

ASSUME OwnerAssumption == NoOwner \notin Callers
ASSUME RequestAssumption == KeyOf \in [Callers -> Keys]
ASSUME TimeAssumption ==
    /\ Lease \in Nat /\ Grace \in Nat /\ Retention \in Nat \ {0} /\ Horizon \in Nat
    /\ Lease < Horizon /\ Grace < Horizon /\ Retention < Horizon

VARIABLES
    rec,    \* cross_bank_idempotency_records, per key
    exec    \* the requests: progress, whether they dispatched, time since acquire

vars == <<rec, exec>>

-----------------------------------------------------------------------------

Statuses == {"NONE", "IN_PROGRESS", "COMPLETED", "FAILED_AMBIGUOUS"}
Record == [status : Statuses, owner : Callers \cup {NoOwner},
           age : 0 .. Horizon,    \* since created_at; expires_at is Retention later
           idle : 0 .. Horizon]   \* since updated_at
NoRecord == [status |-> "NONE", owner |-> NoOwner, age |-> 0, idle |-> 0]
Execution == [pc : {"new", "waiting", "running", "done", "dead"},
              ran : BOOLEAN,         \* it dispatched to a counterparty
              since : 0 .. Horizon,  \* ticks since it acquired its key
              reply : {"none", "response", "replay", "rejected"}]
NewExecution == [pc |-> "new", ran |-> FALSE, since |-> 0, reply |-> "none"]

TypeOK ==
    /\ rec \in [Keys -> Record]
    /\ exec \in [Callers -> Execution]

Older(n) == IF n < Horizon THEN n + 1 ELSE n
OwnRecord(c) == rec[KeyOf[c]]
SameKey(c, d) == c # d /\ KeyOf[c] = KeyOf[d]

Finish(c, reply) == exec' = [exec EXCEPT ![c].pc = "done", ![c].reply = reply]

-----------------------------------------------------------------------------
(* acquire. *)

\* Cleanup keeps every row within retention and every active reservation.
PurgeableByStatus(r) == r.status # "IN_PROGRESS" /\ r.idle > Grace
Purgeable(r) == r.age > Retention /\ (r.status # "IN_PROGRESS" \/ r.idle > Grace)
Cleaned(clean) ==
    [k \in Keys |-> IF clean /\ Purgeable(rec[k]) THEN NoRecord ELSE rec[k]]

Absent(r) == r.status = "NONE"
ExpiredEarly(r) == r.idle >= Retention \/ r.idle > Lease
Expired(r) == ~Absent(r) /\ r.age >= Retention
LiveRecord(r) == ~Absent(r) /\ ~Expired(r)
Matching(c, r) == LiveRecord(r) /\ IdentityOf[r.owner] = IdentityOf[c]

Claimed(c) == [status |-> "IN_PROGRESS", owner |-> c, age |-> 0, idle |-> 0]

\* A fresh key, or an expired record reclaimed whatever its status.
AcquireNew(c, clean) ==
    LET rows == Cleaned(clean)
        r == rows[KeyOf[c]]
    IN  /\ exec[c].pc = "new"
        /\ Absent(r) \/ Expired(r)
        /\ rec' = [rows EXCEPT ![KeyOf[c]] = Claimed(c)]
        /\ exec' = [exec EXCEPT ![c].pc = "running", ![c].since = 0]

\* Another principal or payload: conflict, everything rolled back.
AcquireMismatch(c, clean) ==
    LET r == Cleaned(clean)[KeyOf[c]]
    IN  /\ exec[c].pc = "new"
        /\ LiveRecord(r) /\ ~Matching(c, r)
        /\ Finish(c, "rejected")
        /\ UNCHANGED rec

\* The cached response is replayed.
AcquireCompleted(c, clean) ==
    LET rows == Cleaned(clean)
        r == rows[KeyOf[c]]
    IN  /\ exec[c].pc = "new"
        /\ Matching(c, r) /\ r.status = "COMPLETED"
        /\ Finish(c, "replay")
        /\ rec' = rows

AcquireAmbiguous(c, clean) ==
    LET r == Cleaned(clean)[KeyOf[c]]
    IN  /\ exec[c].pc = "new"
        /\ Matching(c, r) /\ r.status = "FAILED_AMBIGUOUS"
        /\ Finish(c, "rejected")
        /\ UNCHANGED rec

\* In progress for longer than the lease: taken for interrupted, failed closed.
AcquireLeaseExpired(c, clean) ==
    LET rows == Cleaned(clean)
        r == rows[KeyOf[c]]
    IN  /\ exec[c].pc = "new"
        /\ Matching(c, r) /\ r.status = "IN_PROGRESS" /\ r.idle > Lease
        /\ rec' = [rows EXCEPT ![KeyOf[c]].status = "FAILED_AMBIGUOUS", ![KeyOf[c]].idle = 0]
        /\ Finish(c, "rejected")

AcquireInProgress(c, clean) ==
    LET rows == Cleaned(clean)
        r == rows[KeyOf[c]]
    IN  /\ exec[c].pc = "new"
        /\ Matching(c, r) /\ r.status = "IN_PROGRESS" /\ r.idle <= Lease
        /\ exec' = [exec EXCEPT ![c].pc = "waiting"]
        /\ rec' = rows

\* One poll of await_completion that ends the wait; the wait also times out.
Await(c) ==
    LET r == OwnRecord(c)
    IN  /\ exec[c].pc = "waiting"
        /\ Finish(c, IF r.status = "COMPLETED" /\ IdentityOf[r.owner] = IdentityOf[c]
                     THEN "replay" ELSE "rejected")
        /\ UNCHANGED rec

Acquire(c, clean) ==
    \/ AcquireNew(c, clean)
    \/ AcquireMismatch(c, clean)
    \/ AcquireCompleted(c, clean)
    \/ AcquireAmbiguous(c, clean)
    \/ AcquireLeaseExpired(c, clean)
    \/ AcquireInProgress(c, clean)

-----------------------------------------------------------------------------
(* The owner's steps. *)

\* The execution sends work to a counterparty: from now on it has side effects.
Dispatch(c) ==
    /\ exec[c].pc = "running" /\ ~exec[c].ran
    /\ exec' = [exec EXCEPT ![c].ran = TRUE]
    /\ UNCHANGED rec

Owns(c) == OwnRecord(c).owner = c
OwnsInProgress(c) == Owns(c) /\ OwnRecord(c).status = "IN_PROGRESS"

\* complete: the caller ignores the result and answers in either case.
Complete(c, clean) ==
    LET rows == Cleaned(clean)
        k == KeyOf[c]
    IN  /\ exec[c].pc = "running"
        /\ rec' = IF rows[k].owner = c /\ rows[k].status = "IN_PROGRESS"
                  THEN [rows EXCEPT ![k].status = "COMPLETED", ![k].idle = 0] ELSE rows
        /\ Finish(c, "response")

\* fail_or_abort(indeterminate=True).  The caller asks for it whenever it cannot
\* exclude that work was dispatched.
FailIndeterminate(c) ==
    /\ exec[c].pc = "running"
    /\ rec' = IF Owns(c)
              THEN [rec EXCEPT ![KeyOf[c]].status = "FAILED_AMBIGUOUS", ![KeyOf[c]].idle = 0]
              ELSE rec
    /\ Finish(c, "rejected")

\* A clean abort that forgets to check the row is still in progress.
AbortUnguarded(c) ==
    /\ exec[c].pc = "running"
    /\ rec' = IF Owns(c) THEN [rec EXCEPT ![KeyOf[c]] = NoRecord] ELSE rec
    /\ Finish(c, "rejected")

\* fail_or_abort(indeterminate=False): the key is free for a retry.
Abort(c) ==
    /\ exec[c].pc = "running"
    /\ rec' = IF OwnsInProgress(c) THEN [rec EXCEPT ![KeyOf[c]] = NoRecord] ELSE rec
    /\ Finish(c, "rejected")

\* The callers ask for it only when nothing was dispatched.
AbortAnyway(c) == Abort(c)
AbortIfClean(c) == ~exec[c].ran /\ Abort(c)

Crash(c) ==
    /\ exec[c].pc \in {"waiting", "running"}
    /\ exec' = [exec EXCEPT ![c].pc = "dead"]
    /\ UNCHANGED rec

CleanupExpired ==
    /\ rec' = Cleaned(TRUE)
    /\ UNCHANGED exec

Tick ==
    /\ rec' = [k \in Keys |-> IF Absent(rec[k]) THEN rec[k]
                              ELSE [rec[k] EXCEPT !.age = Older(@), !.idle = Older(@)]]
    /\ exec' = [c \in Callers |-> IF exec[c].pc = "new" THEN exec[c]
                                  ELSE [exec[c] EXCEPT !.since = Older(@)]]

-----------------------------------------------------------------------------

Init ==
    /\ rec = [k \in Keys |-> NoRecord]
    /\ exec = [c \in Callers |-> NewExecution]

CallerStep(c) ==
    \/ \E clean \in BOOLEAN : Acquire(c, clean) \/ Complete(c, clean)
    \/ Await(c)
    \/ Dispatch(c)
    \/ FailIndeterminate(c)
    \/ AbortIfClean(c)

Next ==
    \/ \E c \in Callers : CallerStep(c) \/ Crash(c)
    \/ CleanupExpired
    \/ Tick

Spec == Init /\ [][Next]_vars

-----------------------------------------------------------------------------
(* Properties. *)

\* While the retention of its claim lasts, a request that dispatched work keeps
\* its key: the record is there, is its own, and is not free for anyone to claim.
\* A crash, a lapsed lease, a cleanup or a retry in between does not change that.
DispatchedKeepsKey ==
    \A c \in Callers : exec[c].ran /\ exec[c].since < Retention =>
        /\ OwnRecord(c).owner = c
        /\ OwnRecord(c).status # "NONE"
        /\ OwnRecord(c).age = exec[c].since

\* "Prevent simultaneous duplicate executions": no request acquires a key under
\* which another request dispatched within the retention period.
NoDuplicateExecution ==
    [][\A c, d \in Callers :
          ( /\ SameKey(c, d)
            /\ exec[c].pc = "new" /\ exec'[c].pc = "running"
            /\ exec[d].ran ) => exec[d].since >= Retention]_vars

\* An indeterminate execution is never retried silently: its record stays
\* FAILED_AMBIGUOUS until retention ends, even when the execution taken for dead
\* comes back to complete, fail or abort.
AmbiguousUntilRetention ==
    [][\A k \in Keys : rec[k].status = "FAILED_AMBIGUOUS" /\ rec[k].age < Retention
          => rec'[k].status = "FAILED_AMBIGUOUS"]_vars

\* A cached response is final for the retention period, and its owner answered.
CompletedIsFinal ==
    [][\A k \in Keys : rec[k].status = "COMPLETED" /\ rec[k].age < Retention
          => /\ rec'[k].status = "COMPLETED"
             /\ rec'[k].owner = rec[k].owner
             /\ exec[rec[k].owner].reply = "response"]_vars

\* FAILED_AMBIGUOUS marks interrupted executions: "indeterminate interrupted
\* (FAILED_AMBIGUOUS)" in the module's docstring; an execution still in flight
\* should be reported as IN_PROGRESS.
AmbiguousMeansInterrupted ==
    \A k \in Keys : rec[k].status = "FAILED_AMBIGUOUS" => exec[rec[k].owner].pc # "running"

\* Every execution ends, one way or another, before its lease and the retention
\* of its claim do.  Nothing in the code bounds an execution by the lease.
RunsWithinLease ==
    \A c \in Callers : exec[c].pc = "running" =>
        exec[c].since <= Lease /\ exec[c].since < Retention

-----------------------------------------------------------------------------
(* The table, read as the claims it stands for. *)

\* A row counts until its retention ends; after that anyone may claim the key,
\* whether a cleanup has removed the row or not.
StandsFor(status) == CASE status = "IN_PROGRESS" -> "held"
                       [] status = "COMPLETED" -> "answered"
                       [] OTHER -> "doubtful"
ClaimOf(k) ==
    IF LiveRecord(rec[k])
    THEN [state |-> StandsFor(rec[k].status), by |-> rec[k].owner, age |-> rec[k].age,
          worked |-> exec[rec[k].owner].ran]
    ELSE [state |-> "free"]

Claims == INSTANCE KeyClaims
    WITH ClaimKeys <- Keys, Requests <- Callers, Term <- Retention,
         claim <- [k \in Keys |-> ClaimOf(k)]

\* Leases, takeovers, late owners, cleanups, retries and crashes all come down to
\* claims that are taken, worked under, and resolved once within their retention.
HonoursClaims == Claims!ClaimsSpec
=============================================================================
