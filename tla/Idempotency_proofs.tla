-------------------------- MODULE Idempotency_proofs --------------------------
(***************************************************************************)
(* Machine-checked proofs about the idempotency store, for any number of   *)
(* requests and keys and any lease, grace and retention times.             *)
(*                                                                         *)
(* ImplementsClaims puts it together as an abstract table of claims, and   *)
(* InterruptedUnlessOverrun says when an ambiguous record is what its name *)
(* says: as long as no execution outlives its lease.                       *)
(***************************************************************************)
EXTENDS Idempotency, TLAPS

\* A request that may still dispatch, or has dispatched, holds its key.
Holds(c) ==
    (exec[c].pc = "running" \/ exec[c].ran) /\ exec[c].since < Retention =>
        /\ OwnRecord(c).owner = c
        /\ OwnRecord(c).status # "NONE"
        /\ OwnRecord(c).age = exec[c].since

\* The inductive invariant.  DispatchedKeepsKey alone is not preserved by
\* Dispatch: the request must hold its key already when it starts to run.
Rest ==
    /\ \A c \in Callers : exec[c].pc \in {"new", "waiting"} => ~exec[c].ran
    /\ \A c \in Callers : Holds(c)
    /\ \A k \in Keys : /\ rec[k].status = "NONE" => rec[k].owner = NoOwner
                       /\ rec[k].status # "NONE" => rec[k].owner \in Callers
    /\ \A k \in Keys : rec[k].status = "COMPLETED" =>
          exec[rec[k].owner].pc = "done" /\ exec[rec[k].owner].reply = "response"

IInv == TypeOK /\ Rest

-----------------------------------------------------------------------------
(* What a cleanup leaves. *)

\* A cleanup keeps each row or removes it, and removes only rows past retention.
LEMMA CleanedRows ==
    ASSUME TypeOK, NEW clean \in BOOLEAN
    PROVE  /\ Cleaned(clean) \in [Keys -> Record]
           /\ \A k \in Keys :
                 \/ Cleaned(clean)[k] = rec[k]
                 \/ Cleaned(clean)[k] = NoRecord /\ rec[k].age > Retention
<1>1. NoRecord \in Record
  BY TimeAssumption DEF NoRecord, Record, Statuses
<1>2. QED
  BY <1>1 DEF Cleaned, TypeOK, Purgeable

\* Ages stay in range.
LEMMA OlderInRange ==
    ASSUME NEW n \in 0 .. Horizon
    PROVE  Older(n) \in 0 .. Horizon
  BY TimeAssumption DEF Older

-----------------------------------------------------------------------------
(* Types. *)

\* Every step keeps the state well typed.
LEMMA TypeStep ==
    ASSUME TypeOK, [Next]_vars
    PROVE  TypeOK'
<1> USE OwnerAssumption, RequestAssumption
<1>a. 0 \in 0 .. Horizon
  BY TimeAssumption
<1>0. /\ NoRecord \in Record
      /\ \A c \in Callers : Claimed(c) \in Record /\ KeyOf[c] \in Keys
      /\ \A r \in Record, s \in Statuses :
            [r EXCEPT !.status = s, !.idle = 0] \in Record
  <2>1. NoRecord \in Record
    BY <1>a DEF NoRecord, Record, Statuses
  <2>2. \A c \in Callers : Claimed(c) \in Record /\ KeyOf[c] \in Keys
    BY <1>a DEF Claimed, Record, Statuses
  <2>3. \A r \in Record, s \in Statuses : [r EXCEPT !.status = s, !.idle = 0] \in Record
    BY <1>a DEF Record
  <2>4. QED
    BY <2>1, <2>2, <2>3
<1>1. \A c \in Callers : \A reply \in {"response", "replay", "rejected"} :
         Finish(c, reply) => exec' \in [Callers -> Execution]
  <2> SUFFICES ASSUME NEW c \in Callers, NEW reply \in {"response", "replay", "rejected"},
                      Finish(c, reply)
               PROVE  exec' \in [Callers -> Execution]
    OBVIOUS
  <2>1. [exec[c] EXCEPT !.pc = "done", !.reply = reply] \in Execution
    BY DEF TypeOK, Execution
  <2>2. exec' = [exec EXCEPT ![c] = [exec[c] EXCEPT !.pc = "done", !.reply = reply]]
    BY DEF Finish, TypeOK
  <2>3. QED
    BY <2>1, <2>2 DEF TypeOK
<1>2. ASSUME NEW c \in Callers, NEW clean \in BOOLEAN, AcquireNew(c, clean)
      PROVE  TypeOK'
  <2> DEFINE started == [exec[c] EXCEPT !.pc = "running", !.since = 0]
  <2>a. started \in Execution
    BY <1>a DEF TypeOK, Execution
  <2>b. exec' = [exec EXCEPT ![c] = started]
    BY <1>2 DEF AcquireNew, TypeOK
  <2> HIDE DEF started
  <2>1. exec' \in [Callers -> Execution]
    BY <2>a, <2>b DEF TypeOK
  <2>2. rec' \in [Keys -> Record]
    BY <1>0, <1>2, CleanedRows DEF AcquireNew
  <2>3. QED
    BY <2>1, <2>2 DEF TypeOK
<1>3. ASSUME NEW c \in Callers, NEW clean \in BOOLEAN,
             AcquireMismatch(c, clean) \/ AcquireCompleted(c, clean) \/ AcquireAmbiguous(c, clean)
      PROVE  TypeOK'
  <2>1. rec' \in [Keys -> Record]
    BY <1>3, CleanedRows DEF AcquireMismatch, AcquireCompleted, AcquireAmbiguous, TypeOK
  <2>2. QED
    BY <1>1, <1>3, <2>1 DEF AcquireMismatch, AcquireCompleted, AcquireAmbiguous, TypeOK
<1>4. ASSUME NEW c \in Callers, NEW clean \in BOOLEAN, AcquireLeaseExpired(c, clean)
      PROVE  TypeOK'
  <2> DEFINE rows == Cleaned(clean)
             failed == [rows[KeyOf[c]] EXCEPT !.status = "FAILED_AMBIGUOUS", !.idle = 0]
  <2>1. failed \in Record
    BY <1>0, CleanedRows DEF Statuses
  <2>2. rec' = [rows EXCEPT ![KeyOf[c]] = failed]
    BY <1>0, <1>4, CleanedRows DEF AcquireLeaseExpired
  <2> HIDE DEF failed
  <2>3. rec' \in [Keys -> Record]
    BY <2>1, <2>2, <1>0, CleanedRows
  <2>4. QED
    BY <1>1, <1>4, <2>3 DEF AcquireLeaseExpired, TypeOK
<1>5. ASSUME NEW c \in Callers, NEW clean \in BOOLEAN, AcquireInProgress(c, clean)
      PROVE  TypeOK'
  BY <1>5, CleanedRows DEF AcquireInProgress, TypeOK, Execution
<1>6. ASSUME NEW c \in Callers, NEW clean \in BOOLEAN, Complete(c, clean)
      PROVE  TypeOK'
  <2> DEFINE rows == Cleaned(clean)
             done == [rows[KeyOf[c]] EXCEPT !.status = "COMPLETED", !.idle = 0]
  <2>1. done \in Record
    BY <1>0, CleanedRows DEF Statuses
  <2>2. rec' = [rows EXCEPT ![KeyOf[c]] = done] \/ rec' = rows
    BY <1>0, <1>6, CleanedRows DEF Complete
  <2> HIDE DEF done
  <2>3. rec' \in [Keys -> Record]
    BY <2>1, <2>2, <1>0, CleanedRows
  <2>4. QED
    BY <1>1, <1>6, <2>3 DEF Complete, TypeOK
<1>7. ASSUME NEW c \in Callers, Await(c)
      PROVE  TypeOK'
  BY <1>1, <1>7 DEF Await, TypeOK
<1>8. ASSUME NEW c \in Callers, Dispatch(c)
      PROVE  TypeOK'
  BY <1>8 DEF Dispatch, TypeOK, Execution
<1>9. ASSUME NEW c \in Callers, FailIndeterminate(c)
      PROVE  TypeOK'
  <2> DEFINE failed == [rec[KeyOf[c]] EXCEPT !.status = "FAILED_AMBIGUOUS", !.idle = 0]
  <2>1. failed \in Record
    BY <1>0 DEF Statuses, TypeOK
  <2>2. rec' = [rec EXCEPT ![KeyOf[c]] = failed] \/ rec' = rec
    BY <1>0, <1>9 DEF FailIndeterminate, TypeOK
  <2> HIDE DEF failed
  <2>3. rec' \in [Keys -> Record]
    BY <2>1, <2>2, <1>0 DEF TypeOK
  <2>4. QED
    BY <1>1, <1>9, <2>3 DEF FailIndeterminate, TypeOK
<1>10. ASSUME NEW c \in Callers, AbortIfClean(c)
       PROVE  TypeOK'
  <2>1. rec' \in [Keys -> Record]
    BY <1>0, <1>10 DEF AbortIfClean, Abort, TypeOK
  <2>2. QED
    BY <1>1, <1>10, <2>1 DEF AbortIfClean, Abort, TypeOK
<1>11. ASSUME NEW c \in Callers, Crash(c)
       PROVE  TypeOK'
  BY <1>11 DEF Crash, TypeOK, Execution
<1>12. CASE CleanupExpired
  BY <1>12, CleanedRows DEF CleanupExpired, TypeOK
<1>13. CASE Tick
  <2>1. \A r \in Record : [r EXCEPT !.age = Older(@), !.idle = Older(@)] \in Record
    BY OlderInRange DEF Record
  <2>2. \A e \in Execution : [e EXCEPT !.since = Older(@)] \in Execution
    BY OlderInRange DEF Execution
  <2>3. QED
    BY <1>13, <2>1, <2>2 DEF Tick, TypeOK
<1>14. CASE UNCHANGED vars
  BY <1>14 DEF vars, TypeOK
<1>15. QED
  BY <1>2, <1>3, <1>4, <1>5, <1>6, <1>7, <1>8, <1>9, <1>10, <1>11, <1>12, <1>13, <1>14
     DEF Next, CallerStep, Acquire

\* The tables and the requests stay well typed: Spec => []TypeOK.
THEOREM TypeCorrect == Spec => []TypeOK
<1>1. Init => TypeOK
  BY TimeAssumption DEF Init, TypeOK, NoRecord, Record, Statuses, NewExecution, Execution
<1>2. TypeOK /\ [Next]_vars => TypeOK'
  BY TypeStep
<1>3. QED
  BY <1>1, <1>2, PTL DEF Spec

-----------------------------------------------------------------------------
(* Keys are kept. *)

\* A row that a request holds is neither removed by a cleanup nor reclaimed.
LEMMA HeldRows ==
    ASSUME TypeOK, NEW c \in Callers, NEW clean \in BOOLEAN,
           OwnRecord(c).status # "NONE", OwnRecord(c).age < Retention
    PROVE  /\ Cleaned(clean)[KeyOf[c]] = OwnRecord(c)
           /\ ~Absent(OwnRecord(c)) /\ ~Expired(OwnRecord(c))
<1>1. KeyOf[c] \in Keys
  BY RequestAssumption
<1>2. OwnRecord(c).age \in Nat
  BY <1>1 DEF OwnRecord, TypeOK, Record
<1>3. ~(OwnRecord(c).age > Retention) /\ ~(OwnRecord(c).age >= Retention)
  BY <1>2, TimeAssumption
<1>4. QED
  BY <1>1, <1>3, CleanedRows DEF OwnRecord, Absent, Expired

\* A step that leaves the table to a cleanup, and the dispatches and ages of the
\* requests alone, keeps the invariant; no request that ran or answered changes.
LEMMA CleanupStep ==
    ASSUME IInv, NEW clean \in BOOLEAN, rec' = Cleaned(clean) \/ rec' = rec,
           \A d \in Callers :
              \/ exec'[d] = exec[d]
              \/ /\ exec'[d].ran = exec[d].ran /\ exec'[d].since = exec[d].since
                 /\ exec[d].pc \notin {"done", "dead"}
                 /\ exec'[d].pc = "running" => exec[d].pc = "running"
                 /\ exec'[d].pc = "waiting" => exec[d].pc = "new"
                 /\ exec'[d].pc # "new"
    PROVE  Rest'
<1> USE RequestAssumption DEF IInv, Rest
<1>1. \A k \in Keys : rec'[k] = rec[k] \/ rec'[k] = NoRecord
  BY CleanedRows
<1>2. ASSUME NEW d \in Callers
      PROVE  Holds(d)'
  <2> SUFFICES ASSUME exec'[d].pc = "running" \/ exec'[d].ran, exec'[d].since < Retention
               PROVE  /\ rec'[KeyOf[d]].owner = d
                      /\ rec'[KeyOf[d]].status # "NONE"
                      /\ rec'[KeyOf[d]].age = exec'[d].since
    BY DEF Holds, OwnRecord
  <2>1. /\ OwnRecord(d).owner = d
        /\ OwnRecord(d).status # "NONE"
        /\ OwnRecord(d).age = exec[d].since
        /\ exec[d].since = exec'[d].since
    BY DEF Holds
  <2>2. rec'[KeyOf[d]] = OwnRecord(d)
    BY <2>1, HeldRows DEF OwnRecord
  <2>3. QED
    BY <2>1, <2>2
<1>3. ASSUME NEW d \in Callers, exec'[d].pc \in {"new", "waiting"}
      PROVE  ~exec'[d].ran
  BY <1>3
<1>4. ASSUME NEW k \in Keys
      PROVE  /\ rec'[k].status = "NONE" => rec'[k].owner = NoOwner
             /\ rec'[k].status # "NONE" => rec'[k].owner \in Callers
  BY <1>1, <1>4 DEF NoRecord
<1>5. ASSUME NEW k \in Keys, rec'[k].status = "COMPLETED"
      PROVE  exec'[rec'[k].owner].pc = "done" /\ exec'[rec'[k].owner].reply = "response"
  BY <1>1, <1>5 DEF NoRecord
<1>6. QED
  BY <1>2, <1>3, <1>4, <1>5

\* A step in which the owner c rewrites its own row, or frees it after a clean
\* run, and ends.
LEMMA OwnerStep ==
    ASSUME IInv, NEW c \in Callers, NEW clean \in BOOLEAN, NEW reply,
           exec[c].pc = "running", Finish(c, reply),
           \A k \in Keys \ {KeyOf[c]} : rec'[k] = Cleaned(clean)[k] \/ rec'[k] = rec[k],
           \/ rec'[KeyOf[c]] = Cleaned(clean)[KeyOf[c]] \/ rec'[KeyOf[c]] = rec[KeyOf[c]]
           \/ /\ Cleaned(clean)[KeyOf[c]].owner = c /\ Cleaned(clean)[KeyOf[c]].status # "NONE"
              /\ rec'[KeyOf[c]].owner = c
              /\ rec'[KeyOf[c]].age = rec[KeyOf[c]].age
              /\ rec'[KeyOf[c]].status \in {"COMPLETED", "FAILED_AMBIGUOUS"}
              /\ rec'[KeyOf[c]].status = "COMPLETED" => reply = "response"
           \/ rec'[KeyOf[c]] = NoRecord /\ rec[KeyOf[c]].owner = c /\ ~exec[c].ran
    PROVE  Rest'
<1> USE RequestAssumption DEF IInv, Rest
<1>1. /\ exec'[c].pc = "done" /\ exec'[c].reply = reply
      /\ exec'[c].ran = exec[c].ran /\ exec'[c].since = exec[c].since
      /\ \A d \in Callers \ {c} : exec'[d] = exec[d]
  BY DEF Finish, TypeOK, Execution
<1>2. \A k \in Keys : Cleaned(clean)[k] = rec[k] \/ Cleaned(clean)[k] = NoRecord
  BY CleanedRows
<1>3. ASSUME NEW d \in Callers
      PROVE  Holds(d)'
  <2> SUFFICES ASSUME exec'[d].pc = "running" \/ exec'[d].ran, exec'[d].since < Retention
               PROVE  /\ rec'[KeyOf[d]].owner = d
                      /\ rec'[KeyOf[d]].status # "NONE"
                      /\ rec'[KeyOf[d]].age = exec'[d].since
    BY DEF Holds, OwnRecord
  <2>1. /\ OwnRecord(d).owner = d
        /\ OwnRecord(d).status # "NONE"
        /\ OwnRecord(d).age = exec[d].since
        /\ exec[d].since = exec'[d].since
    BY <1>1 DEF Holds
  <2>2. Cleaned(clean)[KeyOf[d]] = OwnRecord(d)
    BY <2>1, HeldRows DEF OwnRecord
  <2>3. CASE KeyOf[d] # KeyOf[c]
    BY <2>1, <2>2, <2>3 DEF OwnRecord
  <2>4. CASE KeyOf[d] = KeyOf[c] /\ d # c
    BY <2>1, <2>2, <2>4 DEF OwnRecord
  <2>5. CASE d = c
    BY <1>1, <2>1, <2>2, <2>5 DEF OwnRecord
  <2>6. QED
    BY <2>3, <2>4, <2>5
<1>4. ASSUME NEW k \in Keys
      PROVE  /\ rec'[k].status = "NONE" => rec'[k].owner = NoOwner
             /\ rec'[k].status # "NONE" => rec'[k].owner \in Callers
  BY <1>2, <1>4 DEF NoRecord
<1>5. ASSUME NEW k \in Keys, rec'[k].status = "COMPLETED"
      PROVE  exec'[rec'[k].owner].pc = "done" /\ exec'[rec'[k].owner].reply = "response"
  <2>1. CASE rec'[k] = rec[k]
    BY <1>1, <1>5, <2>1
  <2>2. CASE rec'[k] # rec[k]
    BY <1>1, <1>2, <1>5, <2>2 DEF NoRecord
  <2>3. QED
    BY <2>1, <2>2
<1>6. QED
  BY <1>1, <1>3, <1>4, <1>5

\* A request claims a key that is absent or past its retention.
LEMMA ClaimStep ==
    ASSUME IInv, NEW c \in Callers, NEW clean \in BOOLEAN, AcquireNew(c, clean)
    PROVE  Rest'
<1> USE RequestAssumption DEF IInv, Rest
<1> DEFINE rows == Cleaned(clean)
<1>1. /\ exec[c].pc = "new" /\ ~exec[c].ran
      /\ exec'[c].pc = "running" /\ exec'[c].since = 0
      /\ \A d \in Callers \ {c} : exec'[d] = exec[d]
  BY DEF AcquireNew, TypeOK, Execution
<1>2. rows \in [Keys -> Record] /\ \A k \in Keys : rows[k] = rec[k] \/ rows[k] = NoRecord
  BY CleanedRows
<1>3. rec'[KeyOf[c]] = Claimed(c) /\ \A k \in Keys \ {KeyOf[c]} : rec'[k] = rows[k]
  BY <1>2 DEF AcquireNew
<1>4. Absent(rows[KeyOf[c]]) \/ Expired(rows[KeyOf[c]])
  BY DEF AcquireNew
<1> HIDE DEF rows
<1>5. ASSUME NEW d \in Callers
      PROVE  Holds(d)'
  <2> SUFFICES ASSUME exec'[d].pc = "running" \/ exec'[d].ran, exec'[d].since < Retention
               PROVE  /\ rec'[KeyOf[d]].owner = d
                      /\ rec'[KeyOf[d]].status # "NONE"
                      /\ rec'[KeyOf[d]].age = exec'[d].since
    BY DEF Holds, OwnRecord
  <2>1. CASE d = c
    BY <1>1, <1>3, <2>1 DEF Claimed
  <2>2. CASE d # c
    <3>1. /\ OwnRecord(d).owner = d
          /\ OwnRecord(d).status # "NONE"
          /\ OwnRecord(d).age = exec[d].since
          /\ exec[d] = exec'[d]
      BY <1>1, <2>2 DEF Holds
    <3>2. /\ rows[KeyOf[d]] = OwnRecord(d)
          /\ ~Absent(OwnRecord(d)) /\ ~Expired(OwnRecord(d))
      BY <3>1, HeldRows DEF OwnRecord, rows
    <3>3. KeyOf[d] # KeyOf[c]
      BY <1>4, <3>2
    <3>4. QED
      BY <1>3, <3>1, <3>2, <3>3 DEF OwnRecord
  <2>3. QED
    BY <2>1, <2>2
<1>6. ASSUME NEW k \in Keys
      PROVE  /\ rec'[k].status = "NONE" => rec'[k].owner = NoOwner
             /\ rec'[k].status # "NONE" => rec'[k].owner \in Callers
  BY <1>2, <1>3, <1>6 DEF NoRecord, Claimed
<1>7. ASSUME NEW k \in Keys, rec'[k].status = "COMPLETED"
      PROVE  exec'[rec'[k].owner].pc = "done" /\ exec'[rec'[k].owner].reply = "response"
  BY <1>1, <1>2, <1>3, <1>7 DEF NoRecord, Claimed
<1>8. QED
  BY <1>1, <1>5, <1>6, <1>7

\* The row of a request that went unanswered past its lease is failed closed.
LEMMA LeaseStep ==
    ASSUME IInv, NEW c \in Callers, NEW clean \in BOOLEAN, AcquireLeaseExpired(c, clean)
    PROVE  Rest'
<1> USE RequestAssumption DEF IInv, Rest
<1> DEFINE rows == Cleaned(clean)
<1>1. /\ exec[c].pc = "new" /\ ~exec[c].ran
      /\ exec'[c].pc = "done" /\ exec'[c].ran = exec[c].ran
      /\ \A d \in Callers \ {c} : exec'[d] = exec[d]
  BY DEF AcquireLeaseExpired, Finish, TypeOK, Execution
<1>2. rows \in [Keys -> Record] /\ \A k \in Keys : rows[k] = rec[k] \/ rows[k] = NoRecord
  BY CleanedRows
<1>3. /\ rec'[KeyOf[c]].owner = rows[KeyOf[c]].owner
      /\ rec'[KeyOf[c]].age = rows[KeyOf[c]].age
      /\ rec'[KeyOf[c]].status = "FAILED_AMBIGUOUS"
      /\ rows[KeyOf[c]].status = "IN_PROGRESS"
      /\ \A k \in Keys \ {KeyOf[c]} : rec'[k] = rows[k]
  BY <1>2 DEF AcquireLeaseExpired, Record
<1> HIDE DEF rows
<1>4. ASSUME NEW d \in Callers
      PROVE  Holds(d)'
  <2> SUFFICES ASSUME exec'[d].pc = "running" \/ exec'[d].ran, exec'[d].since < Retention
               PROVE  /\ rec'[KeyOf[d]].owner = d
                      /\ rec'[KeyOf[d]].status # "NONE"
                      /\ rec'[KeyOf[d]].age = exec'[d].since
    BY DEF Holds, OwnRecord
  <2>1. /\ OwnRecord(d).owner = d
        /\ OwnRecord(d).status # "NONE"
        /\ OwnRecord(d).age = exec[d].since
        /\ exec[d] = exec'[d]
    BY <1>1 DEF Holds
  <2>2. rows[KeyOf[d]] = OwnRecord(d)
    BY <2>1, HeldRows DEF OwnRecord, rows
  <2>3. QED
    BY <1>3, <2>1, <2>2 DEF OwnRecord
<1>5. ASSUME NEW k \in Keys
      PROVE  /\ rec'[k].status = "NONE" => rec'[k].owner = NoOwner
             /\ rec'[k].status # "NONE" => rec'[k].owner \in Callers
  BY <1>2, <1>3, <1>5 DEF NoRecord
<1>6. ASSUME NEW k \in Keys, rec'[k].status = "COMPLETED"
      PROVE  exec'[rec'[k].owner].pc = "done" /\ exec'[rec'[k].owner].reply = "response"
  BY <1>1, <1>2, <1>3, <1>6 DEF NoRecord
<1>7. QED
  BY <1>1, <1>4, <1>5, <1>6

\* Time keeps a request and the row it holds at the same age.
LEMMA TickStep ==
    ASSUME IInv, Tick
    PROVE  Rest'
<1> USE RequestAssumption DEF IInv, Rest
<1>1. \A d \in Callers :
         /\ exec'[d].pc = exec[d].pc /\ exec'[d].ran = exec[d].ran
         /\ exec'[d].reply = exec[d].reply
         /\ exec[d].pc = "new" \/ exec'[d].since = Older(exec[d].since)
  BY DEF Tick, TypeOK, Execution
<1>2. \A k \in Keys :
         /\ rec'[k].status = rec[k].status /\ rec'[k].owner = rec[k].owner
         /\ rec[k].status = "NONE" \/ rec'[k].age = Older(rec[k].age)
  BY DEF Tick, TypeOK, Record, Absent
<1>3. \A n \in 0 .. Horizon : Older(n) < Retention => n < Retention
  BY TimeAssumption DEF Older
<1>4. ASSUME NEW d \in Callers
      PROVE  Holds(d)'
  <2> SUFFICES ASSUME exec'[d].pc = "running" \/ exec'[d].ran, exec'[d].since < Retention
               PROVE  /\ rec'[KeyOf[d]].owner = d
                      /\ rec'[KeyOf[d]].status # "NONE"
                      /\ rec'[KeyOf[d]].age = exec'[d].since
    BY DEF Holds, OwnRecord
  <2>1. exec[d].pc # "new" /\ (exec[d].pc = "running" \/ exec[d].ran)
    BY <1>1
  <2>2. exec[d].since \in 0 .. Horizon
    BY DEF TypeOK, Execution
  <2>3. /\ OwnRecord(d).owner = d
        /\ OwnRecord(d).status # "NONE"
        /\ OwnRecord(d).age = exec[d].since
    BY <1>1, <1>3, <2>1, <2>2 DEF Holds
  <2>4. QED
    BY <1>1, <1>2, <2>1, <2>3 DEF OwnRecord
<1>5. QED
  BY <1>1, <1>2, <1>4

\* Every step keeps the inductive invariant.
LEMMA IInvStep ==
    ASSUME IInv, [Next]_vars
    PROVE  IInv'
<1> USE RequestAssumption
<1>1. TypeOK'
  BY TypeStep DEF IInv
<1>2. ASSUME NEW c \in Callers, NEW clean \in BOOLEAN,
             AcquireMismatch(c, clean) \/ AcquireCompleted(c, clean) \/ AcquireAmbiguous(c, clean)
      PROVE  Rest'
  <2>1. rec' = Cleaned(clean) \/ rec' = rec
    BY <1>2 DEF AcquireMismatch, AcquireCompleted, AcquireAmbiguous
  <2>2. /\ exec[c].pc = "new" /\ exec'[c].pc = "done"
        /\ exec'[c].ran = exec[c].ran /\ exec'[c].since = exec[c].since
        /\ \A d \in Callers \ {c} : exec'[d] = exec[d]
    BY <1>2 DEF AcquireMismatch, AcquireCompleted, AcquireAmbiguous, Finish, IInv, TypeOK, Execution
  <2>3. QED
    BY <2>1, <2>2, CleanupStep
<1>3. ASSUME NEW c \in Callers, NEW clean \in BOOLEAN, AcquireInProgress(c, clean)
      PROVE  Rest'
  <2>1. /\ rec' = Cleaned(clean)
        /\ exec[c].pc = "new" /\ exec'[c].pc = "waiting"
        /\ exec'[c].ran = exec[c].ran /\ exec'[c].since = exec[c].since
        /\ \A d \in Callers \ {c} : exec'[d] = exec[d]
    BY <1>3 DEF AcquireInProgress, IInv, TypeOK, Execution
  <2>2. QED
    BY <2>1, CleanupStep
<1>4. ASSUME NEW c \in Callers, NEW clean \in BOOLEAN, Complete(c, clean)
      PROVE  Rest'
  <2>1. Cleaned(clean) \in [Keys -> Record]
    BY CleanedRows DEF IInv
  <2>2. \/ Cleaned(clean)[KeyOf[c]] = rec[KeyOf[c]]
        \/ Cleaned(clean)[KeyOf[c]].status = "NONE"
    BY CleanedRows DEF IInv, NoRecord
  <2>3. exec[c].pc = "running" /\ Finish(c, "response")
    BY <1>4 DEF Complete
  <2>4. \/ rec' = Cleaned(clean)
        \/ /\ \A k \in Keys \ {KeyOf[c]} : rec'[k] = Cleaned(clean)[k]
           /\ Cleaned(clean)[KeyOf[c]].owner = c
           /\ Cleaned(clean)[KeyOf[c]].status = "IN_PROGRESS"
           /\ rec'[KeyOf[c]].owner = c
           /\ rec'[KeyOf[c]].age = rec[KeyOf[c]].age
           /\ rec'[KeyOf[c]].status = "COMPLETED"
    BY <1>4, <2>1, <2>2 DEF Complete, Record
  <2>5. QED
    BY <2>3, <2>4, OwnerStep
<1>5. ASSUME NEW c \in Callers, Await(c)
      PROVE  Rest'
  <2>1. /\ rec' = rec
        /\ exec[c].pc = "waiting" /\ exec'[c].pc = "done"
        /\ exec'[c].ran = exec[c].ran /\ exec'[c].since = exec[c].since
        /\ \A d \in Callers \ {c} : exec'[d] = exec[d]
    BY <1>5 DEF Await, Finish, IInv, TypeOK, Execution
  <2>2. QED
    BY <2>1, CleanupStep
<1>6. ASSUME NEW c \in Callers, Dispatch(c)
      PROVE  Rest'
  <2>1. /\ rec' = rec
        /\ exec[c].pc = "running" /\ exec'[c].pc = "running"
        /\ exec'[c].since = exec[c].since
        /\ \A d \in Callers \ {c} : exec'[d] = exec[d]
    BY <1>6 DEF Dispatch, IInv, TypeOK, Execution
  <2>2. \A d \in Callers : Holds(d)'
    BY <2>1 DEF IInv, Rest, Holds, OwnRecord
  <2>3. QED
    BY <2>1, <2>2 DEF IInv, Rest
<1>7. ASSUME NEW c \in Callers, FailIndeterminate(c)
      PROVE  Rest'
  <2>1. \/ rec' = rec
        \/ /\ \A k \in Keys \ {KeyOf[c]} : rec'[k] = rec[k]
           /\ rec[KeyOf[c]].owner = c
           /\ rec'[KeyOf[c]].owner = c
           /\ rec'[KeyOf[c]].age = rec[KeyOf[c]].age
           /\ rec'[KeyOf[c]].status = "FAILED_AMBIGUOUS"
    BY <1>7 DEF FailIndeterminate, Owns, OwnRecord, IInv, TypeOK, Record
  <2>2. Cleaned(FALSE) = rec
    BY DEF Cleaned, IInv, TypeOK
  <2>3. rec[KeyOf[c]].owner = c => rec[KeyOf[c]].status # "NONE"
    BY OwnerAssumption DEF IInv, Rest
  <2>4. QED
    BY <1>7, <2>1, <2>2, <2>3, OwnerStep, OwnerAssumption DEF FailIndeterminate
<1>8. ASSUME NEW c \in Callers, AbortIfClean(c)
      PROVE  Rest'
  <2>1. \/ rec' = rec
        \/ /\ \A k \in Keys \ {KeyOf[c]} : rec'[k] = rec[k]
           /\ rec[KeyOf[c]].owner = c
           /\ rec'[KeyOf[c]] = NoRecord
    BY <1>8 DEF AbortIfClean, Abort, OwnsInProgress, Owns, OwnRecord, IInv, TypeOK
  <2>2. QED
    BY <1>8, <2>1, OwnerStep DEF AbortIfClean, Abort
<1>9. ASSUME NEW c \in Callers, Crash(c)
      PROVE  Rest'
  <2>1. /\ rec' = rec
        /\ exec[c].pc \notin {"done", "dead", "new"} /\ exec'[c].pc = "dead"
        /\ exec'[c].ran = exec[c].ran /\ exec'[c].since = exec[c].since
        /\ \A d \in Callers \ {c} : exec'[d] = exec[d]
    BY <1>9 DEF Crash, IInv, TypeOK, Execution
  <2>2. QED
    BY <2>1, CleanupStep
<1>10. CASE CleanupExpired
  BY <1>1, <1>10, CleanupStep DEF CleanupExpired, IInv
<1>11. CASE UNCHANGED vars
  BY <1>1, <1>11, CleanupStep DEF vars, IInv
<1>12. QED
  BY <1>1, <1>2, <1>3, <1>4, <1>5, <1>6, <1>7, <1>8, <1>9, <1>10, <1>11,
     ClaimStep, LeaseStep, TickStep
     DEF Next, CallerStep, Acquire, IInv

-----------------------------------------------------------------------------
(* The theorems. *)

\* A caller that takes work back off its lists moves no record.
LEMMA DisownStep ==
    ASSUME IInv, rec' = rec, exec' \in [Callers -> Execution],
           \A c \in Callers : /\ exec'[c].pc = exec[c].pc /\ exec'[c].since = exec[c].since
                              /\ exec'[c].reply = exec[c].reply
                              /\ exec'[c].ran => exec[c].ran
    PROVE  IInv'
<1>1. TypeOK'
  BY DEF IInv, TypeOK
<1>2. \A c \in Callers : Holds(c)'
  BY DEF IInv, Rest, Holds, OwnRecord
<1>3. \A c \in Callers : exec'[c].pc \in {"new", "waiting"} => ~exec'[c].ran
  BY DEF IInv, Rest
<1>4. \A k \in Keys : rec'[k].status = "COMPLETED" =>
         exec'[rec'[k].owner].pc = "done" /\ exec'[rec'[k].owner].reply = "response"
  BY DEF IInv, Rest
<1>5. QED
  BY <1>1, <1>2, <1>3, <1>4 DEF IInv, Rest

\* The inductive invariant holds in every reachable state.
LEMMA IInvHolds == Spec => []IInv
<1>1. Init => IInv
  <2> SUFFICES ASSUME Init
               PROVE  IInv
    OBVIOUS
  <2>1. 0 \in 0 .. Horizon
    BY TimeAssumption
  <2>2. TypeOK
    BY <2>1 DEF Init, TypeOK, NoRecord, Record, Statuses, NewExecution, Execution
  <2>3. Rest
    BY RequestAssumption DEF Init, NoRecord, NewExecution, Rest, Holds
  <2>4. QED
    BY <2>2, <2>3 DEF IInv
<1>2. IInv /\ [Next]_vars => IInv'
  BY IInvStep
<1>3. QED
  BY <1>1, <1>2, PTL DEF Spec

\* A request that dispatched work keeps its key for the retention period,
\* whatever crashes, leases, cleanups and retries do: Spec => []DispatchedKeepsKey.
THEOREM KeptKeys == Spec => []DispatchedKeepsKey
<1>1. IInv => DispatchedKeepsKey
  BY DEF IInv, Rest, Holds, DispatchedKeepsKey
<1>2. QED
  BY <1>1, IInvHolds, PTL

\* A request starts to run by acquiring a new key, and in no other way.
LEMMA OnlyAcquireNewStarts ==
    ASSUME TypeOK, [Next]_vars, NEW c \in Callers,
           exec[c].pc = "new", exec'[c].pc = "running"
    PROVE  \E clean \in BOOLEAN : AcquireNew(c, clean)
<1>1. ASSUME NEW e \in Callers, NEW reply, Finish(e, reply)
      PROVE  exec'[c] = exec[c] \/ exec'[c].pc = "done"
  BY <1>1 DEF Finish, TypeOK, Execution
<1>2. ASSUME NEW e \in Callers, NEW clean \in BOOLEAN, Acquire(e, clean)
      PROVE  e = c /\ AcquireNew(e, clean)
  <2>1. CASE AcquireNew(e, clean)
    BY <2>1 DEF AcquireNew, TypeOK
  <2>2. CASE AcquireInProgress(e, clean)
    BY <2>2 DEF AcquireInProgress, TypeOK, Execution
  <2>3. QED
    BY <1>1, <1>2, <2>1, <2>2
       DEF Acquire, AcquireMismatch, AcquireCompleted, AcquireAmbiguous, AcquireLeaseExpired
<1>3. ASSUME NEW e \in Callers, NEW clean \in BOOLEAN,
             Complete(e, clean) \/ Await(e) \/ FailIndeterminate(e) \/ AbortIfClean(e)
      PROVE  FALSE
  BY <1>1, <1>3 DEF Complete, Await, FailIndeterminate, AbortIfClean, Abort
<1>4. ASSUME NEW e \in Callers, Dispatch(e) \/ Crash(e)
      PROVE  FALSE
  BY <1>4 DEF Dispatch, Crash, TypeOK, Execution
<1>5. CASE Tick
  BY <1>5 DEF Tick, TypeOK, Execution
<1>6. CASE CleanupExpired \/ UNCHANGED vars
  BY <1>6 DEF CleanupExpired, vars
<1>7. QED
  BY <1>2, <1>3, <1>4, <1>5, <1>6 DEF Next, CallerStep

\* No request acquires a key under which another dispatched within the
\* retention period.
THEOREM NoDuplicates == Spec => NoDuplicateExecution
<1> DEFINE Alone == \A c, d \in Callers :
          ( /\ SameKey(c, d)
            /\ exec[c].pc = "new" /\ exec'[c].pc = "running"
            /\ exec[d].ran ) => exec[d].since >= Retention
<1>1. ASSUME IInv, [Next]_vars
      PROVE  Alone
  <2> SUFFICES ASSUME NEW c \in Callers, NEW d \in Callers, SameKey(c, d),
                      exec[c].pc = "new", exec'[c].pc = "running", exec[d].ran,
                      ~(exec[d].since >= Retention)
               PROVE  FALSE
    OBVIOUS
  <2>1. \E clean \in BOOLEAN : AcquireNew(c, clean)
    BY <1>1, OnlyAcquireNewStarts DEF IInv
  <2>2. exec[d].since \in 0 .. Horizon
    BY <1>1 DEF IInv, TypeOK, Execution
  <2>3. exec[d].since < Retention
    BY <2>2, TimeAssumption
  <2>4. OwnRecord(d).status # "NONE" /\ OwnRecord(d).age < Retention
    BY <1>1, <2>3 DEF IInv, Rest, Holds
  <2>5. \A clean \in BOOLEAN : ~AcquireNew(c, clean)
    BY <1>1, <2>4, HeldRows DEF AcquireNew, IInv, SameKey, OwnRecord
  <2>6. QED
    BY <2>1, <2>5
<1>2. QED
  BY <1>1, IInvHolds, PTL DEF Spec, NoDuplicateExecution

\* Within its retention a resolved row keeps its status and its owner.
LEMMA ResolvedRowStays ==
    ASSUME IInv, [Next]_vars, NEW k \in Keys,
           rec[k].status \in {"COMPLETED", "FAILED_AMBIGUOUS"}, rec[k].age < Retention
    PROVE  rec'[k].status = rec[k].status /\ rec'[k].owner = rec[k].owner
<1> USE RequestAssumption
<1>1. /\ rec[k].age \in Nat
      /\ ~(rec[k].age > Retention) /\ ~(rec[k].age >= Retention)
  <2>1. rec[k].age \in 0 .. Horizon
    BY DEF IInv, TypeOK, Record
  <2>2. QED
    BY <2>1, TimeAssumption
<1>2. \A clean \in BOOLEAN : Cleaned(clean) \in [Keys -> Record] /\ Cleaned(clean)[k] = rec[k]
  BY <1>1, CleanedRows DEF IInv
<1>3. ASSUME NEW c \in Callers, NEW clean \in BOOLEAN, Acquire(c, clean)
      PROVE  rec'[k] = rec[k]
  <2>1. CASE AcquireNew(c, clean)
    BY <1>1, <1>2, <2>1 DEF AcquireNew, Absent, Expired
  <2>2. CASE AcquireLeaseExpired(c, clean)
    BY <1>2, <2>2 DEF AcquireLeaseExpired
  <2>3. QED
    BY <1>2, <1>3, <2>1, <2>2
       DEF Acquire, AcquireMismatch, AcquireCompleted, AcquireAmbiguous, AcquireInProgress
<1>4. ASSUME NEW c \in Callers, NEW clean \in BOOLEAN, Complete(c, clean)
      PROVE  rec'[k] = rec[k]
  BY <1>2, <1>4 DEF Complete
<1>5. ASSUME NEW c \in Callers, FailIndeterminate(c)
      PROVE  rec'[k].status = rec[k].status /\ rec'[k].owner = rec[k].owner
  <2>1. CASE k = KeyOf[c] /\ Owns(c)
    <3>1. rec[k].status = "FAILED_AMBIGUOUS"
      BY <1>5, <2>1 DEF FailIndeterminate, Owns, OwnRecord, IInv, Rest
    <3>2. QED
      BY <1>5, <2>1, <3>1 DEF FailIndeterminate, IInv, TypeOK, Record
  <2>2. CASE ~(k = KeyOf[c] /\ Owns(c))
    BY <1>5, <2>2 DEF FailIndeterminate, IInv, TypeOK
  <2>3. QED
    BY <2>1, <2>2
<1>6. ASSUME NEW c \in Callers, AbortIfClean(c)
      PROVE  rec'[k] = rec[k]
  BY <1>6 DEF AbortIfClean, Abort, OwnsInProgress, OwnRecord, IInv, TypeOK
<1>7. ASSUME NEW c \in Callers, Await(c) \/ Dispatch(c) \/ Crash(c)
      PROVE  rec'[k] = rec[k]
  BY <1>7 DEF Await, Dispatch, Crash
<1>8. CASE Tick
  BY <1>8 DEF Tick, IInv, TypeOK, Record
<1>9. CASE CleanupExpired \/ UNCHANGED vars
  BY <1>2, <1>9 DEF CleanupExpired, vars
<1>10. QED
  BY <1>3, <1>4, <1>5, <1>6, <1>7, <1>8, <1>9 DEF Next, CallerStep

\* An ambiguous record stays ambiguous until its retention ends, also when its
\* execution comes back: Spec => AmbiguousUntilRetention.
THEOREM AmbiguousStays == Spec => AmbiguousUntilRetention
<1>1. IInv /\ [Next]_vars =>
         \A k \in Keys : rec[k].status = "FAILED_AMBIGUOUS" /\ rec[k].age < Retention
            => rec'[k].status = "FAILED_AMBIGUOUS"
  BY ResolvedRowStays
<1>2. QED
  BY <1>1, IInvHolds, PTL DEF Spec, AmbiguousUntilRetention

\* A cached response is final within its retention, and belongs to a request
\* that answered with it: Spec => CompletedIsFinal.
THEOREM CompletedStays == Spec => CompletedIsFinal
<1>1. IInv /\ [Next]_vars =>
         \A k \in Keys : rec[k].status = "COMPLETED" /\ rec[k].age < Retention
            => /\ rec'[k].status = "COMPLETED"
               /\ rec'[k].owner = rec[k].owner
               /\ exec[rec[k].owner].reply = "response"
  BY ResolvedRowStays DEF IInv, Rest
<1>2. QED
  BY <1>1, IInvHolds, PTL DEF Spec, CompletedIsFinal

-----------------------------------------------------------------------------
(* How the steps move the rows. *)

\* What a step of a request, or a cleanup, may do to a row.
RowMove(k) ==
    \/ rec'[k] = rec[k]
    \/ rec'[k] = NoRecord
    \/ \E c \in Callers : /\ KeyOf[c] = k /\ rec'[k] = Claimed(c)
                         /\ exec[c].pc = "new" /\ exec'[c].since = 0
    \/ /\ rec[k].status = "IN_PROGRESS" /\ rec[k].idle > Lease
       /\ rec'[k].status = "FAILED_AMBIGUOUS" /\ rec'[k].owner = rec[k].owner
    \/ /\ rec'[k].status \in {"COMPLETED", "FAILED_AMBIGUOUS"}
       /\ rec'[k].owner = rec[k].owner /\ exec'[rec[k].owner].pc = "done"

\* Every step but the clock's moves every row in one of these ways.
LEMMA RowMoves ==
    ASSUME IInv, [Next]_vars, ~Tick, NEW k \in Keys
    PROVE  RowMove(k)
<1> USE RequestAssumption
<1>1. \A clean \in BOOLEAN : /\ Cleaned(clean) \in [Keys -> Record]
                             /\ Cleaned(clean)[k] = rec[k] \/ Cleaned(clean)[k] = NoRecord
  BY CleanedRows DEF IInv
<1>2. ASSUME NEW c \in Callers, NEW reply, Finish(c, reply)
      PROVE  exec'[c].pc = "done"
  BY <1>2 DEF Finish, IInv, TypeOK, Execution
<1>3. ASSUME NEW c \in Callers, NEW clean \in BOOLEAN, AcquireNew(c, clean)
      PROVE  RowMove(k)
  <2>1. exec[c].pc = "new" /\ exec'[c].since = 0
    BY <1>3 DEF AcquireNew, IInv, TypeOK, Execution
  <2>2. rec'[KeyOf[c]] = Claimed(c) /\ (k # KeyOf[c] => rec'[k] = Cleaned(clean)[k])
    BY <1>1, <1>3 DEF AcquireNew
  <2>3. QED
    BY <1>1, <2>1, <2>2 DEF RowMove
<1>4. ASSUME NEW c \in Callers, NEW clean \in BOOLEAN, AcquireLeaseExpired(c, clean)
      PROVE  RowMove(k)
  <2>1. CASE k = KeyOf[c]
    <3>1. /\ Cleaned(clean)[k].status = "IN_PROGRESS" /\ Cleaned(clean)[k].idle > Lease
          /\ rec'[k].status = "FAILED_AMBIGUOUS" /\ rec'[k].owner = Cleaned(clean)[k].owner
      BY <1>1, <1>4, <2>1 DEF AcquireLeaseExpired, Record
    <3>2. Cleaned(clean)[k] = rec[k]
      BY <1>1, <3>1 DEF NoRecord
    <3>3. QED
      BY <3>1, <3>2 DEF RowMove
  <2>2. CASE k # KeyOf[c]
    BY <1>1, <1>4, <2>2 DEF AcquireLeaseExpired, RowMove
  <2>3. QED
    BY <2>1, <2>2
<1>5. ASSUME NEW c \in Callers, NEW clean \in BOOLEAN, Complete(c, clean)
      PROVE  RowMove(k)
  <2>1. CASE /\ k = KeyOf[c] /\ Cleaned(clean)[k].owner = c
             /\ Cleaned(clean)[k].status = "IN_PROGRESS"
    <3>1. rec'[k].status = "COMPLETED" /\ rec'[k].owner = c /\ exec'[c].pc = "done"
      BY <1>1, <1>2, <1>5, <2>1 DEF Complete, Record
    <3>2. rec[k].owner = c
      BY <1>1, <2>1 DEF NoRecord
    <3>3. QED
      BY <3>1, <3>2 DEF RowMove
  <2>2. CASE ~ /\ k = KeyOf[c] /\ Cleaned(clean)[k].owner = c
               /\ Cleaned(clean)[k].status = "IN_PROGRESS"
    BY <1>1, <1>5, <2>2 DEF Complete, RowMove
  <2>3. QED
    BY <2>1, <2>2
<1>6. ASSUME NEW c \in Callers, FailIndeterminate(c)
      PROVE  RowMove(k)
  <2>1. CASE k = KeyOf[c] /\ Owns(c)
    <3>1. /\ rec'[k].status = "FAILED_AMBIGUOUS" /\ rec'[k].owner = rec[k].owner
          /\ rec[k].owner = c /\ exec'[c].pc = "done"
      BY <1>2, <1>6, <2>1 DEF FailIndeterminate, Owns, OwnRecord, IInv, TypeOK, Record
    <3>2. QED
      BY <3>1 DEF RowMove
  <2>2. CASE ~(k = KeyOf[c] /\ Owns(c))
    BY <1>6, <2>2 DEF FailIndeterminate, IInv, TypeOK, RowMove
  <2>3. QED
    BY <2>1, <2>2
<1>7. ASSUME NEW c \in Callers, AbortIfClean(c)
      PROVE  RowMove(k)
  BY <1>7 DEF AbortIfClean, Abort, IInv, TypeOK, RowMove
<1>8. ASSUME NEW c \in Callers, NEW clean \in BOOLEAN,
             \/ AcquireMismatch(c, clean) \/ AcquireCompleted(c, clean)
             \/ AcquireAmbiguous(c, clean) \/ AcquireInProgress(c, clean)
      PROVE  RowMove(k)
  BY <1>1, <1>8
     DEF AcquireMismatch, AcquireCompleted, AcquireAmbiguous, AcquireInProgress, RowMove
<1>9. ASSUME NEW c \in Callers, Await(c) \/ Dispatch(c) \/ Crash(c)
      PROVE  RowMove(k)
  BY <1>9 DEF Await, Dispatch, Crash, RowMove
<1>10. CASE CleanupExpired \/ UNCHANGED vars
  BY <1>1, <1>10 DEF CleanupExpired, vars, RowMove
<1>11. QED
  BY <1>3, <1>4, <1>5, <1>6, <1>7, <1>8, <1>9, <1>10 DEF Next, CallerStep, Acquire

\* A request found running was running already, since the same moment, unless it
\* has just claimed its key.
LEMMA RunsOn ==
    ASSUME IInv, [Next]_vars, ~Tick, NEW c \in Callers, exec'[c].pc = "running"
    PROVE  \/ exec[c].pc = "running" /\ exec'[c].since = exec[c].since
           \/ /\ exec[c].pc = "new" /\ exec'[c].since = 0
              /\ rec'[KeyOf[c]] = Claimed(c)
<1> USE RequestAssumption
<1>1. ASSUME NEW e \in Callers, NEW reply, Finish(e, reply)
      PROVE  exec'[c] = exec[c] \/ exec'[c].pc = "done"
  BY <1>1 DEF Finish, IInv, TypeOK, Execution
<1>2. ASSUME NEW e \in Callers, NEW clean \in BOOLEAN, AcquireNew(e, clean)
      PROVE  \/ exec'[c] = exec[c]
             \/ /\ exec[c].pc = "new" /\ exec'[c].since = 0
                /\ rec'[KeyOf[c]] = Claimed(c)
  <2>1. Cleaned(clean) \in [Keys -> Record]
    BY CleanedRows DEF IInv
  <2>2. CASE e = c
    BY <1>2, <2>1, <2>2 DEF AcquireNew, IInv, TypeOK, Execution
  <2>3. CASE e # c
    BY <1>2, <2>3 DEF AcquireNew, IInv, TypeOK
  <2>4. QED
    BY <2>2, <2>3
<1>3. ASSUME NEW e \in Callers, NEW clean \in BOOLEAN,
             \/ AcquireMismatch(e, clean) \/ AcquireCompleted(e, clean)
             \/ AcquireAmbiguous(e, clean) \/ AcquireLeaseExpired(e, clean)
             \/ Complete(e, clean) \/ Await(e) \/ FailIndeterminate(e) \/ AbortIfClean(e)
      PROVE  exec'[c] = exec[c]
  BY <1>1, <1>3
     DEF AcquireMismatch, AcquireCompleted, AcquireAmbiguous, AcquireLeaseExpired,
         Complete, Await, FailIndeterminate, AbortIfClean, Abort
<1>4. ASSUME NEW e \in Callers, NEW clean \in BOOLEAN,
             AcquireInProgress(e, clean) \/ Dispatch(e) \/ Crash(e)
      PROVE  exec[c].pc = "running" /\ exec'[c].since = exec[c].since
  BY <1>4 DEF AcquireInProgress, Dispatch, Crash, IInv, TypeOK, Execution
<1>5. CASE CleanupExpired \/ UNCHANGED vars
  BY <1>5 DEF CleanupExpired, vars
<1>6. QED
  BY <1>2, <1>3, <1>4, <1>5 DEF Next, CallerStep, Acquire

\* What the clock moves: the ages of the rows, and of the requests that started.
LEMMA TickMoves ==
    ASSUME TypeOK, Tick
    PROVE  /\ \A c \in Callers : exec'[c].pc = "running" =>
                 exec[c].pc = "running" /\ exec'[c].since = Older(exec[c].since)
           /\ \A k \in Keys :
                 /\ rec'[k].status = rec[k].status /\ rec'[k].owner = rec[k].owner
                 /\ rec[k].status = "NONE" \/ rec'[k].idle = Older(rec[k].idle)
<1>1. \A c \in Callers : exec'[c].pc = "running" =>
         exec[c].pc = "running" /\ exec'[c].since = Older(exec[c].since)
  BY DEF Tick, TypeOK, Execution
<1>2. \A k \in Keys :
         /\ rec'[k].status = rec[k].status /\ rec'[k].owner = rec[k].owner
         /\ rec[k].status = "NONE" \/ rec'[k].idle = Older(rec[k].idle)
  BY DEF Tick, TypeOK, Record, Absent
<1>3. QED
  BY <1>1, <1>2

\* A row lies under the key of its owner.
FiledUnderKey == \A k \in Keys : rec[k].status # "NONE" => KeyOf[rec[k].owner] = k

\* Every step keeps it there.
LEMMA FiledStep ==
    ASSUME IInv, FiledUnderKey, [Next]_vars
    PROVE  FiledUnderKey'
<1> USE OwnerAssumption DEF FiledUnderKey
<1>0. IInv'
  BY IInvStep
<1>1. \A k \in Keys : /\ rec[k].status # "NONE" <=> rec[k].owner \in Callers
                      /\ rec'[k].status # "NONE" <=> rec'[k].owner \in Callers
  BY <1>0 DEF IInv, Rest
<1>2. /\ NoRecord.status = "NONE"
      /\ \A c \in Callers : Claimed(c).owner = c
  BY DEF NoRecord, Claimed
<1>3. CASE Tick
  BY <1>3, TickMoves DEF IInv
<1>4. ASSUME ~Tick, NEW k \in Keys, rec'[k].status # "NONE"
      PROVE  KeyOf[rec'[k].owner] = k
  <2>1. RowMove(k)
    BY <1>4, RowMoves
  <2>2. rec'[k].owner = rec[k].owner => rec[k].status # "NONE"
    BY <1>1, <1>4
  <2>3. QED
    BY <1>2, <1>4, <2>1, <2>2 DEF RowMove
<1>5. QED
  BY <1>3, <1>4

\* In every reachable state it lies there.
LEMMA FiledHolds == Spec => []FiledUnderKey
<1>1. Init => FiledUnderKey
  BY DEF Init, FiledUnderKey, NoRecord
<1>2. IInv /\ FiledUnderKey /\ [Next]_vars => FiledUnderKey'
  BY FiledStep
<1>3. QED
  BY <1>1, <1>2, IInvHolds, PTL DEF Spec

-----------------------------------------------------------------------------
(* Where the documented meaning of FAILED_AMBIGUOUS holds.                 *)
(*                                                                         *)
(* AmbiguousMeansInterrupted is violated: a lease may lapse under an       *)
(* execution that is still at work.  It holds of the executions that end   *)
(* within their lease, so that is the only way to violate it.  The reason  *)
(* is that nobody else touches the row of an execution at work, whose idle *)
(* time is therefore the time since it was claimed.                        *)

\* The row of an execution at work has idled since it was claimed, and the
\* ambiguous rows are those of executions that ended.
Untouched ==
    /\ \A c \in Callers : exec[c].pc = "running" /\ exec[c].since < Retention =>
          OwnRecord(c).idle = exec[c].since
    /\ AmbiguousMeansInterrupted

\* While every execution ends in time, rows at work stay untouched.
LEMMA UntouchedStep ==
    ASSUME IInv, IInv', FiledUnderKey, FiledUnderKey', Untouched, RunsWithinLease, [Next]_vars
    PROVE  Untouched'
<1> USE RequestAssumption
<1>0. \A k \in Keys : /\ rec[k].status # "NONE" <=> rec[k].owner \in Callers
                      /\ rec'[k].status # "NONE" <=> rec'[k].owner \in Callers
  BY OwnerAssumption DEF IInv, Rest
<1>a. /\ NoRecord.status = "NONE" /\ NoRecord.owner = NoOwner
      /\ \A c \in Callers : /\ Claimed(c).status = "IN_PROGRESS"
                            /\ Claimed(c).owner = c /\ Claimed(c).idle = 0
  BY DEF NoRecord, Claimed
<1>1. CASE Tick
  <2>1. \A c \in Callers : exec'[c].pc = "running" =>
           exec[c].pc = "running" /\ exec'[c].since = Older(exec[c].since)
    BY <1>1, TickMoves DEF IInv
  <2>2. \A k \in Keys : /\ rec'[k].status = rec[k].status /\ rec'[k].owner = rec[k].owner
                        /\ rec[k].status = "NONE" \/ rec'[k].idle = Older(rec[k].idle)
    BY <1>1, TickMoves DEF IInv
  <2>3. ASSUME NEW c \in Callers, exec'[c].pc = "running"
        PROVE  rec'[KeyOf[c]].idle = exec'[c].since
    <3>1. rec[KeyOf[c]].idle = exec[c].since /\ rec[KeyOf[c]].status # "NONE"
      BY <2>1, <2>3 DEF RunsWithinLease, Untouched, OwnRecord, IInv, Rest, Holds
    <3>2. QED
      BY <2>1, <2>2, <2>3, <3>1
  <2>4. QED
    BY <1>0, <2>1, <2>2, <2>3 DEF Untouched, OwnRecord, AmbiguousMeansInterrupted
<1>2. CASE ~Tick
  <2>1. \A k \in Keys : rec'[k].status # "NONE" => KeyOf[rec'[k].owner] = k
    BY DEF FiledUnderKey
  <2>2. \A c \in Callers : exec[c].pc = "running" =>
           /\ rec[KeyOf[c]].idle = exec[c].since /\ rec[KeyOf[c]].owner = c
           /\ exec[c].since <= Lease
    BY DEF RunsWithinLease, Untouched, OwnRecord, IInv, Rest, Holds
  <2>3. ASSUME NEW k \in Keys, exec[rec[k].owner].pc = "running", rec[k].owner \in Callers,
               KeyOf[rec[k].owner] = k
        PROVE  ~(rec[k].idle > Lease)
    <3>1. rec[k].idle \in 0 .. Horizon
      BY DEF IInv, TypeOK, Record
    <3>2. QED
      BY <2>2, <2>3, <3>1, TimeAssumption
  <2>4. ASSUME NEW c \in Callers, exec'[c].pc = "running", exec'[c].since < Retention
        PROVE  rec'[KeyOf[c]].idle = exec'[c].since
    <3>1. rec'[KeyOf[c]].owner = c /\ rec'[KeyOf[c]].status # "NONE"
      BY <2>4 DEF IInv, Rest, Holds, OwnRecord
    <3>2. CASE exec[c].pc = "running" /\ exec'[c].since = exec[c].since
      <4>1. rec[KeyOf[c]].owner = c /\ rec[KeyOf[c]].idle = exec[c].since
        BY <2>2, <3>2
      <4>2. RowMove(KeyOf[c])
        BY <1>2, RowMoves
      <4>3. ~(rec[KeyOf[c]].idle > Lease)
        BY <2>3, <3>2, <4>1
      <4>4. rec'[KeyOf[c]] = rec[KeyOf[c]]
        BY <1>a, <2>4, <3>1, <3>2, <4>1, <4>2, <4>3 DEF RowMove
      <4>5. QED
        BY <3>2, <4>1, <4>4
    <3>3. CASE exec'[c].since = 0 /\ rec'[KeyOf[c]] = Claimed(c)
      BY <3>3 DEF Claimed
    <3>4. QED
      BY <1>2, <2>4, <3>2, <3>3, RunsOn
  <2>5. ASSUME NEW k \in Keys, rec'[k].status = "FAILED_AMBIGUOUS",
               exec'[rec'[k].owner].pc = "running"
        PROVE  FALSE
    <3> DEFINE o == rec'[k].owner
    <3>1. o \in Callers /\ KeyOf[o] = k
      BY <1>0, <2>1, <2>5
    <3>2. exec[o].pc = "running"
      BY <1>2, <1>a, <2>5, <3>1, RunsOn
    <3>3. /\ rec[k].owner = o /\ ~(rec[k].idle > Lease)
          /\ rec[k].status # "FAILED_AMBIGUOUS"
      BY <2>2, <2>3, <3>1, <3>2 DEF Untouched, AmbiguousMeansInterrupted
    <3>4. RowMove(k)
      BY <1>2, RowMoves
    <3>5. QED
      BY <1>a, <2>5, <3>1, <3>3, <3>4 DEF RowMove
  <2>6. QED
    BY <2>4, <2>5 DEF Untouched, OwnRecord, AmbiguousMeansInterrupted
<1>3. QED
  BY <1>1, <1>2

\* An ambiguous record is that of an interrupted execution, as the docstring has
\* it, as long as no execution outlives its lease.
THEOREM InterruptedUnlessOverrun ==
    Spec /\ []RunsWithinLease => []AmbiguousMeansInterrupted
<1>1. Init => Untouched
  BY RequestAssumption
     DEF Init, Untouched, OwnRecord, AmbiguousMeansInterrupted, NoRecord, NewExecution
<1>2. IInv /\ IInv' /\ FiledUnderKey /\ FiledUnderKey' /\ Untouched /\ RunsWithinLease
         /\ [Next]_vars => Untouched'
  BY UntouchedStep
<1>3. Untouched => AmbiguousMeansInterrupted
  BY DEF Untouched
<1>4. QED
  BY <1>1, <1>2, <1>3, IInvHolds, FiledHolds, PTL DEF Spec

-----------------------------------------------------------------------------
(* The store implements the claims on its keys.                            *)

ClaimTable == [k \in Keys |-> ClaimOf(k)]

\* A claim stays when its row keeps its owner, status and age and its owner's work
\* stays as it was, or when a cleanup removes the row.
LEMMA ClaimStays ==
    ASSUME IInv, NEW k \in Keys,
           \/ /\ rec'[k].status = rec[k].status /\ rec'[k].owner = rec[k].owner
              /\ rec'[k].age = rec[k].age
              /\ LiveRecord(rec[k]) => exec'[rec[k].owner].ran = exec[rec[k].owner].ran
           \/ ~LiveRecord(rec[k]) /\ ~LiveRecord(rec'[k])
    PROVE  ClaimOf(k)' = ClaimOf(k)
<1>1. CASE ~LiveRecord(rec[k]) /\ ~LiveRecord(rec'[k])
  BY <1>1 DEF ClaimOf
<1>2. CASE /\ rec'[k].status = rec[k].status /\ rec'[k].owner = rec[k].owner
           /\ rec'[k].age = rec[k].age
           /\ LiveRecord(rec[k]) => exec'[rec[k].owner].ran = exec[rec[k].owner].ran
  <2>1. LiveRecord(rec'[k]) <=> LiveRecord(rec[k])
    BY <1>2 DEF LiveRecord, Absent, Expired
  <2>2. QED
    BY <1>2, <2>1 DEF ClaimOf
<1>3. QED
  BY <1>1, <1>2

\* A cleanup changes no claim: what it removes had lapsed.
LEMMA CleanupKeepsClaims ==
    ASSUME IInv, NEW clean \in BOOLEAN, NEW k \in Keys,
           rec'[k] = Cleaned(clean)[k] \/ rec'[k] = rec[k],
           \A c \in Callers : exec'[c].ran = exec[c].ran
    PROVE  ClaimOf(k)' = ClaimOf(k)
<1>1. \/ rec'[k] = rec[k]
      \/ rec'[k] = NoRecord /\ rec[k].age > Retention
  BY CleanedRows DEF IInv
<1>2. ASSUME LiveRecord(rec[k])
      PROVE  rec[k].owner \in Callers
  BY <1>2 DEF LiveRecord, Absent, IInv, Rest
<1>3. CASE rec'[k] = rec[k]
  BY <1>2, <1>3, ClaimStays
<1>4. CASE rec'[k] = NoRecord /\ rec[k].age > Retention
  <2>1. rec[k].age \in 0 .. Horizon
    BY DEF IInv, TypeOK, Record
  <2>2. ~LiveRecord(rec[k])
    BY <1>4, <2>1, TimeAssumption DEF LiveRecord, Expired
  <2>3. ~LiveRecord(rec'[k])
    BY <1>4 DEF LiveRecord, Absent, NoRecord
  <2>4. QED
    BY <2>2, <2>3, ClaimStays
<1>5. QED
  BY <1>1, <1>3, <1>4

\* One claim moves, the others stay.
LEMMA OneClaimMoves ==
    ASSUME NEW k \in Keys, NEW c, ClaimOf(k)' = c,
           \A j \in Keys \ {k} : ClaimOf(j)' = ClaimOf(j)
    PROVE  ClaimTable' = [ClaimTable EXCEPT ![k] = c]
  BY DEF ClaimTable

\* Only Dispatch changes what is known of a request's work.
LEMMA FinishKeepsWork ==
    ASSUME TypeOK, NEW c \in Callers, NEW reply, Finish(c, reply)
    PROVE  \A d \in Callers : exec'[d].ran = exec[d].ran
  BY DEF Finish, TypeOK, Execution

\* A claim is taken of a key that is free.
LEMMA NewTakes ==
    ASSUME IInv, NEW c \in Callers, NEW clean \in BOOLEAN, AcquireNew(c, clean)
    PROVE  Claims!Take(KeyOf[c], c)
<1> USE RequestAssumption
<1> DEFINE k == KeyOf[c]
<1>1. k \in Keys /\ Cleaned(clean) \in [Keys -> Record]
  BY CleanedRows DEF IInv
<1>2. /\ exec[c].pc = "new" /\ ~exec[c].ran
      /\ \A d \in Callers : exec'[d].ran = exec[d].ran
  BY DEF AcquireNew, IInv, Rest, TypeOK, Execution
<1>3. rec'[k] = Claimed(c) /\ \A j \in Keys \ {k} : rec'[j] = Cleaned(clean)[j]
  BY <1>1 DEF AcquireNew
<1>4. ~LiveRecord(rec[k])
  <2>1. Cleaned(clean)[k] = rec[k] \/ rec[k].age > Retention
    BY CleanedRows DEF IInv
  <2>2. rec[k].age \in 0 .. Horizon
    BY <1>1 DEF IInv, TypeOK, Record
  <2>3. rec[k].age > Retention => ~LiveRecord(rec[k])
    BY <2>2, TimeAssumption DEF LiveRecord, Expired
  <2>4. QED
    BY <2>1, <2>3 DEF AcquireNew, LiveRecord
<1> HIDE DEF k
<1>5. ClaimOf(k)' = [state |-> "held", by |-> c, age |-> 0, worked |-> FALSE]
  <2>1. rec'[k].status = "IN_PROGRESS" /\ rec'[k].owner = c /\ rec'[k].age = 0
    BY <1>3 DEF Claimed
  <2>2. LiveRecord(rec'[k])
    BY <2>1, TimeAssumption DEF LiveRecord, Absent, Expired
  <2>3. exec'[c].ran = FALSE
    BY <1>2 DEF IInv, TypeOK, Execution
  <2>4. QED
    BY <2>1, <2>2, <2>3 DEF ClaimOf, StandsFor
<1>6. ClaimTable' = [ClaimTable EXCEPT ![k] = [state |-> "held", by |-> c, age |-> 0, worked |-> FALSE]]
  BY <1>1, <1>2, <1>3, <1>5, CleanupKeepsClaims, OneClaimMoves
<1>7. ClaimTable[k].state = "free"
  BY <1>1, <1>4 DEF ClaimTable, ClaimOf
<1>8. QED
  BY <1>6, <1>7 DEF Claims!Take, Claims!Free, Claims!Becomes, ClaimTable, k

\* A held key is resolved: its live row goes from IN_PROGRESS to another status.
LEMMA ResolutionMoves ==
    ASSUME IInv, NEW k \in Keys, LiveRecord(rec[k]), rec[k].status = "IN_PROGRESS",
           \A d \in Callers : exec'[d].ran = exec[d].ran,
           rec'[k].owner = rec[k].owner, rec'[k].age = rec[k].age,
           \A j \in Keys \ {k} : ClaimOf(j)' = ClaimOf(j)
    PROVE  /\ rec'[k].status = "COMPLETED" => Claims!Answer(k)
           /\ rec'[k].status = "FAILED_AMBIGUOUS" => Claims!LeaveInDoubt(k)
<1> DEFINE o == rec[k].owner
           n == rec[k].age
<1>1. o \in Callers
  BY DEF LiveRecord, Absent, IInv, Rest
<1>2. ClaimOf(k) = [state |-> "held", by |-> o, age |-> n, worked |-> exec[o].ran]
  BY DEF ClaimOf, StandsFor
<1>3. ClaimTable[k] = ClaimOf(k)
  BY DEF ClaimTable
<1>4. rec'[k].status # "NONE" => LiveRecord(rec'[k])
  BY DEF LiveRecord, Absent, Expired
<1> HIDE DEF o, n
<1>5. ASSUME NEW s, rec'[k].status \in {"COMPLETED", "FAILED_AMBIGUOUS"},
             StandsFor(rec'[k].status) = s
      PROVE  ClaimTable' = [ClaimTable EXCEPT ![k] = [ClaimTable[k] EXCEPT !.state = s]]
  <2>1. ClaimOf(k)' = [state |-> s, by |-> o, age |-> n, worked |-> exec[o].ran]
    BY <1>1, <1>4, <1>5 DEF ClaimOf, o, n
  <2>2. [ClaimTable[k] EXCEPT !.state = s] = [state |-> s, by |-> o, age |-> n, worked |-> exec[o].ran]
    BY <1>2, <1>3
  <2>3. QED
    BY <2>1, <2>2, OneClaimMoves
<1>6. ClaimTable[k].state = "held"
  BY <1>2, <1>3
<1>7. rec'[k].status = "COMPLETED" => Claims!Answer(k)
  <2> SUFFICES ASSUME rec'[k].status = "COMPLETED"
               PROVE  Claims!Answer(k)
    OBVIOUS
  <2>1. ClaimTable' = [ClaimTable EXCEPT ![k] = [ClaimTable[k] EXCEPT !.state = "answered"]]
    BY <1>5 DEF StandsFor
  <2>2. QED
    BY <1>6, <2>1 DEF Claims!Answer, Claims!Held, Claims!Becomes, ClaimTable
<1>8. rec'[k].status = "FAILED_AMBIGUOUS" => Claims!LeaveInDoubt(k)
  <2> SUFFICES ASSUME rec'[k].status = "FAILED_AMBIGUOUS"
               PROVE  Claims!LeaveInDoubt(k)
    OBVIOUS
  <2>1. ClaimTable' = [ClaimTable EXCEPT ![k] = [ClaimTable[k] EXCEPT !.state = "doubtful"]]
    BY <1>5 DEF StandsFor
  <2>2. QED
    BY <1>6, <2>1 DEF Claims!LeaveInDoubt, Claims!Held, Claims!Becomes, ClaimTable
<1>9. QED
  BY <1>7, <1>8

\* A takeover leaves the owner's key in doubt.
LEMMA LeaseDoubts ==
    ASSUME IInv, NEW c \in Callers, NEW clean \in BOOLEAN, AcquireLeaseExpired(c, clean)
    PROVE  Claims!LeaveInDoubt(KeyOf[c])
<1> USE RequestAssumption
<1> DEFINE k == KeyOf[c]
<1>1. k \in Keys /\ Cleaned(clean) \in [Keys -> Record]
  BY CleanedRows DEF IInv
<1>2. /\ LiveRecord(Cleaned(clean)[k]) /\ Cleaned(clean)[k].status = "IN_PROGRESS"
      /\ rec' = [Cleaned(clean) EXCEPT ![k].status = "FAILED_AMBIGUOUS", ![k].idle = 0]
      /\ Finish(c, "rejected")
  BY DEF AcquireLeaseExpired, Matching
<1>3. Cleaned(clean)[k] = rec[k]
  BY <1>1, <1>2, CleanedRows DEF IInv, NoRecord
<1> HIDE DEF k
<1>4. /\ rec'[k].owner = rec[k].owner /\ rec'[k].age = rec[k].age
      /\ rec'[k].status = "FAILED_AMBIGUOUS"
      /\ \A j \in Keys \ {k} : rec'[j] = Cleaned(clean)[j]
  BY <1>1, <1>2, <1>3 DEF Record
<1>5. \A d \in Callers : exec'[d].ran = exec[d].ran
  BY <1>2, FinishKeepsWork DEF IInv
<1>6. \A j \in Keys \ {k} : ClaimOf(j)' = ClaimOf(j)
  BY <1>4, <1>5, CleanupKeepsClaims
<1>7. Claims!LeaveInDoubt(k)
  BY <1>1, <1>2, <1>3, <1>4, <1>5, <1>6, ResolutionMoves
<1>8. QED
  BY <1>7 DEF k

\* An owner answers, if it still has its key.
LEMMA CompleteAnswers ==
    ASSUME IInv, NEW c \in Callers, NEW clean \in BOOLEAN, Complete(c, clean)
    PROVE  Claims!Answer(KeyOf[c]) \/ UNCHANGED ClaimTable
<1> USE RequestAssumption
<1> DEFINE k == KeyOf[c]
<1>1. k \in Keys /\ Cleaned(clean) \in [Keys -> Record]
  BY CleanedRows DEF IInv
<1>2. \A d \in Callers : exec'[d].ran = exec[d].ran
  BY FinishKeepsWork DEF Complete, IInv
<1>3. CASE Cleaned(clean)[k].owner = c /\ Cleaned(clean)[k].status = "IN_PROGRESS"
  <2>1. rec' = [Cleaned(clean) EXCEPT ![k].status = "COMPLETED", ![k].idle = 0]
    BY <1>3 DEF Complete
  <2>2. Cleaned(clean)[k] = rec[k]
    BY <1>1, <1>3, CleanedRows DEF IInv, NoRecord
  <2> HIDE DEF k
  <2>3. /\ rec'[k].owner = rec[k].owner /\ rec'[k].age = rec[k].age
        /\ rec'[k].status = "COMPLETED"
        /\ \A j \in Keys \ {k} : rec'[j] = Cleaned(clean)[j]
    BY <1>1, <2>1, <2>2 DEF Record
  <2>4. \A j \in Keys \ {k} : ClaimOf(j)' = ClaimOf(j)
    BY <1>2, <2>3, CleanupKeepsClaims
  <2>5. CASE LiveRecord(rec[k])
    <3>1. Claims!Answer(k)
      BY <1>1, <1>2, <1>3, <2>2, <2>3, <2>4, <2>5, ResolutionMoves
    <3>2. QED
      BY <3>1 DEF k
  <2>6. CASE ~LiveRecord(rec[k])
    <3>1. ~LiveRecord(rec'[k])
      BY <1>3, <2>2, <2>3, <2>6 DEF LiveRecord, Absent, Expired
    <3>2. ClaimOf(k)' = ClaimOf(k)
      BY <1>1, <2>6, <3>1, ClaimStays
    <3>3. QED
      BY <2>4, <3>2 DEF ClaimTable
  <2>7. QED
    BY <2>5, <2>6
<1>4. CASE ~(Cleaned(clean)[k].owner = c /\ Cleaned(clean)[k].status = "IN_PROGRESS")
  <2>1. rec' = Cleaned(clean)
    BY <1>4 DEF Complete
  <2>2. QED
    BY <1>2, <2>1, CleanupKeepsClaims DEF ClaimTable
<1>5. QED
  BY <1>3, <1>4

\* An owner that cannot exclude side effects leaves its key in doubt.
LEMMA FailureDoubts ==
    ASSUME IInv, NEW c \in Callers, FailIndeterminate(c)
    PROVE  Claims!LeaveInDoubt(KeyOf[c]) \/ UNCHANGED ClaimTable
<1> USE RequestAssumption
<1> DEFINE k == KeyOf[c]
<1>1. k \in Keys /\ exec[c].pc = "running"
  BY DEF FailIndeterminate
<1>2. \A d \in Callers : exec'[d].ran = exec[d].ran
  BY FinishKeepsWork DEF FailIndeterminate, IInv
<1>3. CASE rec[k].owner = c
  <2>1. rec' = [rec EXCEPT ![k].status = "FAILED_AMBIGUOUS", ![k].idle = 0]
    BY <1>3 DEF FailIndeterminate, Owns, OwnRecord
  <2>2. rec[k].status \in {"IN_PROGRESS", "FAILED_AMBIGUOUS"}
    <3>1. rec[k].status # "NONE"
      BY <1>1, <1>3, OwnerAssumption DEF IInv, Rest
    <3>2. rec[k].status # "COMPLETED"
      BY <1>1, <1>3 DEF IInv, Rest
    <3>3. rec[k].status \in Statuses
      BY <1>1 DEF IInv, TypeOK, Record
    <3>4. QED
      BY <3>1, <3>2, <3>3 DEF Statuses
  <2> HIDE DEF k
  <2>3. /\ rec'[k].owner = rec[k].owner /\ rec'[k].age = rec[k].age
        /\ rec'[k].status = "FAILED_AMBIGUOUS"
        /\ \A j \in Keys \ {k} : rec'[j] = rec[j]
    BY <1>1, <2>1 DEF IInv, TypeOK, Record
  <2>4. \A j \in Keys \ {k} : ClaimOf(j)' = ClaimOf(j)
    BY <1>2, <2>3, CleanupKeepsClaims
  <2>5. CASE LiveRecord(rec[k]) /\ rec[k].status = "IN_PROGRESS"
    <3>1. Claims!LeaveInDoubt(k)
      BY <1>1, <1>2, <2>3, <2>4, <2>5, ResolutionMoves
    <3>2. QED
      BY <3>1 DEF k
  <2>6. CASE rec[k].status = "FAILED_AMBIGUOUS"
    <3>1. ClaimOf(k)' = ClaimOf(k)
      BY <1>1, <1>2, <1>3, <2>3, <2>6, ClaimStays
    <3>2. QED
      BY <2>4, <3>1 DEF ClaimTable
  <2>7. CASE ~LiveRecord(rec[k])
    <3>1. ~LiveRecord(rec'[k])
      BY <2>2, <2>3, <2>7 DEF LiveRecord, Absent, Expired
    <3>2. ClaimOf(k)' = ClaimOf(k)
      BY <1>1, <2>7, <3>1, ClaimStays
    <3>3. QED
      BY <2>4, <3>2 DEF ClaimTable
  <2>8. QED
    BY <2>2, <2>5, <2>6, <2>7
<1>4. CASE rec[k].owner # c
  <2>1. rec' = rec
    BY <1>4 DEF FailIndeterminate, Owns, OwnRecord
  <2>2. \A j \in Keys : ClaimOf(j)' = ClaimOf(j)
    BY <1>2, <2>1, CleanupKeepsClaims
  <2>3. QED
    BY <2>2 DEF ClaimTable
<1>5. QED
  BY <1>3, <1>4

\* An owner that did no work gives its key back.
LEMMA AbortGivesBack ==
    ASSUME IInv, NEW c \in Callers, AbortIfClean(c)
    PROVE  Claims!GiveBack(KeyOf[c]) \/ UNCHANGED ClaimTable
<1> USE RequestAssumption
<1> DEFINE k == KeyOf[c]
<1>1. k \in Keys /\ ~exec[c].ran
  BY DEF AbortIfClean
<1>2. \A d \in Callers : exec'[d].ran = exec[d].ran
  BY FinishKeepsWork DEF AbortIfClean, Abort, IInv
<1>3. CASE rec[k].owner = c /\ rec[k].status = "IN_PROGRESS"
  <2>1. rec' = [rec EXCEPT ![k] = NoRecord]
    BY <1>3 DEF AbortIfClean, Abort, OwnsInProgress, Owns, OwnRecord
  <2> HIDE DEF k
  <2>2. rec'[k] = NoRecord /\ \A j \in Keys \ {k} : rec'[j] = rec[j]
    BY <1>1, <2>1 DEF IInv, TypeOK
  <2>3. \A j \in Keys \ {k} : ClaimOf(j)' = ClaimOf(j)
    BY <1>2, <2>2, CleanupKeepsClaims
  <2>4. ~LiveRecord(rec'[k])
    BY <2>2 DEF LiveRecord, Absent, NoRecord
  <2>5. CASE LiveRecord(rec[k])
    <3>1. ClaimTable[k] = [state |-> "held", by |-> c, age |-> rec[k].age, worked |-> exec[c].ran]
      BY <1>1, <1>3, <2>5 DEF ClaimTable, ClaimOf, StandsFor
    <3>2. ClaimTable[k].state = "held" /\ ~ClaimTable[k].worked
      BY <1>1, <3>1
    <3>3. ClaimOf(k)' = [state |-> "free"]
      BY <2>4 DEF ClaimOf
    <3>4. ClaimTable' = [ClaimTable EXCEPT ![k] = [state |-> "free"]]
      BY <1>1, <2>3, <3>3, OneClaimMoves
    <3>5. QED
      BY <3>2, <3>4
         DEF Claims!GiveBack, Claims!Held, Claims!Becomes, Claims!NoClaim, ClaimTable, k
  <2>6. CASE ~LiveRecord(rec[k])
    <3>1. ClaimOf(k)' = ClaimOf(k)
      BY <1>1, <2>4, <2>6, ClaimStays
    <3>2. QED
      BY <2>3, <3>1 DEF ClaimTable
  <2>7. QED
    BY <2>5, <2>6
<1>4. CASE ~(rec[k].owner = c /\ rec[k].status = "IN_PROGRESS")
  <2>1. rec' = rec
    BY <1>4 DEF AbortIfClean, Abort, OwnsInProgress, Owns, OwnRecord
  <2>2. \A j \in Keys : ClaimOf(j)' = ClaimOf(j)
    BY <1>2, <2>1, CleanupKeepsClaims
  <2>3. QED
    BY <2>2 DEF ClaimTable
<1>5. QED
  BY <1>3, <1>4

\* A dispatch is work under the dispatcher's key, or under none any more.
LEMMA DispatchWorks ==
    ASSUME IInv, FiledUnderKey, NEW c \in Callers, Dispatch(c)
    PROVE  Claims!Work(KeyOf[c]) \/ UNCHANGED ClaimTable
<1> USE RequestAssumption
<1> DEFINE k == KeyOf[c]
<1>1. /\ k \in Keys /\ exec[c].pc = "running" /\ rec' = rec
      /\ exec'[c].ran = TRUE /\ \A d \in Callers \ {c} : exec'[d] = exec[d]
  BY DEF Dispatch, IInv, TypeOK, Execution
<1>2. ASSUME NEW j \in Keys, ~LiveRecord(rec[j]) \/ rec[j].owner # c
      PROVE  ClaimOf(j)' = ClaimOf(j)
  <2>1. LiveRecord(rec[j]) => rec[j].owner \in Callers
    BY DEF LiveRecord, Absent, IInv, Rest
  <2>2. QED
    BY <1>1, <1>2, <2>1, ClaimStays
<1>3. CASE LiveRecord(rec[k]) /\ rec[k].owner = c
  <2>1. \A j \in Keys \ {k} : ~LiveRecord(rec[j]) \/ rec[j].owner # c
    BY DEF FiledUnderKey, LiveRecord, Absent
  <2>2. \A j \in Keys \ {k} : ClaimOf(j)' = ClaimOf(j)
    BY <1>2, <2>1
  <2>3. rec[k].status # "COMPLETED"
    BY <1>1, <1>3 DEF IInv, Rest
  <2>4. StandsFor(rec[k].status) \in {"held", "doubtful"}
    BY <2>3 DEF StandsFor
  <2> DEFINE s == StandsFor(rec[k].status)
             n == rec[k].age
  <2> HIDE DEF k, s, n
  <2>5. ClaimTable[k] = [state |-> s, by |-> c, age |-> n, worked |-> exec[c].ran]
    BY <1>1, <1>3 DEF ClaimTable, ClaimOf, s, n
  <2>6. ClaimOf(k)' = [state |-> s, by |-> c, age |-> n, worked |-> TRUE]
    BY <1>1, <1>3 DEF ClaimOf, s, n
  <2>7. [ClaimTable[k] EXCEPT !.worked = TRUE] = [state |-> s, by |-> c, age |-> n, worked |-> TRUE]
    <3>1. \A v : [ClaimTable[k] EXCEPT !.worked = v] = [state |-> s, by |-> c, age |-> n, worked |-> v]
      BY <2>5
    <3>2. QED
      BY <3>1
  <2>8. ClaimTable' = [ClaimTable EXCEPT ![k] = [ClaimTable[k] EXCEPT !.worked = TRUE]]
    BY <1>1, <2>2, <2>6, <2>7, OneClaimMoves
  <2>9. ClaimTable[k].state \in {"held", "doubtful"}
    BY <2>4, <2>5 DEF s
  <2>10. QED
    BY <2>8, <2>9 DEF Claims!Work, Claims!Becomes, ClaimTable, k
<1>4. CASE ~(LiveRecord(rec[k]) /\ rec[k].owner = c)
  <2>1. \A j \in Keys : ~LiveRecord(rec[j]) \/ rec[j].owner # c
    BY <1>4 DEF FiledUnderKey, LiveRecord, Absent
  <2>2. QED
    BY <1>2, <2>1 DEF ClaimTable
<1>5. QED
  BY <1>3, <1>4

\* Time makes claims older and ends their terms, and changes nothing else.
LEMMA TickPasses ==
    ASSUME IInv, Tick
    PROVE  Claims!TimePasses
<1>1. \A d \in Callers : exec'[d].ran = exec[d].ran
  BY DEF Tick, IInv, TypeOK, Execution
<1>2. ASSUME NEW k \in Keys
      PROVE  ClaimOf(k)' = IF ClaimOf(k).state = "free" \/ ClaimOf(k).age + 1 >= Retention
                           THEN [state |-> "free"]
                           ELSE [ClaimOf(k) EXCEPT !.age = @ + 1]
  <2>1. rec'[k].status = rec[k].status /\ rec'[k].owner = rec[k].owner
    BY TickMoves DEF IInv
  <2>2. rec[k].status = "NONE" \/ rec'[k].age = Older(rec[k].age)
    BY DEF Tick, IInv, TypeOK, Record, Absent
  <2>3. rec[k].age \in 0 .. Horizon
    BY DEF IInv, TypeOK, Record
  <2>4. CASE ~LiveRecord(rec[k])
    <3>1. ~LiveRecord(rec'[k])
      BY <2>1, <2>2, <2>3, <2>4, TimeAssumption DEF LiveRecord, Absent, Expired, Older
    <3>2. QED
      BY <2>4, <3>1 DEF ClaimOf
  <2>5. CASE LiveRecord(rec[k])
    <3> DEFINE s == StandsFor(rec[k].status)
               o == rec[k].owner
               n == rec[k].age
    <3>1. o \in Callers
      BY <2>5 DEF LiveRecord, Absent, IInv, Rest
    <3>2. s # "free"
      BY DEF StandsFor
    <3>3. n < Retention /\ rec'[k].age = n + 1
      BY <2>2, <2>3, <2>5, TimeAssumption DEF LiveRecord, Absent, Expired, Older
    <3>4. LiveRecord(rec'[k]) <=> n + 1 < Retention
      BY <2>1, <2>3, <2>5, <3>3, TimeAssumption DEF LiveRecord, Absent, Expired
    <3>5. StandsFor(rec'[k].status) = s
      BY <2>1
    <3>6. rec[k].age = n /\ rec'[k].owner = o
      BY <2>1
    <3>7. ClaimOf(k) = [state |-> s, by |-> o, age |-> n, worked |-> exec[o].ran]
      BY <2>5 DEF ClaimOf
    <3>8. n + 1 < Retention =>
            ClaimOf(k)' = [state |-> s, by |-> o, age |-> n + 1, worked |-> exec[o].ran]
      BY <1>1, <3>1, <3>3, <3>4, <3>5, <3>6 DEF ClaimOf
    <3>9. ~(n + 1 < Retention) => ClaimOf(k)' = [state |-> "free"]
      BY <3>4 DEF ClaimOf
    <3>10. n \in Int /\ Retention \in Int
      BY <2>3, TimeAssumption
    <3> HIDE DEF s, o, n
    <3>11. [ClaimOf(k) EXCEPT !.age = @ + 1]
             = [state |-> s, by |-> o, age |-> n + 1, worked |-> exec[o].ran]
      BY <3>7
    <3>12. ClaimOf(k).state = s /\ ClaimOf(k).age = n
      BY <3>7
    <3>13. QED
      BY <3>2, <3>8, <3>9, <3>10, <3>11, <3>12
  <2>6. QED
    BY <2>4, <2>5
<1>3. QED
  BY <1>2 DEF Claims!TimePasses, Claims!Free, Claims!NoClaim

\* Every step of the store is a step of the claims, or changes none.
LEMMA ClaimsStep ==
    ASSUME IInv, FiledUnderKey, [Next]_vars
    PROVE  [Claims!ClaimsNext]_ClaimTable
<1> USE RequestAssumption
<1>1. ASSUME NEW c \in Callers, NEW clean \in BOOLEAN,
             \/ AcquireMismatch(c, clean) \/ AcquireCompleted(c, clean)
             \/ AcquireAmbiguous(c, clean) \/ AcquireInProgress(c, clean)
             \/ Await(c) \/ Crash(c)
      PROVE  UNCHANGED ClaimTable
  <2>1. rec' = rec \/ rec' = Cleaned(clean)
    BY <1>1 DEF AcquireMismatch, AcquireCompleted, AcquireAmbiguous, AcquireInProgress, Await, Crash
  <2>2. \A d \in Callers : exec'[d].ran = exec[d].ran
    <3>1. CASE AcquireInProgress(c, clean) \/ Crash(c)
      BY <3>1 DEF AcquireInProgress, Crash, IInv, TypeOK, Execution
    <3>2. CASE \E reply : Finish(c, reply)
      BY <3>2, FinishKeepsWork DEF IInv
    <3>3. QED
      BY <1>1, <3>1, <3>2 DEF AcquireMismatch, AcquireCompleted, AcquireAmbiguous, Await
  <2>3. QED
    BY <2>1, <2>2, CleanupKeepsClaims DEF ClaimTable
<1>2. CASE CleanupExpired \/ UNCHANGED vars
  <2>1. (rec' = rec \/ rec' = Cleaned(TRUE)) /\ exec' = exec
    BY <1>2 DEF CleanupExpired, vars
  <2>2. QED
    BY <2>1, CleanupKeepsClaims DEF ClaimTable
<1>3. CASE Tick
  BY <1>3, TickPasses DEF Claims!ClaimsNext
<1>4. ASSUME NEW c \in Callers, CallerStep(c)
      PROVE  Claims!ClaimsNext \/ UNCHANGED ClaimTable
  BY <1>1, <1>4, NewTakes, LeaseDoubts, CompleteAnswers, FailureDoubts, AbortGivesBack,
     DispatchWorks DEF CallerStep, Acquire, Claims!ClaimsNext
<1>5. QED
  BY <1>1, <1>2, <1>3, <1>4 DEF Next

\* The store keeps its promises to the callers of a key: each key is one request's
\* for its retention, resolved once, and given back only if no work was done.
THEOREM ImplementsClaims == Spec => HonoursClaims
<1>1. Init => Claims!ClaimsInit
  BY DEF Init, Claims!ClaimsInit, Claims!NoClaim, ClaimOf, LiveRecord, Absent, NoRecord
<1>2. IInv /\ FiledUnderKey /\ [Next]_vars => [Claims!ClaimsNext]_ClaimTable
  BY ClaimsStep
<1>3. QED
  BY <1>1, <1>2, IInvHolds, FiledHolds, PTL DEF Spec, HonoursClaims, Claims!ClaimsSpec, ClaimTable
=============================================================================
