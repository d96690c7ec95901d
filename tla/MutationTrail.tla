----------------------------- MODULE MutationTrail -----------------------------
(***************************************************************************)
(* What the audit trail promises whoever reads it: a mutation is announced *)
(* before it changes anything, takes effect at most once and as a whole,   *)
(* and the outcome that is recorded for it says whether it took effect.    *)
(* Nothing is forgotten: announcements, effects and outcomes stay, and a   *)
(* mutation whose outcome is recorded never takes effect afterwards.       *)
(*                                                                         *)
(* The lock, the files, their revisions and the reconcilers are the        *)
(* registry's own affair.  A crash leaves a mutation without an outcome.   *)
(***************************************************************************)

CONSTANTS Mutations

VARIABLES
    announced,  \* mutations with an intent in the trail
    effected,   \* mutations whose change is in the files
    outcome     \* per mutation: "none", "COMMITTED" or "FAILED"

trailVars == <<announced, effected, outcome>>

TrailInit ==
    /\ announced = {} /\ effected = {}
    /\ outcome = [m \in Mutations |-> "none"]

Undetermined(m) == m \in announced /\ outcome[m] = "none"

Announce(m) ==
    /\ m \notin announced
    /\ announced' = announced \cup {m}
    /\ UNCHANGED <<effected, outcome>>

TakeEffect(m) ==
    /\ Undetermined(m) /\ m \notin effected
    /\ effected' = effected \cup {m}
    /\ UNCHANGED <<announced, outcome>>

Record(m) ==
    /\ Undetermined(m)
    /\ outcome' = [outcome EXCEPT ![m] = IF m \in effected THEN "COMMITTED" ELSE "FAILED"]
    /\ UNCHANGED <<announced, effected>>

TrailNext == \E m \in Mutations : Announce(m) \/ TakeEffect(m) \/ Record(m)

TrailSpec == TrailInit /\ [][TrailNext]_trailVars
=============================================================================
