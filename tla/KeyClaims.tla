------------------------------- MODULE KeyClaims -------------------------------
(***************************************************************************)
(* What the idempotency store promises the callers that share a key: one   *)
(* request has the key for the whole term of its claim; what becomes of it *)
(* (answered, or left in doubt) is decided once and stays; the key is free *)
(* again before its term ends only if the request that has it did no work  *)
(* under it and gives it back.                                             *)
(*                                                                         *)
(* Leases, waiting callers, cleanups, crashes and the rows of lapsed       *)
(* claims are the store's own affair.                                      *)
(***************************************************************************)
EXTENDS Naturals

CONSTANTS
    ClaimKeys, Requests,
    Term            \* ticks after which a claim lapses

VARIABLE claim   \* per key: how it stands, who has it, since when, whether work was done

NoClaim == [state |-> "free"]
Free(k) == claim[k].state = "free"
Held(k) == claim[k].state = "held"
Becomes(k, c) == claim' = [claim EXCEPT ![k] = c]

ClaimsInit == claim = [k \in ClaimKeys |-> NoClaim]

Take(k, c) == Free(k) /\ Becomes(k, [state |-> "held", by |-> c, age |-> 0, worked |-> FALSE])

\* A request whose lease lapsed may still be at work on its doubtful key.
Work(k) ==
    /\ claim[k].state \in {"held", "doubtful"}
    /\ Becomes(k, [claim[k] EXCEPT !.worked = TRUE])

Answer(k) == Held(k) /\ Becomes(k, [claim[k] EXCEPT !.state = "answered"])
LeaveInDoubt(k) == Held(k) /\ Becomes(k, [claim[k] EXCEPT !.state = "doubtful"])
GiveBack(k) == Held(k) /\ ~claim[k].worked /\ Becomes(k, NoClaim)

\* Every claim gets older, and lapses at the end of its term, however it stands.
TimePasses ==
    claim' = [k \in ClaimKeys |-> IF Free(k) \/ claim[k].age + 1 >= Term
                                 THEN NoClaim
                                 ELSE [claim[k] EXCEPT !.age = @ + 1]]

ClaimsNext ==
    \/ \E k \in ClaimKeys : \/ \E c \in Requests : Take(k, c)
                            \/ Work(k) \/ Answer(k) \/ LeaveInDoubt(k) \/ GiveBack(k)
    \/ TimePasses

ClaimsSpec == ClaimsInit /\ [][ClaimsNext]_claim
=============================================================================
