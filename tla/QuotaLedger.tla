------------------------------ MODULE QuotaLedger ------------------------------
(***************************************************************************)
(* What the execution budget store promises the queries that use it, as    *)
(* long as nobody changes the budgets: a ledger of slots.  A batch asks    *)
(* once, for one slot of each of some targets, and gets all of them or     *)
(* none.  An open slot is later spent or given back, once.  Whatever is    *)
(* spent stays spent, and no target of a batch is granted a slot that its  *)
(* quota does not cover together with what is spent and open.              *)
(*                                                                         *)
(* Time, rows, their statuses and their cleanup are the store's own        *)
(* affair: any open slots may be spent at any time, by expiry.             *)
(***************************************************************************)
EXTENDS Integers, FiniteSets

CONSTANTS
    Batches,
    Targets,
    Unlimited   \* the quota of a target that has none, or one that time renews

VARIABLES
    quota,    \* per target
    open,     \* slots <<batch, target>> granted and neither spent nor given back
    spent,    \* executions charged, per target
    asked     \* batches that were granted slots

ledgerVars == <<quota, open, spent, asked>>

InTarget(slots, t) == {k \in slots : k[2] = t}

LedgerInit ==
    /\ open = {} /\ asked = {}
    /\ spent = [t \in Targets |-> 0]

Spend(K) ==
    /\ K \subseteq open
    /\ spent' = [t \in Targets |-> spent[t] + Cardinality(InTarget(K, t))]

Covered(t) ==
    quota[t] # Unlimited => spent'[t] + Cardinality(InTarget(open', t)) <= quota[t]

\* A batch is granted its slots; slots K expire on the way.
Grant(b, S, K) ==
    /\ b \notin asked /\ asked' = asked \cup {b}
    /\ Spend(K)
    /\ open' = (open \ K) \cup ({b} \X S)
    /\ \A t \in S : Covered(t)
    /\ UNCHANGED quota

SpendSlots(K) ==
    /\ Spend(K)
    /\ open' = open \ K
    /\ UNCHANGED <<quota, asked>>

GiveBack(K) ==
    /\ K \subseteq open
    /\ open' = open \ K
    /\ UNCHANGED <<quota, spent, asked>>

LedgerNext ==
    \E K \in SUBSET open :
        \/ \E b \in Batches, S \in SUBSET Targets : Grant(b, S, K)
        \/ SpendSlots(K)
        \/ GiveBack(K)

LedgerSpec == LedgerInit /\ [][LedgerNext]_ledgerVars
=============================================================================
