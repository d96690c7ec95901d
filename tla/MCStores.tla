------------------------------- MODULE MCStores -------------------------------
(***************************************************************************)
(* Finite instances of ExecutionBudget and CircuitBreaker side by side:    *)
(* the first state chooses one of the two stores, and only that one moves. *)
(***************************************************************************)
EXTENDS ExecutionBudget, CircuitBreaker, TLC

CONSTANT t1

\* Rolling windows at least as long as a reservation lives (TTL 2), and a total.
WindowRows == {[max |-> 1, window |-> 2], [max |-> 2, window |-> 3], [max |-> 2, window |-> 0]}
NoGrants == [t \in Targets |-> NoLimit]

\* A request may ask for a stricter policy than the server's: two thresholds.
TwoPolicies == {[threshold |-> 1, cooldown |-> 1], [threshold |-> 2, cooldown |-> 2]}

VARIABLE store     \* the store that moves

\* The window's promise needs budgets that stay as configured: ServiceNext.
StoresInit ==
    /\ Init /\ BreakerInit
    /\ store \in {"budget", "breaker"}
    /\ store = "breaker" => budget = [t \in Targets |-> NoRow]

StoresNext ==
    /\ UNCHANGED store
    /\ \/ store = "budget" /\ ServiceNext /\ UNCHANGED breakerVars
       \/ store = "breaker" /\ BreakerNext /\ UNCHANGED vars

StoresSpec == StoresInit /\ [][StoresNext]_<<store, vars, breakerVars>>

\* The batches of one store bear the names of the callers of the other.
StoresSymmetry == Permutations(Callers) \cup Permutations(Probes)
=============================================================================
