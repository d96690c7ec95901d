------------------------------ MODULE MCBudget ------------------------------
(* Finite instances of ExecutionBudget. *)
EXTENDS ExecutionBudget, TLC

CONSTANTS t1, t2

BatchSymmetry == Permutations(Batches)

\* Total budgets: one configurable row, and a grant limit for t2 only.
TotalRows == {[max |-> 1, window |-> 0]}
GrantForT2 == [t \in Targets |-> IF t = t1 THEN NoLimit ELSE 1]

\* A rolling window shorter than a reservation's lifetime.
ShortWindowRows == {[max |-> 1, window |-> 1]}
NoGrants == [t \in Targets |-> NoLimit]
=============================================================================
