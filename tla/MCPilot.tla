------------------------------- MODULE MCPilot -------------------------------
(***************************************************************************)
(* A finite instance of PilotOperations: every bank asks one query, which  *)
(* bears its name.                                                         *)
(***************************************************************************)
EXTENDS PilotOperations, TLC

EachItsBank == [q \in Queries |-> q]

PilotSymmetry == Permutations(Officers) \cup Permutations(Queries)
=============================================================================
