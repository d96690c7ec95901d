------------------------------- MODULE MCQuery -------------------------------
(* Finite instances of MultiCounterpartyQuery. *)
EXTENDS MultiCounterpartyQuery, TLC

CONSTANTS q1, q2, t1, t2, k1

\* Executions per counterparty that the grants allow.
OneEach == [t \in Targets |-> 1]
TwoEach == [t \in Targets |-> 2]
OneConfigured == {[max |-> 1, window |-> 0]}    \* a row that overrides the grant

\* One failure opens the circuit, for one tick.
OpenAtOnce == {[threshold |-> 1, cooldown |-> 1]}

\* All requests carry the same key and payload.
OneKey == [q \in Queries |-> k1]
OneIdentity == [q \in Queries \cup {NoOwner} |-> "bank"]

\* One request is a simulated one, which may not carry a recovery probe.
OneSimulated == [q \in Queries |-> q # q2]
AllOperational == [q \in Queries |-> TRUE]

QuerySymmetry == Permutations(Queries) \cup Permutations(Targets) \cup Permutations(Probes)
=============================================================================
