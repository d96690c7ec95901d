---------------------------- MODULE MCIdempotency ----------------------------
(* Finite instances of Idempotency: requests that share one key. *)
EXTENDS Idempotency, TLC

CONSTANTS c1, c2, c3, c4, k1, alice, bob

\* Three retries of one request and a request of another principal, one key.
OneKey == [c \in Callers |-> k1]
TwoIdentities == [c \in Callers \cup {NoOwner} |-> IF c = c4 THEN bob ELSE alice]

\* Requests that differ in nothing are interchangeable.
RetrySymmetry == Permutations({c1, c2, c3})
=============================================================================
