------------------------------- MODULE TrialGate -------------------------------
(***************************************************************************)
(* What a circuit breaker promises a counterparty: a gate.  Closed circuit,*)
(* anyone passes.  Open, nobody passes; one guest at a time may try, and   *)
(* its verdict alone closes the circuit or opens it again.  While the trial*)
(* is on nobody else gets in, and those who got in before have no say.  If *)
(* the guest on trial vanishes nobody has, until an operator steps in.     *)
(*                                                                         *)
(* Failure counts, cooldowns, probe ids, the clock and the copies of the   *)
(* service that share the row are the breaker's own affair.                *)
(***************************************************************************)

CONSTANTS Doors, Guests

VARIABLES
    gate,     \* per door: "CLOSED", "OPEN" or "HALF_OPEN"
    trial,    \* per door: the guest whose trial it is, if any
    inside    \* per door: the other guests on their way

gateVars == <<gate, trial, inside>>

GateInit ==
    /\ gate = [d \in Doors |-> "CLOSED"]
    /\ trial = [d \in Doors |-> {}]
    /\ inside = [d \in Doors |-> {}]

Outside(g) == \A d \in Doors : g \notin trial[d] \cup inside[d]
Settles(d) == \E s \in {"CLOSED", "OPEN"} : gate' = [gate EXCEPT ![d] = s]

Pass(g, d) ==
    /\ Outside(g) /\ gate[d] = "CLOSED"
    /\ inside' = [inside EXCEPT ![d] = @ \cup {g}]
    /\ UNCHANGED <<gate, trial>>

Try(g, d) ==
    /\ Outside(g) /\ gate[d] = "OPEN"
    /\ gate' = [gate EXCEPT ![d] = "HALF_OPEN"]
    /\ trial' = [trial EXCEPT ![d] = {g}]
    /\ UNCHANGED inside

\* The guest on trial decides, or vanishes.
Decide(g, d) ==
    /\ g \in trial[d]
    /\ Settles(d) \/ UNCHANGED gate
    /\ trial' = [trial EXCEPT ![d] = {}]
    /\ UNCHANGED inside

\* Any other guest counts only as long as the circuit is closed.
Leave(g, d) ==
    /\ g \in inside[d]
    /\ \/ gate[d] = "CLOSED" /\ Settles(d)
       \/ UNCHANGED gate
    /\ inside' = [inside EXCEPT ![d] = @ \ {g}]
    /\ UNCHANGED trial

\* An operator closes the circuit; a trial that is on becomes an ordinary visit.
StepIn(d) ==
    /\ gate' = [gate EXCEPT ![d] = "CLOSED"]
    /\ inside' = [inside EXCEPT ![d] = @ \cup trial[d]]
    /\ trial' = [trial EXCEPT ![d] = {}]

GateNext ==
    \E d \in Doors :
        \/ \E g \in Guests : Pass(g, d) \/ Try(g, d) \/ Decide(g, d) \/ Leave(g, d)
        \/ StepIn(d)

GateSpec == GateInit /\ [][GateNext]_gateVars
=============================================================================
