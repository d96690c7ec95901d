----------------------------- MODULE SingleTraining -----------------------------
(***************************************************************************)
(* What the evidence of a federated job amounts to: one training, as if    *)
(* there had been a single execution that never failed.  In every round    *)
(* each bank trains once on the model of the round before; when all have,  *)
(* their outcomes make the next model; after the last round the model is   *)
(* final, and only the final model is ever published.                      *)
(*                                                                         *)
(* A model is its history: the sequence of the rounds' outcomes.  Here are *)
(* no executions, retries, lost answers, crashes or staged files: whatever *)
(* they do is one of these steps, or nothing to be seen.                   *)
(***************************************************************************)
EXTENDS Integers, Sequences

CONSTANTS Banks, Results, LastRound, None

VARIABLES
    model,      \* the global model so far
    trained,    \* per bank: its outcome in the current round, or None
    final,      \* the final model, or None
    published   \* the published models

trainingVars == <<model, trained, final, published>>

NoneTrained == [b \in Banks |-> None]

TrainingInit ==
    /\ model = <<>> /\ trained = NoneTrained
    /\ final = None /\ published = {}

Train(b, result) ==
    /\ Len(model) < LastRound /\ final = None
    /\ trained[b] = None
    /\ trained' = [trained EXCEPT ![b] = result]
    /\ UNCHANGED <<model, final, published>>

Aggregate ==
    /\ \A b \in Banks : trained[b] # None
    /\ model' = Append(model, trained)
    /\ trained' = NoneTrained
    /\ UNCHANGED <<final, published>>

Conclude ==
    /\ Len(model) = LastRound /\ final = None
    /\ final' = model
    /\ UNCHANGED <<model, trained, published>>

Publish ==
    /\ final # None
    /\ published' = {final}
    /\ UNCHANGED <<model, trained, final>>

TrainingNext ==
    \/ \E b \in Banks, result \in Results : Train(b, result)
    \/ Aggregate \/ Conclude \/ Publish

TrainingSpec == TrainingInit /\ [][TrainingNext]_trainingVars
=============================================================================
