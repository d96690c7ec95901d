---------------------------- MODULE Training_proofs ----------------------------
(***************************************************************************)
(* Machine-checked proofs about a training job and about the privacy       *)
(* budget it draws on.                                                     *)
(*                                                                         *)
(* The job: a completed one is recoverable and what is registered of it is *)
(* its recorded history, for any number of executions, banks and rounds.   *)
(*                                                                         *)
(* The budget: every training on private data is charged or reserved, and  *)
(* what is reserved is the sum of the active reservations, for any number  *)
(* of workers, jobs and rounds.  The first is inductive only if one says   *)
(* which reservations have their training behind them (Owed), that no two  *)
(* workers hold one, and that a commit charges at least one unit, which    *)
(* rests on no later round being committed before the first.  The second   *)
(* needs the sum, a fold, to change by what is added or removed: it is     *)
(* shown to count units (SumIsUnits).                                      *)
(*                                                                         *)
(* ImplementsSingleTraining puts the job's records together: whatever the  *)
(* executions do, they are those of one training that never failed.        *)
(***************************************************************************)
EXTENDS FederatedJob, PrivacyBudget, SequenceTheorems, FiniteSetTheorems, TLAPS

-----------------------------------------------------------------------------
(* The training job: its inductive invariant. *)

\* The model every execution that trains to the end holds: the authority keeps
\* one aggregation per round.
final == aggregated[Rounds]

Trains == {"called", "training"}
Holds == {"aggregated", "staging", "artifactStaged", "staged", "completed",
          "registered", "cleaning", "recovering"}
Completed == {"completed", "registered", "cleaning", "recovering"}
InCandidates == final \in candidates

\* What an execution knows at each of its steps.  A staged file may be gone
\* again, but only once the model is registered.
Knows(x) ==
    /\ exec[x].step \in Trains => Len(exec[x].weights) < Rounds
    /\ exec[x].step \in Holds => exec[x].weights = final
    /\ exec[x].step \in Completed => completed = final
    /\ exec[x].step \in {"registered", "cleaning"} => InCandidates
    /\ exec[x].step = "artifactStaged" => artifactFile # NotYet \/ InCandidates
    /\ exec[x].step = "staged" => Staged \/ InCandidates

\* What the authority, the directory and the registry hold of the job.
Shared ==
    /\ {completed, artifactFile, metaFile} \subseteq {NotYet, final}
    /\ candidates \subseteq {completed}
    /\ metaFile # NotYet => artifactFile # NotYet \/ InCandidates
    /\ completed # NotYet => job = "COMPLETED" /\ (Staged \/ InCandidates)

\* The record of a completed job is reconciled with the observations.
Evidenced ==
    completed # NotYet =>
        \A r \in RoundNumbers, b \in Participants : observed[r][b] = UpdateIn(completed, r, b)

JobInv ==
    /\ JobTypeOK
    /\ \A x \in Executions : Knows(x)
    /\ Shared
    /\ Evidenced

-----------------------------------------------------------------------------
(* Histories, and the steps of an execution. *)

LEMMA HistorySequences ==
    ASSUME JobAssumption, NEW w \in Histories
    PROVE  w \in Seq(Trained) /\ Len(w) \in 0 .. Rounds
  <1>1. PICK n \in 0 .. Rounds : w \in [1 .. n -> Trained]
    BY DEF Histories
  <1>2. n \in Nat
    BY <1>1 DEF JobAssumption
  <1> QED  BY <1>1, <1>2, IsASeq, LenProperties

LEMMA GrownHistory ==
    ASSUME JobAssumption, NEW w \in Histories, Len(w) < Rounds, NEW t \in Trained
    PROVE  Append(w, t) \in Histories /\ Len(Append(w, t)) = Len(w) + 1
  <1>1. w \in Seq(Trained) /\ Len(w) \in 0 .. Rounds
    BY HistorySequences
  <1>2. Append(w, t) \in Seq(Trained) /\ Len(Append(w, t)) = Len(w) + 1
    BY <1>1, AppendProperties
  <1>3. Append(w, t) \in [1 .. Len(Append(w, t)) -> Trained]
    BY <1>2, LenProperties
  <1>4. Len(Append(w, t)) \in 0 .. Rounds
    BY <1>1, <1>2 DEF JobAssumption
  <1> QED  BY <1>2, <1>3, <1>4 DEF Histories

LEMMA EmptyHistory == ASSUME JobAssumption PROVE <<>> \in Histories /\ Len(<<>>) = 0
  <1>1. <<>> \in [1 .. 0 -> Trained]
    OBVIOUS
  <1>2. 0 \in 0 .. Rounds
    BY DEF JobAssumption
  <1> QED  BY <1>1, <1>2 DEF Histories

Execution == [step : Steps, weights : Histories, replies : Replies]

\* Execution x goes to a step and keeps its weights; the others stay.
StepsTo(x, s) ==
    /\ exec' \in [Executions -> Execution]
    /\ exec'[x].step = s /\ exec'[x].weights = exec[x].weights
    /\ \A y \in Executions \ {x} : exec'[y] = exec[y]

LEMMA MovesSteps ==
    ASSUME JobTypeOK, NEW x \in Executions, NEW s \in Steps, Moves(x, s)
    PROVE  StepsTo(x, s)
  <1>1. exec[x] \in Execution
    BY DEF JobTypeOK, Execution
  <1>2. [exec[x] EXCEPT !.step = s] \in Execution
        /\ [exec[x] EXCEPT !.step = s].step = s
        /\ [exec[x] EXCEPT !.step = s].weights = exec[x].weights
    BY <1>1 DEF Execution
  <1>3. exec' = [exec EXCEPT ![x] = [exec[x] EXCEPT !.step = s]]
    BY DEF Moves, JobTypeOK
  <1> QED  BY <1>2, <1>3 DEF StepsTo, JobTypeOK, Execution

LEMMA RepliesStep ==
    ASSUME JobTypeOK, NEW x \in Executions, NEW b \in Participants, NEW o \in Outcomes,
           exec' = [exec EXCEPT ![x].replies[b] = o]
    PROVE  StepsTo(x, exec[x].step)
  <1>1. exec[x] \in Execution
    BY DEF JobTypeOK, Execution
  <1> DEFINE more == [exec[x].replies EXCEPT ![b] = o]
  <1>2. more \in Replies
    BY <1>1 DEF Execution, Replies
  <1>3. exec' = [exec EXCEPT ![x] = [exec[x] EXCEPT !.replies = more]]
    BY DEF JobTypeOK
  <1> HIDE DEF more
  <1>4. [exec[x] EXCEPT !.replies = more] \in Execution
        /\ [exec[x] EXCEPT !.replies = more].step = exec[x].step
        /\ [exec[x] EXCEPT !.replies = more].weights = exec[x].weights
    BY <1>1, <1>2 DEF Execution
  <1> QED  BY <1>3, <1>4 DEF StepsTo, JobTypeOK, Execution

\* An execution that trains is in a round of the job.
LEMMA RoundInJob ==
    ASSUME JobAssumption, JobInv, NEW x \in Executions, AtStep(x, "training")
    PROVE  Round(x) \in RoundNumbers /\ Len(exec[x].weights) < Rounds
  <1>1. exec[x].weights \in Histories /\ Len(exec[x].weights) < Rounds
    BY DEF JobInv, JobTypeOK, Knows, AtStep, Trains
  <1>2. Len(exec[x].weights) \in 0 .. Rounds
    BY <1>1, HistorySequences
  <1> QED  BY <1>1, <1>2 DEF Round, RoundNumbers, JobAssumption

\* Recording an observation keeps the table's type.
LEMMA ObservedStep ==
    ASSUME JobAssumption, JobInv, NEW x \in Executions, NEW b \in Participants, NEW o \in Outcomes,
           AtStep(x, "training"),
           observed' = [observed EXCEPT ![Round(x)][b] = [base |-> exec[x].weights, outcome |-> o]]
    PROVE  observed' \in [RoundNumbers -> [Participants -> LocalUpdates \cup {NotYet}]]
  <1> DEFINE update == [base |-> exec[x].weights, outcome |-> o]
             row == [observed[Round(x)] EXCEPT ![b] = update]
  <1>1. update \in LocalUpdates
    BY DEF JobInv, JobTypeOK, LocalUpdates
  <1>2. observed' = [observed EXCEPT ![Round(x)] = row]
    BY DEF JobInv, JobTypeOK
  <1>3. Round(x) \in RoundNumbers
    BY RoundInJob
  <1> HIDE DEF update
  <1>4. row \in [Participants -> LocalUpdates \cup {NotYet}]
    BY <1>1, <1>3 DEF JobInv, JobTypeOK
  <1> HIDE DEF row
  <1> QED  BY <1>2, <1>3, <1>4 DEF JobInv, JobTypeOK

-----------------------------------------------------------------------------
(* Each action keeps the invariant. *)

\* A step that changes only where execution x is: what x must know at the new
\* step is all there is to show.
LEMMA LocalStep ==
    ASSUME JobInv, NEW x \in Executions, NEW s \in Steps, StepsTo(x, s),
           UNCHANGED <<job, observed, aggregated, completed, artifactFile, metaFile, candidates>>,
           Knows(x)'
    PROVE  JobInv'
  <1>1. JobTypeOK'
    BY DEF JobInv, JobTypeOK, StepsTo, Execution
  <1>2. \A y \in Executions \ {x} : Knows(y)'
    BY DEF JobInv, Knows, StepsTo, final, InCandidates, Staged
  <1>3. Shared' /\ Evidenced'
    BY DEF JobInv, Shared, Evidenced, UpdateIn, final, InCandidates, Staged
  <1> QED  BY <1>1, <1>2, <1>3 DEF JobInv

LEMMA ScheduleStep ==
    ASSUME JobInv, NEW x \in Executions, Schedule(x)
    PROVE  JobInv'
  <1>1. StepsTo(x, "training")
    BY MovesSteps DEF Schedule, JobInv, Steps
  <1>2. UNCHANGED <<observed, aggregated, completed, artifactFile, metaFile, candidates>>
        /\ job' \in {"SCHEDULED", job} /\ completed = NotYet /\ exec[x].step = "called"
    BY DEF Schedule, staging, AtStep
  <1>3. JobTypeOK'
    BY <1>1, <1>2 DEF JobInv, JobTypeOK, StepsTo, Execution
  <1>4. \A y \in Executions : Knows(y)'
    BY <1>1, <1>2 DEF JobInv, Knows, StepsTo, final, InCandidates, Staged, Trains, Holds, Completed
  <1>5. Shared' /\ Evidenced'
    BY <1>2 DEF JobInv, Shared, Evidenced, final, InCandidates, Staged
  <1> QED  BY <1>3, <1>4, <1>5 DEF JobInv

LEMMA ObservationStep ==
    ASSUME JobAssumption, JobInv, NEW x \in Executions, NEW b \in Participants, NEW o \in Outcomes,
           RecordObservation(x, b, o) \/ LoseReply(x, b, o)
    PROVE  JobInv'
  <1>1. /\ observed' = [observed EXCEPT ![Round(x)][b] = [base |-> exec[x].weights, outcome |-> o]]
        /\ AtStep(x, "training") /\ job' = "STARTED" /\ job # "COMPLETED"
        /\ UNCHANGED <<aggregated, completed, artifactFile, metaFile, candidates>>
    BY DEF RecordObservation, LoseReply, Recordable, staging
  <1>2. StepsTo(x, "training") \/ StepsTo(x, "stopped")
    BY <1>1, RepliesStep, MovesSteps DEF RecordObservation, LoseReply, JobInv, Steps, AtStep
  <1>3. observed' \in [RoundNumbers -> [Participants -> LocalUpdates \cup {NotYet}]]
    BY <1>1, ObservedStep
  <1>4. JobTypeOK'
    BY <1>1, <1>2, <1>3 DEF JobInv, JobTypeOK, StepsTo, Execution
  <1>5. \A y \in Executions : Knows(y)'
    BY <1>1, <1>2 DEF JobInv, Knows, StepsTo, final, InCandidates, Staged, Trains, Holds,
       Completed, AtStep
  <1>6. completed = NotYet
    BY <1>1 DEF JobInv, Shared
  <1>7. Shared' /\ Evidenced'
    BY <1>1, <1>6 DEF JobInv, Shared, Evidenced, final, InCandidates, Staged
  <1> QED  BY <1>4, <1>5, <1>7 DEF JobInv

LEMMA AggregationStep ==
    ASSUME JobAssumption, JobInv, NEW x \in Executions, RecordAggregation(x)
    PROVE  JobInv'
  <1> DEFINE r == Round(x)
             after == Append(exec[x].weights, exec[x].replies)
             step == IF r = Rounds THEN "aggregated" ELSE "training"
  <1>1. /\ AtStep(x, "training") /\ Answered(x)
        /\ aggregated[r] \in {NotYet, after}
        /\ aggregated' = [aggregated EXCEPT ![r] = after]
        /\ exec' = [exec EXCEPT ![x] = [step |-> step, weights |-> after, replies |-> NoReplies]]
        /\ UNCHANGED <<job, observed, completed, artifactFile, metaFile, candidates>>
    BY DEF RecordAggregation, staging
  <1>2. exec[x] \in Execution
    BY DEF JobInv, JobTypeOK, Execution
  <1>3. exec[x].replies \in Trained
    BY <1>1, <1>2 DEF Execution, Replies, Trained, Answered
  <1>4. r \in RoundNumbers /\ Len(exec[x].weights) < Rounds
        /\ Len(exec[x].weights) \in Nat /\ r = Len(exec[x].weights) + 1
    BY <1>1, <1>2, RoundInJob, HistorySequences DEF Round, Execution, JobAssumption
  <1>5. after \in Histories /\ Len(after) = r
    BY <1>2, <1>3, <1>4, GrownHistory DEF Execution
  <1> HIDE DEF after, r
  <1>6. [step |-> step, weights |-> after, replies |-> NoReplies] \in Execution
    BY <1>5 DEF Execution, Steps, Replies, NoReplies
  <1>7. /\ exec' \in [Executions -> Execution]
        /\ exec'[x].step = step /\ exec'[x].weights = after
        /\ \A y \in Executions \ {x} : exec'[y] = exec[y]
    BY <1>1, <1>6 DEF JobInv, JobTypeOK, Execution
  <1>8. aggregated' \in [RoundNumbers -> Histories \cup {NotYet}]
    BY <1>1, <1>4, <1>5 DEF JobInv, JobTypeOK
  <1>9. JobTypeOK'
    BY <1>1, <1>7, <1>8 DEF JobInv, JobTypeOK, Execution
  <1>10. /\ final = NotYet \/ final' = final
         /\ r = Rounds => final' = after
         /\ Rounds \in RoundNumbers
    BY <1>1, <1>4 DEF JobInv, JobTypeOK, final, JobAssumption, RoundNumbers
  <1>11. CASE final' = final
    <2>1. Knows(x)'
      BY <1>1, <1>4, <1>5, <1>7, <1>10, <1>11
         DEF JobInv, Knows, Trains, Holds, Completed, JobAssumption, RoundNumbers
    <2>2. \A y \in Executions \ {x} : Knows(y)'
      BY <1>1, <1>7, <1>11 DEF JobInv, Knows, InCandidates, Staged
    <2>3. Shared' /\ Evidenced'
      BY <1>1, <1>11 DEF JobInv, Shared, Evidenced, InCandidates, Staged
    <2> QED  BY <1>9, <2>1, <2>2, <2>3 DEF JobInv
  <1>12. CASE final = NotYet
    <2>1. /\ completed = NotYet /\ artifactFile = NotYet /\ metaFile = NotYet
          /\ candidates = {}
      BY <1>12, NotYetAssumption DEF JobInv, JobTypeOK, Shared
    <2>2. \A y \in Executions : exec[y].step \notin Holds
      BY <1>12, NotYetAssumption DEF JobInv, JobTypeOK, Knows
    <2>3. Knows(x)'
      BY <1>1, <1>4, <1>5, <1>7, <1>10
         DEF Knows, Trains, Holds, Completed, JobAssumption, RoundNumbers
    <2>4. \A y \in Executions \ {x} : Knows(y)'
      BY <1>7, <2>2 DEF JobInv, Knows, Trains, Holds, Completed
    <2>5. Shared' /\ Evidenced'
      BY <1>1, <2>1 DEF Shared, Evidenced
    <2> QED  BY <1>9, <2>3, <2>4, <2>5 DEF JobInv
  <1> QED  BY <1>10, <1>11, <1>12

\* Executions that only look: none of them has anything to show but for itself.
LEMMA LookingSteps ==
    ASSUME JobInv, NEW x \in Executions,
           FindNoneStaged(x) \/ KeepStaged(x) \/ LoadStaged(x) \/ StopExecution(x)
    PROVE  JobInv'
  <1>1. UNCHANGED <<job, observed, aggregated, completed, artifactFile, metaFile, candidates>>
    BY DEF FindNoneStaged, KeepStaged, LoadStaged, StopExecution, authority, staging
  <1>2. CASE FindNoneStaged(x)
    <2>1. StepsTo(x, "staging") /\ exec[x].step = "aggregated"
      BY <1>2, MovesSteps DEF FindNoneStaged, JobInv, Steps, AtStep
    <2>2. Knows(x)'
      BY <1>1, <2>1 DEF JobInv, Knows, StepsTo, Trains, Holds, Completed, final
    <2> QED  BY <1>1, <2>1, <2>2, LocalStep DEF Steps
  <1>3. CASE KeepStaged(x)
    <2>1. StepsTo(x, "staged") /\ exec[x].step = "aggregated" /\ metaFile = exec[x].weights
      BY <1>3, MovesSteps DEF KeepStaged, JobInv, Steps, AtStep
    <2>2. metaFile # NotYet
      BY <2>1, NotYetAssumption DEF JobInv, JobTypeOK
    <2>3. Knows(x)'
      BY <1>1, <2>1, <2>2 DEF JobInv, Shared, Knows, StepsTo, Trains, Holds, Completed, final,
         Staged, InCandidates
    <2> QED  BY <1>1, <2>1, <2>3, LocalStep DEF Steps
  <1>4. CASE LoadStaged(x)
    <2>1. StepsTo(x, "completed") /\ exec[x].step = "recovering"
      BY <1>4, MovesSteps DEF LoadStaged, JobInv, Steps, AtStep
    <2>2. Knows(x)'
      BY <1>1, <2>1 DEF JobInv, Knows, StepsTo, Trains, Holds, Completed, final
    <2> QED  BY <1>1, <2>1, <2>2, LocalStep DEF Steps
  <1>5. CASE StopExecution(x)
    <2>1. StepsTo(x, "stopped")
      BY <1>5, MovesSteps DEF StopExecution, JobInv, Steps
    <2>2. Knows(x)'
      BY <2>1 DEF Knows, StepsTo, Trains, Holds, Completed
    <2> QED  BY <1>1, <2>1, <2>2, LocalStep DEF Steps
  <1> QED  BY <1>2, <1>3, <1>4, <1>5

LEMMA ReconcileStep ==
    ASSUME JobInv, NEW x \in Executions, ReconcileCandidate(x)
    PROVE  JobInv'
  <1> DEFINE step == IF completed \notin candidates THEN "recovering"
                     ELSE IF Staged THEN "registered" ELSE "finished"
             held == [exec[x] EXCEPT !.step = step]
  <1>1. UNCHANGED <<job, observed, aggregated, completed, artifactFile, metaFile, candidates>>
        /\ completed # NotYet
        /\ exec' = [exec EXCEPT ![x].step = step, ![x].weights = completed]
    BY DEF ReconcileCandidate, authority, staging
  <1>2. completed \in Histories /\ completed = final
    BY <1>1 DEF JobInv, JobTypeOK, Shared
  <1>3. held \in Execution /\ held.step = step
    BY DEF JobInv, JobTypeOK, Execution, Steps
  <1>4. exec' = [exec EXCEPT ![x] = [held EXCEPT !.weights = completed]]
    BY <1>1 DEF JobInv, JobTypeOK
  <1> HIDE DEF held
  <1>5. /\ [held EXCEPT !.weights = completed] \in Execution
        /\ [held EXCEPT !.weights = completed].step = step
        /\ [held EXCEPT !.weights = completed].weights = completed
    BY <1>2, <1>3 DEF Execution
  <1>6. /\ exec' \in [Executions -> Execution]
        /\ exec'[x].step = step /\ exec'[x].weights = completed
        /\ \A y \in Executions \ {x} : exec'[y] = exec[y]
    BY <1>4, <1>5 DEF JobInv, JobTypeOK, Execution
  <1>7. JobTypeOK'
    BY <1>1, <1>6 DEF JobInv, JobTypeOK, Execution
  <1>8. Knows(x)'
    BY <1>1, <1>2, <1>6 DEF Knows, Trains, Holds, Completed, final, InCandidates
  <1>9. \A y \in Executions \ {x} : Knows(y)'
    BY <1>1, <1>6 DEF JobInv, Knows, final, InCandidates, Staged
  <1>10. Shared' /\ Evidenced'
    BY <1>1 DEF JobInv, Shared, Evidenced, UpdateIn, final, InCandidates, Staged
  <1> QED  BY <1>7, <1>8, <1>9, <1>10 DEF JobInv

\* The two staged files are written; what is there already is the same model.
LEMMA StageStep ==
    ASSUME JobInv, NEW x \in Executions, StageArtifact(x) \/ StageMetadata(x)
    PROVE  JobInv'
  <1>1. exec[x].step \in {"staging", "artifactStaged"}
        /\ StepsTo(x, IF exec[x].step = "staging" THEN "artifactStaged" ELSE "staged")
    BY MovesSteps DEF StageArtifact, StageMetadata, JobInv, Steps, AtStep
  <1>2. /\ UNCHANGED <<job, observed, aggregated, completed, candidates>>
        /\ IF exec[x].step = "staging"
           THEN artifactFile' = exec[x].weights /\ metaFile' = metaFile
           ELSE metaFile' = exec[x].weights /\ artifactFile' = artifactFile
    BY DEF StageArtifact, StageMetadata, authority, AtStep
  <1>3. exec[x].weights = final /\ final \in Histories /\ final # NotYet
    BY <1>1, NotYetAssumption DEF JobInv, JobTypeOK, Knows, Holds
  <1>4. JobTypeOK'
    BY <1>1, <1>2, <1>3 DEF JobInv, JobTypeOK, StepsTo, Execution
  <1>5. /\ artifactFile # NotYet => artifactFile' # NotYet
        /\ metaFile # NotYet => metaFile' # NotYet
        /\ exec[x].step = "staging" => artifactFile' # NotYet
        /\ exec[x].step # "staging" => metaFile' # NotYet
    BY <1>2, <1>3
  <1>6. Knows(x)'
    BY <1>1, <1>2, <1>3, <1>5
       DEF JobInv, Knows, StepsTo, Trains, Holds, Completed, final, InCandidates, Staged
  <1>7. \A y \in Executions \ {x} : Knows(y)'
    BY <1>1, <1>2, <1>5 DEF JobInv, Knows, StepsTo, final, InCandidates, Staged
  <1>8. Shared'
    BY <1>1, <1>2, <1>3, <1>5 DEF JobInv, Knows, Shared, final, InCandidates, Staged
  <1>9. Evidenced'
    BY <1>2 DEF JobInv, Evidenced
  <1> QED  BY <1>4, <1>6, <1>7, <1>8, <1>9 DEF JobInv

LEMMA CompleteStep ==
    ASSUME JobInv, NEW x \in Executions, CompleteJob(x)
    PROVE  JobInv'
  <1>1. exec[x].step = "staged" /\ StepsTo(x, "completed")
    BY MovesSteps DEF CompleteJob, Completes, JobInv, Steps
  <1>2. /\ UNCHANGED <<observed, aggregated, artifactFile, metaFile, candidates>>
        /\ completed' = exec[x].weights /\ job' = "COMPLETED" /\ Reconciled(exec[x].weights)
    BY DEF CompleteJob, staging
  <1>3. exec[x].weights = final /\ final \in Histories /\ final # NotYet
    BY <1>1, NotYetAssumption DEF JobInv, JobTypeOK, Knows, Holds
  <1>4. completed \in {NotYet, final} /\ (completed = NotYet => candidates = {})
    BY NotYetAssumption DEF JobInv, JobTypeOK, Shared
  <1>5. JobTypeOK'
    BY <1>1, <1>2, <1>3 DEF JobInv, JobTypeOK, StepsTo, Execution
  <1>6. \A y \in Executions : Knows(y)'
    BY <1>1, <1>2, <1>3 DEF JobInv, Knows, StepsTo, Trains, Holds, Completed, final,
       InCandidates, Staged
  <1>7. Shared'
    BY <1>1, <1>2, <1>3, <1>4 DEF JobInv, Knows, Shared, final, InCandidates, Staged
  <1>8. Evidenced'
    BY <1>2 DEF Evidenced, Reconciled
  <1> QED  BY <1>5, <1>6, <1>7, <1>8 DEF JobInv

LEMMA RegisterStep ==
    ASSUME JobInv, NEW x \in Executions, RegisterCandidate(x)
    PROVE  JobInv'
  <1>1. exec[x].step = "completed" /\ StepsTo(x, "registered")
    BY MovesSteps DEF RegisterCandidate, Registers, JobInv, Steps
  <1>2. /\ UNCHANGED <<job, observed, aggregated, completed, artifactFile, metaFile>>
        /\ candidates' = candidates \cup {exec[x].weights}
    BY DEF RegisterCandidate, authority, staging
  <1>3. exec[x].weights = final /\ completed = final /\ final \in Histories
    BY <1>1 DEF JobInv, JobTypeOK, Knows, Holds, Completed
  <1>4. JobTypeOK'
    BY <1>1, <1>2, <1>3 DEF JobInv, JobTypeOK, StepsTo, Execution
  <1>5. \A y \in Executions : Knows(y)'
    BY <1>1, <1>2, <1>3 DEF JobInv, Knows, StepsTo, Trains, Holds, Completed, final,
       InCandidates, Staged
  <1>6. Shared' /\ Evidenced'
    BY <1>2, <1>3 DEF JobInv, Shared, Evidenced, final, InCandidates, Staged
  <1> QED  BY <1>4, <1>5, <1>6 DEF JobInv

\* A staged file is removed by an execution that knows the model registered.
LEMMA RemoveStep ==
    ASSUME JobInv, NEW x \in Executions, RemoveArtifact(x) \/ RemoveMetadata(x)
    PROVE  JobInv'
  <1>1. exec[x].step \in {"registered", "cleaning"}
        /\ (StepsTo(x, "cleaning") \/ StepsTo(x, "finished"))
    BY MovesSteps DEF RemoveArtifact, RemoveMetadata, JobInv, Steps, AtStep
  <1>2. /\ UNCHANGED <<job, observed, aggregated, completed, candidates>>
        /\ artifactFile' \in {artifactFile, NotYet} /\ metaFile' \in {metaFile, NotYet}
    BY DEF RemoveArtifact, RemoveMetadata, authority
  <1>3. InCandidates /\ InCandidates'
    BY <1>1, <1>2 DEF JobInv, Knows, InCandidates, final
  <1>4. JobTypeOK'
    BY <1>1, <1>2 DEF JobInv, JobTypeOK, StepsTo, Execution
  <1>5. \A y \in Executions : Knows(y)'
    BY <1>1, <1>2, <1>3 DEF JobInv, Knows, StepsTo, Trains, Holds, Completed, final
  <1>6. Shared' /\ Evidenced'
    BY <1>2, <1>3 DEF JobInv, Shared, Evidenced, final
  <1> QED  BY <1>4, <1>5, <1>6 DEF JobInv

-----------------------------------------------------------------------------
(* Theorems. *)

LEMMA JobInitially == ASSUME JobAssumption, JobInit PROVE JobInv
  <1>1. JobTypeOK
    BY EmptyHistory DEF JobInit, JobTypeOK, NoReplies, Replies, Steps
  <1>2. \A x \in Executions : Knows(x)
    BY EmptyHistory DEF JobInit, Knows, Holds, Completed, JobAssumption
  <1>3. Shared /\ Evidenced
    BY DEF JobInit, Shared, Evidenced
  <1> QED  BY <1>1, <1>2, <1>3 DEF JobInv

LEMMA JobStep ==
    ASSUME JobAssumption, JobInv, [JobNext]_jobVars
    PROVE  JobInv'
  <1>1. CASE JobNext
    BY <1>1, ScheduleStep, ObservationStep, AggregationStep, LookingSteps, ReconcileStep,
       StageStep, CompleteStep, RegisterStep, RemoveStep DEF JobNext
  <1>2. CASE UNCHANGED jobVars
    BY <1>2 DEF jobVars, JobInv, JobTypeOK, Knows, Shared, Evidenced, UpdateIn, final,
       InCandidates, Staged
  <1> QED  BY <1>1, <1>2

LEMMA JobInvariant == ASSUME JobAssumption PROVE JobSpec => []JobInv
  BY JobInitially, JobStep, PTL DEF JobSpec

\* Every reachable state of a job is well typed.
THEOREM JobTypes == JobSpec => []JobTypeOK
  <1>1. JobInv => JobTypeOK
    BY DEF JobInv
  <1> QED  BY <1>1, JobAssumption, JobInvariant, PTL

\* The artifact of a completed job (distributed_fl_service.py) is registered, or
\* staged whole for a retry, however many executions overlap and wherever they
\* stop.
THEOREM CompletedRecoverable == JobSpec => []CompletedIsRecoverable
  <1>1. JobInv => CompletedIsRecoverable
    BY DEF JobInv, Shared, CompletedIsRecoverable, InCandidates, Staged
  <1> QED  BY <1>1, JobAssumption, JobInvariant, PTL

\* The registered candidate is the completed artifact, and its history is the
\* one the authority recorded, bank by bank and round by round.
THEOREM RegisteredEvidenced == JobSpec => []RegisteredIsEvidenced
  <1>1. ASSUME JobInv, NEW model \in candidates
        PROVE  /\ model = completed
               /\ \A r \in RoundNumbers, b \in Participants :
                     observed[r][b] = UpdateIn(model, r, b)
    BY <1>1, NotYetAssumption DEF JobInv, JobTypeOK, Shared, Evidenced
  <1>2. JobInv => RegisteredIsEvidenced
    BY <1>1 DEF RegisteredIsEvidenced
  <1> QED  BY <1>2, JobAssumption, JobInvariant, PTL

-----------------------------------------------------------------------------
(* The job, read as a single training.                                     *)
(*                                                                         *)
(* JobInv does not say enough: it speaks of the executions that hold the   *)
(* final model.  What makes one training of many executions is that a      *)
(* round is aggregated after the one before, on observations that are all  *)
(* there, and that whoever trains has the model that was aggregated.       *)

AggregatedUpTo(table, n) == \A r \in RoundNumbers : table[r] # NotYet <=> r <= n

OneHistory ==
    /\ \E n \in 0 .. Rounds : AggregatedUpTo(aggregated, n)
    /\ \A r \in RoundNumbers, b \in Participants :
          aggregated[r] # NotYet => observed[r][b] # NotYet
    /\ \A r \in RoundNumbers, b \in Participants :
          observed[r][b] # NotYet => r = 1 \/ aggregated[r - 1] # NotYet
    /\ \A x \in Executions :
          /\ exec[x].step = "called" => exec[x].weights = <<>>
          /\ exec[x].step = "training" =>
                Len(exec[x].weights) = 0 \/ aggregated[Len(exec[x].weights)] = exec[x].weights

\* Up to one round only are they all aggregated.
LEMMA DoneIsUnique ==
    ASSUME JobAssumption, NEW table, NEW n \in 0 .. Rounds, AggregatedUpTo(table, n)
    PROVE  (CHOOSE m \in 0 .. Rounds : AggregatedUpTo(table, m)) = n
  <1>1. ASSUME NEW m \in 0 .. Rounds, AggregatedUpTo(table, m)
        PROVE  m = n
    <2>1. m > n => m \in RoundNumbers
      BY DEF RoundNumbers, JobAssumption
    <2>2. n > m => n \in RoundNumbers
      BY DEF RoundNumbers, JobAssumption
    <2> QED  BY <1>1, <2>1, <2>2 DEF AggregatedUpTo, JobAssumption
  <1> QED  BY <1>1

\* Where an execution that trains stands: its model is the current one, or an
\* earlier one.
LEMMA TrainerStands ==
    ASSUME JobAssumption, JobInv, OneHistory, NEW x \in Executions, AtStep(x, "training"),
           NEW n \in 0 .. Rounds, AggregatedUpTo(aggregated, n)
    PROVE  /\ Round(x) \in RoundNumbers /\ Round(x) = Len(exec[x].weights) + 1
           /\ Len(exec[x].weights) \in 0 .. Rounds
           /\ Len(exec[x].weights) < Rounds /\ Len(exec[x].weights) <= n
           /\ Round(x) > n => /\ n < Rounds /\ Round(x) = n + 1
                              /\ exec[x].weights = IF n = 0 THEN <<>> ELSE aggregated[n]
  <1>1. Round(x) \in RoundNumbers /\ Len(exec[x].weights) < Rounds
    BY RoundInJob
  <1>2. exec[x].weights \in Histories
    BY DEF JobInv, JobTypeOK
  <1>3. exec[x].weights \in Seq(Trained) /\ Len(exec[x].weights) \in 0 .. Rounds
    BY <1>2, HistorySequences
  <1>4. Round(x) = Len(exec[x].weights) + 1 /\ Rounds \in Nat
    BY DEF Round, JobAssumption
  <1>5. CASE Len(exec[x].weights) = 0
    <2>1. exec[x].weights = <<>>
      BY <1>3, <1>5, EmptySeq
    <2> QED  BY <1>1, <1>3, <1>4, <1>5, <2>1
  <1>6. CASE Len(exec[x].weights) # 0
    <2>1. aggregated[Len(exec[x].weights)] = exec[x].weights
      BY <1>6 DEF OneHistory, AtStep
    <2>2. Len(exec[x].weights) \in RoundNumbers
      BY <1>3, <1>4, <1>6 DEF RoundNumbers
    <2>3. Len(exec[x].weights) <= n
      BY <1>2, <2>1, <2>2, NotYetAssumption DEF AggregatedUpTo
    <2> QED  BY <1>1, <1>3, <1>4, <1>6, <2>1, <2>3
  <1> QED  BY <1>5, <1>6

\* A step that records neither an update nor a model leaves the executions that
\* train with the model they have.
LEMMA QuietSteps ==
    ASSUME JobInv, NEW x \in Executions,
           \/ Schedule(x) \/ FindNoneStaged(x) \/ StageArtifact(x) \/ StageMetadata(x)
           \/ KeepStaged(x) \/ CompleteJob(x) \/ RegisterCandidate(x) \/ RemoveArtifact(x)
           \/ RemoveMetadata(x) \/ ReconcileCandidate(x) \/ LoadStaged(x) \/ StopExecution(x)
    PROVE  /\ UNCHANGED <<observed, aggregated>>
           /\ \A y \in Executions :
                 \/ exec'[y] = exec[y]
                 \/ exec'[y].step \notin {"called", "training"}
                 \/ exec[y].step = "called" /\ exec'[y].step = "training"
                    /\ exec'[y].weights = exec[y].weights
  <1>1. UNCHANGED <<observed, aggregated>>
    BY DEF Schedule, FindNoneStaged, StageArtifact, StageMetadata, KeepStaged, CompleteJob,
       RegisterCandidate, RemoveArtifact, RemoveMetadata, ReconcileCandidate, LoadStaged,
       StopExecution, authority, staging
  <1>2. CASE Schedule(x)
    <2>1. StepsTo(x, "training") /\ exec[x].step = "called"
      BY <1>2, MovesSteps DEF Schedule, JobInv, Steps, AtStep
    <2> QED  BY <1>1, <2>1 DEF StepsTo
  <1>3. CASE \/ FindNoneStaged(x) \/ StageArtifact(x) \/ StageMetadata(x) \/ KeepStaged(x)
             \/ CompleteJob(x) \/ RegisterCandidate(x) \/ RemoveArtifact(x)
             \/ RemoveMetadata(x) \/ LoadStaged(x) \/ StopExecution(x)
    <2>1. \E s \in Steps \ {"called", "training"} : Moves(x, s)
      BY <1>3 DEF FindNoneStaged, StageArtifact, StageMetadata, KeepStaged, CompleteJob,
         RegisterCandidate, RemoveArtifact, RemoveMetadata, LoadStaged, StopExecution, Steps
    <2>2. \E s \in Steps \ {"called", "training"} : StepsTo(x, s)
      BY <2>1, MovesSteps DEF JobInv
    <2> QED  BY <1>1, <2>2 DEF StepsTo
  <1>4. CASE ReconcileCandidate(x)
    <2> DEFINE step == IF completed \notin candidates THEN "recovering"
                       ELSE IF Staged THEN "registered" ELSE "finished"
               held == [exec[x] EXCEPT !.step = step]
    <2>1. exec' = [exec EXCEPT ![x] = [held EXCEPT !.weights = completed]]
      BY <1>4 DEF ReconcileCandidate, JobInv, JobTypeOK
    <2>2. held.step = step /\ held \in [step : Steps, weights : Histories, replies : Replies]
      BY DEF JobInv, JobTypeOK, Steps
    <2>3. step \notin {"called", "training"}
      OBVIOUS
    <2> HIDE DEF held, step
    <2>4. [held EXCEPT !.weights = completed].step = step
      BY <2>2
    <2> QED  BY <1>1, <2>1, <2>3, <2>4 DEF JobInv, JobTypeOK
  <1> QED  BY <1>2, <1>3, <1>4

\* Recording an observation or a lost one.
LEMMA ObservationMoves ==
    ASSUME JobInv, NEW x \in Executions, NEW b \in Participants, NEW o \in Outcomes,
           RecordObservation(x, b, o) \/ LoseReply(x, b, o)
    PROVE  /\ AtStep(x, "training") /\ job # "COMPLETED"
           /\ observed[Round(x)][b] \in {NotYet, [base |-> exec[x].weights, outcome |-> o]}
           /\ observed' = [observed EXCEPT ![Round(x)][b] =
                              [base |-> exec[x].weights, outcome |-> o]]
           /\ UNCHANGED <<aggregated, completed, candidates>>
           /\ \A y \in Executions : \/ exec'[y].step = "stopped"
                                    \/ /\ exec'[y].step = exec[y].step
                                       /\ exec'[y].weights = exec[y].weights
  <1>1. StepsTo(x, "training") \/ StepsTo(x, "stopped")
    BY RepliesStep, MovesSteps DEF RecordObservation, LoseReply, JobInv, Steps, AtStep
  <1>2. /\ AtStep(x, "training") /\ job # "COMPLETED"
        /\ observed[Round(x)][b] \in {NotYet, [base |-> exec[x].weights, outcome |-> o]}
        /\ observed' = [observed EXCEPT ![Round(x)][b] =
                           [base |-> exec[x].weights, outcome |-> o]]
        /\ UNCHANGED <<aggregated, completed, candidates>>
    BY DEF RecordObservation, LoseReply, Recordable
  <1> QED  BY <1>1, <1>2 DEF StepsTo, AtStep

\* Recording an aggregation.
LEMMA AggregationMoves ==
    ASSUME JobAssumption, JobInv, NEW x \in Executions, RecordAggregation(x)
    PROVE  LET r == Round(x)
               after == Append(exec[x].weights, exec[x].replies)
           IN  /\ AtStep(x, "training") /\ exec[x].replies \in Trained
               /\ aggregated[r] \in {NotYet, after} /\ r \in RoundNumbers
               /\ after \in Histories /\ Len(after) = r /\ after # NotYet
               /\ \A b \in Participants :
                     observed[r][b] = [base |-> exec[x].weights, outcome |-> exec[x].replies[b]]
               /\ aggregated' = [aggregated EXCEPT ![r] = after]
               /\ UNCHANGED <<observed, completed, candidates>>
               /\ exec'[x].step \in {"aggregated", "training"} /\ exec'[x].weights = after
               /\ \A y \in Executions \ {x} : exec'[y] = exec[y]
  <1> DEFINE r == Round(x)
             after == Append(exec[x].weights, exec[x].replies)
  <1>1. /\ AtStep(x, "training") /\ Answered(x)
        /\ aggregated[r] \in {NotYet, after}
        /\ aggregated' = [aggregated EXCEPT ![r] = after]
        /\ \A b \in Participants :
              observed[r][b] = [base |-> exec[x].weights, outcome |-> exec[x].replies[b]]
        /\ exec' = [exec EXCEPT ![x] =
                       [step |-> IF r = Rounds THEN "aggregated" ELSE "training",
                        weights |-> after, replies |-> NoReplies]]
        /\ UNCHANGED <<observed, completed, candidates>>
    BY DEF RecordAggregation
  <1>2. exec[x].replies \in Replies /\ exec[x].weights \in Histories
    BY DEF JobInv, JobTypeOK
  <1>3. exec[x].replies \in Trained
    BY <1>1, <1>2 DEF Replies, Trained, Answered
  <1>4. r \in RoundNumbers /\ Len(exec[x].weights) < Rounds /\ r = Len(exec[x].weights) + 1
    BY <1>1, RoundInJob DEF Round
  <1>5. after \in Histories /\ Len(after) = r
    BY <1>2, <1>3, <1>4, GrownHistory
  <1> HIDE DEF after, r
  <1>6. /\ exec'[x].step \in {"aggregated", "training"} /\ exec'[x].weights = after
        /\ \A y \in Executions \ {x} : exec'[y] = exec[y]
    BY <1>1 DEF JobInv, JobTypeOK
  <1>7. after # NotYet
    BY <1>5, NotYetAssumption
  <1>8. QED
    BY <1>1, <1>3, <1>4, <1>5, <1>6, <1>7 DEF after, r

\* Every step keeps one history.
LEMMA OneHistoryStep ==
    ASSUME JobAssumption, JobInv, OneHistory, [JobNext]_jobVars
    PROVE  OneHistory'
  <1>0. PICK n \in 0 .. Rounds : AggregatedUpTo(aggregated, n)
    BY DEF OneHistory
  <1>a. Rounds \in Nat
    BY DEF JobAssumption
  <1>1. ASSUME UNCHANGED <<observed, aggregated>>,
               \A y \in Executions :
                  \/ exec'[y] = exec[y]
                  \/ exec'[y].step \notin {"called", "training"}
                  \/ exec[y].step = "called" /\ exec'[y].step = "training"
                     /\ exec'[y].weights = exec[y].weights
        PROVE  OneHistory'
    <2>1. Len(<<>>) = 0
      OBVIOUS
    <2>2. \A y \in Executions :
             /\ exec'[y].step = "called" => exec'[y].weights = <<>>
             /\ exec'[y].step = "training" =>
                   Len(exec'[y].weights) = 0 \/ aggregated[Len(exec'[y].weights)] = exec'[y].weights
      BY <1>1, <2>1 DEF OneHistory
    <2> QED  BY <1>1, <2>2 DEF OneHistory, AggregatedUpTo
  <1>2. ASSUME NEW x \in Executions, NEW b \in Participants, NEW o \in Outcomes,
               RecordObservation(x, b, o) \/ LoseReply(x, b, o)
        PROVE  OneHistory'
    <2> DEFINE update == [base |-> exec[x].weights, outcome |-> o]
               r == Round(x)
    <2>1. /\ AtStep(x, "training")
          /\ observed' = [observed EXCEPT ![r][b] = update]
          /\ aggregated' = aggregated
          /\ \A y \in Executions : \/ exec'[y].step = "stopped"
                                   \/ /\ exec'[y].step = exec[y].step
                                      /\ exec'[y].weights = exec[y].weights
      BY <1>2, ObservationMoves
    <2>2. update \in LocalUpdates /\ update # NotYet
      BY NotYetAssumption DEF JobInv, JobTypeOK, LocalUpdates
    <2>3. r \in RoundNumbers /\ r = Len(exec[x].weights) + 1
          /\ Len(exec[x].weights) \in 0 .. Rounds /\ Len(exec[x].weights) <= n
      BY <1>0, <2>1, TrainerStands
    <2>4. r = 1 \/ aggregated[r - 1] # NotYet
      <3>1. r # 1 => r - 1 \in RoundNumbers /\ r - 1 <= n
        BY <1>a, <2>3 DEF RoundNumbers
      <3> QED  BY <1>0, <3>1 DEF AggregatedUpTo
    <2> HIDE DEF update, r
    <2>5. \A q \in RoundNumbers, c \in Participants :
             observed'[q][c] = IF q = r /\ c = b THEN update ELSE observed[q][c]
      BY <2>1, <2>3 DEF JobInv, JobTypeOK
    <2>6. \A q \in RoundNumbers, c \in Participants :
             /\ aggregated[q] # NotYet => observed'[q][c] # NotYet
             /\ observed'[q][c] # NotYet => q = 1 \/ aggregated[q - 1] # NotYet
      BY <2>2, <2>4, <2>5 DEF OneHistory
    <2>7. \A y \in Executions :
             /\ exec'[y].step = "called" => exec'[y].weights = <<>>
             /\ exec'[y].step = "training" =>
                   Len(exec'[y].weights) = 0 \/ aggregated[Len(exec'[y].weights)] = exec'[y].weights
      BY <2>1 DEF OneHistory
    <2> QED  BY <1>0, <2>1, <2>6, <2>7 DEF OneHistory, AggregatedUpTo
  <1>3. ASSUME NEW x \in Executions, RecordAggregation(x)
        PROVE  OneHistory'
    <2> DEFINE r == Round(x)
               after == Append(exec[x].weights, exec[x].replies)
    <2>1. /\ AtStep(x, "training") /\ aggregated[r] \in {NotYet, after} /\ r \in RoundNumbers
          /\ Len(after) = r /\ after # NotYet
          /\ \A b \in Participants :
                observed[r][b] = [base |-> exec[x].weights, outcome |-> exec[x].replies[b]]
          /\ aggregated' = [aggregated EXCEPT ![r] = after]
          /\ observed' = observed
          /\ exec'[x].step \in {"aggregated", "training"} /\ exec'[x].weights = after
          /\ \A y \in Executions \ {x} : exec'[y] = exec[y]
      BY <1>3, AggregationMoves
    <2>2. r = Len(exec[x].weights) + 1 /\ Len(exec[x].weights) \in 0 .. Rounds
          /\ Len(exec[x].weights) <= n /\ (r > n => n < Rounds /\ r = n + 1)
      BY <1>0, <2>1, TrainerStands
    <2>3. \A b \in Participants : observed[r][b] # NotYet
      <3>1. ASSUME NEW b \in Participants
            PROVE  [base |-> exec[x].weights, outcome |-> exec[x].replies[b]] \in LocalUpdates
        BY <1>3, AggregationMoves DEF JobInv, JobTypeOK, LocalUpdates, Trained
      <3> QED  BY <2>1, <3>1, NotYetAssumption
    <2> HIDE DEF after, r
    <2>4. \A q \in RoundNumbers : aggregated'[q] = IF q = r THEN after ELSE aggregated[q]
      BY <2>1 DEF JobInv, JobTypeOK
    <2>5. \E m \in 0 .. Rounds : AggregatedUpTo(aggregated', m)
      <3>1. CASE r <= n
        <4>1. AggregatedUpTo(aggregated', n)
          BY <1>0, <2>1, <2>4, <3>1 DEF AggregatedUpTo
        <4> QED  BY <4>1
      <3>2. CASE r > n
        <4>1. n + 1 \in 0 .. Rounds /\ r = n + 1
          BY <1>a, <2>2, <3>2
        <4>2. AggregatedUpTo(aggregated', n + 1)
          BY <1>0, <1>a, <2>1, <2>4, <4>1 DEF AggregatedUpTo, RoundNumbers
        <4> QED  BY <4>1, <4>2
      <3>3. r <= n \/ r > n
        BY <2>2
      <3> QED  BY <3>1, <3>2, <3>3
    <2>6. \A q \in RoundNumbers, b \in Participants :
             aggregated'[q] # NotYet => observed[q][b] # NotYet
      BY <2>3, <2>4 DEF OneHistory
    <2>7. \A q \in RoundNumbers : q # 1 => q - 1 \in RoundNumbers
      BY <1>a DEF RoundNumbers
    <2>8. \A q \in RoundNumbers, b \in Participants :
             observed[q][b] # NotYet => q = 1 \/ aggregated'[q - 1] # NotYet
      BY <2>1, <2>4, <2>7 DEF OneHistory
    <2>9. ASSUME NEW y \in Executions
          PROVE  /\ exec'[y].step = "called" => exec'[y].weights = <<>>
                 /\ exec'[y].step = "training" =>
                       \/ Len(exec'[y].weights) = 0
                       \/ aggregated'[Len(exec'[y].weights)] = exec'[y].weights
      <3>1. CASE y = x
        BY <2>1, <2>4, <3>1
      <3>2. CASE y # x
        <4>1. exec'[y] = exec[y]
          BY <2>1, <3>2
        <4>2. ASSUME exec[y].step = "training", Len(exec[y].weights) # 0
              PROVE  aggregated'[Len(exec[y].weights)] = exec[y].weights
          <5>1. /\ aggregated[Len(exec[y].weights)] = exec[y].weights
                /\ exec[y].weights \in Histories
            BY <4>2 DEF OneHistory, JobInv, JobTypeOK
          <5>2. Len(exec[y].weights) \in RoundNumbers
            BY <1>a, <4>2, <5>1, HistorySequences DEF RoundNumbers
          <5> QED  BY <2>1, <2>4, <5>1, <5>2, NotYetAssumption
        <4> QED  BY <4>1, <4>2 DEF OneHistory
      <3> QED  BY <3>1, <3>2
    <2> QED  BY <2>1, <2>5, <2>6, <2>8, <2>9 DEF OneHistory
  <1>4. CASE UNCHANGED jobVars
    BY <1>1, <1>4 DEF jobVars
  <1> QED  BY <1>1, <1>2, <1>3, <1>4, QuietSteps DEF JobNext

\* What an auditor sees of a state with n aggregated rounds, and of the next one.
LEMMA DoneNow ==
    ASSUME JobAssumption, NEW n \in 0 .. Rounds, AggregatedUpTo(aggregated, n)
    PROVE  RoundsDone = n
  <1>1. RoundsDone = CHOOSE m \in 0 .. Rounds : AggregatedUpTo(aggregated, m)
    BY DEF RoundsDone, AggregatedUpTo
  <1> QED  BY <1>1, DoneIsUnique

LEMMA DoneNext ==
    ASSUME JobAssumption, NEW n \in 0 .. Rounds, AggregatedUpTo(aggregated', n)
    PROVE  RoundsDone' = n
  <1>1. RoundsDone' = CHOOSE m \in 0 .. Rounds : AggregatedUpTo(aggregated', m)
    BY DEF RoundsDone, AggregatedUpTo
  <1> QED  BY <1>1, DoneIsUnique

\* An observation that is recorded is the bank's one training in the current
\* round, or was recorded before.
LEMMA ObservationTrains ==
    ASSUME JobAssumption, JobInv, OneHistory,
           NEW x \in Executions, NEW b \in Participants, NEW o \in Outcomes,
           RecordObservation(x, b, o) \/ LoseReply(x, b, o)
    PROVE  Single!Train(b, o) \/ UNCHANGED Single!trainingVars
  <1> DEFINE update == [base |-> exec[x].weights, outcome |-> o]
             r == Round(x)
  <1>0. PICK n \in 0 .. Rounds : AggregatedUpTo(aggregated, n)
    BY DEF OneHistory
  <1>1. /\ AtStep(x, "training") /\ job # "COMPLETED"
        /\ observed[r][b] \in {NotYet, update}
        /\ observed' = [observed EXCEPT ![r][b] = update]
        /\ aggregated' = aggregated /\ completed' = completed /\ candidates' = candidates
    BY ObservationMoves
  <1>2. RoundsDone = n /\ RoundsDone' = n /\ CurrentModel' = CurrentModel
    BY <1>0, <1>1, DoneNow, DoneNext DEF CurrentModel
  <1>3. update \in LocalUpdates /\ update # NotYet /\ update.outcome = o /\ o # NotYet
    BY NotYetAssumption DEF JobInv, JobTypeOK, LocalUpdates, JobAssumption
  <1>4. r \in RoundNumbers /\ r \in Int /\ Rounds \in Nat
    BY <1>1, RoundInJob DEF RoundNumbers, JobAssumption
  <1> HIDE DEF update
  <1>5. CASE observed[r][b] = update
    <2>1. observed' = observed
      BY <1>1, <1>4, <1>5 DEF JobInv, JobTypeOK
    <2> QED  BY <1>1, <1>2, <2>1 DEF Single!trainingVars, CurrentOutcomes
  <1>6. CASE observed[r][b] = NotYet
    <2>1. aggregated[r] = NotYet
      BY <1>4, <1>6 DEF OneHistory
    <2>2. r > n
      BY <1>0, <1>4, <2>1 DEF AggregatedUpTo
    <2>3. /\ n < Rounds /\ r = n + 1 /\ n # Rounds
          /\ exec[x].weights = IF n = 0 THEN <<>> ELSE aggregated[n]
          /\ Len(exec[x].weights) < Rounds
      BY <1>0, <1>1, <2>2, TrainerStands
    <2>4. completed = NotYet
      BY <1>1 DEF JobInv, Shared
    <2>5. CurrentModel = exec[x].weights
      BY <1>2, <2>3 DEF CurrentModel
    <2>6. CurrentOutcomes = [c \in Participants |->
             IF observed[r][c] = NotYet THEN NotYet ELSE observed[r][c].outcome]
      BY <1>2, <2>3 DEF CurrentOutcomes
    <2>7. CurrentOutcomes' = [c \in Participants |->
             IF observed'[r][c] = NotYet THEN NotYet ELSE observed'[r][c].outcome]
      BY <1>2, <2>3 DEF CurrentOutcomes
    <2>8. \A c \in Participants : observed'[r][c] = IF c = b THEN update ELSE observed[r][c]
      BY <1>1, <1>4 DEF JobInv, JobTypeOK
    <2> HIDE DEF r
    <2>9. CurrentOutcomes' = [CurrentOutcomes EXCEPT ![b] = o]
      BY <1>3, <2>6, <2>7, <2>8
    <2>10. CurrentOutcomes[b] = NotYet
      BY <1>6, <2>6
    <2> QED  BY <1>1, <1>2, <2>3, <2>4, <2>5, <2>9, <2>10 DEF Single!Train
  <1> QED  BY <1>1, <1>5, <1>6

\* An aggregation that is recorded is that of the current round, or was recorded
\* before.
LEMMA AggregationAdvances ==
    ASSUME JobAssumption, JobInv, OneHistory, NEW x \in Executions, RecordAggregation(x)
    PROVE  Single!Aggregate \/ UNCHANGED Single!trainingVars
  <1> DEFINE r == Round(x)
             replies == exec[x].replies
             after == Append(exec[x].weights, replies)
  <1>0. PICK n \in 0 .. Rounds : AggregatedUpTo(aggregated, n)
    BY DEF OneHistory
  <1>1. /\ AtStep(x, "training") /\ replies \in Trained
        /\ aggregated[r] \in {NotYet, after} /\ r \in RoundNumbers /\ after # NotYet
        /\ \A b \in Participants :
              observed[r][b] = [base |-> exec[x].weights, outcome |-> replies[b]]
        /\ aggregated' = [aggregated EXCEPT ![r] = after]
        /\ observed' = observed /\ completed' = completed /\ candidates' = candidates
    BY AggregationMoves
  <1>2. RoundsDone = n /\ r \in Int /\ Rounds \in Nat
    BY <1>0, <1>1, DoneNow DEF RoundNumbers, JobAssumption
  <1> HIDE DEF after
  <1>3. CASE aggregated[r] = after
    <2>1. aggregated' = aggregated
      BY <1>1, <1>3 DEF JobInv, JobTypeOK
    <2>2. RoundsDone' = RoundsDone
      BY <1>0, <1>2, <2>1, DoneNext
    <2> QED  BY <1>1, <2>1, <2>2 DEF Single!trainingVars, CurrentOutcomes, CurrentModel
  <1>4. CASE aggregated[r] = NotYet
    <2>1. r > n
      BY <1>0, <1>1, <1>2, <1>4 DEF AggregatedUpTo
    <2>2. /\ n < Rounds /\ r = n + 1 /\ n # Rounds
          /\ exec[x].weights = IF n = 0 THEN <<>> ELSE aggregated[n]
      BY <1>0, <1>1, <2>1, TrainerStands
    <2>3. CurrentModel = exec[x].weights
      BY <1>2, <2>2 DEF CurrentModel
    <2>4. CurrentOutcomes = replies
      <3>1. \A b \in Participants :
               observed[r][b] # NotYet /\ observed[r][b].outcome = replies[b]
        <4> DEFINE update(b) == [base |-> exec[x].weights, outcome |-> replies[b]]
        <4>1. \A b \in Participants :
                 update(b) \in LocalUpdates /\ update(b).outcome = replies[b]
          BY <1>1 DEF JobInv, JobTypeOK, LocalUpdates, Trained
        <4>2. \A b \in Participants : observed[r][b] = update(b)
          BY <1>1
        <4> HIDE DEF update
        <4> QED  BY <4>1, <4>2, NotYetAssumption
      <3>2. CurrentOutcomes = [b \in Participants |->
               IF observed[r][b] = NotYet THEN NotYet ELSE observed[r][b].outcome]
        BY <1>2, <2>2 DEF CurrentOutcomes
      <3> HIDE DEF r
      <3>3. CurrentOutcomes = [b \in Participants |-> replies[b]]
        BY <3>1, <3>2
      <3> QED  BY <1>1, <3>3 DEF Trained
    <2> HIDE DEF r, replies
    <2>5. \A q \in RoundNumbers : aggregated'[q] = IF q = r THEN after ELSE aggregated[q]
      BY <1>1 DEF JobInv, JobTypeOK
    <2>6. n + 1 \in 0 .. Rounds /\ AggregatedUpTo(aggregated', n + 1)
      BY <1>0, <1>1, <1>2, <2>2, <2>5 DEF AggregatedUpTo, RoundNumbers
    <2>7. RoundsDone' = n + 1
      BY <2>6, DoneNext
    <2>8. CurrentModel' = after
      BY <1>1, <2>2, <2>5, <2>7 DEF CurrentModel
    <2>9. CurrentOutcomes' = [b \in Participants |-> NotYet]
      <3>1. ASSUME NEW b \in Participants, n + 1 # Rounds
            PROVE  observed[n + 2][b] = NotYet
        <4>1. n + 2 \in RoundNumbers /\ n + 2 # 1 /\ (n + 2) - 1 = r
          BY <1>2, <2>2, <3>1 DEF RoundNumbers
        <4> QED  BY <1>4, <4>1 DEF OneHistory
      <3>2. (n + 1) + 1 = n + 2
        OBVIOUS
      <3> QED  BY <1>1, <2>7, <3>1, <3>2 DEF CurrentOutcomes
    <2>10. \A b \in Participants : replies[b] # NotYet
      BY <1>1 DEF Trained, JobAssumption
    <2> QED  BY <1>1, <2>3, <2>4, <2>8, <2>9, <2>10
             DEF Single!Aggregate, Single!NoneTrained, after
  <1> QED  BY <1>1, <1>3, <1>4

\* Every step of the executions is a step of the single training, or nothing.
LEMMA SingleStep ==
    ASSUME JobAssumption, JobInv, OneHistory, [JobNext]_jobVars
    PROVE  [Single!TrainingNext]_(Single!trainingVars)
  <1>1. ASSUME UNCHANGED <<observed, aggregated>>
        PROVE  UNCHANGED <<CurrentModel, CurrentOutcomes>>
    BY <1>1 DEF CurrentModel, CurrentOutcomes, RoundsDone
  <1>2. ASSUME NEW x \in Executions, CompleteJob(x)
        PROVE  Single!Conclude \/ UNCHANGED Single!trainingVars
    <2>1. /\ exec[x].step = "staged" /\ completed' = exec[x].weights
          /\ Reconciled(exec[x].weights)
          /\ UNCHANGED <<observed, aggregated, candidates>>
      BY <1>2 DEF CompleteJob, Completes
    <2>2. exec[x].weights = aggregated[Rounds] /\ exec[x].weights # NotYet
      BY <2>1, NotYetAssumption DEF JobInv, JobTypeOK, Knows, Holds, final
    <2>3. completed = NotYet \/ completed' = completed
      BY <2>1, <2>2 DEF JobInv, Shared, final
    <2>4. Rounds \in RoundNumbers /\ Rounds \in 0 .. Rounds /\ Rounds # 0 /\ Rounds \in Nat
      BY DEF RoundNumbers, JobAssumption
    <2>5. PICK n \in 0 .. Rounds : AggregatedUpTo(aggregated, n)
      BY DEF OneHistory
    <2>6. n = Rounds
      BY <2>2, <2>4, <2>5 DEF AggregatedUpTo
    <2>7. CurrentModel = exec[x].weights
      BY <2>2, <2>4, <2>5, <2>6, DoneNow DEF CurrentModel
    <2>8. Len(CurrentModel) = Rounds
      BY <2>1, <2>7 DEF Reconciled
    <2>9. UNCHANGED <<CurrentModel, CurrentOutcomes>>
      BY <1>1, <2>1
    <2> QED  BY <2>1, <2>3, <2>7, <2>8, <2>9 DEF Single!Conclude, Single!trainingVars
  <1>3. ASSUME NEW x \in Executions, RegisterCandidate(x)
        PROVE  Single!Publish \/ UNCHANGED Single!trainingVars
    <2>1. /\ exec[x].step = "completed" /\ candidates' = candidates \cup {exec[x].weights}
          /\ UNCHANGED <<observed, aggregated, completed>>
      BY <1>3 DEF RegisterCandidate, Registers, authority
    <2>2. exec[x].weights = completed /\ completed # NotYet
      BY <2>1, NotYetAssumption DEF JobInv, JobTypeOK, Knows, Holds, Completed
    <2>3. candidates' = {completed}
      BY <2>1, <2>2 DEF JobInv, Shared
    <2>4. UNCHANGED <<CurrentModel, CurrentOutcomes>>
      BY <1>1, <2>1
    <2> QED  BY <2>1, <2>2, <2>3, <2>4 DEF Single!Publish
  <1>4. ASSUME NEW x \in Executions,
               \/ Schedule(x) \/ FindNoneStaged(x) \/ StageArtifact(x) \/ StageMetadata(x)
               \/ KeepStaged(x) \/ RemoveArtifact(x) \/ RemoveMetadata(x)
               \/ ReconcileCandidate(x) \/ LoadStaged(x) \/ StopExecution(x)
        PROVE  UNCHANGED Single!trainingVars
    <2>1. UNCHANGED <<observed, aggregated, completed, candidates>>
      BY <1>4 DEF Schedule, FindNoneStaged, StageArtifact, StageMetadata, KeepStaged,
         RemoveArtifact, RemoveMetadata, ReconcileCandidate, LoadStaged, StopExecution, authority
    <2>2. UNCHANGED <<CurrentModel, CurrentOutcomes>>
      BY <1>1, <2>1
    <2> QED  BY <2>1, <2>2 DEF Single!trainingVars
  <1>5. CASE UNCHANGED jobVars
    <2>1. UNCHANGED <<CurrentModel, CurrentOutcomes>>
      BY <1>1, <1>5 DEF jobVars
    <2> QED  BY <1>5, <2>1 DEF jobVars, Single!trainingVars
  <1> QED  BY <1>2, <1>3, <1>4, <1>5, ObservationTrains, AggregationAdvances
           DEF JobNext, Single!TrainingNext

\* However executions overlap, retry, lose answers and stop, the evidence of the
\* authority and the candidates of the registry are those of one uninterrupted
\* training: JobSpec => KeepsASingleTraining.
THEOREM ImplementsSingleTraining == JobSpec => KeepsASingleTraining
  <1>1. ASSUME JobAssumption, JobInit
        PROVE  OneHistory /\ Single!TrainingInit
    <2>1. 0 \in 0 .. Rounds /\ AggregatedUpTo(aggregated, 0)
      BY <1>1 DEF JobInit, JobAssumption, AggregatedUpTo, RoundNumbers
    <2>2. OneHistory
      BY <1>1, <2>1 DEF JobInit, OneHistory, NoReplies
    <2>3. RoundsDone = 0
      BY <1>1, <2>1, DoneNow
    <2>4. CurrentModel = <<>>
      BY <2>3 DEF CurrentModel
    <2>5. CurrentOutcomes = [b \in Participants |-> NotYet]
      <3>1. 0 + 1 \in RoundNumbers
        BY <1>1 DEF JobAssumption, RoundNumbers
      <3> QED  BY <1>1, <2>3, <3>1 DEF CurrentOutcomes, JobInit, NoReplies
    <2> QED  BY <1>1, <2>2, <2>4, <2>5 DEF Single!TrainingInit, Single!NoneTrained, JobInit
  <1>2. JobInit => OneHistory /\ Single!TrainingInit
    BY <1>1, JobAssumption
  <1>3. JobInv /\ OneHistory /\ [JobNext]_jobVars => OneHistory'
    BY OneHistoryStep, JobAssumption
  <1>4. JobInv /\ OneHistory /\ [JobNext]_jobVars => [Single!TrainingNext]_(Single!trainingVars)
    BY SingleStep, JobAssumption
  <1> QED  BY <1>2, <1>3, <1>4, JobAssumption, JobInvariant, PTL
           DEF JobSpec, KeepsASingleTraining, Single!TrainingSpec

-----------------------------------------------------------------------------
(* The privacy budget: maxima and sums. *)

\* Among sets of members of a finite set, one has no smaller one among them.
LEMMA LeastSubset ==
    ASSUME NEW S, IsFiniteSet(S), NEW T, \A U \in T : U \subseteq S, T # {}
    PROVE  \E U \in T : \A V \in T : V \subseteq U => V = U
<1>1. IsWellFoundedOn(StrictSubsetOrdering(S), SUBSET S)
  BY FS_StrictSubsetOrderingWellFounded, FS_FiniteSubsetsOfFinite
<1>2. PICK U \in T : \A V \in T : <<V, U>> \notin StrictSubsetOrdering(S)
  <2>1. T \subseteq SUBSET S
    OBVIOUS
  <2> HIDE DEF StrictSubsetOrdering
  <2>2. QED
    BY <1>1, <2>1, WFMin, Zenon
<1>3. QED
  BY <1>2 DEF StrictSubsetOrdering

\* A bounded set of naturals that is not empty has a largest member.
LEMMA MaxOfNaturals ==
    ASSUME NEW S \in SUBSET Nat, S # {}, NEW b \in Nat, \A x \in S : x <= b
    PROVE  Max(S) \in S /\ \A x \in S : x <= Max(S)
<1> DEFINE Above(x) == {y \in S : x < y}
           T == {Above(x) : x \in S}
<1>1. IsFiniteSet(S)
  BY FS_BoundedSetOfNaturals
<1>2. PICK U \in T : \A V \in T : V \subseteq U => V = U
  <2>1. (\A U \in T : U \subseteq S) /\ T # {}
    OBVIOUS
  <2> HIDE DEF T
  <2>2. QED
    BY <1>1, <2>1, LeastSubset
<1>3. PICK m \in S : U = Above(m)
  BY <1>2
<1>4. \A x \in S : x <= m
  <2>1. SUFFICES ASSUME NEW x \in S, m < x
                 PROVE  FALSE
    OBVIOUS
  <2>2. x \in Nat /\ m \in Nat
    OBVIOUS
  <2>3. x \in Above(m) /\ x \notin Above(x)
    BY <2>1, <2>2
  <2>4. ASSUME NEW y \in Above(x)
        PROVE  y \in Above(m)
    <3>1. y \in Nat
      OBVIOUS
    <3>2. QED
      BY <2>1, <2>2, <2>4, <3>1
  <2>5. Above(x) \in T /\ Above(x) \subseteq Above(m)
    BY <2>4
  <2> HIDE DEF Above, T
  <2>6. QED
    BY <1>2, <1>3, <2>3, <2>5
<1>5. QED
  BY <1>4 DEF Max

\* One token for each unit of each argument of f in s.
Units(f, s) == UNION {{k} \X (1 .. f[k]) : k \in s}

\* The units of one argument.
LEMMA UnitsOfOne ==
    ASSUME NEW x, NEW n \in Nat
    PROVE  IsFiniteSet({x} \X (1 .. n)) /\ Cardinality({x} \X (1 .. n)) = n
<1> DEFINE A == {x}
           B == 1 .. n
<1>1. IsFiniteSet(A) /\ Cardinality(A) = 1
  BY FS_Singleton
<1>2. IsFiniteSet(B) /\ Cardinality(B) = n
  <2>1. IsFiniteSet(B) /\ Cardinality(B) = IF 1 > n THEN 0 ELSE n - 1 + 1
    BY FS_Interval
  <2> HIDE DEF B
  <2>2. QED
    BY <2>1
<1> HIDE DEF A, B
<1>3. IsFiniteSet(A \X B) /\ Cardinality(A \X B) = Cardinality(A) * Cardinality(B)
  BY <1>1, <1>2, FS_Product
<1>4. IsFiniteSet(A \X B) /\ Cardinality(A \X B) = n
  BY <1>1, <1>2, <1>3
<1>5. QED
  BY <1>4 DEF A, B

\* Leaving out one argument leaves out its units.
LEMMA UnitsSplit ==
    ASSUME NEW S, NEW f \in [S -> Nat], NEW s \in SUBSET S, NEW x \in s,
           IsFiniteSet(Units(f, s \ {x}))
    PROVE  /\ IsFiniteSet(Units(f, s))
           /\ Cardinality(Units(f, s)) = f[x] + Cardinality(Units(f, s \ {x}))
<1> DEFINE A == {x} \X (1 .. f[x])
           B == Units(f, s \ {x})
<1>1. Units(f, s) = A \cup B /\ A \cap B = {}
  <2>1. \A p \in B : \E k \in s \ {x} : p \in {k} \X (1 .. f[k])
    BY DEF Units
  <2>2. A \cap B = {}
    BY <2>1, Zenon
  <2>3. Units(f, s) = A \cup B
    BY DEF Units
  <2>4. QED
    BY <2>2, <2>3
<1>2. f[x] \in Nat
  OBVIOUS
<1>3. IsFiniteSet(A) /\ Cardinality(A) = f[x]
  BY <1>2, UnitsOfOne
<1>4. Cardinality({}) = 0 /\ Cardinality(B) \in Nat
  BY FS_EmptySet, FS_CardinalityType
<1> HIDE DEF A, B
<1>5. IsFiniteSet(A \cup B) /\ Cardinality(A \cup B) = Cardinality(A) + Cardinality(B) - 0
  BY <1>1, <1>3, <1>4, FS_Union DEF B
<1>6. QED
  BY <1>1, <1>2, <1>3, <1>4, <1>5 DEF B

\* Finitely many arguments have finitely many units.
LEMMA UnitsFinite ==
    ASSUME NEW S, IsFiniteSet(S), NEW f \in [S -> Nat]
    PROVE  \A s \in SUBSET S : IsFiniteSet(Units(f, s)) /\ Cardinality(Units(f, s)) \in Nat
<1> DEFINE T == {s \in SUBSET S : ~ IsFiniteSet(Units(f, s))}
<1>1. T = {}
  <2>1. SUFFICES ASSUME T # {}
                 PROVE  FALSE
    OBVIOUS
  <2>2. PICK U \in T : \A V \in T : V \subseteq U => V = U
    <3>1. \A U \in T : U \subseteq S
      OBVIOUS
    <3> HIDE DEF T
    <3>2. QED
      BY <2>1, <3>1, LeastSubset
  <2>3. U # {}
    BY <2>2, FS_EmptySet DEF Units
  <2>4. PICK x \in U : TRUE
    BY <2>3
  <2>5. IsFiniteSet(Units(f, U \ {x}))
    BY <2>2, <2>4
  <2>6. Units(f, U) = Units(f, U \ {x}) \cup ({x} \X (1 .. f[x]))
    BY <2>4 DEF Units
  <2>7. IsFiniteSet({x} \X (1 .. f[x]))
    BY <2>2, <2>4, UnitsOfOne
  <2>8. IsFiniteSet(Units(f, U))
    <3> HIDE DEF T
    <3>1. IsFiniteSet(Units(f, U \ {x}) \cup ({x} \X (1 .. f[x])))
      BY <2>5, <2>7, FS_Union, Zenon
    <3>2. QED
      BY <2>6, <3>1
  <2>9. QED
    BY <2>2, <2>8
<1>2. QED
  BY <1>1, FS_CardinalityType

\* The sum of a function's values.
Total(f) == FoldFunction(LAMBDA a, b : a + b, 0, f)

\* The sum of a function with a finite domain is the number of its units: the
\* recursive sum is well defined, as counting units satisfies its equation, and
\* nothing else does.
LEMMA SumIsUnits ==
    ASSUME NEW S, IsFiniteSet(S), NEW f \in [S -> Nat]
    PROVE  Total(f) = Cardinality(Units(f, S))
<1> DEFINE one(s) == CHOOSE x \in s : TRUE
           F(g) == [s \in SUBSET S |->
                      IF s = {} THEN 0 ELSE f[one(s)] + g[s \ {one(s)}]]
           G == CHOOSE g : g = F(g)
           N == [s \in SUBSET S |-> Cardinality(Units(f, s))]
<1>1. Total(f) = G[S]
  BY DEF Total, FoldFunction, FoldFunctionOnSet, MapThenFoldSet
<1>2. \A s \in SUBSET S : s # {} => one(s) \in s
  OBVIOUS
<1>3. \A s \in SUBSET S : IsFiniteSet(Units(f, s)) /\ Cardinality(Units(f, s)) \in Nat
  BY UnitsFinite
<1>4. N = F(N)
  <2>1. ASSUME NEW s \in SUBSET S, s # {}
        PROVE  N[s] = f[one(s)] + N[s \ {one(s)}]
    <3>1. PICK x \in s : x = one(s)
      BY <1>2, <2>1
    <3>2. f \in [S -> Nat] /\ [k \in s |-> f[k]] \in [s -> Nat]
      OBVIOUS
    <3>3. Cardinality(Units(f, s)) = f[x] + Cardinality(Units(f, s \ {x}))
      BY <1>3, UnitsSplit
    <3>4. QED
      BY <3>1, <3>3
  <2>2. N[{}] = 0
    BY FS_EmptySet DEF Units
  <2>3. QED
    BY <2>1, <2>2
<1>5. G = F(G)
  <2> HIDE DEF F, N
  <2>1. QED
    BY <1>4
<1>6. G = N
  <2> DEFINE T == {s \in SUBSET S : G[s] # N[s]}
  <2>1. T = {}
    <3>1. SUFFICES ASSUME T # {}
                   PROVE  FALSE
      OBVIOUS
    <3>2. PICK s \in T : \A V \in T : V \subseteq s => V = s
      <4>1. \A U \in T : U \subseteq S
        OBVIOUS
      <4> HIDE DEF T
      <4>2. QED
        BY <3>1, <4>1, LeastSubset
    <3>3. CASE s = {}
      BY <1>4, <1>5, <3>2, <3>3
    <3>4. CASE s # {}
      <4>1. s \ {one(s)} \in SUBSET S /\ s \ {one(s)} # s
        BY <1>2, <3>2, <3>4
      <4>2. G[s \ {one(s)}] = N[s \ {one(s)}]
        BY <3>2, <4>1
      <4>3. G[s] = f[one(s)] + G[s \ {one(s)}] /\ N[s] = f[one(s)] + N[s \ {one(s)}]
        BY <1>4, <1>5, <3>2, <3>4
      <4>4. QED
        BY <3>2, <4>2, <4>3
    <3>5. QED
      BY <3>3, <3>4
  <2>2. DOMAIN G = SUBSET S /\ DOMAIN N = SUBSET S
    BY <1>4, <1>5
  <2>3. QED
    BY <1>4, <1>5, <2>1, <2>2
<1>7. QED
  BY <1>1, <1>6

-----------------------------------------------------------------------------
(* The inductive invariant of the privacy budget. *)

\* The worker holds the reservation of its attempt, which it may have trained.
Holding(w) == worker[w].at \in {"admitted", "trained"}

\* Active reservations under which no training is still to come.
Owed == {k \in DOMAIN active :
            \A w \in BankWorkers : ~ (worker[w].at = "admitted" /\ Key(w) = k)}

\* Reservations are finitely many, and each is held by at most one worker.
Reservations ==
    /\ active \in [DOMAIN active -> Nat] /\ IsFiniteSet(DOMAIN active)
    /\ reserved = Total(active)
    /\ \A w \in BankWorkers : Holding(w) => Key(w) \in DOMAIN active
    /\ \A v, w \in BankWorkers : Holding(v) /\ Holding(w) /\ Key(v) = Key(w) => v = w

\* No committed epsilon exceeds what is spent; a worker that has trained knows of it.
Epsilons ==
    /\ \A k \in Keys : \A e \in history[k] : e <= spent
    /\ \A w \in BankWorkers :
          worker[w].at = "trained" => accountant[w][worker[w].job] \in Nat \ {0}

\* No later round of a job is read or committed before its first is committed.
FirstRoundFirst ==
    /\ \A j \in DpJobs, r \in 1 .. DpRounds : history[<<j, r>>] # {} => history[<<j, 1>>] # {}
    /\ \A w \in BankWorkers :
          worker[w] # Resting /\ (worker[w].round # 1 \/ worker[w].at = "committed") =>
              history[<<worker[w].job, 1>>] # {}

Paid == loss <= spent + Cardinality(Owed)

PrivacyInv == PrivacyTypeOK /\ Reservations /\ Epsilons /\ FirstRoundFirst /\ Paid

-----------------------------------------------------------------------------
(* Reservations and workers. *)

\* Adding a reservation adds its amount to the sum; removing one takes it away.
LEMMA SumOfReservations ==
    ASSUME NEW f, f \in [DOMAIN f -> Nat], IsFiniteSet(DOMAIN f), NEW k \in DOMAIN f
    PROVE  /\ IsFiniteSet(DOMAIN f \ {k})
           /\ Restrict(f, DOMAIN f \ {k}) \in [DOMAIN f \ {k} -> Nat]
           /\ Total(f) =
                 f[k] + Total(Restrict(f, DOMAIN f \ {k}))
           /\ Total(Restrict(f, DOMAIN f \ {k})) \in Nat
<1> DEFINE S == DOMAIN f
           g == Restrict(f, S \ {k})
<1>1. IsFiniteSet(S \ {k})
  BY FS_RemoveElement
<1>2. g \in [S \ {k} -> Nat] /\ \A x \in S \ {k} : g[x] = f[x]
  BY DEF Restrict
<1>3. Units(f, S \ {k}) = Units(g, S \ {k})
  BY <1>2 DEF Units
<1>4. IsFiniteSet(Units(f, S \ {k})) /\ Cardinality(Units(f, S \ {k})) \in Nat
  BY UnitsFinite
<1>5. Cardinality(Units(f, S)) = f[k] + Cardinality(Units(f, S \ {k}))
  BY <1>4, UnitsSplit
<1>6. Total(f) = Cardinality(Units(f, S))
  BY SumIsUnits
<1>7. Total(g) = Cardinality(Units(g, S \ {k}))
  <2> HIDE DEF g
  <2>1. QED
    BY <1>1, <1>2, SumIsUnits
<1>8. QED
  BY <1>1, <1>2, <1>3, <1>4, <1>5, <1>6, <1>7

\* What is committed of a job is a natural number, at most what is spent.
LEMMA CommittedIsBounded ==
    ASSUME PrivacyAssumption, PrivacyTypeOK, Epsilons, NEW j \in DpJobs
    PROVE  /\ CommittedOf(j) \in Nat /\ CommittedOf(j) <= spent
           /\ (\A r \in 1 .. DpRounds : history[<<j, r>>] = {}) => CommittedOf(j) = 0
<1> DEFINE S == {0} \cup UNION {history[<<j, r>>] : r \in 1 .. DpRounds}
<1>1. spent \in Nat /\ \A r \in 1 .. DpRounds : history[<<j, r>>] \in SUBSET Nat
  BY DEF PrivacyTypeOK, Keys
<1>2. \A e \in S : e = 0 \/ \E r \in 1 .. DpRounds : e \in history[<<j, r>>]
  OBVIOUS
<1>3. S \in SUBSET Nat /\ 0 \in S /\ \A e \in S : e <= spent
  <2>1. \A r \in 1 .. DpRounds : \A e \in history[<<j, r>>] : e <= spent
    BY DEF Epsilons, Keys
  <2>2. 0 \in S
    OBVIOUS
  <2> HIDE DEF S
  <2>3. ASSUME NEW e \in S
        PROVE  e \in Nat /\ e <= spent
    <3>1. CASE e = 0
      BY <1>1, <3>1
    <3>2. ASSUME NEW r \in 1 .. DpRounds, e \in history[<<j, r>>]
          PROVE  e \in Nat /\ e <= spent
      BY <1>1, <2>1, <3>2
    <3>3. QED
      BY <1>2, <3>1, <3>2
  <2>4. QED
    BY <2>2, <2>3
<1>4. (\A r \in 1 .. DpRounds : history[<<j, r>>] = {}) => \A e \in S : e = 0
  OBVIOUS
<1>5. CommittedOf(j) = Max(S)
  BY DEF CommittedOf
<1> HIDE DEF S
<1>6. Max(S) \in S
  BY <1>1, <1>3, MaxOfNaturals
<1>7. QED
  BY <1>3, <1>4, <1>5, <1>6

\* The larger of zero and an integer.
LEMMA MaxWithZero ==
    ASSUME NEW n \in Int
    PROVE  Max({0, n}) = IF n > 0 THEN n ELSE 0
<1> DEFINE m == IF n > 0 THEN n ELSE 0
<1>1. m \in {0, n} /\ \A y \in {0, n} : m >= y
  OBVIOUS
<1>2. \A x \in {0, n} : (\A y \in {0, n} : x >= y) => x = m
  OBVIOUS
<1>3. QED
  BY <1>1, <1>2 DEF Max

\* The worker moves on in its attempt; the others stay.
LEMMA NowEffect ==
    ASSUME PrivacyTypeOK, NEW w \in BankWorkers, worker[w] # Resting,
           NEW phase \in {"read", "admitted", "trained", "committed"}, Now(w, phase)
    PROVE  /\ worker[w] \in Attempts /\ worker' \in [BankWorkers -> Attempts \cup {Resting}]
           /\ worker'[w] \in Attempts /\ worker'[w] # Resting /\ worker'[w].at = phase
           /\ worker'[w].job = worker[w].job /\ worker'[w].round = worker[w].round
           /\ worker'[w].needed = worker[w].needed /\ worker'[w].prior = worker[w].prior
           /\ \A v \in BankWorkers : v # w => worker'[v] = worker[v]
<1> DEFINE x == [worker[w] EXCEPT !.at = phase]
<1>1. worker \in [BankWorkers -> Attempts \cup {Resting}] /\ worker[w] \in Attempts
  BY DEF PrivacyTypeOK
<1>2. /\ x \in Attempts /\ x.at = phase /\ x.job = worker[w].job /\ x.round = worker[w].round
      /\ x.needed = worker[w].needed /\ x.prior = worker[w].prior
  BY <1>1 DEF Attempts
<1>3. worker' = [worker EXCEPT ![w] = x]
  BY DEF Now
<1>4. x # Resting
  BY <1>2 DEF Resting
<1> HIDE DEF x
<1>5. QED
  BY <1>1, <1>2, <1>3, <1>4

\* An attempt is not the resting worker.
LEMMA AttemptOf ==
    ASSUME PrivacyTypeOK, NEW w \in BankWorkers,
           worker[w].at \in {"read", "admitted", "trained", "committed"}
    PROVE  /\ worker[w] # Resting /\ worker[w] \in Attempts
           /\ worker[w].job \in DpJobs /\ worker[w].round \in 1 .. DpRounds
           /\ Key(w) \in Keys
<1>1. worker[w] # Resting
  BY DEF Resting
<1>2. worker[w] \in Attempts
  BY <1>1 DEF PrivacyTypeOK
<1>3. QED
  BY <1>1, <1>2 DEF Attempts, Key, Keys

-----------------------------------------------------------------------------
(* The steps of a worker. *)

\* What holds of the money is untouched by a step that leaves it, the engines and
\* the workers that hold a reservation alone.
LEMMA MoneyFrame ==
    ASSUME PrivacyInv, UNCHANGED <<spent, reserved, active, loss>>,
           \A v \in BankWorkers : Holding(v)' =>
              worker'[v] = worker[v]
    PROVE  Reservations' /\ Paid'
<1>1. /\ \A v \in BankWorkers : Holding(v)' => Holding(v) /\ Key(v)' = Key(v)
      /\ active' = active /\ DOMAIN active' = DOMAIN active
  BY DEF Holding, Key
<1>2. Reservations'
  <2>1. reserved' = Total(active')
    BY <1>1 DEF PrivacyInv, Reservations
  <2>2. /\ \A v \in BankWorkers : Holding(v)' => Key(v)' \in DOMAIN active
        /\ \A u, v \in BankWorkers : Holding(u)' /\ Holding(v)' /\ Key(u)' = Key(v)' => u = v
    BY <1>1 DEF PrivacyInv, Reservations
  <2>3. active \in [DOMAIN active -> Nat] /\ IsFiniteSet(DOMAIN active)
    BY DEF PrivacyInv, Reservations
  <2>4. QED
    BY <1>1, <2>1, <2>2, <2>3 DEF Reservations
<1>3. Owed \subseteq Owed' /\ Owed' \subseteq DOMAIN active
  BY <1>1 DEF Owed, Holding, Key
<1>4. IsFiniteSet(Owed') /\ Cardinality(Owed) <= Cardinality(Owed')
      /\ Cardinality(Owed') \in Nat /\ Cardinality(Owed) \in Nat
  <2>1. IsFiniteSet(Owed')
    BY <1>3, FS_Subset DEF PrivacyInv, Reservations
  <2>2. IsFiniteSet(Owed) /\ Cardinality(Owed) <= Cardinality(Owed')
    BY <1>3, <2>1, FS_Subset
  <2>3. QED
    BY <2>1, <2>2, FS_CardinalityType
<1>5. QED
  BY <1>2, <1>4 DEF PrivacyInv, PrivacyTypeOK, Paid

\* A worker reads the budget and its history for a round.
LEMMA ReadStep ==
    ASSUME PrivacyInv, NEW w \in BankWorkers, NEW j \in DpJobs, NEW r \in 1 .. DpRounds,
           ReadBudget(w, j, r)
    PROVE  PrivacyInv'
<1> DEFINE needed == Max({0, Target - CommittedOf(j)})
           x == [at |-> "read", job |-> j, round |-> r, needed |-> needed,
                 prior |-> steps[j]]
<1>1. /\ worker' = [worker EXCEPT ![w] = x]
      /\ UNCHANGED <<spent, reserved, active, history, steps, accountant, loss>>
  BY DEF ReadBudget
<1>2. CommittedOf(j) \in Nat /\ steps[j] \in Nat
  BY PrivacyAssumption, CommittedIsBounded DEF PrivacyInv, PrivacyTypeOK
<1>3. needed \in Nat
  <2>1. Target - CommittedOf(j) \in Int
    BY <1>2, PrivacyAssumption
  <2>2. QED
    BY <2>1, MaxWithZero
<1>4. /\ x \in Attempts /\ x # Resting /\ x.at = "read" /\ x.job = j /\ x.round = r
  <2> HIDE DEF needed
  <2>1. QED
    BY <1>2, <1>3 DEF Attempts, Resting
<1>5. r # 1 => worker[w].at = "committed" /\ worker[w].job = j
  BY DEF ReadBudget
<1> HIDE DEF x
<1>6. worker \in [BankWorkers -> Attempts \cup {Resting}]
  BY DEF PrivacyInv, PrivacyTypeOK
<1>7. worker'[w] = x /\ \A v \in BankWorkers : v # w => worker'[v] = worker[v]
  BY <1>1, <1>6
<1>8. PrivacyTypeOK'
  BY <1>1, <1>4, <1>6 DEF PrivacyInv, PrivacyTypeOK
<1>9. \A v \in BankWorkers : Holding(v)' => worker'[v] = worker[v]
  BY <1>4, <1>7 DEF Holding
<1>10. Reservations' /\ Paid'
  BY <1>1, <1>9, MoneyFrame
<1>11. Epsilons'
  <2>1. \A v \in BankWorkers :
           worker'[v].at = "trained" => accountant[v][worker'[v].job] \in Nat \ {0}
    BY <1>4, <1>7 DEF PrivacyInv, Epsilons
  <2>2. QED
    BY <1>1, <2>1 DEF PrivacyInv, Epsilons
<1>12. FirstRoundFirst'
  <2>1. r # 1 => history[<<j, 1>>] # {}
    <3>1. SUFFICES ASSUME r # 1
                   PROVE  history[<<j, 1>>] # {}
      OBVIOUS
    <3>2. worker[w].at = "committed" /\ worker[w].job = j
      BY <1>5, <3>1
    <3>3. worker[w] # Resting
      BY <3>2 DEF Resting
    <3>4. QED
      BY <3>2, <3>3 DEF PrivacyInv, FirstRoundFirst
  <2>2. \A v \in BankWorkers :
          worker'[v] # Resting /\ (worker'[v].round # 1 \/ worker'[v].at = "committed") =>
              history[<<worker'[v].job, 1>>] # {}
    BY <1>4, <1>7, <2>1 DEF PrivacyInv, FirstRoundFirst
  <2>3. QED
    BY <1>1, <2>2 DEF PrivacyInv, FirstRoundFirst
<1>13. QED
  BY <1>8, <1>10, <1>11, <1>12 DEF PrivacyInv

\* A worker stops in the middle, or loses its engines.
LEMMA StopStep ==
    ASSUME PrivacyInv, NEW w \in BankWorkers, EndAttempt(w) \/ RestartWorker(w)
    PROVE  PrivacyInv'
<1>1. /\ worker' = [worker EXCEPT ![w] = Resting]
      /\ UNCHANGED <<spent, reserved, active, history, steps, loss>>
  BY DEF EndAttempt, RestartWorker
<1>2. /\ worker \in [BankWorkers -> Attempts \cup {Resting}]
      /\ accountant \in [BankWorkers -> [DpJobs -> Nat \cup {NoAccountant}]]
  BY DEF PrivacyInv, PrivacyTypeOK
<1>3. worker'[w] = Resting /\ \A v \in BankWorkers : v # w => worker'[v] = worker[v]
  BY <1>1, <1>2
<1>4. Resting.at = "resting"
  BY DEF Resting
<1>5. /\ accountant' \in [BankWorkers -> [DpJobs -> Nat \cup {NoAccountant}]]
      /\ \A v \in BankWorkers : v # w => accountant'[v] = accountant[v]
      /\ \/ accountant' = accountant
         \/ \A j \in DpJobs : accountant'[w][j] = NoAccountant
  BY <1>2 DEF EndAttempt, RestartWorker
<1>6. PrivacyTypeOK'
  BY <1>1, <1>2, <1>5 DEF PrivacyInv, PrivacyTypeOK
<1>7. \A v \in BankWorkers : Holding(v)' => worker'[v] = worker[v]
  BY <1>3, <1>4 DEF Holding
<1>8. Reservations' /\ Paid'
  BY <1>1, <1>7, MoneyFrame
<1>9. Epsilons'
  <2>1. \A v \in BankWorkers :
           worker'[v].at = "trained" => accountant'[v][worker'[v].job] \in Nat \ {0}
    BY <1>3, <1>4, <1>5 DEF PrivacyInv, Epsilons
  <2>2. QED
    BY <1>1, <2>1 DEF PrivacyInv, Epsilons
<1>10. FirstRoundFirst'
  <2>1. \A v \in BankWorkers :
          worker'[v] # Resting /\ (worker'[v].round # 1 \/ worker'[v].at = "committed") =>
              history[<<worker'[v].job, 1>>] # {}
    BY <1>3 DEF PrivacyInv, FirstRoundFirst
  <2>2. QED
    BY <1>1, <2>1 DEF PrivacyInv, FirstRoundFirst
<1>11. QED
  BY <1>6, <1>8, <1>9, <1>10 DEF PrivacyInv

\* Reservations that are owed are finitely many.
LEMMA OwedIsFinite ==
    ASSUME Reservations
    PROVE  /\ IsFiniteSet(DOMAIN active) /\ Cardinality(DOMAIN active) \in Nat
           /\ IsFiniteSet(Owed) /\ Cardinality(Owed) \in Nat
           /\ Cardinality(Owed) <= Cardinality(DOMAIN active)
<1>1. Owed \subseteq DOMAIN active /\ IsFiniteSet(DOMAIN active)
  BY DEF Owed, Reservations
<1>2. QED
  BY <1>1, FS_Subset, FS_CardinalityType

\* An attempt is admitted under a reservation of its own.
LEMMA AdmitStep ==
    ASSUME PrivacyInv, NEW w \in BankWorkers, AdmitAttempt(w)
    PROVE  PrivacyInv'
<1> DEFINE k == Key(w)
           D == DOMAIN active
<1>1. /\ worker[w].at = "read" /\ k \notin D /\ Now(w, "admitted")
      /\ reserved' = reserved + worker[w].needed
      /\ active' = [x \in D \cup {k} |-> IF x = k THEN worker[w].needed ELSE active[x]]
      /\ UNCHANGED <<spent, history, steps, accountant, loss>>
  BY DEF AdmitAttempt
<1>2. /\ PrivacyTypeOK /\ Reservations /\ Epsilons /\ FirstRoundFirst /\ Paid
  BY DEF PrivacyInv
<1>3. /\ worker[w] # Resting /\ worker[w] \in Attempts /\ k \in Keys
  BY <1>1, <1>2, AttemptOf
<1>4. worker[w].needed \in Nat
  BY <1>3 DEF Attempts
<1>5. /\ worker' \in [BankWorkers -> Attempts \cup {Resting}]
      /\ worker'[w] # Resting /\ worker'[w].at = "admitted"
      /\ worker'[w].job = worker[w].job /\ worker'[w].round = worker[w].round
      /\ worker'[w].prior = worker[w].prior
      /\ \A v \in BankWorkers : v # w => worker'[v] = worker[v]
  BY <1>1, <1>2, <1>3, NowEffect
<1>6. \A v \in BankWorkers : Key(v)' = Key(v)
  BY <1>5 DEF Key
<1>7. /\ DOMAIN active' = D \cup {k} /\ active' \in [DOMAIN active' -> Nat]
      /\ active'[k] = worker[w].needed /\ \A x \in D : active'[x] = active[x]
      /\ Restrict(active', DOMAIN active' \ {k}) = active
  <2>1. active \in [D -> Nat]
    BY <1>2 DEF Reservations
  <2>2. DOMAIN active' = D \cup {k} /\ DOMAIN active' \ {k} = D
    BY <1>1
  <2>3. \A x \in D : active'[x] = active[x]
    BY <1>1
  <2>4. Restrict(active', DOMAIN active' \ {k}) = active
    BY <2>1, <2>2, <2>3 DEF Restrict
  <2>5. QED
    BY <1>1, <1>4, <2>1, <2>2, <2>3, <2>4
<1>8. IsFiniteSet(DOMAIN active')
  BY <1>2, <1>7, FS_AddElement DEF Reservations
<1>9. reserved' = Total(active') /\ reserved' \in Nat
  <2>1. Total(active') = active'[k] + Total(active)
    BY <1>7, <1>8, SumOfReservations
  <2>2. reserved = Total(active) /\ reserved \in Nat
    BY <1>2 DEF Reservations, PrivacyTypeOK
  <2>3. QED
    BY <1>1, <1>4, <1>7, <2>1, <2>2
<1>10. PrivacyTypeOK'
  BY <1>1, <1>2, <1>3, <1>4, <1>5, <1>7, <1>9 DEF PrivacyTypeOK
<1>11. Reservations'
  <2>1. \A v \in BankWorkers : Holding(v)' /\ v # w => Holding(v) /\ Key(v) \in D
    BY <1>2, <1>5 DEF Holding, Reservations
  <2>2. \A v \in BankWorkers : Holding(v)' => Key(v) \in D \cup {k}
    BY <2>1
  <2>3. \A u, v \in BankWorkers : Holding(u)' /\ Holding(v)' /\ Key(u) = Key(v) => u = v
    <3>1. SUFFICES ASSUME NEW u \in BankWorkers, NEW v \in BankWorkers,
                          Holding(u)', Holding(v)', Key(u) = Key(v)
                   PROVE  u = v
      OBVIOUS
    <3>2. CASE u # w /\ v # w
      BY <1>2, <2>1, <3>1, <3>2 DEF Reservations
    <3>3. CASE u = w \/ v = w
      BY <1>1, <2>1, <3>1, <3>3
    <3>4. QED
      BY <3>2, <3>3
  <2>4. QED
    BY <1>6, <1>7, <1>8, <1>9, <2>2, <2>3 DEF Reservations
<1>12. Owed' = Owed
  <2>1. \A x \in D : (\A v \in BankWorkers : ~ (worker[v].at = "admitted" /\ Key(v) = x))
           <=> (\A v \in BankWorkers : ~ (worker'[v].at = "admitted" /\ Key(v) = x))
    BY <1>1, <1>5
  <2>2. ~ (\A v \in BankWorkers : ~ (worker'[v].at = "admitted" /\ Key(v) = k))
    BY <1>5
  <2>3. Owed' = {x \in D \cup {k} :
                   \A v \in BankWorkers : ~ (worker'[v].at = "admitted" /\ Key(v) = x)}
    BY <1>6, <1>7 DEF Owed
  <2>4. QED
    BY <1>1, <2>1, <2>2, <2>3 DEF Owed
<1>13. Paid'
  BY <1>1, <1>2, <1>12 DEF Paid
<1>14. Epsilons' /\ FirstRoundFirst'
  <2>2. \A v \in BankWorkers :
           worker'[v].at = "trained" => accountant[v][worker'[v].job] \in Nat \ {0}
    BY <1>2, <1>5 DEF Epsilons
  <2>3. Epsilons'
    BY <1>1, <1>2, <2>2 DEF Epsilons
  <2>4. \A v \in BankWorkers :
          worker'[v] # Resting /\ (worker'[v].round # 1 \/ worker'[v].at = "committed") =>
              history[<<worker'[v].job, 1>>] # {}
    BY <1>2, <1>3, <1>5 DEF FirstRoundFirst
  <2>5. QED
    BY <1>1, <1>2, <2>3, <2>4 DEF FirstRoundFirst
<1>15. QED
  BY <1>10, <1>11, <1>13, <1>14 DEF PrivacyInv

\* A training adds to the loss, and to what is owed for it.
LEMMA TrainStep ==
    ASSUME PrivacyInv, NEW w \in BankWorkers, Train(w)
    PROVE  PrivacyInv'
<1> DEFINE j == worker[w].job
           k == Key(w)
           before == IF accountant[w][j] = NoAccountant THEN worker[w].prior
                     ELSE accountant[w][j]
           engine == [accountant[w] EXCEPT ![j] = before + 1]
<1>1. /\ worker[w].at = "admitted" /\ Now(w, "trained") /\ loss' = loss + 1
      /\ accountant' = [accountant EXCEPT ![w] = engine]
      /\ UNCHANGED <<spent, reserved, active, history, steps>>
  BY DEF Train
<1>2. /\ PrivacyTypeOK /\ Reservations /\ Epsilons /\ FirstRoundFirst /\ Paid
      /\ {spent, reserved, loss} \subseteq Nat
  BY DEF PrivacyInv, PrivacyTypeOK
<1>3. /\ worker[w] # Resting /\ worker[w] \in Attempts /\ j \in DpJobs
  BY <1>1, <1>2, AttemptOf
<1>4. /\ worker' \in [BankWorkers -> Attempts \cup {Resting}]
      /\ worker'[w] # Resting /\ worker'[w].at = "trained"
      /\ worker'[w].job = j /\ worker'[w].round = worker[w].round
      /\ worker'[w].prior = worker[w].prior
      /\ \A v \in BankWorkers : v # w => worker'[v] = worker[v]
  BY <1>1, <1>2, <1>3, NowEffect
<1>5. \A v \in BankWorkers : Key(v)' = Key(v)
  BY <1>4 DEF Key
<1>6. /\ before \in Nat
      /\ accountant \in [BankWorkers -> [DpJobs -> Nat \cup {NoAccountant}]]
  BY <1>2, <1>3 DEF PrivacyTypeOK, Epsilons, Attempts
<1>7. /\ accountant' \in [BankWorkers -> [DpJobs -> Nat \cup {NoAccountant}]]
      /\ accountant'[w][j] = before + 1
      /\ \A v \in BankWorkers, i \in DpJobs :
            v # w \/ i # j => accountant'[v][i] = accountant[v][i]
  <2>1. /\ engine \in [DpJobs -> Nat \cup {NoAccountant}] /\ engine[j] = before + 1
        /\ \A i \in DpJobs : i # j => engine[i] = accountant[w][i]
    <3>1. accountant[w] \in [DpJobs -> Nat \cup {NoAccountant}] /\ before + 1 \in Nat
      BY <1>6
    <3> HIDE DEF before
    <3>2. QED
      BY <1>3, <3>1
  <2> HIDE DEF engine, before
  <2>2. QED
    BY <1>1, <1>6, <2>1
<1> HIDE DEF before, engine
<1>8. PrivacyTypeOK'
  BY <1>1, <1>2, <1>4, <1>7 DEF PrivacyTypeOK
<1>9. Reservations'
  <2>1. \A v \in BankWorkers : Holding(v)' => Holding(v)
    BY <1>1, <1>4 DEF Holding
  <2>2. QED
    BY <1>1, <1>2, <1>5, <2>1 DEF Reservations
<1>10. Paid'
  <2>1. k \notin Owed /\ k \in DOMAIN active
    BY <1>1, <1>2 DEF Owed, Holding, Reservations
  <2>2. Owed \cup {k} \subseteq Owed'
    <3>1. ASSUME NEW v \in BankWorkers, worker'[v].at = "admitted"
          PROVE  v # w /\ worker[v].at = "admitted" /\ Key(v) # k
      BY <1>1, <1>2, <1>4, <3>1 DEF Holding, Reservations
    <3>2. Owed' = {x \in DOMAIN active :
                     \A v \in BankWorkers : ~ (worker'[v].at = "admitted" /\ Key(v) = x)}
      BY <1>1, <1>5 DEF Owed
    <3>3. QED
      BY <2>1, <3>1, <3>2 DEF Owed
  <2>3. IsFiniteSet(Owed) /\ Cardinality(Owed) \in Nat
        /\ Cardinality(Owed \cup {k}) = Cardinality(Owed) + 1
    BY <1>2, <2>1, OwedIsFinite, FS_AddElement
  <2>4. IsFiniteSet(Owed') /\ Cardinality(Owed') \in Nat
    <3>1. Owed' \subseteq DOMAIN active /\ IsFiniteSet(DOMAIN active)
      BY <1>1, <1>2 DEF Owed, Reservations
    <3>2. QED
      BY <3>1, FS_Subset, FS_CardinalityType
  <2>5. Cardinality(Owed \cup {k}) <= Cardinality(Owed')
    BY <2>2, <2>4, FS_Subset
  <2>6. QED
    BY <1>1, <1>2, <2>3, <2>4, <2>5 DEF Paid
<1>11. Epsilons'
  <2>4. \A v \in BankWorkers :
           worker'[v].at = "trained" => accountant'[v][worker'[v].job] \in Nat \ {0}
    <3>1. ASSUME NEW v \in BankWorkers, v # w, worker'[v].at = "trained"
          PROVE  accountant'[v][worker'[v].job] \in Nat \ {0}
      <4>1. worker[v].at = "trained" /\ worker'[v].job = worker[v].job
        BY <1>4, <3>1
      <4>2. worker[v].job \in DpJobs
        BY <1>2, <4>1, AttemptOf
      <4>3. QED
        BY <1>2, <1>7, <3>1, <4>1, <4>2 DEF Epsilons
    <3>2. QED
      BY <1>4, <1>6, <1>7, <3>1
  <2>5. QED
    BY <1>1, <1>2, <2>4 DEF Epsilons
<1>12. FirstRoundFirst'
  <2>1. \A v \in BankWorkers :
          worker'[v] # Resting /\ (worker'[v].round # 1 \/ worker'[v].at = "committed") =>
              history[<<worker'[v].job, 1>>] # {}
    BY <1>2, <1>3, <1>4 DEF FirstRoundFirst
  <2>2. QED
    BY <1>1, <1>2, <2>1 DEF FirstRoundFirst
<1>13. QED
  BY <1>8, <1>9, <1>10, <1>11, <1>12 DEF PrivacyInv

\* What a commit charges is at least one unit: a round committed before, or a later
\* one that adds nothing, is charged in full, and a first round comes first.
LEMMA ChargeIsPositive ==
    ASSUME PrivacyInv, NEW w \in BankWorkers, worker[w].at = "trained"
    PROVE  /\ accountant[w][worker[w].job] \in Nat
           /\ Charge(Key(w), accountant[w][worker[w].job]) \in Nat \ {0}
           /\ accountant[w][worker[w].job]
                <= spent + Charge(Key(w), accountant[w][worker[w].job])
<1> DEFINE j == worker[w].job
           k == Key(w)
           e == accountant[w][j]
           c == CommittedOf(j)
<1>1. /\ PrivacyTypeOK /\ Epsilons /\ FirstRoundFirst
  BY DEF PrivacyInv
<1>2. /\ worker[w] # Resting /\ j \in DpJobs /\ worker[w].round \in 1 .. DpRounds
      /\ k = <<j, worker[w].round>> /\ k[1] = j /\ k[2] = worker[w].round
  BY <1>1, AttemptOf DEF Key
<1>3. e \in Nat \ {0}
  BY <1>1 DEF Epsilons
<1>4. /\ c \in Nat /\ c <= spent
      /\ (\A r \in 1 .. DpRounds : history[<<j, r>>] = {}) => c = 0
  BY <1>1, <1>2, PrivacyAssumption, CommittedIsBounded
<1>5. Max({0, e - c}) = IF e - c > 0 THEN e - c ELSE 0
  <2>1. e - c \in Int
    BY <1>3, <1>4
  <2>2. QED
    BY <2>1, MaxWithZero
<1>6. Charge(k, e) = IF history[k] # {} \/ (e <= c /\ k[2] > 1) THEN e ELSE Max({0, e - c})
  BY <1>2 DEF Charge
<1>7. history[k] # {} \/ k[2] > 1 \/ c = 0
  <2>1. SUFFICES ASSUME history[k] = {}, ~ (k[2] > 1)
                 PROVE  c = 0
    OBVIOUS
  <2>2. k[2] = 1 /\ k = <<j, 1>>
    BY <1>2, <2>1, PrivacyAssumption
  <2>3. \A r \in 1 .. DpRounds : history[<<j, r>>] = {}
    BY <1>1, <1>2, <2>1, <2>2 DEF FirstRoundFirst
  <2>4. QED
    BY <1>4, <2>3
<1> HIDE DEF c, e, k
<1>8. Charge(k, e) \in Nat \ {0}
  BY <1>3, <1>4, <1>5, <1>6, <1>7
<1>9. e <= spent + Charge(k, e)
  <2>1. e <= c + Charge(k, e)
    BY <1>3, <1>4, <1>5, <1>6
  <2>2. spent \in Nat
    BY <1>1 DEF PrivacyTypeOK
  <2>3. QED
    BY <1>3, <1>4, <1>8, <2>1, <2>2
<1>10. QED
  BY <1>3, <1>8, <1>9 DEF e, k

\* A commit pays at least for the training whose reservation it gives back.
LEMMA CommitStep ==
    ASSUME PrivacyInv, NEW w \in BankWorkers, CommitExpenditure(w)
    PROVE  PrivacyInv'
<1> DEFINE j == worker[w].job
           k == Key(w)
           e == accountant[w][j]
           D == DOMAIN active
<1>1. /\ worker[w].at = "trained" /\ k \in D /\ Now(w, "committed")
      /\ spent' = spent + Charge(k, e)
      /\ reserved' = reserved - active[k]
      /\ active' = Restrict(active, D \ {k})
      /\ history' = [history EXCEPT ![k] = @ \cup {e}]
      /\ steps' = [steps EXCEPT ![j] = @ + 1]
      /\ UNCHANGED <<accountant, loss>>
  BY DEF CommitExpenditure, Released
<1>2. /\ PrivacyTypeOK /\ Reservations /\ Epsilons /\ FirstRoundFirst /\ Paid
      /\ {spent, reserved, loss} \subseteq Nat
      /\ history \in [Keys -> SUBSET Nat]
  BY DEF PrivacyInv, PrivacyTypeOK
<1>3. /\ worker[w] # Resting /\ worker[w] \in Attempts /\ j \in DpJobs /\ k \in Keys
      /\ k = <<j, worker[w].round>> /\ worker[w].round \in 1 .. DpRounds
  BY <1>1, <1>2, AttemptOf DEF Key
<1>4. /\ worker' \in [BankWorkers -> Attempts \cup {Resting}]
      /\ worker'[w] # Resting /\ worker'[w].at = "committed"
      /\ worker'[w].job = j /\ worker'[w].round = worker[w].round
      /\ worker'[w].prior = worker[w].prior
      /\ \A v \in BankWorkers : v # w => worker'[v] = worker[v]
  BY <1>1, <1>2, <1>3, NowEffect
<1>5. \A v \in BankWorkers : Key(v)' = Key(v)
  BY <1>4 DEF Key
<1>6. e \in Nat /\ Charge(k, e) \in Nat \ {0} /\ e <= spent + Charge(k, e)
  BY <1>1, ChargeIsPositive
<1>7. /\ DOMAIN active' = D \ {k} /\ active' \in [DOMAIN active' -> Nat]
      /\ IsFiniteSet(DOMAIN active') /\ active[k] \in Nat
      /\ reserved' = Total(active') /\ reserved' \in Nat
  <2>1. /\ active \in [D -> Nat] /\ IsFiniteSet(D) /\ reserved = Total(active)
    BY <1>2 DEF Reservations
  <2>2. /\ IsFiniteSet(D \ {k}) /\ active' \in [D \ {k} -> Nat]
        /\ Total(active) = active[k] + Total(active') /\ Total(active') \in Nat
    BY <1>1, <2>1, SumOfReservations
  <2>3. active[k] \in Nat /\ DOMAIN active' = D \ {k}
    BY <1>1, <2>1, <2>2
  <2>4. reserved' = Total(active')
    BY <1>1, <2>1, <2>2, <2>3
  <2>5. QED
    BY <2>2, <2>3, <2>4
<1>8. /\ history' \in [Keys -> SUBSET Nat] /\ history'[k] = history[k] \cup {e}
      /\ \A x \in Keys : history[x] \subseteq history'[x]
      /\ \A x \in Keys : x # k => history'[x] = history[x]
  BY <1>1, <1>2, <1>3, <1>6
<1> HIDE DEF e
<1>9. PrivacyTypeOK'
  <2>1. {spent', reserved', loss'} \subseteq Nat
    BY <1>1, <1>2, <1>6, <1>7
  <2>2. DOMAIN active' \subseteq Keys /\ \A x \in DOMAIN active' : active'[x] \in Nat
    BY <1>2, <1>7 DEF PrivacyTypeOK
  <2>3. steps' \in [DpJobs -> Nat]
    BY <1>1, <1>2, <1>3 DEF PrivacyTypeOK
  <2>4. QED
    BY <1>1, <1>2, <1>4, <1>8, <2>1, <2>2, <2>3 DEF PrivacyTypeOK
<1>10. Reservations'
  <2>1. \A v \in BankWorkers : Holding(v)' => v # w /\ Holding(v)
    BY <1>4 DEF Holding
  <2>2. \A v \in BankWorkers : Holding(v)' => Key(v) \in D \ {k}
    BY <1>1, <1>2, <2>1 DEF Holding, Reservations
  <2>3. \A u, v \in BankWorkers : Holding(u)' /\ Holding(v)' /\ Key(u) = Key(v) => u = v
    BY <1>2, <2>1 DEF Reservations
  <2>4. QED
    BY <1>5, <1>7, <2>2, <2>3 DEF Reservations
<1>11. Paid'
  <2>1. Owed' = Owed \ {k}
    <3>1. \A v \in BankWorkers : worker'[v].at = "admitted" <=> worker[v].at = "admitted"
      BY <1>1, <1>4
    <3>2. Owed' = {x \in D \ {k} :
                     \A v \in BankWorkers : ~ (worker'[v].at = "admitted" /\ Key(v) = x)}
      BY <1>5, <1>7 DEF Owed
    <3>3. QED
      BY <3>1, <3>2 DEF Owed
  <2>2. IsFiniteSet(Owed) /\ Cardinality(Owed) \in Nat
    BY <1>2, OwedIsFinite
  <2>3. Cardinality(Owed') \in Int /\ Cardinality(Owed') >= Cardinality(Owed) - 1
    BY <2>1, <2>2, FS_RemoveElement
  <2>4. QED
    BY <1>1, <1>2, <1>6, <2>2, <2>3 DEF Paid
<1>12. Epsilons'
  <2>1. spent' \in Nat /\ spent <= spent' /\ e <= spent'
    BY <1>1, <1>2, <1>6
  <2>2. ASSUME NEW x \in Keys, NEW i \in history'[x]
        PROVE  i <= spent'
    <3>1. CASE i \in history[x]
      <4>1. i \in Nat /\ i <= spent
        BY <1>2, <3>1 DEF Epsilons
      <4>2. QED
        BY <1>2, <2>1, <4>1
    <3>2. CASE i \notin history[x]
      BY <1>8, <2>1, <2>2, <3>2
    <3>3. QED
      BY <3>1, <3>2
  <2>3. \A v \in BankWorkers :
           worker'[v].at = "trained" => accountant[v][worker'[v].job] \in Nat \ {0}
    BY <1>2, <1>4 DEF Epsilons
  <2>4. QED
    BY <1>1, <2>2, <2>3 DEF Epsilons
<1>13. FirstRoundFirst'
  <2>1. history[<<j, 1>>] # {} \/ worker[w].round = 1
    BY <1>2, <1>3 DEF FirstRoundFirst
  <2>2. <<j, 1>> \in Keys /\ history'[<<j, 1>>] # {}
    <3>1. <<j, 1>> \in Keys
      BY <1>3, PrivacyAssumption DEF Keys
    <3>2. QED
      BY <1>3, <1>8, <2>1, <3>1
  <2>3. ASSUME NEW i \in DpJobs, NEW r \in 1 .. DpRounds, history'[<<i, r>>] # {}
        PROVE  history'[<<i, 1>>] # {}
    <3>1. <<i, r>> \in Keys /\ <<i, 1>> \in Keys
      BY PrivacyAssumption DEF Keys
    <3>2. CASE <<i, r>> = k
      BY <1>3, <2>2, <3>2
    <3>3. CASE <<i, r>> # k
      BY <1>2, <1>8, <2>3, <3>1, <3>3 DEF FirstRoundFirst
    <3>4. QED
      BY <3>2, <3>3
  <2>4. ASSUME NEW v \in BankWorkers, worker'[v] # Resting,
               worker'[v].round # 1 \/ worker'[v].at = "committed"
        PROVE  history'[<<worker'[v].job, 1>>] # {}
    <3>1. CASE v = w
      BY <1>4, <2>2, <3>1
    <3>2. CASE v # w
      <4>1. worker[v] # Resting /\ worker'[v] = worker[v]
        BY <1>4, <2>4, <3>2
      <4>2. history[<<worker[v].job, 1>>] # {}
        BY <1>2, <2>4, <4>1 DEF FirstRoundFirst
      <4>3. <<worker[v].job, 1>> \in Keys
        <5>1. worker[v] \in Attempts
          BY <1>2, <4>1 DEF PrivacyTypeOK
        <5>2. QED
          BY <1>3, <5>1, PrivacyAssumption DEF Attempts, Keys
      <4>4. QED
        BY <1>8, <4>1, <4>2, <4>3
    <3>3. QED
      BY <3>1, <3>2
  <2>5. QED
    BY <2>3, <2>4 DEF FirstRoundFirst
<1>14. QED
  BY <1>9, <1>10, <1>11, <1>12, <1>13 DEF PrivacyInv

-----------------------------------------------------------------------------
(* The invariant holds. *)

\* The invariant is inductive.
LEMMA PrivacyInvStep ==
    ASSUME PrivacyInv, [PrivacyNext]_privacyVars
    PROVE  PrivacyInv'
<1>1. CASE UNCHANGED privacyVars
  <2>1. /\ UNCHANGED <<spent, reserved, active, history, steps, worker, accountant, loss>>
        /\ \A v \in BankWorkers : Holding(v)' => worker'[v] = worker[v]
    BY <1>1 DEF privacyVars
  <2>2. Reservations' /\ Paid'
    BY <2>1, MoneyFrame
  <2>3. PrivacyTypeOK' /\ Epsilons' /\ FirstRoundFirst'
    BY <2>1 DEF PrivacyInv, PrivacyTypeOK, Epsilons, FirstRoundFirst
  <2>4. QED
    BY <2>2, <2>3 DEF PrivacyInv
<1>2. QED
  BY <1>1, ReadStep, AdmitStep, TrainStep, CommitStep, StopStep DEF PrivacyNext

\* The invariant holds initially and is preserved.
LEMMA PrivacyInvHolds == PrivacySpec => []PrivacyInv
<1>1. PrivacyInit => PrivacyInv
  <2> SUFFICES ASSUME PrivacyInit
               PROVE  PrivacyInv
    OBVIOUS
  <2>1. /\ spent = 0 /\ reserved = 0 /\ loss = 0 /\ active = << >>
        /\ history = [k \in Keys |-> {}] /\ steps = [j \in DpJobs |-> 0]
        /\ worker = [w \in BankWorkers |-> Resting]
        /\ accountant = [w \in BankWorkers |-> [j \in DpJobs |-> NoAccountant]]
    BY DEF PrivacyInit
  <2>2. /\ DOMAIN active = {} /\ active \in [{} -> Nat]
        /\ IsFiniteSet({}) /\ Cardinality({}) = 0
    BY <2>1, FS_EmptySet
  <2>3. Total(active) = 0
    <3>1. Total(active) = Cardinality(Units(active, {}))
      BY <2>2, SumIsUnits
    <3>2. QED
      BY <2>2, <3>1 DEF Units
  <2>4. PrivacyTypeOK
    BY <2>1, <2>2 DEF PrivacyTypeOK
  <2>5. Resting.at = "resting"
    BY DEF Resting
  <2>6. Reservations
    BY <2>1, <2>2, <2>3, <2>5 DEF Reservations, Holding
  <2>7. Owed = {}
    BY <2>2 DEF Owed
  <2>8. Epsilons /\ FirstRoundFirst /\ Paid
    BY <2>1, <2>2, <2>5, <2>7, PrivacyAssumption DEF Epsilons, FirstRoundFirst, Paid, Keys
  <2>9. QED
    BY <2>4, <2>6, <2>8 DEF PrivacyInv
<1>2. QED
  BY <1>1, PrivacyInvStep, PTL DEF PrivacySpec

\* The budget's variables keep their types: PrivacySpec => []PrivacyTypeOK.
THEOREM PrivacyTyped == PrivacySpec => []PrivacyTypeOK
<1>1. PrivacyInv => PrivacyTypeOK
  BY DEF PrivacyInv
<1>2. QED
  BY <1>1, PrivacyInvHolds, PTL

\* The reserved epsilon is the sum of the active reservations, whichever workers
\* die holding one: PrivacySpec => []ReservedIsActive.
THEOREM ReservedEpsilonExact == PrivacySpec => []ReservedIsActive
<1>1. PrivacyInv => ReservedIsActive
  BY DEF PrivacyInv, Reservations, ReservedIsActive, Total
<1>2. QED
  BY <1>1, PrivacyInvHolds, PTL

\* Every training executed on private data is charged or still reserved, whatever
\* crashes, restarts and retries: PrivacySpec => []LossIsAccounted.
THEOREM TrainingsPaidFor == PrivacySpec => []LossIsAccounted
<1>1. PrivacyInv => LossIsAccounted
  <2> SUFFICES ASSUME PrivacyInv
               PROVE  LossIsAccounted
    OBVIOUS
  <2>1. /\ loss \in Nat /\ spent \in Nat /\ Paid /\ Reservations
    BY DEF PrivacyInv, PrivacyTypeOK
  <2>2. /\ Cardinality(Owed) \in Nat /\ Cardinality(DOMAIN active) \in Nat
        /\ Cardinality(Owed) <= Cardinality(DOMAIN active)
    BY <2>1, OwedIsFinite
  <2>3. QED
    BY <2>1, <2>2 DEF Paid, LossIsAccounted
<1>2. QED
  BY <1>1, PrivacyInvHolds, PTL

=============================================================================
