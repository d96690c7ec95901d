----------------------------- MODULE FederatedJob -----------------------------
(***************************************************************************)
(* One federated training job: the executions of it (the first and its     *)
(* retries, which nothing keeps from overlapping), the banks' workers, the *)
(* training authority that records the evidence, the directory where the   *)
(* final artifact is staged, and the registration of the candidate.        *)
(*                                                                         *)
(* A model is its training history: after round r, the sequence of r maps  *)
(* from bank to the outcome of its local training.  Training is not        *)
(* deterministic: any outcome may come out of the same global model.       *)
(*                                                                         *)
(* Abstractions.  Secure aggregation and the robust aggregators compute    *)
(* another function of the same updates; evaluations, receipts, sample     *)
(* counts and identities add refusals only.  Every refusal, a bank that    *)
(* errs or times out, an exception and a crash all stop the execution:     *)
(* nothing is undone and no round is retried.  The registration is one     *)
(* step here; RegistryMutations models its own.                            *)
(***************************************************************************)
EXTENDS Integers, Sequences, FiniteSets

CONSTANTS
    Executions,     \* calls of execute_distributed_federation for the job
    Participants,   \* participating_banks
    Outcomes,       \* what a local training may produce
    Rounds,         \* rounds of the job (expected_rounds)
    NotYet          \* nothing recorded, staged or received

ASSUME JobAssumption ==
    /\ Rounds \in Nat \ {0}
    /\ IsFiniteSet(Participants) /\ Participants # {}
    /\ NotYet \notin Outcomes

VARIABLES
    job,            \* authority: ABSENT, SCHEDULED, STARTED or COMPLETED
    observed,       \* authority: per round and bank, the recorded local update
    aggregated,     \* authority: per round, the recorded global model
    completed,      \* authority: artifact of the completed job record
    artifactFile,   \* staging directory: <job>.artifact.pt
    metaFile,       \* staging directory: <job>.meta.json, the digest it states
    candidates,     \* registry: artifacts with a verified version of this job
    exec            \* the state of each execution

jobVars == <<job, observed, aggregated, completed, artifactFile, metaFile, candidates, exec>>

-----------------------------------------------------------------------------

RoundNumbers == 1 .. Rounds
Replies == [Participants -> Outcomes \cup {NotYet}]
Trained == [Participants -> Outcomes]
Histories == UNION {[1 .. n -> Trained] : n \in 0 .. Rounds}
LocalUpdates == [base : Histories, outcome : Outcomes]

ASSUME NotYetAssumption == NotYet \notin Histories \cup LocalUpdates

Steps == {"called", "training", "aggregated", "staging", "artifactStaged", "staged",
          "completed", "registered", "cleaning", "finished", "recovering", "stopped"}

JobTypeOK ==
    /\ job \in {"ABSENT", "SCHEDULED", "STARTED", "COMPLETED"}
    /\ observed \in [RoundNumbers -> [Participants -> LocalUpdates \cup {NotYet}]]
    /\ aggregated \in [RoundNumbers -> Histories \cup {NotYet}]
    /\ {completed, artifactFile, metaFile} \subseteq Histories \cup {NotYet}
    /\ candidates \subseteq Histories
    /\ exec \in [Executions -> [step : Steps, weights : Histories, replies : Replies]]

NoReplies == [b \in Participants |-> NotYet]

JobInit ==
    /\ job = "ABSENT"
    /\ observed = [r \in RoundNumbers |-> NoReplies]
    /\ aggregated = [r \in RoundNumbers |-> NotYet]
    /\ completed = NotYet
    /\ artifactFile = NotYet /\ metaFile = NotYet
    /\ candidates = {}
    /\ exec = [x \in Executions |-> [step |-> "called", weights |-> <<>>, replies |-> NoReplies]]

-----------------------------------------------------------------------------

AtStep(x, step) == exec[x].step = step
Moves(x, step) == exec' = [exec EXCEPT ![x].step = step]
Round(x) == Len(exec[x].weights) + 1
Staged == artifactFile # NotYet /\ metaFile # NotYet
authority == <<job, observed, aggregated, completed>>
staging == <<artifactFile, metaFile>>

(* schedule_job, unless a completed record was found; a job that exists    *)
(* with the same configuration is returned as it is.                       *)
Schedule(x) ==
    /\ AtStep(x, "called") /\ completed = NotYet
    /\ job' = IF job = "ABSENT" THEN "SCHEDULED" ELSE job
    /\ Moves(x, "training")
    /\ UNCHANGED <<observed, aggregated, completed, staging, candidates>>

(* A worker's round: in the first it starts the job; it trains on the      *)
(* global model, records the observation, and answers.  One observation    *)
(* exists per bank and round: the same one may be recorded again, another  *)
(* is refused, and then the worker answers with an error.                  *)
Recordable(x, b, update) ==
    /\ job # "COMPLETED" /\ (Round(x) = 1 \/ job = "STARTED")
    /\ observed[Round(x)][b] \in {NotYet, update}
RecordObservation(x, b, outcome) ==
    LET update == [base |-> exec[x].weights, outcome |-> outcome] IN
    /\ AtStep(x, "training") /\ exec[x].replies[b] = NotYet
    /\ Recordable(x, b, update)
    /\ job' = "STARTED"
    /\ observed' = [observed EXCEPT ![Round(x)][b] = update]
    /\ exec' = [exec EXCEPT ![x].replies[b] = outcome]
    /\ UNCHANGED <<aggregated, completed, staging, candidates>>

(* The worker recorded its observation, but its answer never arrived.      *)
LoseReply(x, b, outcome) ==
    LET update == [base |-> exec[x].weights, outcome |-> outcome] IN
    /\ AtStep(x, "training") /\ exec[x].replies[b] = NotYet
    /\ Recordable(x, b, update)
    /\ job' = "STARTED"
    /\ observed' = [observed EXCEPT ![Round(x)][b] = update]
    /\ Moves(x, "stopped")
    /\ UNCHANGED <<aggregated, completed, staging, candidates>>

(* Every bank has answered: record_global_aggregation, whose digests must  *)
(* be recorded observations of the round, one aggregation per round.       *)
Answered(x) == \A b \in Participants : exec[x].replies[b] # NotYet
RecordAggregation(x) ==
    LET r == Round(x)
        after == Append(exec[x].weights, exec[x].replies)
    IN
    /\ AtStep(x, "training") /\ Answered(x)
    /\ job = "STARTED"
    /\ aggregated[r] \in {NotYet, after}
    /\ \A b \in Participants :
          observed[r][b] = [base |-> exec[x].weights, outcome |-> exec[x].replies[b]]
    /\ aggregated' = [aggregated EXCEPT ![r] = after]
    /\ exec' = [exec EXCEPT ![x] =
                  [step |-> IF r = Rounds THEN "aggregated" ELSE "training",
                   weights |-> after, replies |-> NoReplies]]
    /\ UNCHANGED <<job, observed, completed, staging, candidates>>

-----------------------------------------------------------------------------

(* stage_artifact looks for staged files, then writes two of its own, one  *)
(* after the other; staged files with the same digest are kept, anything   *)
(* else that it finds is a collision.                                      *)
FindNoneStaged(x) ==
    /\ AtStep(x, "aggregated")
    /\ artifactFile = NotYet /\ metaFile = NotYet
    /\ Moves(x, "staging")
    /\ UNCHANGED <<authority, staging, candidates>>

StageArtifact(x) ==
    /\ AtStep(x, "staging")
    /\ artifactFile' = exec[x].weights
    /\ Moves(x, "artifactStaged")
    /\ UNCHANGED <<authority, metaFile, candidates>>

StageMetadata(x) ==
    /\ AtStep(x, "artifactStaged")
    /\ metaFile' = exec[x].weights
    /\ Moves(x, "staged")
    /\ UNCHANGED <<authority, artifactFile, candidates>>

KeepStaged(x) ==
    /\ AtStep(x, "aggregated") /\ metaFile = exec[x].weights
    /\ Moves(x, "staged")
    /\ UNCHANGED <<authority, staging, candidates>>

(* complete_job: the evidence is reconciled, the record is written once.   *)
UpdateIn(model, r, b) == [base |-> SubSeq(model, 1, r - 1), outcome |-> model[r][b]]
Reconciled(model) ==
    /\ Len(model) = Rounds
    /\ \A r \in RoundNumbers :
          /\ aggregated[r] = SubSeq(model, 1, r)
          /\ \A b \in Participants : observed[r][b] = UpdateIn(model, r, b)
CompletesAnyTime == {"aggregated", "staged"}
Completes == {"staged"}
CompleteJob(x) ==
    /\ exec[x].step \in Completes
    /\ job = "STARTED" \/ completed = exec[x].weights
    /\ Reconciled(exec[x].weights)
    /\ completed' = exec[x].weights
    /\ job' = "COMPLETED"
    /\ Moves(x, "completed")
    /\ UNCHANGED <<observed, aggregated, staging, candidates>>

(* save_version: a verified candidate with the same digest is returned.    *)
RegistersStaged == {"staged", "completed"}
Registers == {"completed"}
RegisterCandidate(x) ==
    /\ exec[x].step \in Registers
    /\ candidates' = candidates \cup {exec[x].weights}
    /\ Moves(x, "registered")
    /\ UNCHANGED <<authority, staging>>

(* cleanup_staged_artifact: the artifact, then its metadata.               *)
RemoveArtifact(x) ==
    /\ AtStep(x, "registered")
    /\ artifactFile' = NotYet
    /\ Moves(x, "cleaning")
    /\ UNCHANGED <<authority, metaFile, candidates>>

RemoveMetadata(x) ==
    /\ AtStep(x, "cleaning")
    /\ metaFile' = NotYet
    /\ Moves(x, "finished")
    /\ UNCHANGED <<authority, artifactFile, candidates>>

-----------------------------------------------------------------------------

(* A retry that finds the completed record: a registered candidate is      *)
(* returned and what is staged cleaned up; otherwise the staged artifact   *)
(* is loaded, verified and registered; otherwise the retry fails.          *)
ReconcileCandidate(x) ==
    /\ AtStep(x, "called") /\ completed # NotYet
    /\ exec' = [exec EXCEPT ![x].step = IF completed \notin candidates THEN "recovering"
                                        ELSE IF Staged THEN "registered" ELSE "finished",
                            ![x].weights = completed]
    /\ UNCHANGED <<authority, staging, candidates>>

LoadStaged(x) ==
    /\ AtStep(x, "recovering")
    /\ artifactFile = completed /\ metaFile = completed
    /\ Moves(x, "completed")
    /\ UNCHANGED <<authority, staging, candidates>>

(* A crash, a timeout, a refusal or an exception, anywhere.                *)
StopExecution(x) ==
    /\ exec[x].step \notin {"finished", "stopped"}
    /\ Moves(x, "stopped")
    /\ UNCHANGED <<authority, staging, candidates>>

JobNext ==
    \E x \in Executions :
        \/ Schedule(x)
        \/ \E b \in Participants, o \in Outcomes : RecordObservation(x, b, o) \/ LoseReply(x, b, o)
        \/ RecordAggregation(x)
        \/ FindNoneStaged(x) \/ StageArtifact(x) \/ StageMetadata(x) \/ KeepStaged(x)
        \/ CompleteJob(x) \/ RegisterCandidate(x) \/ RemoveArtifact(x) \/ RemoveMetadata(x)
        \/ ReconcileCandidate(x) \/ LoadStaged(x)
        \/ StopExecution(x)

JobSpec == JobInit /\ [][JobNext]_jobVars

-----------------------------------------------------------------------------

(* The model of a completed job is never lost: it is registered, or both   *)
(* staged files are there for a retry to register it, whichever execution  *)
(* died or cleaned up where.                                               *)
CompletedIsRecoverable ==
    completed # NotYet => \/ completed \in candidates
                          \/ artifactFile = completed /\ metaFile = completed

(* What is registered is the completed artifact of the job, and its history*)
(* is the recorded one: in every round the outcome of each bank's training *)
(* on the model of the round before.  No overlapping or retried execution  *)
(* mixes its own updates in.                                               *)
RegisteredIsEvidenced ==
    \A model \in candidates :
        /\ model = completed
        /\ \A r \in RoundNumbers, b \in Participants :
              observed[r][b] = UpdateIn(model, r, b)

-----------------------------------------------------------------------------
(* The evidence, read as a single training.                                *)

\* The rounds that are aggregated, the model after them, and what the banks
\* have produced in the round that follows.
RoundsDone ==
    CHOOSE n \in 0 .. Rounds : \A r \in RoundNumbers : aggregated[r] # NotYet <=> r <= n
CurrentModel == IF RoundsDone = 0 THEN <<>> ELSE aggregated[RoundsDone]
CurrentOutcomes ==
    [b \in Participants |->
        IF RoundsDone = Rounds \/ observed[RoundsDone + 1][b] = NotYet
        THEN NotYet ELSE observed[RoundsDone + 1][b].outcome]

Single == INSTANCE SingleTraining
    WITH Banks <- Participants, Results <- Outcomes, LastRound <- Rounds, None <- NotYet,
         model <- CurrentModel, trained <- CurrentOutcomes, final <- completed,
         published <- candidates

(* However executions of a job overlap, retry, lose answers and die, and   *)
(* although every training may come out differently, what the authority    *)
(* recorded and the registry published is one uninterrupted training.      *)
KeepsASingleTraining == Single!TrainingSpec

=============================================================================
