-------------------------- MODULE RegistryMutations --------------------------
(***************************************************************************)
(* The model registry of one simulation and the audit trail of its         *)
(* mutations.  Every mutation appends an intent to the audit chain, changes*)
(* the registry files, saves the manifest (or the ownership record) with   *)
(* the mutation's own id in it, and appends the outcome.  The process may  *)
(* die between any two of these steps; the reconciler later decides from   *)
(* the files what became of an intent that has no outcome.                 *)
(*                                                                         *)
(* A mutation holds the simulation's file lock from its first read to its  *)
(* outcome, so `op' is the one mutation in progress; reconcilers read the  *)
(* list of pending intents before they take the lock.                      *)
(*                                                                         *)
(* Abstractions.  The environment is production: a version is registered   *)
(* inactive, with a verified receipt.  Authentication and signatures only  *)
(* refuse.  An approver is a role.  The generation counter, the copies of  *)
(* the owner in the manifest, which every load rewrites from the ownership *)
(* record, and the caches keyed by file times are left out.  An auto       *)
(* promotion is a promotion that follows the sign-off.  The intents of the *)
(* version mutations other than registrations are of one kind: no reader   *)
(* treats them differently.                                                *)
(***************************************************************************)
EXTENDS Integers, Sequences, FiniteSets

CONSTANTS
    TrainingJobs,     \* receipts and training runs that register a candidate
    Digests,          \* SHA-256 of an artifact
    Reconcilers,      \* callers of reconcile_incomplete_mutations
    MaxMutations,     \* bound on the audit intents of a behaviour
    MaxLost,          \* bound on those that crashed or failed when one begins
    MaxVersions,      \* bound on the registered versions
    UnreadableLater,  \* a load may fail just after one that succeeded
    NoFile

ASSUME RegistryAssumption ==
    /\ MaxMutations \in Nat /\ MaxLost \in Nat /\ MaxVersions \in Nat \ {0}
    /\ UnreadableLater \in BOOLEAN
    /\ NoFile \notin Digests

VARIABLES
    manifest,   \* registry.json: version n is entry n
    files,      \* model_v<n>.pt on disk
    owners,     \* applied_mutation_ids of ownership.json; empty: unbound
    intents,    \* PENDING events of the audit chain: intent i has id i
    outcomes,   \* terminal event of an intent: COMMITTED, FAILED or none
    op,         \* the mutation that holds the simulation's lock
    listed      \* per reconciler: a pending intent it read and will examine, or 0

registryVars == <<manifest, files, owners, intents, outcomes, op, listed>>

-----------------------------------------------------------------------------

MutationIds == 1 .. MaxMutations
Versions == 1 .. MaxVersions
Roles == {"ml_engineer", "compliance"}
IntentKinds == {"save_version", "bind_ownership", "version_change"}
EntryStatuses == {"inactive", "approved", "candidate", "champion", "challenger"}

Entry == [job : TrainingJobs, digest : Digests, status : EntryStatuses, active : BOOLEAN,
          signed : SUBSET Roles, eligible : BOOLEAN, revoked : BOOLEAN,
          applied : SUBSET MutationIds]
Candidate(j, d, id) ==
    [job |-> j, digest |-> d, status |-> "inactive", active |-> FALSE, signed |-> {},
     eligible |-> TRUE, revoked |-> FALSE, applied |-> {id}]

Phases == {"intended", "published", "binding", "bound", "owned", "failing", "saved",
           "reconciling"}
Idle == [phase |-> "idle"]
Operation == [phase : Phases, id : MutationIds \cup {0}, owner : MutationIds \cup {0},
              version : Versions, binds : BOOLEAN, existed : BOOLEAN, next : Seq(Entry)]

RegistryTypeOK ==
    /\ manifest \in Seq(Entry) /\ Len(manifest) <= MaxVersions
    /\ files \in [Versions -> Digests \cup {NoFile}]
    /\ owners \subseteq MutationIds
    /\ intents \in Seq([kind : IntentKinds, version : Versions])
    /\ Len(intents) <= MaxMutations
    /\ outcomes \in [MutationIds -> {"none", "COMMITTED", "FAILED"}]
    /\ op \in Operation \cup {Idle}
    /\ listed \in [Reconcilers -> MutationIds \cup {0}]

RegistryInit ==
    /\ manifest = <<>>
    /\ files = [v \in Versions |-> NoFile]
    /\ owners = {}
    /\ intents = <<>>
    /\ outcomes = [m \in MutationIds |-> "none"]
    /\ op = Idle
    /\ listed = [r \in Reconcilers |-> 0]

-----------------------------------------------------------------------------

(* append_event of a PENDING intent; its id is its place in the chain.     *)
Intend(kind, v) ==
    /\ Len(intents) < MaxMutations
    /\ Cardinality({m \in DOMAIN intents : outcomes[m] # "COMMITTED"}) <= MaxLost
    /\ intents' = Append(intents, [kind |-> kind, version |-> v])
NextId == Len(intents) + 1

Pending(m) == m <= Len(intents) /\ outcomes[m] = "none"

(* finalize_pending_mutation: the first outcome stays.                     *)
Finalize(m, outcome) ==
    outcomes' = IF Pending(m) THEN [outcomes EXCEPT ![m] = outcome] ELSE outcomes

(* check_version_mutation_status, check_ownership_mutation_status.         *)
AppliedByResemblance(m) ==
    m \in owners \/ intents[m].version \in DOMAIN manifest
Applied(m) ==
    \/ m \in owners
    \/ \E v \in DOMAIN manifest : v = intents[m].version /\ m \in manifest[v].applied

(* What each version mutation makes of the manifest (e: its entry).        *)
SignedOff(e, role) ==
    LET signed == e.signed \cup {role}
    IN  [e EXCEPT !.signed = signed,
                  !.eligible = e.eligible \/ signed = Roles,
                  !.status = IF signed = Roles /\ e.status \in {"inactive", "candidate"}
                             THEN "approved" ELSE e.status]
StillServing(e, role) == [e EXCEPT !.signed = e.signed \ {role}, !.eligible = FALSE]
SignOffRevoked(e, role) ==
    [e EXCEPT !.signed = e.signed \ {role}, !.eligible = FALSE, !.active = FALSE,
              !.status = IF e.active THEN "inactive"
                         ELSE IF e.status \in {"approved", "challenger", "champion"}
                              THEN "candidate" ELSE e.status]
VersionRevoked(e) ==
    [e EXCEPT !.revoked = TRUE, !.eligible = FALSE, !.active = FALSE,
              !.status = IF e.active \/ e.status = "champion" THEN "inactive" ELSE e.status]

ChampionOf(v) ==
    [w \in DOMAIN manifest |->
        [manifest[w] EXCEPT !.active = (w = v),
            !.status = IF w = v THEN "champion"
                       ELSE IF @ = "champion" THEN "inactive" ELSE @]]
ChallengerOf(v) ==
    [w \in DOMAIN manifest |->
        [manifest[w] EXCEPT !.active = IF w = v THEN FALSE ELSE @,
            !.status = IF w = v THEN "challenger"
                       ELSE IF @ = "challenger" THEN "inactive" ELSE @]]

-----------------------------------------------------------------------------

(* The lock is free, and the caller's first step under it.                 *)
Enters(operation) == op = Idle /\ op' = operation
At(phase) == op.phase = phase
Advance(phase) == op' = [op EXCEPT !.phase = phase]
Leaves == op' = Idle

(* save_version, up to its intent.  A verified candidate that is already   *)
(* registered is returned as it is; another artifact for the same training *)
(* run or receipt is refused.                                              *)
Registrable(j, d) ==
    /\ \A v \in DOMAIN manifest : manifest[v].job = j => manifest[v].digest = d
    /\ ~ \E v \in DOMAIN manifest : manifest[v].job = j /\ manifest[v].eligible

SaveVersion(j, d, binds) ==
    LET v == Len(manifest) + 1 IN
    /\ v <= MaxVersions
    /\ Registrable(j, d)
    /\ binds => owners = {}
    /\ Intend("save_version", v)
    /\ Enters([phase |-> "intended", id |-> NextId, owner |-> 0, version |-> v,
               binds |-> binds, existed |-> files[v] # NoFile,
               next |-> Append(manifest, Candidate(j, d, NextId))])
    /\ UNCHANGED <<manifest, files, owners, outcomes, listed>>

Registering == op.id # 0 /\ intents[op.id].kind = "save_version"

(* os.replace of the staged artifact to its final name.                    *)
PublishArtifact ==
    /\ At("intended") /\ Registering
    /\ files' = [files EXCEPT ![op.version] = op.next[op.version].digest]
    /\ Advance("published")
    /\ UNCHANGED <<manifest, owners, intents, outcomes, listed>>

(* bind_simulation_ownership: alone (a first binding, or a transfer of an  *)
(* established one), or inside a registration that binds.                  *)
BindOwnership ==
    /\ Intend("bind_ownership", 1)
    /\ Enters([phase |-> "binding", id |-> 0, owner |-> NextId, version |-> 1,
               binds |-> TRUE, existed |-> FALSE, next |-> <<>>])
    /\ UNCHANGED <<manifest, files, owners, outcomes, listed>>

BindOnRegistration ==
    /\ At("published") /\ op.binds
    /\ Intend("bind_ownership", 1)
    /\ op' = [op EXCEPT !.phase = "binding", !.owner = NextId]
    /\ UNCHANGED <<manifest, files, owners, outcomes, listed>>

SaveOwnership ==
    /\ At("binding")
    /\ owners' = owners \cup {op.owner}
    /\ Advance("bound")
    /\ UNCHANGED <<manifest, files, intents, outcomes, listed>>

FinalizeOwnership ==
    /\ At("bound")
    /\ Finalize(op.owner, "COMMITTED")
    /\ op' = IF op.id = 0 THEN Idle ELSE [op EXCEPT !.phase = "owned"]
    /\ UNCHANGED <<manifest, files, owners, intents, listed>>

(* The ownership record could not be written; the exception of a binding   *)
(* inside a registration takes the registration with it.                   *)
SaveOwnershipFails ==
    /\ At("binding")
    /\ Finalize(op.owner, "FAILED")
    /\ op' = IF op.id = 0 THEN Idle ELSE [op EXCEPT !.phase = "failing"]
    /\ UNCHANGED <<manifest, files, owners, intents, listed>>

-----------------------------------------------------------------------------

(* The other mutations compute the new manifest before their intent, whose *)
(* id they record on the entry of the version.                             *)
Mutates(v, changed) ==
    /\ Intend("version_change", v)
    /\ Enters([phase |-> "intended", id |-> NextId, owner |-> 0, version |-> v,
               binds |-> FALSE, existed |-> TRUE,
               next |-> [changed EXCEPT ![v].applied = @ \cup {NextId}]])
    /\ UNCHANGED <<manifest, files, owners, outcomes, listed>>

(* The artifact is on disk with the recorded digest, and the version is    *)
(* admissible: never revoked, eligible and, to serve, signed by both roles.*)
Intact(v) == files[v] = manifest[v].digest
Admissible(e) == ~ e.revoked /\ e.eligible
AdmissibleChampion(e) == Admissible(e) /\ e.signed = Roles

PromoteVersion(v) ==
    /\ AdmissibleChampion(manifest[v]) /\ Intact(v)
    /\ Mutates(v, ChampionOf(v))
PromoteChallenger(v) ==
    /\ Admissible(manifest[v]) /\ Intact(v)
    /\ Mutates(v, ChallengerOf(v))
Rollback(v) ==
    /\ AdmissibleChampion(manifest[v]) /\ Intact(v)
    /\ Mutates(v, ChampionOf(v))
SignOff(v, role) ==
    /\ ~ manifest[v].revoked /\ role \notin manifest[v].signed
    /\ Mutates(v, [manifest EXCEPT ![v] = SignedOff(@, role)])
RevokeSignOff(v, role) ==
    /\ role \in manifest[v].signed
    /\ Mutates(v, [manifest EXCEPT ![v] = SignOffRevoked(@, role)])
RevokeVersion(v) ==
    Mutates(v, [manifest EXCEPT ![v] = VersionRevoked(@)])

-----------------------------------------------------------------------------

(* _save_manifest: one atomic replacement of registry.json.                *)
ReadyToSave == \/ At("intended") /\ ~ Registering
               \/ At("published") /\ ~ op.binds
               \/ At("owned")
SaveManifest ==
    /\ ReadyToSave
    /\ manifest' = op.next
    /\ Advance("saved")
    /\ UNCHANGED <<files, owners, intents, outcomes, listed>>

FinalizeMutation ==
    /\ At("saved")
    /\ Finalize(op.id, "COMMITTED")
    /\ Leaves
    /\ UNCHANGED <<manifest, files, owners, intents, listed>>

(* An exception before the manifest is saved, and a sign-off whose         *)
(* signature is refused: the status check reads the manifest, finds the id *)
(* absent, and records the failure; a published artifact goes, unless its  *)
(* name was taken before.                                                  *)
AbortMutation ==
    /\ op.phase \in {"intended", "published", "owned", "failing"}
    /\ ~ Applied(op.id)
    /\ files' = IF ~ At("intended") /\ ~ op.existed /\ op.version \notin DOMAIN manifest
                THEN [files EXCEPT ![op.version] = NoFile] ELSE files
    /\ Finalize(op.id, "FAILED")
    /\ Leaves
    /\ UNCHANGED <<manifest, owners, intents, listed>>

(* The process dies, or raises from where no handler records an outcome;   *)
(* the operating system releases the lock.                                 *)
Crash == op # Idle /\ Leaves
         /\ UNCHANGED <<manifest, files, owners, intents, outcomes, listed>>

-----------------------------------------------------------------------------

(* reconcile_incomplete_mutations.  The list of pending intents is read    *)
(* without the lock; its entries are examined one by one, each on its own. *)
ListPending(r, m) ==
    /\ listed[r] = 0 /\ Pending(m)
    /\ listed' = [listed EXCEPT ![r] = m]
    /\ UNCHANGED <<manifest, files, owners, intents, outcomes, op>>

Examined(r) == listed[r] # 0 /\ listed' = [listed EXCEPT ![r] = 0]

(* The lock was not had in time, the state cannot be read, or another      *)
(* reconciler or the originating worker has resolved the mutation.         *)
LeaveUnresolved(r) ==
    /\ Examined(r)
    /\ UNCHANGED <<manifest, files, owners, intents, outcomes, op>>

(* Under the lock: an abandoned artifact is removed if the manifest names  *)
(* no such file; a manifest that cannot be read here counts as empty.      *)
AbandonedByOutcome(m) == intents[m].kind = "save_version" /\ ~ Applied(m)
Abandoned(m) ==
    /\ intents[m].kind = "save_version" /\ ~ Applied(m)
    /\ intents[m].version \notin DOMAIN manifest \/ UnreadableLater
Reconcile(r) ==
    LET m == listed[r] IN
    /\ Examined(r) /\ Pending(m)
    /\ Enters([phase |-> "reconciling", id |-> m, owner |-> 0, version |-> 1,
               binds |-> FALSE, existed |-> TRUE, next |-> <<>>])
    /\ files' = IF Abandoned(m) THEN [files EXCEPT ![intents[m].version] = NoFile] ELSE files
    /\ UNCHANGED <<manifest, owners, intents, outcomes>>

RecordOutcome ==
    /\ At("reconciling")
    /\ Finalize(op.id, IF Applied(op.id) THEN "COMMITTED" ELSE "FAILED")
    /\ Leaves
    /\ UNCHANGED <<manifest, files, owners, intents, listed>>

-----------------------------------------------------------------------------

RegistryNext ==
    \/ \E j \in TrainingJobs, d \in Digests, binds \in BOOLEAN : SaveVersion(j, d, binds)
    \/ PublishArtifact \/ BindOwnership \/ BindOnRegistration
    \/ SaveOwnership \/ FinalizeOwnership \/ SaveOwnershipFails
    \/ \E v \in DOMAIN manifest :
          \/ PromoteVersion(v) \/ PromoteChallenger(v) \/ Rollback(v) \/ RevokeVersion(v)
          \/ \E role \in Roles : SignOff(v, role) \/ RevokeSignOff(v, role)
    \/ SaveManifest \/ FinalizeMutation \/ AbortMutation \/ Crash
    \/ \E r \in Reconcilers :
          \/ \E m \in MutationIds : ListPending(r, m)
          \/ LeaveUnresolved(r) \/ Reconcile(r)
    \/ RecordOutcome

RegistrySpec == RegistryInit /\ [][RegistryNext]_registryVars

-----------------------------------------------------------------------------

(* An outcome in the audit chain is the truth about the files, for good:   *)
(* COMMITTED means that the mutation's id is in the manifest or the        *)
(* ownership record, FAILED that it is not and, since outcomes stay, never *)
(* will be.  This is what the lock, the re-check of the intent and the ids *)
(* on the entries are for, whoever crashed and whoever reconciled.         *)
InTheFiles(m) == m \in owners \/ \E v \in DOMAIN manifest : m \in manifest[v].applied
AuditIsTruthful ==
    \A m \in DOMAIN intents : /\ outcomes[m] = "COMMITTED" => InTheFiles(m)
                              /\ outcomes[m] = "FAILED" => ~ InTheFiles(m)

(* Every version in the manifest has its artifact on disk, whatever        *)
(* abandoned registration of the same version number was cleaned up.       *)
CommittedFilesExist == \A v \in DOMAIN manifest : Intact(v)

(* At most one version serves, and one that serves is not revoked and has  *)
(* the active sign-offs of both roles, whatever was revoked, promoted or   *)
(* rolled back in between.                                                 *)
ServedIsApproved ==
    /\ \A v, w \in DOMAIN manifest : manifest[v].active /\ manifest[w].active => v = w
    /\ \A v \in DOMAIN manifest :
          manifest[v].active => ~ manifest[v].revoked /\ manifest[v].signed = Roles

(* To whoever reads the audit chain the registry is the trail it promises  *)
(* to be: an intent precedes every change of the manifest and the ownership*)
(* record, each change is made in one step, once, before its outcome, and  *)
(* never undone, and the outcome is true when it is recorded and final.    *)
Trail == INSTANCE MutationTrail WITH
    Mutations <- MutationIds,
    announced <- DOMAIN intents,
    effected <- {m \in MutationIds : InTheFiles(m)},
    outcome <- outcomes
KeepsTheTrail == Trail!TrailSpec

=============================================================================
