----------------------- MODULE RegistryMutations_proofs -----------------------
(***************************************************************************)
(* Machine-checked proofs about the registry mutations and their audit     *)
(* trail, for any number of training jobs, artifacts, reconcilers,         *)
(* mutations and versions.                                                 *)
(*                                                                         *)
(* The argument.  The simulation's lock makes `op' the only mutation under *)
(* way, but a crash leaves its intent behind at any point, and whether it  *)
(* took effect is read off the files.  So the invariant says what the      *)
(* files may hold: an id only on the entry its intent names, and the id of *)
(* the mutation under way nowhere before its save (Belong, Undecided); and *)
(* what the manifest to be saved is: the one on disk, revised for that id  *)
(* alone (Revises).                                                        *)
(*                                                                         *)
(* What a reader of the trail may rely on is put together in               *)
(* ImplementsTrail: the registry implements the abstract mutation trail.   *)
(***************************************************************************)
EXTENDS RegistryMutations, FiniteSetTheorems, SequenceTheorems, TLAPS

-----------------------------------------------------------------------------
(* The inductive invariant. *)

\* Nothing says yet what became of an intent, and no file holds its id.
Undecided(m) == outcomes[m] = "none" /\ ~ InTheFiles(m)

\* Ids in the files are those of intents, on the version the intent names, and
\* only intents have outcomes.
Belong ==
    /\ \A v \in DOMAIN manifest : \A m \in manifest[v].applied :
          m \in DOMAIN intents /\ intents[m].version = v
    /\ owners \subseteq DOMAIN intents
    /\ \A m \in MutationIds : outcomes[m] # "none" => m \in DOMAIN intents

\* At most one entry serves, and it is approved (ServedIsApproved of entries).
Served(entries) ==
    /\ \A v, w \in DOMAIN entries : entries[v].active /\ entries[w].active => v = w
    /\ \A v \in DOMAIN entries :
          entries[v].active => ~ entries[v].revoked /\ entries[v].signed = Roles

\* The manifest with mutation m recorded on version v, and perhaps v added.
Revises(entries, v, m) ==
    /\ Len(entries) \in {Len(manifest), Len(manifest) + 1}
    /\ v \in DOMAIN entries
    /\ \A w \in DOMAIN entries :
          \A i \in entries[w].applied :
             \/ w \in DOMAIN manifest /\ i \in manifest[w].applied
             \/ w = v /\ i = m
    /\ \A w \in DOMAIN manifest : /\ manifest[w].applied \subseteq entries[w].applied
                                  /\ entries[w].digest = manifest[w].digest
    /\ m \in entries[v].applied
    /\ Served(entries)

\* Up to the save of the manifest; those among them that a registration passes
\* after its artifact is published.
BeforeSave == {"intended", "published", "binding", "bound", "owned"}
Published == {"published", "binding", "bound", "owned"}

Underway ==
    /\ op.id \in {0} \cup DOMAIN intents /\ op.owner \in {0} \cup DOMAIN intents
    /\ op.phase \notin {"binding", "bound"} => op.id # 0
    /\ op.phase \in {"binding", "bound"} => op.owner # 0 /\ op.owner # op.id
    /\ op.phase = "binding" => Undecided(op.owner)
    /\ op.phase = "bound" => op.owner \in owners
    /\ op.phase = "saved" => InTheFiles(op.id)
    /\ op.id # 0 /\ op.phase \in BeforeSave \cup {"failing"} =>
          Undecided(op.id) /\ intents[op.id].version = op.version
    /\ op.id # 0 /\ op.phase \in BeforeSave => Revises(op.next, op.version, op.id)
    \* only a registration adds a version, and it adds the one it names
    /\ op.id # 0 /\ op.phase \in BeforeSave /\ Registering => op.version \notin DOMAIN manifest
    /\ op.phase = "intended" /\ ~ Registering => Len(op.next) = Len(manifest)
    /\ op.id # 0 /\ op.phase \in Published => Registering

IInv ==
    /\ RegistryTypeOK /\ Belong /\ AuditIsTruthful /\ Served(manifest)
    /\ op # Idle => Underway

\* The artifact of a registration under way is on disk once it is published.
ArtifactsKept ==
    /\ CommittedFilesExist
    /\ op # Idle /\ op.id # 0 /\ op.phase \in Published =>
          files[op.version] = op.next[op.version].digest

-----------------------------------------------------------------------------
(* What the variables range over. *)

Intent == [kind : IntentKinds, version : Versions]

\* Entries, intents and ids.
LEMMA Ranges ==
    ASSUME RegistryTypeOK
    PROVE  /\ Len(manifest) \in Nat /\ DOMAIN manifest = 1 .. Len(manifest)
           /\ DOMAIN manifest \subseteq Versions
           /\ \A v \in DOMAIN manifest : manifest[v] \in Entry
           /\ Len(intents) \in Nat /\ DOMAIN intents = 1 .. Len(intents)
           /\ DOMAIN intents \subseteq MutationIds /\ 0 \notin DOMAIN intents
           /\ \A m \in DOMAIN intents : intents[m] \in Intent
<1>1. manifest \in Seq(Entry) /\ intents \in Seq(Intent)
  BY DEF RegistryTypeOK, Intent
<1>2. Len(manifest) <= MaxVersions /\ Len(intents) <= MaxMutations
  BY DEF RegistryTypeOK
<1>3. MaxVersions \in Nat /\ MaxMutations \in Nat
  BY RegistryAssumption
<1>4. Len(manifest) \in Nat /\ Len(intents) \in Nat
  BY <1>1
<1>5. DOMAIN manifest = 1 .. Len(manifest) /\ DOMAIN intents = 1 .. Len(intents)
  BY <1>1
<1>6. /\ \A v \in DOMAIN manifest : manifest[v] \in Entry
      /\ \A m \in DOMAIN intents : intents[m] \in Intent
  BY <1>1, <1>5
<1>7. QED
  BY <1>2, <1>3, <1>4, <1>5, <1>6 DEF Versions, MutationIds

\* An intent takes the next id, which is new.
LEMMA IntendEffect ==
    ASSUME RegistryTypeOK, NEW kind \in IntentKinds, NEW v \in Versions, Intend(kind, v)
    PROVE  /\ intents' \in Seq(Intent) /\ Len(intents') <= MaxMutations
           /\ NextId \in MutationIds /\ NextId \notin DOMAIN intents /\ NextId # 0
           /\ DOMAIN intents' = DOMAIN intents \cup {NextId}
           /\ intents'[NextId] = [kind |-> kind, version |-> v]
           /\ \A m \in DOMAIN intents : intents'[m] = intents[m]
<1> DEFINE x == [kind |-> kind, version |-> v]
<1>1. x \in Intent /\ x.kind = kind /\ x.version = v
  BY DEF Intent
<1>2. intents \in Seq(Intent) /\ intents' = Append(intents, x) /\ Len(intents) < MaxMutations
  BY DEF RegistryTypeOK, Intend, Intent
<1>3. Len(intents) \in Nat /\ DOMAIN intents = 1 .. Len(intents) /\ MaxMutations \in Nat
  BY Ranges, RegistryAssumption
<1> HIDE DEF x
<1>4. /\ intents' \in Seq(Intent) /\ Len(intents') = Len(intents) + 1
      /\ \A m \in 1 .. Len(intents) : intents'[m] = intents[m]
      /\ intents'[Len(intents) + 1] = x
  BY <1>1, <1>2, AppendProperties
<1>5. DOMAIN intents' = 1 .. Len(intents) + 1
  BY <1>3, <1>4
<1>6. QED
  BY <1>1, <1>2, <1>3, <1>4, <1>5 DEF NextId, MutationIds, x

\* The status checks of the code decide whether the files hold an intent's id.
LEMMA AppliedDecides ==
    ASSUME Belong, NEW m \in DOMAIN intents
    PROVE  Applied(m) <=> InTheFiles(m)
  BY DEF Belong, Applied, InTheFiles

\* A new intent is undecided, and what was said of the others remains true.
LEMMA NewIntent ==
    ASSUME RegistryTypeOK, Belong, AuditIsTruthful,
           NEW kind \in IntentKinds, NEW v \in Versions, Intend(kind, v),
           UNCHANGED <<manifest, owners, outcomes>>, NEW id, id = NextId
    PROVE  Belong' /\ AuditIsTruthful' /\ Undecided(id) /\ Undecided(id)'
<1>1. /\ id \in MutationIds /\ id \notin DOMAIN intents
      /\ DOMAIN intents' = DOMAIN intents \cup {id}
      /\ \A m \in DOMAIN intents : intents'[m] = intents[m]
  BY IntendEffect
<1>2. outcomes[id] = "none" /\ ~ InTheFiles(id)
  BY <1>1 DEF Belong, InTheFiles, RegistryTypeOK
<1>3. Belong'
  BY <1>1 DEF Belong
<1>4. \A m : InTheFiles(m)' <=> InTheFiles(m)
  BY DEF InTheFiles
<1>5. AuditIsTruthful'
  BY <1>1, <1>2, <1>4 DEF AuditIsTruthful
<1>6. QED
  BY <1>2, <1>3, <1>4, <1>5 DEF Undecided

\* Recording an outcome that the files bear out.
LEMMA FinalizeEffect ==
    ASSUME RegistryTypeOK, Belong, AuditIsTruthful, NEW m \in DOMAIN intents,
           NEW outcome \in {"COMMITTED", "FAILED"}, Finalize(m, outcome),
           outcome = "COMMITTED" <=> InTheFiles(m), UNCHANGED <<manifest, owners, intents>>
    PROVE  /\ outcomes' \in [MutationIds -> {"none", "COMMITTED", "FAILED"}]
           /\ \A i \in MutationIds \ {m} : outcomes'[i] = outcomes[i]
           /\ Belong' /\ AuditIsTruthful'
<1>1. m \in MutationIds /\ outcomes \in [MutationIds -> {"none", "COMMITTED", "FAILED"}]
      /\ DOMAIN intents \subseteq MutationIds
  BY Ranges DEF RegistryTypeOK
<1>2. /\ outcomes' \in [MutationIds -> {"none", "COMMITTED", "FAILED"}]
      /\ \A i \in MutationIds \ {m} : outcomes'[i] = outcomes[i]
      /\ outcomes'[m] \in {outcomes[m], outcome}
  BY <1>1 DEF Finalize
<1>3. \A i : InTheFiles(i)' <=> InTheFiles(i)
  BY DEF InTheFiles
<1>4. Belong'
  BY <1>2 DEF Belong
<1>5. AuditIsTruthful'
  BY <1>1, <1>2, <1>3 DEF AuditIsTruthful
<1>6. QED
  BY <1>2, <1>4, <1>5

\* A mutation under way moves to another phase.
LEMMA AdvanceEffect ==
    ASSUME RegistryTypeOK, op # Idle, NEW phase \in Phases, Advance(phase)
    PROVE  /\ op \in Operation /\ op' \in Operation /\ op' # Idle /\ op'.phase = phase
           /\ op'.id = op.id /\ op'.owner = op.owner /\ op'.version = op.version
           /\ op'.binds = op.binds /\ op'.existed = op.existed /\ op'.next = op.next
<1>1. op \in Operation
  BY DEF RegistryTypeOK
<1>2. /\ op' \in Operation /\ op'.phase = phase
      /\ op'.id = op.id /\ op'.owner = op.owner /\ op'.version = op.version
      /\ op'.binds = op.binds /\ op'.existed = op.existed /\ op'.next = op.next
  BY <1>1 DEF Advance, Operation
<1>3. op' # Idle
  BY <1>2 DEF Idle, Phases
<1>4. QED
  BY <1>1, <1>2, <1>3

\* A mutation is under way exactly when its phase is one of these.
LEMMA PhaseMeansBusy ==
    ASSUME RegistryTypeOK, NEW phase \in Phases, At(phase)
    PROVE  op # Idle /\ op \in Operation
<1>1. op # Idle
  BY DEF At, Idle, Phases
<1>2. QED
  BY <1>1 DEF RegistryTypeOK

\* Only the phase of the mutation matters to what was revised.
LEMMA StillRevises ==
    ASSUME NEW entries, NEW v, NEW m, Revises(entries, v, m), UNCHANGED manifest
    PROVE  Revises(entries, v, m)'
  BY DEF Revises, Served

-----------------------------------------------------------------------------
(* A mutation enters. *)

\* A mutation that revises the manifest takes the lock with its intent.
LEMMA EnteredMutation ==
    ASSUME IInv, NEW kind \in {"save_version", "version_change"}, NEW v \in Versions,
           Intend(kind, v), NEW id, id = NextId,
           NEW next \in Seq(Entry), NEW binds \in BOOLEAN, NEW existed \in BOOLEAN,
           op' = [phase |-> "intended", id |-> id, owner |-> 0, version |-> v, binds |-> binds,
                  existed |-> existed, next |-> next],
           Revises(next, v, id),
           kind = "save_version" => v \notin DOMAIN manifest,
           kind = "version_change" => Len(next) = Len(manifest),
           UNCHANGED <<manifest, files, owners, outcomes, listed>>
    PROVE  IInv'
<1>0. RegistryTypeOK /\ Belong /\ AuditIsTruthful /\ kind \in IntentKinds
  BY DEF IInv, IntentKinds
<1>1. /\ intents' \in Seq(Intent) /\ Len(intents') <= MaxMutations
      /\ id \in MutationIds /\ id # 0 /\ id \in DOMAIN intents'
      /\ intents'[id] = [kind |-> kind, version |-> v]
  BY <1>0, IntendEffect
<1>2. Belong' /\ AuditIsTruthful' /\ Undecided(id)'
  BY <1>0, NewIntent
<1>3. Revises(next, v, id)'
  BY StillRevises
<1>4. op' \in Operation
  BY <1>1 DEF Operation, Phases
<1>5. RegistryTypeOK'
  BY <1>0, <1>1, <1>4 DEF RegistryTypeOK, Intent
<1>6. Served(manifest)'
  BY DEF IInv, Served
<1>7. /\ op'.phase = "intended" /\ op'.id = id /\ op'.owner = 0 /\ op'.version = v
      /\ op'.next = next
  OBVIOUS
<1>8. intents'[id].kind = kind /\ intents'[id].version = v
  BY <1>1
<1>9. Underway'
  <2>1. Undecided(op.id)' /\ Revises(op.next, op.version, op.id)'
    BY <1>2, <1>3, <1>7 DEF Undecided, InTheFiles, Revises, Served
  <2>2. Registering' <=> kind = "save_version"
    BY <1>1, <1>7, <1>8 DEF Registering
  <2> HIDE DEF Undecided, Revises, Registering
  <2>3. QED
    BY <1>1, <1>7, <1>8, <2>1, <2>2 DEF Underway, BeforeSave, Published
<1>10. QED
  BY <1>2, <1>5, <1>6, <1>9 DEF IInv

\* A registration adds a candidate that does not serve.
LEMMA RegistrationRevises ==
    ASSUME IInv, NEW j \in TrainingJobs, NEW d \in Digests, NEW id \in MutationIds,
           NEW next, next = Append(manifest, Candidate(j, d, id))
    PROVE  next \in Seq(Entry) /\ Revises(next, Len(manifest) + 1, id)
<1> DEFINE x == Candidate(j, d, id)
<1>1. x \in Entry /\ x.applied = {id} /\ ~ x.active
  BY DEF Candidate, Entry, EntryStatuses
<1> HIDE DEF x
<1>2. manifest \in Seq(Entry) /\ Len(manifest) \in Nat /\ DOMAIN manifest = 1 .. Len(manifest)
  BY Ranges DEF IInv, RegistryTypeOK
<1>3. /\ next \in Seq(Entry) /\ Len(next) = Len(manifest) + 1
      /\ \A w \in 1 .. Len(manifest) : next[w] = manifest[w]
      /\ next[Len(manifest) + 1] = x
  BY <1>1, <1>2, AppendProperties DEF x
<1>4. DOMAIN next = DOMAIN manifest \cup {Len(manifest) + 1}
  BY <1>2, <1>3
<1>5. Served(next)
  BY <1>1, <1>2, <1>3, <1>4 DEF Served, IInv
<1>6. QED
  BY <1>1, <1>2, <1>3, <1>4, <1>5 DEF Revises

\* save_version preserves the invariant.
LEMMA SaveVersionStep ==
    ASSUME IInv, NEW j \in TrainingJobs, NEW d \in Digests, NEW binds \in BOOLEAN,
           SaveVersion(j, d, binds)
    PROVE  IInv'
<1> DEFINE v == Len(manifest) + 1
           id == NextId
           next == Append(manifest, Candidate(j, d, id))
           existed == files[v] # NoFile
<1>1. /\ v <= MaxVersions /\ Intend("save_version", v)
      /\ op' = [phase |-> "intended", id |-> id, owner |-> 0, version |-> v, binds |-> binds,
                existed |-> existed, next |-> next]
      /\ UNCHANGED <<manifest, files, owners, outcomes, listed>>
  BY DEF SaveVersion, Enters
<1>2. v \in Versions /\ v \notin DOMAIN manifest
  BY <1>1, Ranges, RegistryAssumption DEF IInv, Versions
<1>3. id \in MutationIds
  BY <1>1, <1>2, IntendEffect DEF IInv, IntentKinds
<1>4. next \in Seq(Entry) /\ Revises(next, v, id)
  BY <1>3, RegistrationRevises
<1>5. existed \in BOOLEAN /\ id = NextId
  OBVIOUS
<1> HIDE DEF v, id, next, existed
<1>6. QED
  BY <1>1, <1>2, <1>4, <1>5, EnteredMutation

-----------------------------------------------------------------------------
(* The changes of a version. *)

\* A change of the manifest that keeps its versions, their artifacts and their ids,
\* and after which at most one approved version serves.
Changes(entries) ==
    /\ DOMAIN entries = DOMAIN manifest
    /\ \A w \in DOMAIN manifest : /\ entries[w] \in Entry
                                  /\ entries[w].applied = manifest[w].applied
                                  /\ entries[w].digest = manifest[w].digest
    /\ Served(entries)

\* A function on 1 .. n is a sequence.
LEMMA EntriesSequence ==
    ASSUME NEW n \in Nat, NEW entries \in [1 .. n -> Entry]
    PROVE  entries \in Seq(Entry) /\ Len(entries) = n
<1>1. entries \in Seq(Entry)
  BY IsASeq
<1>2. DOMAIN entries = 1 .. Len(entries) /\ Len(entries) \in Nat /\ DOMAIN entries = 1 .. n
  BY <1>1, LenProperties
<1>3. QED
  BY <1>1, <1>2

\* Such a change preserves the invariant when its mutation takes the lock.
LEMMA MutatesStep ==
    ASSUME IInv, NEW v \in DOMAIN manifest, NEW changed, Changes(changed), Mutates(v, changed)
    PROVE  IInv'
<1> DEFINE id == NextId
           e == [changed[v] EXCEPT !.applied = changed[v].applied \cup {id}]
           next == [changed EXCEPT ![v] = e]
<1>1. /\ Len(manifest) \in Nat /\ DOMAIN manifest = 1 .. Len(manifest) /\ v \in Versions
  BY Ranges DEF IInv
<1>2. /\ Intend("version_change", v)
      /\ op' = [phase |-> "intended", id |-> id, owner |-> 0, version |-> v, binds |-> FALSE,
                existed |-> TRUE, next |-> [changed EXCEPT ![v].applied = @ \cup {NextId}]]
      /\ UNCHANGED <<manifest, files, owners, outcomes, listed>>
  BY DEF Mutates, Enters
<1>3. [changed EXCEPT ![v].applied = @ \cup {NextId}] = next
  OBVIOUS
<1>4. id \in MutationIds
  BY <1>1, <1>2, IntendEffect DEF IInv, IntentKinds
<1>5. /\ e \in Entry /\ e.applied = manifest[v].applied \cup {id} /\ e.digest = manifest[v].digest
      /\ e.active = changed[v].active /\ e.revoked = changed[v].revoked
      /\ e.signed = changed[v].signed
  BY <1>4 DEF Changes, Entry
<1> HIDE DEF id, e
<1>6. /\ DOMAIN next = DOMAIN manifest /\ next[v] = e
      /\ \A w \in DOMAIN manifest \ {v} : next[w] = changed[w]
  BY DEF Changes
<1>7. next \in Seq(Entry) /\ Len(next) = Len(manifest)
  <2>1. next \in [1 .. Len(manifest) -> Entry]
    BY <1>1, <1>5, <1>6 DEF Changes
  <2> HIDE DEF next
  <2>2. QED
    BY <1>1, <2>1, EntriesSequence
<1> HIDE DEF next
<1>8. Served(next)
  BY <1>5, <1>6 DEF Changes, Served
<1>9. Revises(next, v, id)
  BY <1>5, <1>6, <1>7, <1>8 DEF Changes, Revises
<1>10. op' = [phase |-> "intended", id |-> id, owner |-> 0, version |-> v, binds |-> FALSE,
              existed |-> TRUE, next |-> next]
  BY <1>2, <1>3
<1>11. QED
  BY <1>1, <1>2, <1>7, <1>9, <1>10, EnteredMutation DEF id

\* A version begins to serve in place of the champion.
LEMMA ChampionChanges ==
    ASSUME IInv, NEW v \in DOMAIN manifest, AdmissibleChampion(manifest[v])
    PROVE  Changes(ChampionOf(v))
<1>1. ASSUME NEW w \in DOMAIN manifest
      PROVE  LET old == manifest[w]
                 new == ChampionOf(v)[w]
             IN  /\ new \in Entry /\ new.applied = old.applied /\ new.digest = old.digest
                 /\ new.active = (w = v) /\ new.revoked = old.revoked /\ new.signed = old.signed
  <2> DEFINE status == IF w = v THEN "champion"
                       ELSE IF manifest[w].status = "champion" THEN "inactive"
                       ELSE manifest[w].status
             x == [manifest[w] EXCEPT !.active = (w = v), !.status = status]
  <2>1. manifest[w] \in Entry
    BY Ranges DEF IInv
  <2>2. status \in EntryStatuses
    BY <2>1 DEF Entry, EntryStatuses
  <2>3. ChampionOf(v)[w] = x
    BY DEF ChampionOf
  <2> HIDE DEF status
  <2>4. QED
    BY <2>1, <2>2, <2>3 DEF Entry
<1>2. DOMAIN ChampionOf(v) = DOMAIN manifest
  BY DEF ChampionOf
<1>3. Served(ChampionOf(v))
  BY <1>1, <1>2 DEF Served, AdmissibleChampion, Admissible
<1>4. QED
  BY <1>1, <1>2, <1>3 DEF Changes

\* A version is staged as the challenger.
LEMMA ChallengerChanges ==
    ASSUME IInv, NEW v \in DOMAIN manifest
    PROVE  Changes(ChallengerOf(v))
<1>1. ASSUME NEW w \in DOMAIN manifest
      PROVE  LET old == manifest[w]
                 new == ChallengerOf(v)[w]
             IN  /\ new \in Entry /\ new.applied = old.applied /\ new.digest = old.digest
                 /\ new.active => old.active
                 /\ new.revoked = old.revoked /\ new.signed = old.signed
  <2> DEFINE active == IF w = v THEN FALSE ELSE manifest[w].active
             status == IF w = v THEN "challenger"
                       ELSE IF manifest[w].status = "challenger" THEN "inactive"
                       ELSE manifest[w].status
             x == [manifest[w] EXCEPT !.active = active, !.status = status]
  <2>1. manifest[w] \in Entry
    BY Ranges DEF IInv
  <2>2. active \in BOOLEAN /\ (active => manifest[w].active) /\ status \in EntryStatuses
    BY <2>1 DEF Entry, EntryStatuses
  <2>3. ChallengerOf(v)[w] = x
    BY DEF ChallengerOf
  <2> HIDE DEF active, status
  <2>4. QED
    BY <2>1, <2>2, <2>3 DEF Entry
<1>2. DOMAIN ChallengerOf(v) = DOMAIN manifest
  BY DEF ChallengerOf
<1>3. Served(ChallengerOf(v))
  BY <1>1, <1>2 DEF Served, IInv
<1>4. QED
  BY <1>1, <1>2, <1>3 DEF Changes

\* Replacing the entry of one version by one that does not serve unless the old
\* one did, with no fewer signatures.
LEMMA EntryChanges ==
    ASSUME IInv, NEW v \in DOMAIN manifest, NEW e \in Entry,
           e.applied = manifest[v].applied, e.digest = manifest[v].digest,
           e.active => /\ manifest[v].active /\ e.revoked = manifest[v].revoked
                       /\ manifest[v].signed \subseteq e.signed
    PROVE  Changes([manifest EXCEPT ![v] = e])
<1> DEFINE new == [manifest EXCEPT ![v] = e]
<1>1. /\ \A w \in DOMAIN manifest : manifest[w] \in Entry
      /\ Served(manifest)
  BY Ranges DEF IInv
<1>2. DOMAIN new = DOMAIN manifest /\ new[v] = e
      /\ \A w \in DOMAIN manifest \ {v} : new[w] = manifest[w]
  OBVIOUS
<1>3. e.signed \subseteq Roles
  BY DEF Entry
<1> HIDE DEF new
<1>4. Served(new)
  <2>1. ASSUME NEW w \in DOMAIN new, new[w].active
        PROVE  manifest[w].active /\ ~ new[w].revoked /\ new[w].signed = Roles
    <3>1. CASE w = v
      BY <1>1, <1>2, <1>3, <2>1, <3>1 DEF Served
    <3>2. CASE w # v
      BY <1>1, <1>2, <2>1, <3>2 DEF Served
    <3>3. QED
      BY <3>1, <3>2
  <2>2. QED
    BY <1>1, <1>2, <2>1 DEF Served
<1>5. Changes(new)
  BY <1>1, <1>2, <1>4 DEF Changes
<1>6. QED
  BY <1>5 DEF new

\* Every mutation of a version preserves the invariant as it takes the lock.
LEMMA VersionStep ==
    ASSUME IInv, NEW v \in DOMAIN manifest,
           \/ PromoteVersion(v) \/ PromoteChallenger(v) \/ Rollback(v) \/ RevokeVersion(v)
           \/ \E role \in Roles : SignOff(v, role) \/ RevokeSignOff(v, role)
    PROVE  IInv'
<1>1. manifest[v] \in Entry
  BY Ranges DEF IInv
<1>2. CASE PromoteVersion(v) \/ Rollback(v)
  BY <1>2, ChampionChanges, MutatesStep DEF PromoteVersion, Rollback
<1>3. CASE PromoteChallenger(v)
  BY <1>3, ChallengerChanges, MutatesStep DEF PromoteChallenger
<1>4. CASE RevokeVersion(v)
  <2> DEFINE e == VersionRevoked(manifest[v])
  <2>1. /\ e \in Entry /\ e.applied = manifest[v].applied /\ e.digest = manifest[v].digest
        /\ ~ e.active
    BY <1>1 DEF VersionRevoked, Entry, EntryStatuses
  <2>2. Mutates(v, [manifest EXCEPT ![v] = e])
    BY <1>4 DEF RevokeVersion
  <2> HIDE DEF e
  <2>3. QED
    BY <2>1, <2>2, EntryChanges, MutatesStep
<1>5. ASSUME NEW role \in Roles, SignOff(v, role)
      PROVE  IInv'
  <2> DEFINE e == SignedOff(manifest[v], role)
  <2>1. /\ e \in Entry /\ e.applied = manifest[v].applied /\ e.digest = manifest[v].digest
        /\ e.active = manifest[v].active /\ e.revoked = manifest[v].revoked
        /\ manifest[v].signed \subseteq e.signed
    <3> DEFINE signed == manifest[v].signed \cup {role}
               eligible == (manifest[v].eligible \/ signed = Roles)
               status == IF signed = Roles /\ manifest[v].status \in {"inactive", "candidate"}
                         THEN "approved" ELSE manifest[v].status
               x == [manifest[v] EXCEPT !.signed = signed, !.eligible = eligible,
                                        !.status = status]
    <3>1. signed \in SUBSET Roles /\ eligible \in BOOLEAN /\ status \in EntryStatuses
      BY <1>1 DEF Entry, EntryStatuses
    <3>2. e = x
      BY DEF SignedOff
    <3>3. manifest[v].signed \subseteq signed
      OBVIOUS
    <3> HIDE DEF e, signed, eligible, status
    <3>4. QED
      BY <1>1, <3>1, <3>2, <3>3 DEF Entry
  <2>2. Mutates(v, [manifest EXCEPT ![v] = e])
    BY <1>5 DEF SignOff
  <2> HIDE DEF e
  <2>3. QED
    BY <2>1, <2>2, EntryChanges, MutatesStep
<1>6. ASSUME NEW role \in Roles, RevokeSignOff(v, role)
      PROVE  IInv'
  <2> DEFINE e == SignOffRevoked(manifest[v], role)
  <2>1. /\ e \in Entry /\ e.applied = manifest[v].applied /\ e.digest = manifest[v].digest
        /\ ~ e.active
    BY <1>1 DEF SignOffRevoked, Entry, EntryStatuses
  <2>2. Mutates(v, [manifest EXCEPT ![v] = e])
    BY <1>6 DEF RevokeSignOff
  <2> HIDE DEF e
  <2>3. QED
    BY <2>1, <2>2, EntryChanges, MutatesStep
<1>7. QED
  BY <1>2, <1>3, <1>4, <1>5, <1>6

-----------------------------------------------------------------------------
(* A mutation under way. *)

\* What the invariant says of a mutation in a phase.
LEMMA InPhase ==
    ASSUME IInv, NEW phase \in Phases, At(phase)
    PROVE  /\ op # Idle /\ op \in Operation /\ op.phase = phase /\ Underway
           /\ RegistryTypeOK /\ Belong /\ AuditIsTruthful /\ Served(manifest)
  BY PhaseMeansBusy DEF IInv, At

\* The lock is released, with the files and the audit trail in agreement.
LEMMA LeavesFrame ==
    ASSUME RegistryTypeOK, Served(manifest), Belong', AuditIsTruthful', op' = Idle,
           outcomes' \in [MutationIds -> {"none", "COMMITTED", "FAILED"}],
           files' \in [Versions -> Digests \cup {NoFile}],
           UNCHANGED <<manifest, owners, intents, listed>>
    PROVE  IInv'
<1>1. RegistryTypeOK'
  BY DEF RegistryTypeOK
<1>2. Served(manifest)'
  BY DEF Served
<1>3. QED
  BY <1>1, <1>2 DEF IInv

\* What a mutation under way says is kept while its files, intents and outcome are.
LEMMA RevisionKept ==
    ASSUME op'.id = op.id, op'.version = op.version, op'.next = op.next, UNCHANGED manifest
    PROVE  Revises(op.next, op.version, op.id) => Revises(op.next, op.version, op.id)'
  BY DEF Revises, Served

\* The staged artifact is published.
LEMMA PublishStep ==
    ASSUME IInv, PublishArtifact
    PROVE  IInv'
<1>1. /\ op # Idle /\ op \in Operation /\ op.phase = "intended" /\ Underway
      /\ RegistryTypeOK /\ Belong /\ AuditIsTruthful /\ Served(manifest)
  BY InPhase DEF PublishArtifact, Phases
<1>2. /\ op' \in Operation /\ op'.phase = "published" /\ op' # Idle
      /\ op'.id = op.id /\ op'.owner = op.owner /\ op'.version = op.version
      /\ op'.next = op.next
  BY <1>1, AdvanceEffect DEF PublishArtifact, Phases
<1>3. /\ UNCHANGED <<manifest, owners, intents, outcomes, listed>> /\ Registering
      /\ files' = [files EXCEPT ![op.version] = op.next[op.version].digest]
  BY DEF PublishArtifact
<1>4. op.id # 0 /\ Revises(op.next, op.version, op.id)
  BY <1>1 DEF Underway, BeforeSave
<1>5. op.next[op.version].digest \in Digests
  <2>1. op.next \in Seq(Entry) /\ op.version \in DOMAIN op.next
    BY <1>1, <1>4 DEF Operation, Revises
  <2>2. op.next[op.version] \in Entry
    BY <2>1, LenProperties
  <2>3. QED
    BY <2>2 DEF Entry
<1>6. RegistryTypeOK'
  BY <1>1, <1>2, <1>3, <1>5 DEF RegistryTypeOK
<1>7. Belong' /\ AuditIsTruthful' /\ Served(manifest)'
  BY <1>1, <1>3 DEF Belong, AuditIsTruthful, InTheFiles, Served
<1>8. Underway'
  <2>1. Revises(op.next, op.version, op.id)'
    BY <1>2, <1>3, <1>4, RevisionKept
  <2>2. Undecided(op.id)'
    BY <1>1, <1>2, <1>3, <1>4 DEF Underway, BeforeSave, Undecided, InTheFiles
  <2>3. Registering'
    BY <1>2, <1>3 DEF Registering
  <2> HIDE DEF Revises, Undecided, Registering
  <2>4. QED
    BY <1>1, <1>2, <1>3, <1>4, <2>1, <2>2, <2>3 DEF Underway, BeforeSave, Published
<1>9. QED
  BY <1>6, <1>7, <1>8 DEF IInv

\* A binding of its own takes the lock with its intent.
LEMMA BindStep ==
    ASSUME IInv, BindOwnership
    PROVE  IInv'
<1>0. PICK id : id = NextId
  OBVIOUS
<1>1. /\ RegistryTypeOK /\ Belong /\ AuditIsTruthful /\ Served(manifest)
      /\ Intend("bind_ownership", 1) /\ UNCHANGED <<manifest, files, owners, outcomes, listed>>
      /\ op' = [phase |-> "binding", id |-> 0, owner |-> id, version |-> 1, binds |-> TRUE,
                existed |-> FALSE, next |-> <<>>]
  BY <1>0 DEF IInv, BindOwnership, Enters
<1>2. 1 \in Versions
  BY RegistryAssumption DEF Versions
<1>3. /\ intents' \in Seq(Intent) /\ Len(intents') <= MaxMutations
      /\ id \in MutationIds /\ id # 0 /\ id \in DOMAIN intents'
  BY <1>0, <1>1, <1>2, IntendEffect DEF IntentKinds
<1>4. Belong' /\ AuditIsTruthful' /\ Undecided(id)'
  BY <1>0, <1>1, <1>2, NewIntent DEF IntentKinds
<1>5. op' \in Operation
  <2>1. <<>> \in Seq(Entry)
    OBVIOUS
  <2>2. QED
    BY <1>1, <1>2, <1>3, <2>1 DEF Operation, Phases
<1>6. RegistryTypeOK' /\ Served(manifest)'
  BY <1>1, <1>3, <1>5 DEF RegistryTypeOK, Intent, Served
<1>7. op'.phase = "binding" /\ op'.id = 0 /\ op'.owner = id
  BY <1>1
<1>8. Undecided(op.owner)'
  BY <1>4, <1>7 DEF Undecided, InTheFiles
<1>9. Underway'
  BY <1>3, <1>7, <1>8 DEF Underway, BeforeSave, Published
<1>10. QED
  BY <1>4, <1>6, <1>9 DEF IInv

\* A registration that binds appends the intent of the binding.
LEMMA BindOnRegistrationStep ==
    ASSUME IInv, BindOnRegistration
    PROVE  IInv'
<1>0. PICK id : id = NextId
  OBVIOUS
<1>1. /\ op # Idle /\ op \in Operation /\ op.phase = "published" /\ Underway
      /\ RegistryTypeOK /\ Belong /\ AuditIsTruthful /\ Served(manifest)
  BY InPhase DEF BindOnRegistration, Phases
<1>2. /\ Intend("bind_ownership", 1) /\ UNCHANGED <<manifest, files, owners, outcomes, listed>>
      /\ op' = [op EXCEPT !.phase = "binding", !.owner = id]
  BY <1>0 DEF BindOnRegistration
<1>3. 1 \in Versions
  BY RegistryAssumption DEF Versions
<1>4. /\ intents' \in Seq(Intent) /\ Len(intents') <= MaxMutations
      /\ id \in MutationIds /\ id # 0 /\ id \notin DOMAIN intents
      /\ DOMAIN intents' = DOMAIN intents \cup {id}
      /\ \A m \in DOMAIN intents : intents'[m] = intents[m]
  BY <1>0, <1>1, <1>2, <1>3, IntendEffect DEF IntentKinds
<1>5. Belong' /\ AuditIsTruthful' /\ Undecided(id)'
  BY <1>0, <1>1, <1>2, <1>3, NewIntent DEF IntentKinds
<1>6. /\ op' \in Operation /\ op'.phase = "binding" /\ op'.id = op.id /\ op'.owner = id
      /\ op'.version = op.version /\ op'.next = op.next
  BY <1>1, <1>2, <1>4 DEF Operation, Phases
<1>7. RegistryTypeOK' /\ Served(manifest)'
  BY <1>1, <1>2, <1>4, <1>6 DEF RegistryTypeOK, Intent, Served
<1>8. /\ op.id # 0 /\ op.id \in DOMAIN intents /\ Undecided(op.id)
      /\ intents[op.id].version = op.version
      /\ Revises(op.next, op.version, op.id)
      /\ Registering /\ op.version \notin DOMAIN manifest
  BY <1>1 DEF Underway, BeforeSave, Published
<1>9. Underway'
  <2>1. Revises(op.next, op.version, op.id)'
    BY <1>2, <1>6, <1>8, RevisionKept
  <2>2. Undecided(op.id)' /\ Undecided(op.owner)'
    BY <1>2, <1>5, <1>6, <1>8 DEF Undecided, InTheFiles
  <2>3. Registering'
    BY <1>4, <1>6, <1>8 DEF Registering
  <2> HIDE DEF Revises, Undecided, Registering
  <2>4. QED
    BY <1>2, <1>4, <1>6, <1>8, <2>1, <2>2, <2>3 DEF Underway, BeforeSave, Published
<1>10. QED
  BY <1>5, <1>7, <1>9 DEF IInv

\* The ownership record is written with the id of the binding.
LEMMA SaveOwnershipStep ==
    ASSUME IInv, SaveOwnership
    PROVE  IInv'
<1>1. /\ op # Idle /\ op \in Operation /\ op.phase = "binding" /\ Underway
      /\ RegistryTypeOK /\ Belong /\ AuditIsTruthful /\ Served(manifest)
  BY InPhase DEF SaveOwnership, Phases
<1>2. /\ op' \in Operation /\ op'.phase = "bound" /\ op' # Idle
      /\ op'.id = op.id /\ op'.owner = op.owner /\ op'.version = op.version
      /\ op'.next = op.next
  BY <1>1, AdvanceEffect DEF SaveOwnership, Phases
<1>3. /\ UNCHANGED <<manifest, files, intents, outcomes, listed>>
      /\ owners' = owners \cup {op.owner}
  BY DEF SaveOwnership
<1>4. /\ op.owner \in DOMAIN intents /\ op.owner # op.id /\ outcomes[op.owner] = "none"
      /\ op.owner \in MutationIds
  BY <1>1, Ranges DEF Underway, Undecided
<1>5. RegistryTypeOK' /\ Served(manifest)'
  BY <1>1, <1>2, <1>3, <1>4 DEF RegistryTypeOK, Served
<1>6. Belong' /\ AuditIsTruthful'
  BY <1>1, <1>3, <1>4 DEF Belong, AuditIsTruthful, InTheFiles
<1>7. Underway'
  <2>1. CASE op.id = 0
    BY <1>1, <1>2, <1>3, <1>4, <2>1 DEF Underway
  <2>2. CASE op.id # 0
    <3>1. /\ Undecided(op.id) /\ intents[op.id].version = op.version
          /\ Revises(op.next, op.version, op.id)
          /\ Registering /\ op.version \notin DOMAIN manifest
      BY <1>1, <2>2 DEF Underway, BeforeSave, Published
    <3>2. Revises(op.next, op.version, op.id)'
      BY <1>2, <1>3, <3>1, RevisionKept
    <3>3. Undecided(op.id)' /\ Registering'
      BY <1>2, <1>3, <1>4, <3>1 DEF Undecided, InTheFiles, Registering
    <3> HIDE DEF Revises, Undecided, Registering
    <3>4. QED
      BY <1>1, <1>2, <1>3, <1>4, <2>2, <3>1, <3>2, <3>3 DEF Underway, BeforeSave, Published
  <2>3. QED
    BY <2>1, <2>2
<1>8. QED
  BY <1>5, <1>6, <1>7 DEF IInv

\* The outcome of a binding is recorded, and the registration around it, if any, goes
\* on or fails.
LEMMA BindingEndsStep ==
    ASSUME IInv, FinalizeOwnership \/ SaveOwnershipFails
    PROVE  IInv'
<1>1. /\ op # Idle /\ op \in Operation /\ op.phase \in {"binding", "bound"} /\ Underway
      /\ RegistryTypeOK /\ Belong /\ AuditIsTruthful /\ Served(manifest)
  BY InPhase DEF FinalizeOwnership, SaveOwnershipFails, Phases
<1>2. PICK phase \in {"owned", "failing"}, outcome \in {"COMMITTED", "FAILED"} :
         /\ Finalize(op.owner, outcome)
         /\ op' = IF op.id = 0 THEN Idle ELSE [op EXCEPT !.phase = phase]
         /\ phase = "owned" <=> outcome = "COMMITTED"
         /\ phase = "owned" => op.phase = "bound"
         /\ phase = "failing" => op.phase = "binding"
  BY DEF FinalizeOwnership, SaveOwnershipFails, At
<1>3. UNCHANGED <<manifest, files, owners, intents, listed>>
  BY DEF FinalizeOwnership, SaveOwnershipFails
<1>4. /\ op.owner \in DOMAIN intents /\ op.owner # op.id
      /\ outcome = "COMMITTED" <=> InTheFiles(op.owner)
  BY <1>1, <1>2 DEF Underway, Undecided, InTheFiles
<1>5. /\ outcomes' \in [MutationIds -> {"none", "COMMITTED", "FAILED"}]
      /\ \A i \in MutationIds \ {op.owner} : outcomes'[i] = outcomes[i]
      /\ Belong' /\ AuditIsTruthful'
  BY <1>1, <1>2, <1>3, <1>4, FinalizeEffect
<1>6. CASE op.id = 0
  <2>1. files' \in [Versions -> Digests \cup {NoFile}] /\ op' = Idle
    BY <1>1, <1>2, <1>3, <1>6 DEF RegistryTypeOK
  <2>2. QED
    BY <1>1, <1>3, <1>5, <2>1, LeavesFrame
<1>7. CASE op.id # 0
  <2>1. /\ op' \in Operation /\ op'.phase = phase /\ op'.id = op.id /\ op'.owner = op.owner
        /\ op'.version = op.version /\ op'.next = op.next
    BY <1>1, <1>2, <1>7 DEF Operation, Phases
  <2>2. RegistryTypeOK' /\ Served(manifest)'
    BY <1>1, <1>3, <1>5, <2>1 DEF RegistryTypeOK, Served
  <2>3. /\ op.id \in DOMAIN intents /\ op.id \in MutationIds /\ Undecided(op.id)
        /\ intents[op.id].version = op.version
        /\ Revises(op.next, op.version, op.id)
        /\ Registering /\ op.version \notin DOMAIN manifest
    BY <1>1, <1>7, Ranges DEF Underway, BeforeSave, Published
  <2>4. Revises(op.next, op.version, op.id)'
    BY <1>3, <2>1, <2>3, RevisionKept
  <2>5. Undecided(op.id)' /\ Registering'
    BY <1>3, <1>4, <1>5, <2>1, <2>3 DEF Undecided, InTheFiles, Registering
  <2>6. Underway'
    <3> HIDE DEF Revises, Undecided, Registering
    <3>1. QED
      BY <1>1, <1>3, <1>4, <1>7, <2>1, <2>3, <2>4, <2>5 DEF Underway, BeforeSave, Published
  <2>7. QED
    BY <1>5, <2>2, <2>6 DEF IInv
<1>8. QED
  BY <1>6, <1>7

\* The manifest is saved with the id of its mutation.
LEMMA SaveManifestStep ==
    ASSUME IInv, SaveManifest
    PROVE  IInv'
<1>1. /\ op # Idle /\ op \in Operation /\ op.phase \in {"intended", "published", "owned"}
      /\ Underway /\ RegistryTypeOK /\ Belong /\ AuditIsTruthful /\ Served(manifest)
  BY InPhase DEF SaveManifest, ReadyToSave, Phases
<1>2. /\ op' \in Operation /\ op'.phase = "saved" /\ op' # Idle
      /\ op'.id = op.id /\ op'.owner = op.owner
  BY <1>1, AdvanceEffect DEF SaveManifest, Phases
<1>3. manifest' = op.next /\ UNCHANGED <<files, owners, intents, outcomes, listed>>
  BY DEF SaveManifest
<1>4. /\ op.id # 0 /\ op.id \in DOMAIN intents /\ Undecided(op.id)
      /\ intents[op.id].version = op.version
      /\ Revises(op.next, op.version, op.id)
  BY <1>1 DEF Underway, BeforeSave
<1>5. Registering \/ Len(op.next) = Len(manifest)
  BY <1>1, <1>4 DEF Underway, Published
<1>6. Registering => op.version \notin DOMAIN manifest
  BY <1>1, <1>4 DEF Underway, BeforeSave
<1>7. op.next \in Seq(Entry) /\ Len(op.next) <= MaxVersions
  <2>1. op.next \in Seq(Entry) /\ op.version \in Versions
    BY <1>1 DEF Operation
  <2>2. /\ Len(manifest) \in Nat /\ DOMAIN manifest = 1 .. Len(manifest)
        /\ Len(manifest) <= MaxVersions
    BY <1>1, Ranges DEF RegistryTypeOK
  <2>3. DOMAIN op.next = 1 .. Len(op.next) /\ Len(op.next) \in Nat
    BY <2>1, LenProperties
  <2>4. /\ Len(op.next) \in {Len(manifest), Len(manifest) + 1}
        /\ op.version \in DOMAIN op.next
    BY <1>4 DEF Revises
  <2>5. QED
    BY <1>5, <1>6, <2>1, <2>2, <2>3, <2>4, RegistryAssumption DEF Versions
<1>8. RegistryTypeOK'
  BY <1>1, <1>2, <1>3, <1>7 DEF RegistryTypeOK
<1>9. Served(manifest)'
  BY <1>3, <1>4 DEF Revises, Served
<1>10. \A m : InTheFiles(m)' <=> InTheFiles(m) \/ m = op.id
  <2>1. DOMAIN manifest \subseteq DOMAIN op.next
    <3>1. /\ DOMAIN manifest = 1 .. Len(manifest) /\ Len(manifest) \in Nat
          /\ DOMAIN op.next = 1 .. Len(op.next) /\ Len(op.next) \in Nat
      BY <1>1, <1>7, Ranges, LenProperties
    <3>2. Len(op.next) \in {Len(manifest), Len(manifest) + 1}
      BY <1>4 DEF Revises
    <3>3. QED
      BY <3>1, <3>2
  <2>2. QED
    BY <1>3, <1>4, <2>1 DEF InTheFiles, Revises
<1>11. Belong'
  BY <1>1, <1>3, <1>4 DEF Belong, Revises
<1>12. AuditIsTruthful'
  BY <1>1, <1>3, <1>4, <1>10 DEF AuditIsTruthful, Undecided
<1>13. Underway'
  <2>1. InTheFiles(op.id)'
    BY <1>2, <1>3, <1>4 DEF InTheFiles, Revises
  <2> HIDE DEF InTheFiles
  <2>2. QED
    BY <1>1, <1>2, <1>3, <1>4, <2>1 DEF Underway, BeforeSave, Published
<1>14. QED
  BY <1>8, <1>9, <1>11, <1>12, <1>13 DEF IInv

\* The outcome with which a mutation ends is what the files say of it.
LEMMA OutcomeIsTruthful ==
    ASSUME IInv, FinalizeMutation \/ AbortMutation \/ RecordOutcome
    PROVE  /\ op.id \in DOMAIN intents
           /\ \E outcome \in {"COMMITTED", "FAILED"} :
                 Finalize(op.id, outcome) /\ (outcome = "COMMITTED" <=> InTheFiles(op.id))
<1>1. /\ op # Idle /\ op \in Operation
      /\ op.phase \in {"saved", "intended", "published", "owned", "failing", "reconciling"}
      /\ Underway /\ RegistryTypeOK /\ Belong /\ AuditIsTruthful /\ Served(manifest)
  <2>1. op.phase \in {"saved", "intended", "published", "owned", "failing", "reconciling"}
    BY DEF FinalizeMutation, AbortMutation, RecordOutcome, At
  <2>2. op.phase \in Phases
    BY <2>1 DEF Phases
  <2>3. QED
    BY <2>1, <2>2, InPhase DEF At
<1>2. op.id \in DOMAIN intents
  BY <1>1 DEF Underway
<1>3. \E outcome \in {"COMMITTED", "FAILED"} :
         Finalize(op.id, outcome) /\ (outcome = "COMMITTED" <=> InTheFiles(op.id))
  <2>1. CASE FinalizeMutation
    BY <1>1, <2>1 DEF FinalizeMutation, At, Underway
  <2>2. CASE AbortMutation
    BY <1>1, <1>2, <2>2, AppliedDecides DEF AbortMutation
  <2>3. CASE RecordOutcome
    BY <1>1, <1>2, <2>3, AppliedDecides DEF RecordOutcome
  <2>4. QED
    BY <2>1, <2>2, <2>3
<1>4. QED
  BY <1>2, <1>3

\* A mutation ends by recording what the files say of it.
LEMMA EndStep ==
    ASSUME IInv, FinalizeMutation \/ AbortMutation \/ RecordOutcome
    PROVE  IInv'
<1>1. RegistryTypeOK /\ Belong /\ AuditIsTruthful /\ Served(manifest)
  BY DEF IInv
<1>2. op.id \in DOMAIN intents
  BY OutcomeIsTruthful
<1>3. PICK outcome \in {"COMMITTED", "FAILED"} :
         Finalize(op.id, outcome) /\ (outcome = "COMMITTED" <=> InTheFiles(op.id))
  BY OutcomeIsTruthful
<1>4. UNCHANGED <<manifest, owners, intents, listed>> /\ op' = Idle
  BY DEF FinalizeMutation, AbortMutation, RecordOutcome, Leaves
<1>5. files' \in [Versions -> Digests \cup {NoFile}]
  BY <1>1 DEF FinalizeMutation, AbortMutation, RecordOutcome, RegistryTypeOK
<1>6. /\ outcomes' \in [MutationIds -> {"none", "COMMITTED", "FAILED"}]
      /\ Belong' /\ AuditIsTruthful'
  BY <1>1, <1>2, <1>3, <1>4, FinalizeEffect
<1>7. QED
  BY <1>1, <1>4, <1>5, <1>6, LeavesFrame

\* A crash releases the lock and leaves everything else as it is.
LEMMA CrashStep ==
    ASSUME IInv, Crash
    PROVE  IInv'
<1>1. RegistryTypeOK /\ Belong /\ AuditIsTruthful /\ Served(manifest)
  BY DEF IInv
<1>2. UNCHANGED <<manifest, files, owners, intents, outcomes, listed>> /\ op' = Idle
  BY DEF Crash, Leaves
<1>3. Belong' /\ AuditIsTruthful'
  BY <1>1, <1>2 DEF Belong, AuditIsTruthful, InTheFiles
<1>4. QED
  BY <1>1, <1>2, <1>3, LeavesFrame DEF RegistryTypeOK

\* A reconciler lists an intent or leaves it.
LEMMA ListStep ==
    ASSUME IInv, NEW r \in Reconcilers,
           LeaveUnresolved(r) \/ \E m \in MutationIds : ListPending(r, m)
    PROVE  IInv'
<1>1. /\ UNCHANGED <<manifest, files, owners, intents, outcomes, op>>
      /\ listed' \in [Reconcilers -> MutationIds \cup {0}]
  BY DEF IInv, RegistryTypeOK, LeaveUnresolved, Examined, ListPending
<1>2. RegistryTypeOK'
  BY <1>1 DEF IInv, RegistryTypeOK
<1>3. Belong' /\ AuditIsTruthful' /\ Served(manifest)'
  BY <1>1 DEF IInv, Belong, AuditIsTruthful, InTheFiles, Served
<1>4. op # Idle => Underway'
  BY <1>1 DEF IInv, Underway, Undecided, InTheFiles, Revises, Served, Registering
<1>5. QED
  BY <1>1, <1>2, <1>3, <1>4 DEF IInv

\* A reconciler takes the lock for an intent that is still pending.
LEMMA ReconcileStep ==
    ASSUME IInv, NEW r \in Reconcilers, Reconcile(r)
    PROVE  IInv'
<1>0. PICK m \in MutationIds : m = listed[r] /\ m # 0
  BY DEF Reconcile, Examined, IInv, RegistryTypeOK
<1>1. /\ RegistryTypeOK /\ Belong /\ AuditIsTruthful /\ Served(manifest)
  BY DEF IInv
<1>2. /\ Pending(m) /\ UNCHANGED <<manifest, owners, intents, outcomes>>
      /\ op' = [phase |-> "reconciling", id |-> m, owner |-> 0, version |-> 1,
                binds |-> FALSE, existed |-> TRUE, next |-> <<>>]
      /\ listed' = [listed EXCEPT ![r] = 0]
      /\ files' = IF Abandoned(m) THEN [files EXCEPT ![intents[m].version] = NoFile] ELSE files
  BY <1>0 DEF Reconcile, Enters, Examined
<1>3. m \in DOMAIN intents
  BY <1>0, <1>1, <1>2, Ranges DEF Pending, MutationIds
<1>4. op' \in Operation
  <2>1. <<>> \in Seq(Entry) /\ 1 \in Versions
    BY RegistryAssumption DEF Versions
  <2>2. QED
    BY <1>0, <1>2, <2>1 DEF Operation, Phases
<1>5. RegistryTypeOK' /\ Served(manifest)'
  BY <1>1, <1>2, <1>4 DEF RegistryTypeOK, Served
<1>6. Belong' /\ AuditIsTruthful'
  BY <1>1, <1>2 DEF Belong, AuditIsTruthful, InTheFiles
<1>7. op'.phase = "reconciling" /\ op'.id = m /\ op'.owner = 0
  BY <1>2
<1>8. Underway'
  BY <1>0, <1>2, <1>3, <1>7 DEF Underway, BeforeSave, Published
<1>9. QED
  BY <1>5, <1>6, <1>8 DEF IInv

-----------------------------------------------------------------------------
(* The invariant holds. *)

\* The invariant is inductive.
LEMMA IInvStep ==
    ASSUME IInv, [RegistryNext]_registryVars
    PROVE  IInv'
<1>1. CASE UNCHANGED registryVars
  <2>1. RegistryTypeOK' /\ Belong' /\ AuditIsTruthful' /\ Served(manifest)'
    BY <1>1 DEF IInv, registryVars, RegistryTypeOK, Belong, AuditIsTruthful, InTheFiles, Served
  <2>2. op # Idle => Underway'
    BY <1>1 DEF IInv, registryVars, Underway, Undecided, InTheFiles, Revises, Served, Registering
  <2>3. QED
    BY <1>1, <2>1, <2>2 DEF IInv, registryVars
<1>2. QED
  BY <1>1, SaveVersionStep, VersionStep, PublishStep, BindStep, BindOnRegistrationStep,
     SaveOwnershipStep, BindingEndsStep, SaveManifestStep, EndStep, CrashStep, ListStep,
     ReconcileStep DEF RegistryNext

\* The invariant holds initially and is preserved.
LEMMA IInvHolds == RegistrySpec => []IInv
<1>1. RegistryInit => IInv
  <2> SUFFICES ASSUME RegistryInit
               PROVE  IInv
    OBVIOUS
  <2>1. manifest = <<>> /\ intents = <<>> /\ DOMAIN manifest = {} /\ DOMAIN intents = {}
    BY DEF RegistryInit
  <2>2. RegistryTypeOK
    <3>1. /\ manifest \in Seq(Entry) /\ Len(manifest) = 0
          /\ intents \in Seq([kind : IntentKinds, version : Versions]) /\ Len(intents) = 0
      BY <2>1, EmptySeq
    <3>2. QED
      BY <3>1, RegistryAssumption DEF RegistryInit, RegistryTypeOK
  <2>3. Belong /\ AuditIsTruthful /\ Served(manifest)
    BY <2>1 DEF RegistryInit, Belong, AuditIsTruthful, Served
  <2>4. QED
    BY <2>2, <2>3 DEF RegistryInit, IInv
<1>2. QED
  BY <1>1, IInvStep, PTL DEF RegistrySpec

\* The registry's variables keep their types: RegistrySpec => []RegistryTypeOK.
THEOREM RegistryTyped == RegistrySpec => []RegistryTypeOK
<1>1. IInv => RegistryTypeOK
  BY DEF IInv
<1>2. QED
  BY <1>1, IInvHolds, PTL

\* An outcome in the audit chain is the truth about the files, for good, whoever
\* crashed and whoever reconciled: RegistrySpec => []AuditIsTruthful.
THEOREM AuditTruthful == RegistrySpec => []AuditIsTruthful
<1>1. IInv => AuditIsTruthful
  BY DEF IInv
<1>2. QED
  BY <1>1, IInvHolds, PTL

\* At most one version serves, and it is not revoked and signed by both roles:
\* RegistrySpec => []ServedIsApproved.
THEOREM ServingApproved == RegistrySpec => []ServedIsApproved
<1>1. IInv => ServedIsApproved
  BY DEF IInv, Served, ServedIsApproved
<1>2. QED
  BY <1>1, IInvHolds, PTL

-----------------------------------------------------------------------------
(* The artifacts. *)

\* Where loads do not fail, no step takes the artifact of a version in the manifest
\* away, and a version enters the manifest with its artifact published.
LEMMA ArtifactsStep ==
    ASSUME ~ UnreadableLater, IInv, ArtifactsKept, [RegistryNext]_registryVars
    PROVE  ArtifactsKept'
<1> USE DEF ArtifactsKept, CommittedFilesExist, Intact
<1>1. CASE UNCHANGED <<manifest, files>> /\ op' = Idle
  BY <1>1
<1>2. ASSUME UNCHANGED <<manifest, files>>,
             op'.phase = "intended" \/ op'.phase \notin Published \/ op'.id = 0
      PROVE  ArtifactsKept'
  BY <1>2 DEF Published
<1>3. ASSUME NEW j \in TrainingJobs, NEW d \in Digests, NEW binds \in BOOLEAN,
             SaveVersion(j, d, binds)
      PROVE  ArtifactsKept'
  BY <1>2, <1>3 DEF SaveVersion, Enters
<1>4. ASSUME NEW v \in DOMAIN manifest,
             \/ PromoteVersion(v) \/ PromoteChallenger(v) \/ Rollback(v) \/ RevokeVersion(v)
             \/ \E role \in Roles : SignOff(v, role) \/ RevokeSignOff(v, role)
      PROVE  ArtifactsKept'
  <2>1. PICK changed : Mutates(v, changed)
    BY <1>4 DEF PromoteVersion, PromoteChallenger, Rollback, RevokeVersion, SignOff, RevokeSignOff
  <2>2. QED
    BY <1>2, <2>1 DEF Mutates, Enters
<1>5. CASE BindOwnership
  BY <1>2, <1>5 DEF BindOwnership, Enters
<1>6. CASE PublishArtifact
  <2>1. /\ op # Idle /\ op \in Operation /\ op.phase = "intended" /\ Underway /\ RegistryTypeOK
    BY <1>6, InPhase DEF PublishArtifact, Phases
  <2>2. op'.id = op.id /\ op'.version = op.version /\ op'.next = op.next
    BY <1>6, <2>1, AdvanceEffect DEF PublishArtifact, Phases
  <2>3. /\ files' = [files EXCEPT ![op.version] = op.next[op.version].digest]
        /\ UNCHANGED manifest /\ Registering
    BY <1>6 DEF PublishArtifact
  <2>4. op.version \notin DOMAIN manifest /\ op.version \in Versions
        /\ files \in [Versions -> Digests \cup {NoFile}]
    BY <2>1, <2>3 DEF Underway, BeforeSave, Operation, RegistryTypeOK
  <2>5. QED
    BY <2>2, <2>3, <2>4
<1>7. CASE BindOnRegistration \/ SaveOwnership \/ FinalizeOwnership \/ SaveOwnershipFails
  <2>1. /\ op # Idle /\ op \in Operation /\ op.phase \in Published /\ RegistryTypeOK
    BY <1>7, InPhase DEF BindOnRegistration, SaveOwnership, FinalizeOwnership,
       SaveOwnershipFails, Phases, Published
  <2>2. UNCHANGED <<manifest, files>>
    BY <1>7 DEF BindOnRegistration, SaveOwnership, FinalizeOwnership, SaveOwnershipFails
  <2>3. \/ op' = Idle
        \/ op'.id = op.id /\ op'.version = op.version /\ op'.next = op.next
    BY <1>7, <2>1 DEF BindOnRegistration, SaveOwnership, FinalizeOwnership,
       SaveOwnershipFails, Advance, Operation
  <2>4. QED
    BY <2>1, <2>2, <2>3
<1>8. CASE SaveManifest
  <2>1. /\ op # Idle /\ op \in Operation /\ op.phase \in {"intended", "published", "owned"}
        /\ Underway /\ RegistryTypeOK
    BY <1>8, InPhase DEF SaveManifest, ReadyToSave, Phases
  <2>2. op'.phase = "saved" /\ manifest' = op.next /\ UNCHANGED files
    BY <1>8, <2>1, AdvanceEffect DEF SaveManifest, Phases
  <2>3. op.id # 0 /\ Revises(op.next, op.version, op.id)
    BY <2>1 DEF Underway, BeforeSave
  <2>4. \A v \in DOMAIN manifest : op.next[v].digest = files[v]
    BY <2>3 DEF Revises
  <2>5. ASSUME NEW v \in DOMAIN op.next, v \notin DOMAIN manifest
        PROVE  files[v] = op.next[v].digest
    <3>1. /\ DOMAIN manifest = 1 .. Len(manifest) /\ Len(manifest) \in Nat
          /\ DOMAIN op.next = 1 .. Len(op.next) /\ Len(op.next) \in Nat
      BY <2>1, Ranges, LenProperties DEF Operation
    <3>2. Len(op.next) = Len(manifest) + 1 /\ v = Len(manifest) + 1
      BY <2>3, <2>5, <3>1 DEF Revises
    <3>3. Registering /\ op.phase \in Published
      <4>1. Registering
        <5>1. CASE op.phase \in Published
          BY <2>1, <2>3, <5>1 DEF Underway
        <5>2. CASE op.phase = "intended" /\ ~ Registering
          BY <2>1, <2>3, <3>1, <3>2, <5>2 DEF Underway, BeforeSave
        <5>3. QED
          BY <5>1, <5>2, <2>1 DEF Published
      <4>2. QED
        BY <1>8, <2>1, <4>1 DEF SaveManifest, ReadyToSave, At, Published
    <3>4. op.version \in DOMAIN op.next /\ op.version \notin DOMAIN manifest
      BY <2>1, <2>3, <3>3 DEF Underway, BeforeSave, Revises
    <3>5. op.version = v
      BY <3>1, <3>2, <3>4
    <3>6. QED
      BY <2>1, <2>3, <3>3, <3>5
  <2>6. QED
    BY <2>2, <2>4, <2>5 DEF Published
<1>9. CASE FinalizeMutation \/ Crash \/ RecordOutcome
  BY <1>1, <1>9 DEF FinalizeMutation, Crash, RecordOutcome, Leaves
<1>10. CASE AbortMutation
  BY <1>10 DEF AbortMutation, Leaves, IInv, RegistryTypeOK
<1>11. ASSUME NEW r \in Reconcilers,
              LeaveUnresolved(r) \/ \E m \in MutationIds : ListPending(r, m)
       PROVE  ArtifactsKept'
  BY <1>11 DEF LeaveUnresolved, ListPending
<1>12. ASSUME NEW r \in Reconcilers, Reconcile(r)
       PROVE  ArtifactsKept'
  BY <1>12 DEF Reconcile, Enters, Abandoned, Published
<1>13. CASE UNCHANGED registryVars
  BY <1>13 DEF registryVars
<1>14. QED
  BY <1>3, <1>4, <1>5, <1>6, <1>7, <1>8, <1>9, <1>10, <1>11, <1>12, <1>13 DEF RegistryNext

\* Where a load does not fail just after one that succeeded, every version in the
\* manifest has its artifact on disk, whatever was cleaned up.
THEOREM ArtifactsOnDisk ==
    ASSUME ~ UnreadableLater
    PROVE  RegistrySpec => []CommittedFilesExist
<1>1. RegistryInit => ArtifactsKept
  BY DEF RegistryInit, ArtifactsKept, CommittedFilesExist
<1>2. IInv /\ ArtifactsKept /\ [RegistryNext]_registryVars => ArtifactsKept'
  BY ArtifactsStep
<1>3. ArtifactsKept => CommittedFilesExist
  BY DEF ArtifactsKept
<1>4. QED
  BY <1>1, <1>2, <1>3, IInvHolds, PTL DEF RegistrySpec

-----------------------------------------------------------------------------
(* The trail. *)

\* The mutations whose change is in the files: what the trail sees of them.
InFiles == {m \in MutationIds : InTheFiles(m)}

\* The ids of ownership records and entries that a step leaves alone, and the trail
\* that sees none of its changes.
Unseen == UNCHANGED <<manifest, owners, intents, outcomes>>

LEMMA UnseenStutters ==
    ASSUME Unseen
    PROVE  UNCHANGED Trail!trailVars
<1>1. \A m : InTheFiles(m)' <=> InTheFiles(m)
  BY DEF Unseen, InTheFiles
<1>2. QED
  BY <1>1 DEF Unseen, Trail!trailVars

\* An intent announces its mutation.
LEMMA IntendAnnounces ==
    ASSUME IInv, NEW kind \in IntentKinds, NEW v \in Versions, Intend(kind, v),
           UNCHANGED <<manifest, owners, outcomes>>
    PROVE  Trail!TrailNext
<1>1. \A m : InTheFiles(m)' <=> InTheFiles(m)
  BY DEF InTheFiles
<1>2. /\ NextId \in MutationIds /\ NextId \notin DOMAIN intents
      /\ (DOMAIN intents)' = DOMAIN intents \cup {NextId}
  BY IntendEffect DEF IInv
<1>3. PICK id \in MutationIds : id = NextId
  BY <1>2
<1>4. Trail!Announce(id)
  BY <1>1, <1>2, <1>3 DEF Trail!Announce
<1>5. QED
  BY <1>4 DEF Trail!TrailNext

\* A mutation without an outcome takes effect: its id, alone, is now in the files.
LEMMA EffectTaken ==
    ASSUME IInv, NEW m \in DOMAIN intents, Undecided(m),
           \A i : InTheFiles(i)' <=> InTheFiles(i) \/ i = m, UNCHANGED <<intents, outcomes>>
    PROVE  Trail!TrailNext
<1>1. m \in MutationIds
  BY Ranges DEF IInv
<1>2. InFiles' = InFiles \cup {m} /\ m \notin InFiles
  BY <1>1 DEF InFiles, Undecided
<1>3. Trail!TakeEffect(m)
  BY <1>2 DEF Trail!TakeEffect, Trail!Undetermined, InFiles, Undecided
<1>4. QED
  BY <1>1, <1>3 DEF Trail!TrailNext

\* An outcome that the files bear out is recorded, or one was there already.
LEMMA OutcomeRecorded ==
    ASSUME IInv, NEW m \in DOMAIN intents, NEW result \in {"COMMITTED", "FAILED"},
           Finalize(m, result), result = "COMMITTED" <=> InTheFiles(m),
           UNCHANGED <<manifest, owners, intents>>
    PROVE  Trail!TrailNext \/ UNCHANGED Trail!trailVars
<1>1. m \in MutationIds
  BY Ranges DEF IInv
<1>2. \A i : InTheFiles(i)' <=> InTheFiles(i)
  BY DEF InTheFiles
<1>3. InFiles' = InFiles
  BY <1>2 DEF InFiles
<1>4. CASE Pending(m)
  <2>1. /\ outcomes[m] = "none" /\ outcomes' = [outcomes EXCEPT ![m] = result]
        /\ result = IF m \in InFiles THEN "COMMITTED" ELSE "FAILED"
    BY <1>1, <1>4 DEF Finalize, Pending, InFiles
  <2>2. Trail!Record(m)
    BY <1>3, <2>1 DEF Trail!Record, Trail!Undetermined, InFiles
  <2>3. QED
    BY <1>1, <2>2 DEF Trail!TrailNext
<1>5. CASE ~ Pending(m)
  BY <1>3, <1>5 DEF Finalize, Trail!trailVars, InFiles
<1>6. QED
  BY <1>4, <1>5

\* Every step of the registry is one of the trail, or the trail does not see it.
LEMMA TrailStep ==
    ASSUME IInv, [RegistryNext]_registryVars
    PROVE  [Trail!TrailNext]_(Trail!trailVars)
<1>1. ASSUME NEW j \in TrainingJobs, NEW d \in Digests, NEW binds \in BOOLEAN,
             SaveVersion(j, d, binds)
      PROVE  Trail!TrailNext
  <2>1. Len(manifest) + 1 \in Versions /\ Intend("save_version", Len(manifest) + 1)
    BY <1>1, Ranges, RegistryAssumption DEF IInv, SaveVersion, Versions
  <2>2. QED
    BY <1>1, <2>1, IntendAnnounces DEF SaveVersion, IntentKinds
<1>2. ASSUME NEW v \in DOMAIN manifest,
             \/ PromoteVersion(v) \/ PromoteChallenger(v) \/ Rollback(v) \/ RevokeVersion(v)
             \/ \E role \in Roles : SignOff(v, role) \/ RevokeSignOff(v, role)
      PROVE  Trail!TrailNext
  <2>1. PICK changed : Mutates(v, changed)
    BY <1>2 DEF PromoteVersion, PromoteChallenger, Rollback, RevokeVersion, SignOff, RevokeSignOff
  <2>2. v \in Versions
    BY Ranges DEF IInv
  <2>3. QED
    BY <2>1, <2>2, IntendAnnounces DEF Mutates, IntentKinds
<1>3. CASE BindOwnership \/ BindOnRegistration
  <2>1. 1 \in Versions
    BY RegistryAssumption DEF Versions
  <2>2. QED
    BY <1>3, <2>1, IntendAnnounces DEF BindOwnership, BindOnRegistration, IntentKinds
<1>4. CASE SaveOwnership
  <2>1. op.phase = "binding" /\ Underway
    BY <1>4, InPhase DEF SaveOwnership, Phases
  <2>2. Undecided(op.owner) /\ op.owner \in DOMAIN intents
    BY <2>1 DEF Underway
  <2>3. \A i : InTheFiles(i)' <=> InTheFiles(i) \/ i = op.owner
    BY <1>4 DEF SaveOwnership, InTheFiles
  <2>4. QED
    BY <1>4, <2>2, <2>3, EffectTaken DEF SaveOwnership
<1>5. CASE SaveManifest
  <2>1. /\ op \in Operation /\ op.phase \in {"intended", "published", "owned"} /\ Underway
        /\ RegistryTypeOK
    BY <1>5, InPhase DEF SaveManifest, ReadyToSave, Phases
  <2>2. op.id \in DOMAIN intents /\ Undecided(op.id) /\ Revises(op.next, op.version, op.id)
    BY <2>1 DEF Underway, BeforeSave
  <2>3. DOMAIN manifest \subseteq DOMAIN op.next
    <3>1. /\ DOMAIN manifest = 1 .. Len(manifest) /\ Len(manifest) \in Nat
          /\ DOMAIN op.next = 1 .. Len(op.next) /\ Len(op.next) \in Nat
      BY <2>1, Ranges, LenProperties DEF Operation
    <3>2. QED
      BY <2>2, <3>1 DEF Revises
  <2>4. \A i : InTheFiles(i)' <=> InTheFiles(i) \/ i = op.id
    BY <1>5, <2>2, <2>3 DEF SaveManifest, InTheFiles, Revises
  <2>5. QED
    BY <1>5, <2>2, <2>4, EffectTaken DEF SaveManifest
<1>6. CASE FinalizeOwnership \/ SaveOwnershipFails
  <2>1. op.phase \in {"binding", "bound"} /\ Underway
    BY <1>6, InPhase DEF FinalizeOwnership, SaveOwnershipFails, Phases
  <2>2. op.owner \in DOMAIN intents
    BY <2>1 DEF Underway
  <2>3. CASE FinalizeOwnership
    <3>1. InTheFiles(op.owner)
      BY <2>1, <2>3 DEF FinalizeOwnership, At, Underway, InTheFiles
    <3>2. QED
      BY <2>2, <2>3, <3>1, OutcomeRecorded DEF FinalizeOwnership
  <2>4. CASE SaveOwnershipFails
    <3>1. ~ InTheFiles(op.owner)
      BY <2>1, <2>4 DEF SaveOwnershipFails, At, Underway, Undecided
    <3>2. QED
      BY <2>2, <2>4, <3>1, OutcomeRecorded DEF SaveOwnershipFails
  <2>5. QED
    BY <1>6, <2>3, <2>4
<1>7. CASE FinalizeMutation \/ AbortMutation \/ RecordOutcome
  <2>1. PICK result \in {"COMMITTED", "FAILED"} :
           Finalize(op.id, result) /\ (result = "COMMITTED" <=> InTheFiles(op.id))
    BY <1>7, OutcomeIsTruthful
  <2>2. op.id \in DOMAIN intents /\ UNCHANGED <<manifest, owners, intents>>
    BY <1>7, OutcomeIsTruthful DEF FinalizeMutation, AbortMutation, RecordOutcome
  <2>3. QED
    BY <2>1, <2>2, OutcomeRecorded
<1>8. CASE PublishArtifact \/ Crash
  BY <1>8, UnseenStutters DEF PublishArtifact, Crash, Unseen
<1>9. ASSUME NEW r \in Reconcilers,
             LeaveUnresolved(r) \/ Reconcile(r) \/ \E m \in MutationIds : ListPending(r, m)
      PROVE  UNCHANGED Trail!trailVars
  BY <1>9, UnseenStutters DEF LeaveUnresolved, Reconcile, ListPending, Unseen
<1>10. CASE UNCHANGED registryVars
  BY <1>10, UnseenStutters DEF registryVars, Unseen
<1>11. QED
  BY <1>1, <1>2, <1>3, <1>4, <1>5, <1>6, <1>7, <1>8, <1>9, <1>10 DEF RegistryNext

\* The registry implements the trail its audit chain promises: an intent before
\* every change, each change whole, once and for good, an outcome that is true
\* and after which the mutation changes nothing: RegistrySpec => KeepsTheTrail.
THEOREM ImplementsTrail == RegistrySpec => KeepsTheTrail
<1>1. RegistryInit => Trail!TrailInit
  <2> SUFFICES ASSUME RegistryInit
               PROVE  Trail!TrailInit
    OBVIOUS
  <2>1. DOMAIN intents = {} /\ DOMAIN manifest = {} /\ owners = {}
    BY DEF RegistryInit
  <2>2. QED
    BY <2>1 DEF RegistryInit, Trail!TrailInit, InTheFiles
<1>2. IInv /\ [RegistryNext]_registryVars => [Trail!TrailNext]_(Trail!trailVars)
  BY TrailStep
<1>3. QED
  BY <1>1, <1>2, IInvHolds, PTL DEF RegistrySpec, KeepsTheTrail, Trail!TrailSpec
=============================================================================
