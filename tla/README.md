# TLA+ models of CF-Intelligence

TLA+ specifications, TLC configurations and TLAPS proofs for the two halves of
CF-Intelligence that keep state: the queries banks ask each other (the
multi-counterparty query, the three durable stores it coordinates, the pilot it
runs under, the isolated workers that match), and the models they train together
(the training job, its privacy budget, the registry that serves the result and
the audit chain behind it). `PROJECT.json` maps every definition to the lines it
models and lists the runs, mutants, findings, hazards and theorems.

Run a configuration with `tlc -workers 2 -config MCStores.cfg MCStores`, check
the proofs of a module with `tlapm CircuitBreaker_proofs.tla`.

## The system

CF-Intelligence is a Python backend (FastAPI, SQLite/PostgreSQL stores, Redis,
Kafka connectors) with a web frontend. A consortium of banks trains models
together and asks each other privacy-preserving questions. Its core is
`backend/app`; the rest of the repository is tests, frontend, SDK, contracts,
deployment and benchmarks.

| Component | State | Operations | Talks to | Hard part | What makes it correct |
|---|---|---|---|---|---|
| Execution budget store | budgets, consumption, reservations, window executions | set/get/delete/reset, `reserve_batch`, `commit`, `release`, `fail_closed`, expiry sweep, pruning, backfill at construction | called by the query | several processes on one database, stale clock, late settlement after expiry | quota never oversubscribed, each execution charged once, expired slots come back |
| Circuit breaker | one row per pair: state, failures, cooldown, probe id | `evaluate_and_acquire_dispatch`, `record_success`, `record_failure`, `record_probe_aborted`, `reset_circuit` | asked before a dispatch, told after it | reports late, out of order or never | one probe at a time, stale reports do not move the row, cooldown respected |
| Idempotency store | one record per key: status, owner, stamps, cached response | `acquire`, `await_completion`, `complete`, `fail_or_abort`, cleanup | first and last call of a query | crash without a word, duplicates, leases shorter than executions | no second execution within retention, indeterminate outcomes kept |
| Multi-counterparty query | dispatched / completed lists of a request | the loop over counterparties with its error paths | all three stores, pilot and batch stores, matching workers | every store call is its own transaction and can fail | work that reached a counterparty is charged, nothing else is lost |
| Pilot operations | pilot entity with version, query slots, publication | lifecycle, reserve / commit slot, prepare / finalize publication | query service | load-modify-save against the store's own transactions | quota of queries, an ended pilot stays ended, the kill switch leaves nothing pending |
| Batch store, case evidence | batch record, case binding, attached signals | `record_batch`, `bind_case`, `attach_signal_to_case_evidence` | case service, pilot | checked first, written later | evidence stands on a finalized publication |
| Training authority | jobs, observations, aggregations | schedule, start, record, complete | FL execution | first record wins, idempotent retries | the completed model is the recorded history |
| Privacy budgets | spent and reserved epsilon, history, active reservations | admit, commit | bank workers | workers die holding a reservation or lose their accountant | every training on private data is paid for |
| FL execution | executions of a job, staging directory | `execute_distributed_federation` and its retries | authority, registry, workers | overlapping retries, crash between completion and registration | a completed model is never lost |
| Round coordinator | registry, rounds, gradients | start round, gradient received, aggregate, prune | FL clients | late gradients, aggregation that raises | each round aggregated once, none stuck |
| Redis idempotency, Kafka ingestion | reservations in Redis, fallback table | acquire, await, complete, release | routers, connectors | Redis loss, ownerless reservations | at most one processing per key |
| Model registry, audit chain | manifest, artifacts, ownership record; intents and outcomes | save, promote, roll back, sign off, revoke, reconcile | FL execution, operators | a crash between two of a mutation's steps | the outcome in the chain is the truth about the files; what serves is approved |
| Matching workers and coordinator | sessions, used nonces and tickets, replay file | initiate, answer, finalize | cross-bank query | threads, restarts, repeated and late messages | a ticket is spent once |
| Governance and nonces | grants, signatures | issue, sign, revoke | everything above | several processes on files | four eyes, single-use nonces |
| Secure aggregation, analytics, authentication, front ends | mostly none of its own | computation, cryptography, I/O | | | numeric or cryptographic, out of a model checker's reach |

How a query runs: authenticate and check governance; `acquire` the idempotency
key; `reserve_batch` one budget slot per counterparty (all or nothing); for each
counterparty ask the breaker, dispatch, tell the breaker; `commit` what was
completed; record the batch; `complete` the key. Each error path undoes a
different part of this. The stores are shared by all service processes; every
method is one `BEGIN IMMEDIATE` transaction, but nothing spans two calls. The
single-target query takes the same way under a pilot: it reserves a slot of the
pilot's quota, matches, revalidates the pilot, commits the slot, and prepares,
finalizes and writes its signal, which an investigator may attach to a case.

How a model is trained: the job is scheduled and started at the authority; in
every round each bank's worker is admitted against its privacy budget, trains,
commits the expenditure and has its update recorded; the aggregate is recorded
and is the base of the next round; the final artifact is staged on disk, the job
completed in the authority, the candidate registered (intent, artifact, manifest,
outcome) and the staged files removed. Any call may be retried while the first
still runs.

`PROJECT.json` lists 40 hazards of this code with their lines; those of the
modelled components name the properties that watch them.

## The modules

| Module | Models | State |
|---|---|---|
| `ExecutionBudget` | `durable_execution_budget_store.py` | `budget`, `consumed`, `resv`, `hist`: its four tables; `issued`: batch ids used |
| `CircuitBreaker` | `durable_circuit_breaker_store.py`, `circuit_breaker_policy.py` | `row`: its table; `flight`: the dispatch each caller carries |
| `Idempotency` | `durable_idempotency_store.py` | `rec`: its table; `exec`: the requests using it |
| `MultiCounterpartyQuery` | `query_multi_counterparty_intelligence` over the three | their state plus `qs`: where each query is and its `dispatched_targets` / `completed_targets` |
| `PilotOperations` | `pilot_operations_service.py`, `durable_pilot_store.py`, the signal's publication and attachment | `pilot`: the row; `copy`: what each officer is about to save; `reservation`: the slots; `stage`, `published`, `evidence`: where a query is and what became of its signal |
| `RegistryMutations` | `model_registry.py`, the audit chain's intents | `manifest`, `files`, `owners`: the registry's files; `intents`, `outcomes`: the chain; `op`: the mutation under the lock; `listed`: what a reconciler has read |
| `FederatedJob` | `execute_distributed_federation`, the authority's job records | `job`, `observed`, `aggregated`, `completed`: the authority; `artifactFile`, `metaFile`: the staging directory; `candidates`: the registry; `exec`: the executions |
| `PrivacyBudget` | the authority's privacy budget, the worker's round | `spent`, `reserved`, `active`, `history`, `steps`: the row and its committed entries; `worker`, `accountant`: the processes; `loss`: trainings executed |
| `IsolatedMatching` | `isolated_matching_service.py` | `session`, `used`, `stored`: the workers' memory and file; `thread`: the requests; `answers`, `receipts`: what was handed out |
| `MCBudget`, `MCStores`, `MCIdempotency`, `MCQuery`, `MCServices`, `MCPilot` | finite instances, symmetry | |
| `QuotaLedger` | abstract: what the execution budget store promises, without its time, rows and statuses | `quota`, `open`, `spent`, `asked` |
| `KeyClaims` | abstract: what the idempotency store promises the requests that share a key | `claim`: how a key stands, who has it, since when |
| `TrialGate` | abstract: what the breaker promises a counterparty | `gate`, `trial`, `inside` |
| `PublicationSwitch` | abstract: what the kill switch of a pilot promises | `mode`, `pending`, `out`, `attached` |
| `TicketRegister` | abstract: what two matching workers promise together | `asked`, `answered`, `answers`, `receipts` |
| `SingleTraining` | abstract: what the evidence of a federated job amounts to | `model`, `trained`, `final`, `published` |
| `MutationTrail` | abstract: what the audit trail promises its reader | `announced`, `effected`, `outcome` |
| `ExecutionBudget_proofs`, `CircuitBreaker_proofs`, `Idempotency_proofs`, `MultiCounterpartyQuery_proofs`, `PilotOperations_proofs`, `RegistryMutations_proofs`, `Training_proofs`, `IsolatedMatching_proofs` | theorems | |

**One action per transaction.** A store method is one SQLite transaction, so one
action, with everything it does: `Reserve` sweeps expired reservations, prunes if
the throttled cleanup is due, checks every target and inserts all slots; a
rejected batch rolls all of it back (`RejectBatch`). Between two actions any other
process may run. Orchestration actions are one store call, or one local decision,
each.

**A process start writes too.** `_init_db` runs whenever a process constructs the
budget store, and its backfill (`durable_execution_budget_store.py:204-227`), though
commented "if upgrading", inserts whatever ledger row or execution is missing for
the charged reservations that are stored: `InitDb`, an action of the store and, as
`StoreStart`, of the composition. As long as nobody deletes a budget it finds every
row present. `delete_budget` ("returning it to unconstrained") deletes the ledger
and the executions of a pair but keeps its reservations, so the next start brings
both back: `DebtGrowsWithinLimit` and `ChargedExactlyOnce` say so (`Restored`), and
that nothing more comes back than the reservations document.

**Load, change, save.** Where the code itself is not atomic, neither is the model.
An officer's operation on a pilot is two actions: `ActivatePilot` (and the others)
puts the changed copy into `copy`, `SavePilot` overwrites the row, whatever it is
by then. `save_pilot` compares `state_version` only with what it has just read
itself, so the version is left out. A registry mutation is the steps between
which the process may die: `SaveVersion`, `PublishArtifact`, `SaveManifest`,
`FinalizeMutation`; the simulation's file lock makes `op` one. An execution of a
job looks for staged files (`FindNoneStaged`) and writes them later. A worker reads
its budget (`ReadBudget`) before it is admitted, and sums up the committed steps
from which an accountant lost in a restart is rebuilt (`steps`, in rounds, those of
repeated rounds included). A matching request checks a
ticket (`VerifyTicket`) before it consumes it (`AnswerQuery`).

**Time.** Stamps are kept as ages in ticks, saturated at `Horizon`, so the state
space stays finite without bounding the run; `HorizonAssumption` says that no
threshold lies beyond. Several methods read the clock before they wait for the
write lock: `lag`, up to `MaxLag`, is how old that reading is when the
transaction runs. The breaker's `evaluate_and_acquire_dispatch` reads it inside
the transaction and has none.

The five service modules have no clock: expiry can only refuse there, and every
step may be delayed without bound.

**Observed-only state.** `answers`, `receipts` and `loss` count what has happened
(`loss` also bounds the run). `accepted` in a query says to which counterparties
work went, `refused` which of it the pilot's quota refused afterwards, `orphan` in a
dispatch that its circuit was reset under it, `ran`, `since` and `reply` what a
request did. No store action's guard depends on `accepted` or `refused`.

**Before and after the match.** `accepted` decides which exceptions can come when.
`is_pre_dispatch` timeouts come from before the match. The pilot's quota is checked
at its start (`RefusedBeforeSend`) and again after it, when the pilot is
revalidated (`cross_bank_intelligence.py:684`, `:834`, through
`validate_executable`): `RefusedAfterMatch`. The second refusal takes a quota that
ran out under a query holding a reserved slot, which a stale save of the pilot
brings about (`QuotaHolds`); the composition does not contain the pilot, so there
it may happen at any time. The handler (lines 2658-2689) is the same for both: it
forgets the dispatch. The ghosts follow it, from `accepted` to `refused`, and
`exec[q].ran` follows the lists, which is all the key is told. What the code then
gives back (slot and key of work that was done) is finding 1;
`NothingRefusedLate` names its absence.

**Abstract specifications.** Seven modules say what a component promises without
saying how; the component INSTANCEs its promise with a refinement mapping at the
end of its module (`KeepsTheLedger`, `HonoursClaims`, `KeepsTheGate`,
`KeepsTheSwitch`, `KeepsTheRegister`, `KeepsASingleTraining`, `KeepsTheTrail`).
Read these first: a page each, they hold no leases, copies, threads, crashes or
retries, because to whoever relies on the component these either are one of its
steps or do not show. In `KeyClaims` time shows (a claim lapses at the end of its
retention, whatever its row does); in `TrialGate` an operator does; in
`SingleTraining` a model is the sequence of its rounds' outcomes, so that an
artifact with another history is another model.

**Composition.** `MultiCounterpartyQuery` INSTANCEs the stores and conjoins their
actions with its control flow: `AcquireKey`, `ReserveSlots`, then per target
`DeadlineExhausted` / `Admission` / `DispatchTarget` and one of the outcomes, each
followed by the store calls its handler makes, in the code's order
(`AbortProbe`, `QuotaRelease`, `SecurityRelease`, `SecurityClose`,
`CommitAndRaise`, `Unwind`, `FailKey`). `Crash` may happen anywhere; `StoreError`
is a store call that raises in the try block: a failing success report goes to
the security handler, everything else to the outer one.

## What the runs show

| Run | Instance | Result |
|---|---|---|
| `budget_total` | 2 batches, 2 targets (one configured row, one grant limit), TTL 1, administrator active, processes starting | total quotas are never oversubscribed by a reservation, the ledger is charged exactly once per execution, resolutions are final |
| `budget_short_window` | window 1, TTL 3 | **violated**: see findings |
| `budget_locked` | window 1, TTL 1, fairness | **violated**: see findings |
| `stores` | budget: 3 batches, 1 target, windows 2 and 3 and a total, TTL 2, lag up to 1; breaker: 3 callers, 2 targets, 5 probe ids, 2 policies, lag up to 1 | rolling quotas hold, pruning keeps the history they need, the store implements `QuotaLedger`; single live probe, fencing, cooldowns, the breaker implements `TrialGate` |
| `idempotency` | 3 retries and a stranger on one key, lease 1 < grace 2 < retention 4 | no duplicate execution within retention, terminal records stay; the store implements `KeyClaims` |
| `idempotency_lease` | the same | **violated**: see findings |
| `query_faults` | 2 queries, 2 targets, quota 1 each, breaker on, crashes and raising calls | work that reached a counterparty is never released and stays within the quota unless it was refused after its match, only dispatched slots are left to expiry |
| `query_key` | 2 queries, 1 target with quota 1 or 2, one key, faults | replayable responses are settled, one execution per key and keys freed only without work, except for work refused after its match |
| `query_refused` | 2 queries, 1 target, no faults | **violated**: see findings |
| `query_settles` | 2 queries (one operational, one simulated), no faults, fairness | every query ends with all slots settled, every probe resolves |
| `services` | pilot: 2 officers, 2 queries of 2 banks for one slot; registry: 2 versions, 5 mutations of which 1 is lost, 1 reconciler; job: 3 executions, 2 rounds, 2 banks, 2 outcomes; privacy: 2 workers, 2 jobs of 2 rounds, 4 trainings; matching: 3 queries, 2 tickets, 2 threads | an ended pilot stays ended and a stopped one has nothing pending; evidence stands on publications; audit outcomes are true, served models approved, and the registry implements `MutationTrail`; completed models are recoverable and registered ones evidenced; trainings are paid for; tickets are spent once |
| `pilot_quota` | the pilot of `services` alone | **violated**: see findings |

**Why the bounds are enough.** Two batches are what it takes to oversubscribe; three
let one expire, one be in flight and one ask. A quota of 1 makes every admission
the last one. Durations are small but keep the code's order: lease (60 s) < grace
(300 s) < retention (24 h), and windows on both sides of the reservation lifetime.
Lag 1 lets a stale clock cross every threshold; in `budget_total`, where
administrators and process starts multiply the states, it is 0. Three callers allow a probe, a
stale report and a third admission; five probe ids never run out while three are
held and two stored. In the composed runs `MaxLag` is 0 and two policies of the
breaker are one: these dimensions are covered by the stores' own runs. For
every safety property the proofs below remove the bounds.

`stores` and `services` run two and five systems side by side: the first state
chooses the one that moves, so their state spaces add up instead of multiplying, and they share model
values. One slot makes every pilot reservation compete, two officers are what it
takes to overtake a save. Five mutations let a version be registered, approved by
both roles, promoted and revoked, or abandoned, registered anew and reconciled.
Three executions let one complete, one clean up and one arrive late. The privacy budget (5)
is less than what two jobs of target 2, a retry and a lost accountant ask for
together. Two queries under one ticket and two threads make every
check-then-consume pair overlap. `UnreadableLater` is FALSE: the reconciler reads
the manifest twice under one lock and is assumed to get the same answer; with
TRUE, `CommittedFilesExist` is violated, which is listed as a hazard.

**Deadlock** is checked in the runs of the stores and of the query; `Tick` is
always possible there, so it says little and ending is stated as liveness. It is
not checked in `services` and `pilot_quota`, which have no clock: an aborted
pilot, a stopped job or a spent bound really is the end.

**Fairness.** `FairSpec` of `MultiCounterpartyQuery` assumes that time passes and
that the thread that runs a query takes its next step (`WF` on `Progress(q)`, one
per query): the request handler is a straight-line program whose external calls
all have timeouts. It does not assume which outcome a call has, nor anything of
faults, which are off in that run. `FairSpec` of `ExecutionBudget` assumes that
time passes and that a requester whose reservation could be admitted gets it.

The five service modules state no fairness: their officers, workers and
executions may stop anywhere and nothing sweeps what they held, which is what
their properties are about.

## Findings

1. **A refusal after the match is taken for one before the dispatch**
   (`cross_bank_intelligence.py:2659`). The handler of `PilotQuotaExceededError` is
   headed "Handle demonstrably pre-dispatch pilot quota rejections without consuming
   pairwise budget", but the pilot is revalidated after `execute_match` (lines 684,
   834) and raises the same exception. The target leaves `dispatched_targets`, its slot
   is released, and if it was the only one the idempotency key is aborted as clean
   (2849-2857), so that a retry executes again. `ReleasedWasNeverSent` is violated
   by any such refusal; it takes finding 5 to happen. For example: a quota of 2, one
   query charged; a stale save brings the count to 0; two queries reserve and match;
   the copy of a pause that was loaded at 1 is saved and the pilot resumed; one query
   is charged, and the other finds 2 of 2 after its match.
2. **Windowed quota with a window shorter than a reservation's lifetime**
   (`durable_execution_budget_store.py:657`). In-flight reservations count against a
   windowed quota only if `reserved_at >= now - window`. One that is older than the
   window is ignored although it can be committed until its 300 s lifetime ends;
   its execution is then stamped with the time of the commit and meets those
   admitted meanwhile in one window. `NeverOversubscribedUnlessShortWindow` proves
   that nothing else breaks it: the property this run violates holds for all
   windows at least as long as a reservation lives.
3. **A rejected batch undoes the expiry sweep** (`:697`). Before a windowed quota is
   checked, an expired reservation is charged and stamped as executed now; the
   quota is therefore used, the batch is rejected, and the rollback restores the
   expired reservation. Every retry repeats it. The pair comes back only when
   another transaction commits a sweep: an admitted batch of other pairs, or
   `get_budget`, which no service calls.
4. **A live request is marked interrupted** (`durable_idempotency_store.py:301`).
   The lease is 60 s from the last `updated_at`, which nothing renews; a batch may
   run for 300 s. A duplicate arriving in between marks it `FAILED_AMBIGUOUS` and
   the original's `complete` matches no row. No execution is repeated
   (`NoDuplicateExecution` holds), but the response cannot be replayed.
   `InterruptedUnlessOverrun` proves that the status means what it says as long as
   every execution ends within its lease.
5. **A stale save takes a charge back** (`durable_pilot_store.py:141`). `save_pilot`
   checks `state_version` against the value it read a few lines earlier, not
   against the version of the entity it saves. A copy loaded before a query was
   charged (activation or resumption, requested twice) and saved after it brings
   the old `queries_executed` back: the slot is handed out again.
   `QuotasHoldUnlessTakenBack` proves that this is the only way: in behaviours in
   which no save lowers a count, the pilot's quota and every bank's hold. What even
   a stale save cannot do is proved below.

## What is proved

TLAPS checks these for every value of the constants that satisfies the named
assumptions of the modules. They come in three kinds: every safety property a
passing run checks; the refinements of the seven abstract specifications; and
for three of the five violated properties, the condition under which they hold.

The step from invariant to refinement is always the same. A component's inductive
invariant says what its state can be; the mapping turns a state into one of the
abstract specification; a lemma per action shows which abstract step it is
(`NewTakes`, `LeaseDoubts`, `ReportDecides`, ...) or that it does not show; and the
theorem puts them together under `[][Next]_vars`.

- **`Idempotency_proofs`**: `TypeCorrect`, `KeptKeys`, `NoDuplicates`,
  `AmbiguousStays`, `CompletedStays`, `ImplementsClaims`,
  `InterruptedUnlessOverrun`. The invariant `IInv` adds to the types what
  a request that runs or ran knows of its record: it is the owner, the record is
  as old as its claim, and it is gone only after retention. Without that link between
  `exec` and `rec` a reclaim could not be told from a duplicate execution.
  `ImplementsClaims` maps the rows within retention to claims: a takeover and an
  indeterminate failure leave a held key in doubt, a completion answers it, and what
  a late owner does to a key no longer held does not show; a cleanup removes only
  rows that stand for no claim.
  It adds `FiledUnderKey`: a request's row is under its own key only.
  `InterruptedUnlessOverrun` adds, under `[]RunsWithinLease`, that the record of a
  running execution was not touched since its claim (`Untouched`).
- **`CircuitBreaker_proofs`**: `TypeCorrect`, `RowsConsistent`, `ProbeKept`,
  `OneProbe`, `ProbesFenced`, `CooldownsHold`, `ImplementsGate`. `IInv` adds that probe ids of
  different dispatches differ; `SingleProbe` follows from `ProbeNeverSuperseded`:
  two live probes would both be the one in the row. `ImplementsGate` adds
  `OrphansOut`: a probe whose circuit was reset under it matches no row any more,
  so it leaves `TrialGate` like any other guest.
- **`ExecutionBudget_proofs`**: `TypeCorrect`, `ResolutionsFinal`, `LedgerExact`,
  `QuotaRespected`, `TotalBudgetRespected`, `RollingBudgetRespected` (assuming
  windows at least as long as a reservation lives), `HistoryOfWindowKept`,
  `ImplementsLedger`, `NeverOversubscribedUnlessShortWindow`. `QuotaRespected` and
  `LedgerExact` speak of administrators and process starts as well, and therefore of
  the ledger that a start restores. The quota theorems rest on cardinality lemmas (what a sweep
  moves from reservations to the ledger or into the window) and on `IssuedRows`:
  only issued batch ids have rows, so a new batch adds exactly one slot per target.
  `ImplementsLedger` maps the rows in status RESERVED to the open slots of
  `QuotaLedger`: an admission is a grant that spends what it sweeps, a commit or
  fail-closed spends what is still open of the batch, time and rejections are
  invisible. That each target of the grant is covered is `TotalBudgetRespected`.
- **`MultiCounterpartyQuery_proofs`**: `TypeCorrect`, `AcceptedStaysPaid`,
  `NoSlotLost`, `DoneSettled`, `CachedSettled`, `OneAccepted`, `KeysFreedSafely`,
  `AcceptedBounded`, `OneProbe`, and the refinements `ImplementsBudget`,
  `ImplementsIdempotency`, `ImplementsBreaker`, and through them and the stores' own
  theorems `QueriesKeepTheLedger`, `QueriesHonourClaims`, `QueriesMoveTheGates`
  (this last one from any circuits, closed or open, as earlier traffic left them). The invariant `QInv` says of each
  query what its place in the code means (`Control`: which lists hold what, which
  target is current), that the stores' own invariants hold in the composition
  (`Stores`), which slots may still be open at each place (`Slots`: this is what
  each error path must settle), and how a query's place and its idempotency record
  fit together (`KeyLinks`). `AcceptedBounded` adds `Paid`: the accepted work of each query is
  counted by its charged or open rows, and these are part of the debt that
  `TotalBudgetRespected` bounds, which the refinement carries over. `DoneSettled`
  is about runs without faults, `OneAccepted` about runs with keys; both are the
  switches the runs set. All of this holds whatever the pilots' quotas do, for work
  that was not refused after its match. Two theorems need that there is none and
  assume `[]NothingRefusedLate`: `ImplementsIdempotency`, whose store relies on callers
  that ask for a clean abort only when nothing ran (`AbortIfClean`), and
  `QueriesHonourClaims`, which rests on it.
- **`PilotOperations_proofs`**: `PilotTypes`, `KillSwitch`, `RunsApproved`,
  `EvidencePublished`, `EndIsFinal`, `ImplementsSwitch`,
  `QuotasHoldUnlessTakenBack`. The invariant adds that every copy an officer
  holds past approval is fully approved, so that saving it late does no harm, and
  that a prepared query's slot is prepared or rejected, so that finalization never
  overwrites a published one. `ImplementsSwitch` follows: a pause, an abort and a
  completion drop what is pending in the step that stops the pilot, and a stale
  save never makes an ended pilot run.
- **`RegistryMutations_proofs`**: `RegistryTyped`, `AuditTruthful`,
  `ServingApproved`, `ArtifactsOnDisk`, `ImplementsTrail`. The ids on the manifest's entries belong to
  intents for that version (`Belong`), and the mutation under the lock knows how
  far it got (`Underway`): until its save no file bears its id, and what it will
  save is the manifest on disk revised for that id alone. An outcome
  is therefore written when it is true, and nothing that is true of the files
  becomes false. `ImplementsTrail` is this read as a whole: the save of the manifest
  is where a mutation takes effect, once, and a recorded outcome is never followed
  by an effect. `ArtifactsOnDisk` assumes `~UnreadableLater` and adds that a
  registration's artifact is on disk from its publication to the save.
- **`Training_proofs`**, the job: `JobTypes`, `CompletedRecoverable`,
  `RegisteredEvidenced`, `ImplementsSingleTraining`. The invariant names the one aggregate of the last round
  (`final`): every execution past training holds it, every file and record is it,
  and a file that is missing after it was staged means that the model is
  registered. `NotYetAssumption` says that "nothing" is not itself a model.
  `ImplementsSingleTraining` adds that rounds are aggregated in order, that a bank's
  outcome presupposes the aggregate of the round before, and that whoever trains
  holds the aggregated model (`OneHistory`): an execution that overlaps, repeats or
  resumes another only sees again what was recorded first.
- **`Training_proofs`**, the privacy budget: `PrivacyTyped`,
  `ReservedEpsilonExact`, `TrainingsPaidFor`. The invariant names the reservations
  that have their training behind them (`Owed`), says that no two workers hold one
  and that no later round of a job is committed before its first
  (`FirstRoundFirst`), which is why every commit charges at least one unit: `loss`
  never exceeds what is spent and owed (`Paid`). No committed epsilon exceeds what is
  spent (`Epsilons`), though a rebuilt accountant may start above the last one. The reserved epsilon is a
  fold over the active reservations, and induction over data is out of reach;
  `SumIsUnits` shows instead, by a least counterexample on finite sets, that the
  fold counts units, so that it changes by what is added or removed.
- **`IsolatedMatching_proofs`**: `MatchingTypes`, `TicketsSpentOnce`,
  `ImplementsRegister`. The invariant
  ties the counts to the used keys: an answer was given exactly if the ticket's key
  is used, a receipt was signed only for an answered query whose answer is used,
  and the file and the set in memory agree between steps, which is what makes a
  restart harmless.

The assumptions are what the code's configuration gives: finite sets of banks and
requests, a request that names a counterparty
(`cross_bank_intelligence.py:2255`), positive lifetimes, thresholds within
`Horizon`, and for the composition the stores' own assumptions about the constants
it hands them. Proving showed where one had been missing:
`RegistryAssumption` excludes a registry without room for a version, and
`ProbesAreSingle` of the breaker had to be said before the composition could use it.

Only model-checked: `QueriesEnd` and `ProbesResolve` (liveness: fairness and ENABLED
are beyond the prover), and the five violations themselves. The other way round,
the type invariants of the idempotency store, the breaker and the five services
are proved and no longer
checked by a run of their own; the runs check the abstract specifications instead.
`KeepsTheSwitch`, `KeepsTheRegister` and `KeepsASingleTraining` were model-checked
on the instance of `services` before they were proved and are not part of its run.

## What is not modelled, and why

Within the modelled components: reasons, audit columns and wording; the
construction and signature of responses; malformed rows
and schema migration. One consortium and one requesting bank are enough in the
stores, as no statement mixes rows of two pairs except the sweeps, which treat each
row alone. Of the single-target query only its path under a pilot is modelled.

Known limitations of the code that are not stated as properties, because no document
promises otherwise; each is a hazard in `PROJECT.json` with its line:

- failures of dispatches admitted before an OPEN period count in the CLOSED period
  after it, and a probe lost to a crash (or to an exception while the sub-request is
  built) blocks its pair until `reset_circuit`, which the code documents as intended;
- a budget that was deleted has its ledger back after the next process start, against
  the word of `delete_budget`'s docstring and of the backfill's comment: a budget
  configured anew for the pair starts with the executions of the old one charged;
- policy resolution between `reserve_batch` and the try block: an exception there
  leaves slots to expiry and the key to its lease;
- a retried round of a job that has reached its target epsilon is admitted with the
  least reservation (0.001) and charged in full by its commit: `LossIsAccounted`
  therefore counts a reservation, not its amount;
- the overspending commit writes the exhausted status and raises in the same
  transaction, which takes it back;
- a crash between the two files of `stage_artifact` leaves every retry in a "Staging
  collision"; the model contains it as a job that never completes;
- a manifest that is readable and then is not, under one lock, lets the reconciler
  remove a committed artifact (`UnreadableLater`).

Not modelled in the five service modules: authentication, signatures, grants,
freshness and expiry, which can only refuse and are the steps not taken; delta and
explicit noise multipliers of the privacy budget, and a worker that takes turns
between two jobs within one execution; canary evaluation, artifact
loading and serving of the registry; secure aggregation's masking; SQLite's
weaker locking of the training authority, a development backend; methods without a
caller in the application (`record_publication_status`, `delete_pilot`, the direct
`reserve` wrapper).

The other components are marked `not_modelled` in `PROJECT.json` with the reason.
Two that keep state deserve a word. The federated round coordinator
(`coordinator_service.py`) has no caller that starts a round in the application: its
routers only read the registry, and `FederatedJob` models the path that trains. The
Redis idempotency service depends on Redis failover and a process-local fallback
that lie outside the repository. The rest is numeric, cryptographic or I/O code
without interacting state.

## Plan

Done: the three stores and their composition; pilot, registry with its audit
chain, training job, privacy budget and matching workers; the proofs above, which
state every safety property the passing runs check, and the refinements of seven
abstract specifications. What is left, in this order:

1. Governance grants and nonces (`durable_consortium_store.py`,
   `durable_nonce_store.py`): what the guards of the pilot and the matching workers
   take for granted.
2. Redis idempotency with the ingestion path, as a second implementation of
   `KeyClaims` whose retention may end early.
3. An abstract specification of the privacy budget, with the amount of an
   expenditure and not only its existence.
