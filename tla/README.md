# A TLA+ development for GraphReFly Stack

GraphReFly Stack (`grfs`) turns a change plan into WorkUnits, binds each WorkUnit to a
commit, gathers evidence for each, and decides by a gate whether the change may
proceed. When it may not, a recovery replays the units that can be retained on a branch of
its own. A hosted control plane keeps the evidence of many repositories under quotas and
retention.

This directory holds TLA+ modules translated from the source under `src/`, TLC
configurations that check them on small instances, and theorems that TLAPS proves for every
value of the constants. `PROJECT.json` maps every definition to the lines it stands for.

Run `tlc -config X.cfg M` and `tlapm M.tla` in this directory.

## 1. Inventory

Paths are relative to `src/packages` unless they start otherwise.

| Component | State | Operations | Hard behaviour | What makes it correct |
|---|---|---|---|---|
| **Hosted persistence** `hosted/src/postgres-object-persistence.ts` | rows of `hosted_envelopes`, tombstones, objects in a store | ingest, read, request deletion, schedule expired, purge primary, purge expired metadata | no transaction spans database and object store; advisory locks per repository; crashes, lost answers to COMMIT, partial purges | an indexed envelope has its bytes; purged bytes stay gone; quotas; receipts stay true; a row only moves forward |
| **Recovery runner** `cli/src/recovery-runner.ts` | a Git branch, a directory of attempt files, results | apply, resume, abort, export | processes that die between any two steps, commands that overlap, others who move the branch, torn files | the branch is a compare-and-swap chain witnessed by the attempts; a stopped recovery can be resumed; a completed one has its result |
| **Recovery contracts** `contracts/src/recovery-integrity.ts` | none | verify an attempt chain, a plan, a result | it must accept exactly what the runner writes | writers and verifier agree |
| **Structural diagnosis** `core/src/dag-structural-error.ts` | stack, indexes and low links of a search | diagnose missing and cyclic dependencies | Tarjan's search with nested calls | finds exactly the defects, in the order the verifier demands |
| **DAG gate** `core/src/dag-gate.ts`, `cli/src/dag-semantic-runner.ts` | order, bindings, reasons, invalid set, bundles on disk | order, bind, check ancestry, evaluate, decide, emit; reuse of records after a recovery | a set is read while it grows; the head may move | invalid = the failing units and what depends on them; the cut explains it |
| **DAG discovery** `cli/src/dag-discovery.ts`, `dag-evidence.ts`, `core/src/multi-plan-projection.ts` | none | list the commit graph, read trailers, classify joins, derive topology, project it on a plan | histories of any shape; several plans in one | a refused history is refused by name; the topology is the one the verifier recomputes |
| **Linear pipeline** `cli/src/semantic-repository.ts`, `core/src/gate.ts` | accepted files, bundles and check results kept beside the repository | accept a plan, bind commits, run checks, gate, replan | torn files, deaths between two files, rewritten histories, verdicts that become evidence | a pass is earned by the history; a replan preserves what was valid |
| **Integration** `cli/src/integration-candidate.ts`, `integration-runner.ts`, `core/src/integration-effects.ts` | an isolated clone | gate the head, merge, evaluate, compare effects, recheck | target and head move meanwhile; a clean merge that loses an effect | what is compatible keeps both branches and stood together |
| **Group integration** `cli/src/group-integration-runner.ts`, `core/src/group-integration.ts`, `merge-group-result.ts` | none | compare joins, assemble verdicts, bundle, verify | several plans with a unit of one name, joins of joins | the group's pass is each plan's pass; the verifier agrees |
| **CI job** `cli/src/ci-runner.ts`, `integration-ci.ts`, `cli.ts` | the files of a workflow job | gate step, integration step, upload; merge group event | a job is cancelled, its disk fills up, a step fails and the next one runs | success is earned |
| **Recovery planning** `core/src/recovery.ts`, `core/src/selective-recovery.ts`, `cli/src/selective-recovery-runner.ts` | none | derive the impact, admit a plan, judge the projection, seal | ties between witnesses; retained units that depend on changed ones | runner and verifier derive the same impact; what is carried stands on what is carried |
| **Browser sessions** `hosted/src/browser-auth.ts`, `postgres-browser-identity.ts`, `github-automation.ts` | login attempts, sessions, sealed credentials | login, authorize, refresh, revoke | rotating tokens refreshed twice; checks across awaits | a session keeps a usable credential; a revoked one stays revoked |
| **Hosted review** `hosted/src/review.ts` | append-only decisions, audit rows | read evidence, append, list, export | two decisions replace one; a foreign key against purges | decisions keep their rows; the audit tells the truth |
| **Control plane, OIDC** `hosted/src/control-plane.ts`, `oidc.ts`, `github-artifact.ts`, `http.ts`, `cli/src/hosted-runner.ts` | cached keys | sync, verify a token, authorize, ingest | overlapping refreshes of the cache, facts withdrawn during a request | an envelope is bound to the run that made it |
| **Local stores** `cli/src/dag-execution-cache.ts`, `dag-review-state.ts`, `repository-review-state.ts` | files, created exclusively or renamed | put, get, list the decisions | torn writes | what is read is what was written |
| Surfaces: `hosted/src/web-http.ts`, `web-ui.ts`, most of `cli/src/cli.ts`, `src/apps/review` | none of their own | parse, route, present | – | – |

How they meet. The runner calls the structural diagnosis, computes an order on the strength
of its answer, and hands bindings to the gate; the gate's bundle goes to disk and, exported
as an envelope, to the control plane, whose persistence admits it. Hosted decisions refer to
rows of that persistence by a foreign key. Recovery planning reads a gate result; the
recovery runner executes the plan on a branch; its new commits come back to the DAG gate,
which judges them together with the carried ones. The integration begins with a gate of its
head; the CI job runs gate and integration one after the other; a merge group runs one gate
for each plan and compares the joins by the effects that the integration uses. Components share state only through Git
references, files in the repository's state directory, and PostgreSQL.

## 2. What is modelled

### Hosted persistence: `HostedPersistence`, `EvidenceStore`

`HostedPersistence` has the database (`index`, `tombstones`), the object store (`objects`),
a clock and two kinds of process: an upload and a run of the primary purge.

| Code | Model |
|---|---|
| `ingest`: advisory lock and select of an existing row | `LockAndSelect` |
| the existing row's object is compared | `VerifyDuplicate` |
| daily and storage quota | `MeasureQuota` (`WithinQuota`) |
| `putIfAbsent`, compare when it exists | `PutObject`, `ConfirmObject` |
| insert and COMMIT | `InsertAndCommit` |
| `catch`: delete the object this upload created | `Cleanup`, after `Rollback` or `AmbiguousCommit` |
| request deletion, schedule expired | `ScheduleDeletion`, `ScheduleExpired` |
| `purgePrimary` | `PurgeBegin` (select `FOR UPDATE SKIP LOCKED`), `PurgeObject` for each row, `PurgeCommit` |
| `purgeExpiredMetadata` | `PurgeExpiredMetadata` |

A statement is an action when something of another process can come between it and the
next; operations that touch only the database in one transaction are one action. `Begin`
takes the time the caller read before it waited for the lock. Faults are actions of their
own, enabled by the constant `Faults`: a failing statement (`abort`), a rollback after the
put (`rollback`), a COMMIT whose answer is lost (`ambiguous`), a put reported as failed
(`put`), a dead process (`crash`), a purge that fails between objects (`purge`).

`EvidenceStore` is what a client is promised: an envelope becomes readable, and when it is
withdrawn it does not come back under the same row. `HostedPersistence` implements it with
readable = accessible row and object present.

Left out: the audit rows each operation inserts in its own transaction, and their export.
Reads and decisions are in `HostedReview`, which extends this module.

### Recovery: `RecoveryChain`, `RecoveryRunner`, `RecoveryLedger`

`RecoveryChain` is the verifier, `assertRecoveryAttemptChainIntegrity`: a predicate on a
history of attempts. `RecoveryRunner` is `apply`, `resume` and `abort` as processes over one
branch (`ref`) and one set of attempt files (`files`, `torn`). Because every attempt carries
the digest of its predecessor, a file is represented by the whole history it ends. Commits
are numbered by their place on the recovery branch; a commit that is not the recovery's is
`Foreign`. Creating a file and filling it are two steps (`CreateFile`, `FillFile`), because
`writeFile` with flag `wx` is not atomic; the same holds of the file of the result
(`PersistResult`, `FillResult`), which may fail its schema, its integrity or its write after the
end has been recorded (`ResultFails`). A command that stops while it records an attempt is told apart
from one that stops elsewhere (`unrecorded`). Materialising one unit is `ApplyStep`: the
compare-and-swap of the branch; the attempt that witnesses it is appended after it.

`RecoveryLedger` is the abstract view: a branch that advances by one, and a ledger that
records the advance afterwards.

Left out: how a step's commit is built in a temporary worktree (a choice of success or
failure of patch and evidence), authorization and export. Impact and plan are in `DagRecovery`.

### DAG gate: `DependencyGraph`, `DagDependencies`, `DagGate`

`DependencyGraph` declares plans, and the reference notions the algorithms are compared
with: what a unit needs, what shares a cycle, and what is a consequence of a set. They are
defined by closed sets, not by recursion, so that proofs can use them.

`DagDependencies` is `diagnoseDagDependenciesV2` with its nested function `visit` as
explicit call frames, one action for entering a unit, looking at a dependency, and
returning. `DagGate` is the runner around it:

| Stage | Code |
|---|---|
| searching | `diagnoseDagDependenciesV2` |
| ordering | `canonicalWorkUnitOrder`, one unit at a time |
| binding | commits found by trailer: none, one or several for each unit |
| ancestry | `gitIsAncestor` for each dependency |
| evaluating | `computeDagGateV2`, one unit at a time |
| emitting | cut, outcome, the recheck of the head |
| done, failed | a result (`pass`, `blocked`, `error`) or an exception |

Any structural stage may end the run by `EmitStructuralError`, which has the verifier's
bound and order of diagnostics: the run fails when the verifier would throw.

Abstractions. A WorkUnit id is a number in the order of names. A unit's own evidence
(source scope, policy, claims, checks) is a chosen set of reasons, because only whether it
is empty reaches other units. Whether joins are valid is chosen too; the runner always passes
valid ones, the library accepts others. The code `COMMIT_BINDING_MISMATCH` is never emitted
by the runner and does not occur. Edges of a cycle diagnostic follow from its component.
Witnesses and digests are left out, and so is the persistence of bundles.

### Recovery planning: `DagRecovery`

It extends `DagGate` and begins where a gate is done. A rollback traces the impact of chosen
targets (`BeginRollback`, `NextRoot`, `VisitPath` are the two loops of
`computeRecoveryImpactV1`), admits a proposal that changes or retains each affected unit
(`AcceptPlan`, `RefuseProposal`), and after all steps meets the gate over the projection
(`JudgeRollback`). A replacement is the selective recovery of a blocked gate
(`BeginReplacement`, `RefuseProjection`, `JudgeReplacement`, `Seal`). A carried unit stands by
its commit under the source plan, a changed one by its commit under the new plan. How the
branch is made is `RecoveryRunner`'s.

### Linear pipeline: `BlueprintPredicate`, `LinearPlan`

`BlueprintPredicate` is the evaluation of a claim over a blueprint with mounted subgraphs; it
is recursive, and `LinearPlan` reaches it through the constant `Evaluation`, to which the configuration
gives its `Evaluate`, so that the pipeline can be proved about. `LinearPlan` holds the first-parent chain of commits, the
accepted files of the working tree, the bundles and check results kept beside the
repository, and the verdicts given.

| Code | Model |
|---|---|
| `acceptSemanticPlan` and its files, one by one | `CreatePlan`, `WriteAccepted`, `DieAccepting`, `CommitAccepted` |
| `acceptedSemanticPlan`, binding by trailers | `AcceptedAlone`, `Implements`, `ReplanFits` |
| `runChecks` with the kept result | `CheckOutcomes`, `Cached` |
| choice of the earlier bundle, reasons, verdicts | `Prior`, `Reasons`, `Bundle` |
| `createSemanticGate`, export | `Gate`, `Export` |
| `replanSemanticPlan` | `Replan` |
| a death between or in the middle of files | `DieAccepting`, `DieJudging` |

The developer is part of the model: he commits the units in order, and may make at most
`MaxMishaps` departures (a commit with two trailers or none, a copied or rewritten patch, an
edit, a reset, a rebase, another blueprint, a commit out of scope), which share that budget with
deaths of the process and a missing sandbox.

### Integration and CI: `IntegrationEffects`, `Integration`, `CiJob`

`IntegrationEffects` compares what two branches do to a blueprint with what the merge does to
it: events on nodes, edges, mounts and metadata fields, and which of them conflict. The delta
of two blueprints is a library's and is external. `Integration` is `runIntegration` with the
isolated merge: each reading of a branch is a step, because the branches move (`PushTarget`,
`PushHead`). `CiJob` composes it with the workflow of a pull request: the steps of the job, the
files they write and announce, cancellation by a push, full disks, and the upload that runs
whatever the steps did. A run from the command line names branches, a run in CI the object
ids of the event.

### Merge groups: `MergeGroup`

Commits with parents, trailers and trees are built by two developers (`Develop`, with at most
`MaxMishaps` departures: a wrong trailer, an edit outside the plans, an old base, a merge that
changes a file) and joined by the queue (`Enqueue`). `JudgeGroup` is `runMergeGroupCi`, one
operator for each stage:

| Stage | Operators |
|---|---|
| discovery of the slice | `Slice`, `ShapeRefusals`, `JoinRefusals`, `OwnershipRefusals`, `BindingRefusals` |
| topology and its projection on a plan | `Topology`, `Projection` |
| acceptance of each plan | `EntersAlone`, `StaysAccepted`, `WrittenUnder` |
| gate of each plan | `PlanDefects`, `AncestryDefects`, `OwnReasons`, `Failing`, `GateOf` |
| effects of joins and heads, verdict | `JoinConflicts`, `HeadConflicts`, `GroupVerdict`, `FailedPlans` |
| bundle and verifier | `Bundle`, `TopologyFits` to `OutcomeFits`, `VerifierAcceptsBundle` |

Git itself (ancestry, merge bases, three-way merges of files) is external. The stages do not
yield to anybody, so their whole is one action.

### Hosted service: `HostedSession`, `HostedReview`, `DecisionLog`, `HostedUpload`

`HostedSession` has one login attempt with several callbacks, the sessions they create, and
requests that authorize over them. Every statement and provider call is an action
(`ConsumeAttempt`, `ExchangeCode`, `IdentifyUser`, `UpsertActor`, `CreateSession`; `LoadSession`,
`RefreshCredential`, `UpdateCredential`, `LoadAccessContext`, `RevalidateAccess`), because requests of
the same session run in between. The provider honours a refresh token once.

`HostedReview` extends `HostedPersistence`, whose rows and objects it reads: a visit loads the
index (`LoadIndex`), selects the row, fetches the object, and shows it
or appends a decision (`ShowEvidence`, `AppendDecision`). `PurgeMetadata` is the metadata
purge of the persistence where decisions refer to rows, with the audit events it removes, which are a
tenant's. A visit remembers whether its row was denied when it began (`late`, for as long as the row is
that row) and the time its event will bear (`dated`). `DecisionLog` is its abstract specification: evidence
opens and is withdrawn, decisions are about evidence that is open, and what was decided upon is not opened
again. One decision may have several successors, as in the code, which only looks for the predecessor.

`HostedUpload` is the way of an envelope: the client's token, the checks of the handler in
their order (each named by the flaw it finds), the key cache with its fetch and installation as
separate steps, the provider's facts, which are lost and regained at any time (`ChangeFact`), and the store,
whose own steps are `HostedPersistence`'s.

## 3. The runs

| Run | Instance | Shows |
|---|---|---|
| `persistence` | 1 tenant, 2 repositories, 2 digests, 3 uploads, 1 purge run, limits of 1, 3 clock steps, crashes and failing purges | types, bytes behind every live row, both quotas as the code keeps them, and the refinement of `EvidenceStore` |
| `persistence_faults` | 1 repository, 2 digests, 2 uploads, 1 purge run that takes one row at a time, 2 clock steps, every fault, fairness | purged content stays gone and receipts stay true under every fault; uploads are answered; due content is purged, none behind another |
| `persistence_rollback` | 2 uploads of one digest, rollback | **violated**: `LiveIndexHasObject` |
| `recovery` | 3 units (1 retained, 2 steps), 3 commands in sequence, sequence limit 6, every fault | whenever no command runs: one history, and every damage (torn file, branch ahead of the history, missing result, chain used up) explained by one command or a foreign update; the runner implements `RecoveryLedger` |
| `recovery_overlap` | 3 commands overlapping, 1 step, deaths, failing patches, foreign updates | writers satisfy the verifier and the branch is witnessed |
| `dag_gate` | every plan of 4 units with at most 2 dependencies each (one unit may name a missing one), every binding, every ancestry, every order of object ids, fairness; rollbacks of gates that pass, replacements of gates that block | the diagnosis is exact, the order is the first one, verdicts are final, invalid units and cut are right, a sound plan gets an order, the run ends; the impact of a recovery is a function of the set of targets; what the second gate refuses is exactly what stands on changed units |
| `sessions` | 3 callbacks of one login (one from a strange browser), 2 requests, lives of 1 to 3, every fault | credentials move forward and are stranded by faults only; a grant is backed by one standing since the request arrived |
| `review` | 3 visits over 1 upload, 1 purge run, retention of 1, lost answers, failing audits, failing purges | decisions keep their rows, denied content is not shown, the audit tells the truth, decisions implement `DecisionLog` |
| `upload` | 2 uploads, 2 signing keys, cache life 1, token life 3, 2 facts that come and go, every failing call | each fact behind what is stored stood since the request arrived; the trust in a withdrawn key is bounded |
| `pipeline` | 2 units in a chain, 3 blueprints, 7 commits, 2 mishaps of 13 kinds | a pass is earned by the history, a replan preserves what was valid, a pass is final |
| `ci` | 10 blueprints in all four places, 2 moves of each branch, 10 kinds of trouble, from the command line or in a job | what is compatible keeps both branches and stood together, the verifier agrees, success is earned |
| `merge_group` | 2 plans with 3 units, two of one name, 3 files, 5 commits, 1 departure | a group's pass is earned, joins lose nothing, the verifier accepts what the adapter assembles |

Together the passing runs fire every action.

### What holds, and what had to be said with care

* `StorageOvershootBound` is what the code keeps of the storage quota: the lock is one per
  repository, the sum one per tenant.
* `StopIsExplained` holds under every fault. Deaths, failed writes and a full sequence do strand recoveries (section
  6); what is kept is that there is one history which all readers accept, that a torn file, a move of the
  branch without a witness or a completed recovery without a result is the doing of one command which stopped
  over just that effect and never of several together, and that a command uses up at most one place of the
  sequence beyond the plan's own.
* `GrantIsBacked` asks for one moment since the request arrived at which role and selection together allowed the
  action. That it is still allowed when it is granted would be wrong of the code: the role is not read again after
  the provider has answered (`browser-auth.ts:613`).
* `StoredWasBound` asks for such a moment for each call to the provider, not for one moment for all of them: the
  calls follow one another, and what is withdrawn after the call that asks for it is not seen.
* `NoContentAfterDenial` is about visits that begin after the denial; one that began before may still be shown what
  it had selected.
* `CompatibleStoodTogether` is about branches whose revisions only grow. Of a branch that is forced back to an
  earlier revision between the two rechecks the code cannot tell that it was away.
* `StrandedOnlyByFault`: requests that merely overlap do not strand their session; the one
  that spent the token does when it dies, loses the answer or fails in the update.
* `DecisionKeepsItsRow` is bought by the foreign key, at the price of the tenant's metadata purge
  (section 6).
* `KeyTrustIsBounded` adds one fetch timeout to the life of the cache, because keys are dated by
  their installation.
* `PassIsFinal` says of verdicts what remains true: from blocked to pass they may change without a new
  commit, from pass to blocked not. `PassIsEarned` is about the history alone and so holds
  whichever verdicts came before.
* `CarriedStandOnCarried` says both what a replacement never meets and what a rollback
  that retains a dependant always meets.

### Bounds and why they suffice

* Persistence. The hazards are races of at most three parties: two uploads of one key or one tenant,
  and a purge, or a third upload that meets what two left behind. Limits of 1 make every
  quota bind at once. A day of 2 units and 3 clock steps put midnight, the retention of
  content, the purge delay and the index retention all within a run. `MaxTime` caps the
  clock only. In `persistence_faults` two rows are due while a run takes one.
* Recovery. One retained and two executed units make every place of the chain reachable
  (first, between, last); three commands are apply, a disturbed resume, and what follows.
  `MaxSequence` stands for the schema's 1024 and is small so that it is reached.
  In the overlapping runs it also bounds the forks. A command ends, so the system stops when
  all have ended: these runs do not check for deadlock.
* DAG. Four units hold a cycle with a tail, two cycles, a diamond, and a self-loop beside a
  chain; two dependencies a unit are enough for the diamond. One unit may name a
  ghost: missing dependencies are diagnosed unit by unit. The bound of 64 diagnostics is 4,
  so that both of its outcomes occur.
* Recovery planning. `RolledBack` looks at rollbacks of gates that pass, because the impact reads the
  plan only; `Replaced` at replacements where one unit fails by itself, or its
  dependants with it. Targets are the whole plan or at most `MaxTargets` = 2, which is what a tie between
  witnesses needs; a new plan adds or removes at most `MaxRewired` = 1 dependency, which is what turns a
  unit from standing on carried ones to standing on a changed one, and an order into a cycle.
* Sessions. Two callbacks from the right browser and one from another; two requests,
  of which one reads and one decides; lives short enough that every comparison of times goes both
  ways before `MaxTime`; `MaxGeneration` = 3 refreshes of a credential.
* Review. Two successors of one decision need three visits, and two show every race of a reader, a decision, a deletion
  and a purge. The purge delay of 0 and retentions of 1 let content, row, events and decision pass all stages in
  `MaxTime` = 1. Content that comes a second time would need a second upload: that it is not opened to decisions
  again is left to `LogIsImplemented`.
* Upload. Of the facts, the installation and the selection change, which different calls ask for, so that each call
  has its moment. Two uploads share the cache, two keys are one rotation; `Flaws` has one flaw found before the
  provider is asked and one found after it.
* Pipeline. Two mishaps are what a repeated gate with a changed environment, and a torn file met
  by a later command, need. `MaxCommits` counts commits ever made, `MaxLength` those in the history.
* CI. All quadruples of the ten blueprints, which hold an added, a removed and a changed node, an edge, a metadata
  field that changes, is null or is absent, and a mounted topology of two nodes. Each branch moves up to twice, so both rechecks can
  disagree with both readings.
* Merge groups. Five commits hold two lines with a merge inside one, and a plan accepted
  on one line and used on the other. `MaxObjects` = 8 stands for the schema's 64, so that a slice reaches it.
  Defects of a group are told by their class, so that the bound of 64 diagnostics is not reached there.

Symmetry is used where the actors are interchangeable and no liveness is checked: uploads, repositories and
digests in `persistence`; commands in the recovery runs; callbacks from the right browser; visits; uploads and keys.

### Fairness

* `HostedPersistence!FairSpec`: steps of an upload are strongly fair, for PostgreSQL grants a
  queued advisory lock and a request in service is not abandoned; an upload that dies has
  its answer. Nothing in the source schedules a purge, so the liveness of purges assumes an
  operator who keeps starting it and that a run eventually gets through
  (strong fairness: failures do not recur for ever). A row whose object can never be deleted would hold up the younger
  ones of its tenant.
* `DagGate!FairSpec` and `DagRecovery!RecoverySpec`: weak fairness of the one sequential process.
* Everything else is driven by people, by a browser or by a queue that need not act, so only
  safety is stated.

## 4. What is proved

TLAPS proves the theorems below for every value of the constants that the named assumptions of the
modules allow; TLC evaluates those assumptions on every run. All invariants and action properties that passing runs
check are theorems; what is left to TLC is liveness. Each proof module `M`Proofs extends the modules it is
about, states the inductive invariant first, and has one step for each action. `NumberFacts` holds what
several of them need: a least number, induction over numbers and over the subsets of a finite set.

### What the assumptions say

| Assumption | Says |
|---|---|
| `ConstantsAssumption` | every repository has a tenant, sizes are positive, the content is not kept longer than its row |
| `SessionAssumption`, `UploadAssumption`, `ReviewAssumption` | lives and clocks are numbers, flaws and faults are the ones the handlers name; a request is told from no request |
| `PlanAssumption`, `RunnerAssumption` | retained and executed units are sequences of units; the marker of no unit is none |
| `PlansAssumption`, `OwnReasonsAssumption`, `RolledBackAssumption` | units, and the ids of missing ones, are finitely many numbers, in the order of names; a unit's own evidence never gives DEPENDENCY_INVALID, which only the gate adds |
| `NullAssumption`, `IntegrationAssumption`, `CiAssumption` | a blueprint has nodes, edges between them, and mounts whose nodes are nodes of it; null is a value, not a missing one |
| `MergeGroupAssumption` | a plan has some finite set of units; `MaxObjects` and `MaxWidth` are the schema's bounds (the run does not reach WIDTH_TOO_LARGE) |
| `UnitsAssumption`, `FilesAssumption`, `BoundsAssumption` | units are listed after what they depend on and some blueprint satisfies all claims; a torn file is not taken for a whole one |

Three theorems have a hypothesis of their own, each with a run that shows why: `CleanupFree` (neither a rollback
after the put nor an ambiguous COMMIT), without which `persistence_rollback` loses an object; `Overlap = FALSE`, for
commands of a recovery that take turns; and `SizesAreBounded` (a tenant has finitely many repositories, an
envelope a largest size), without which the bound of the storage quota would not be a number.

### `HostedReviewProofs`: persistence and review

* `IInv` is the invariant of the persistence. `PurgedContentIsGone` is not inductive: whether a put can bring purged
  bytes back depends on what the uploads in flight know. `IInv` adds that locked transactions belong to
  different repositories, that an upload on its way to insert has no row in the index, and that a purge
  holds denied rows nobody else holds, whose objects it has dealt with are gone. From it follow
  `TypeInvariant`, `PurgedContentStaysGone` and, for receipts, `ReceiptStaysTrue`, under every fault.
* `DayIsBounded`: `DayInv` says that an upload past the quota still has room in its UTC day, which the
  lock keeps for it.
* `StorageIsBounded`: the rows that count for a tenant, taken together with those of uploads past the quota,
  exceed the limit by at most one largest envelope for each other repository. When an upload is admitted, the
  rows that count and its own are within the limit, and the others admitted belong to other repositories;
  every other step only takes from that set. The sum is a fold, so the lemmas before it
  establish that it is defined, and does not depend on the order, on any finite set of rows.
* `LiveIndexKeepsObject` and `StoreIsImplemented` (the refinement of `EvidenceStore`) hold when `CleanupFree` does.
* `ReviewKeepsPersistence`: the review's specification implies that of the persistence, so all of the above holds of it.
  `ReviewInv` adds what a visit knows of its row, that a decision's row stays, and what audit events say. From it follow
  `DecisionStays`, `DenialIsSeen`, `AuditIsTrue` and `LogIsImplemented` (the refinement of `DecisionLog`, for which
  evidence is not opened again after a decision because decisions keep their rows).

### `HostedSessionProofs`, `HostedUploadProofs`

* `SessionInv`: the update of a session compares no version. What keeps an older credential from overwriting a newer
  one is that a refresh token is good once: one request at most is on its way to the update, and it carries the
  newest credential. A request that the standing allows now, or whose role as it read it suffices, has been allowed since it
  arrived. From these follow `CredentialIsRenewed`, `StrandedByFault` and `GrantNeedsStanding`.
* `UploadInv`: a cached key was published at most the timeout of a fetch before its installation, and whatever stands
  while a request is served is recorded as having stood since it arrived. From it follow `AcceptedKeyWasPublished` and
  `StoredUploadWasBound`.

### `RecoveryRunnerProofs`

* `RunnerInv`, for commands that overlap: every complete file is a history the verifier accepts, every command holds
  one that can be extended, and the branch is at most one ahead of what the files record. From it
  follow `HistoriesAreAccepted` and `BranchStaysWitnessed`.
* `SequentialInv`, for commands that take turns: the files are prefixes of one history, the command at work holds its
  tip, and the branch is where that tip and the command's place say. It
  says besides who left a torn file, who recorded the end without a result, and that each closing attempt
  (pause, failed step, end) has a command of its own that will record nothing more. From it follow `StopsAreExplained`
  and `LedgerIsImplemented` (the refinement of `RecoveryLedger`).

### `DagGateProofs`

* `GateInv`: in the order each unit stands once, after its dependencies, and before every other that was ready; the
  units evaluated so far have the reasons the final set gives them; and the invalid units so far lie in every
  set that contains the failing units (or the cut) and is closed under dependants. That is what makes it safe to
  read the set of invalid units while it grows. From it follow `ReasonsStayRight`, `InvalidAreConsequences`,
  `CutExplains` and half of `OrderIsCanonical`.
* `SearchInv`: the units on the stack and the calls in progress stand in the order of their indexes; what a visited unit
  depends on is visited or still to be followed; each call reaches what is above it on the stack, which reaches one of
  the calls. Of the low link it says what it means for the stretch of the stack between a call and the next: it is the index of
  a unit that the call's unit reaches, and no dependency followed from that stretch leads to a lower one. So where a call
  returns with its low link equal to its index, nothing above it leads below it: the units popped are a component.
  From it follows `SearchDiagnosesPlan`.
* `OrderIsCanonical`, its other half: in a plan without a cycle, a unit that needs the fewest units of those left to order depends on none
  of them. The diagnosis is complete, so `canonicalWorkUnitOrder` never throws (`SoundPlansAreOrdered`).
* `GateCannotGoOn`: a measure that each step lowers: stages still to come, units still to visit, order or evaluate, and
  dependencies and calls still to finish, compared in this order. It is the part of `GateEnds` that is not about fairness.
* `CarriedUnitsStand`: `RecoveryInv` follows the changed and the carried units through rollbacks and replacements to
  the second gate.
* `ImpactIsFunctionOfTargets`: `TraceInv` says of a path in the queue that every unit on it but the last has a
  witness no longer than the path up to there, and of a witness that each dependant of its last unit has one at least as good
  as the witness extended, unless that extension is still in the queue. When the queue is empty, every path from a target
  is met by a witness at least as good, by induction along the path; the order in which targets were traced is gone.
* `TraceCannotGoOn`: a path that becomes a witness is none that could become one any more, and makes no other such path, of
  which there are finitely many because no unit is twice on a path.

### `IntegrationProofs`: candidate, CI job, merge group

* `EffectsKeepWatched`: for any three blueprints and any merge of them, a comparison that finds no conflict
  means that the merge keeps every watched part a branch changed.
* `CiInv`: what a run has read, the revisions that stood together since, and the files that each step
  of the job has left. From it follow `CompatibleMergeIsSafe`, `CompatiblePairStood`, `ResultsAreAccepted` and
  `JobSuccessIsEarned`.
* `GroupInv`: commits are numbered after their parents and lead back to the root. It makes the ancestry that the adapter
  asks Git for the one that the verifier derives from the bundle, within the slice of the group; the set of invalid units
  that both compute is a fixed point. From it follow `PassingGroupIsEarned`, `PassingJoinsLoseNothing` and
  `BundlesAreAccepted`.

### `LinearPlanProofs`

An answer outlives the state it was given in. The invariants therefore say of every answer what is true at the commit it
was given for, as long as that commit is in the history, and what every departure of the developer leaves alone: the
commits up to some place, while those above it get new identities (`Kept`).

* `PlanInv`: identities of commits, sources of replacements, the files that hold plans, the acceptance being written, and the
  answers. From it follow `PassesAreEarned` and `PreservedWereValid`.
* `FinalInv`: a plan is bound at one commit of a history at most, bundles bear the bindings of their commit, and once a
  bundle of that commit is kept the nearest earlier bundle is one of that commit. From it follows
  `PassesAreFinal`.

Bindings and reasons are recursive functions there, so their lemmas begin by showing that the recursion
has one solution.

### What stays with TLC

* `UploadIsAnswered`, `DueContentIsPurged`, `GateEnds`: liveness under fairness is beyond the prover, and so is that a step
  is enabled. Of `GateEnds` it is proved that no run is infinite (`GateCannotGoOn`); that none is stuck TLC checks.
* `BlueprintPredicate`: it is recursive over data, and induction over data needs theorems with an operator as parameter,
  which none of the provers can instantiate. The proofs about the pipeline hold for any evaluation.

## 5. Plan

Every safety property that the runs check is proved. What remains is to model more, and to prove of it what holds:

1. The audit export with its pages, and the listing of decisions (`HostedReview`).
2. The conversion of old artifacts and the review commands of the linear repository (`LinearPlan`).
3. The bundles of the DAG gate on disk, with its execution cache, beside deaths of the process.

## 6. Divergences noted

One is a run. The cleanup of a failed upload runs after its lock is released and removes the object of an
upload that has been indexed meanwhile (`persistence_rollback`; quoted in `PROJECT.json`). The others were met
while modelling; the models follow the code, and the properties above are stated so that they hold of it.

* *Storage quota.* D36 (`docs/decisions/decisions.jsonl:36`) limits a tenant; the lock of
  `postgres-object-persistence.ts:247` is a repository's.
* *Metadata purge.* An expired envelope with a decision makes the purge of its tenant fail for ever
  (`migrations/003_hosted_review_v1.sql:28` and the trigger at 48).
* *Decisions.* Two visits that saw the same decision may both supersede it (`review.ts:614`); a reader finds two successors.
* *Recovery.* A death between `updateRef` and the first attempt (`recovery-runner.ts:531`) leaves a recovery that
  apply and resume both refuse; the attempt "completed" (756) precedes the checks of the result (792) and the result (807),
  and a completed recovery is not taken up again, so a failure in between loses the result for good; D44 (`decisions.jsonl:44`) asks for
  partial failure to be resumable and for completion by a verified result.
* *Retained dependants.* D44 admits "retain" for every affected unit, but a plan that retains a unit that depends on a
  changed one always ends in the outcome "error" (`dag-semantic-runner.ts:834`).
* *Replacement gates.* D43 (`decisions.jsonl:43`) lets the gate of a replacement pass, block or err; an erring one makes
  `exactGateBundle` throw (`selective-recovery-runner.ts:96`), and no sidecar is written.
* *Diagnostics.* The DEPENDENCY_NOT_ANCESTOR diagnostics of a unit follow the names of its dependencies
  (`dag-semantic-runner.ts:839`); the verifier requires the order of their canonical bytes
  (`dag-structural-error-integrity.ts:255`), so the run throws when the two differ.
* *Repeated gates.* A gate that blocks with BLUEPRINT_WITNESS_STALE keeps a bundle without the stale record; the next gate at
  the same head prefers that bundle, and passes (`semantic-repository.ts:1411`). A replan of the same head is then refused.
* *Kept failures.* A check that timed out is kept as failed for its key; a torn check result or bundle is reported as
  invalid by every later run (`semantic-repository.ts:193`, `dag-execution-cache.ts:104`).
* *Merge groups.* A plan with a missing binding, a missing dependency or a cycle makes `assembleGroupIntegration` throw, so there is
  no artifact, where C54 (`docs/product/contracts.jsonl:54`) expects one. A group on a base that moved since the plan was accepted is
  refused by PLAN_BASE_MISMATCH (`dag-semantic-runner.ts:554`). Commits without trailers may change sources.
* *CI.* Both steps work on the object ids of the event, so TARGET_MOVED and HEAD_MOVED cannot arise there (D37, C48); since the head must
  contain the target, a successful job never merges anything. In the generated workflow, `node-version` and `key`
  are indented by a TAB (`ci-runner.ts:210`, 221), which YAML does not allow.
* *Effects.* A node with an edge that both branches removed is a NODE_DELETE_CHANGE conflict; names of removed nodes are compared without their topology
  (`integration-effects.ts:277`); a metadata key with a dot is split (118-126). D37 asks to block reproducible incompatible effects only.
* *Sessions.* The end of an access token is dated from the arrival of the provider's answer (`browser-auth.ts:250`) and compared
  with eight hours from the time read before the call (365). A token that lives eight hours is turned away whenever the clock
  moved meanwhile, at a refresh after the refresh token was spent.
* *Upload.* A repeated attempt of a sync job has another `run_attempt` and is stored and counted again. A key fetch that throws is answered
  500, one that is refused 401.

## 7. Not modelled

Presentation, HTTP routing of the web surface and HTML, the parsing of arguments, the scaffold of a repository, exports
of bytes that exist already, external plan providers, fixtures: they keep no state whose order matters. The local review state and the
execution cache are written by one user's commands; their protocols (create exclusively, rename) occur in
`RecoveryRunner` and `LinearPlan`. Canonical JSON, digests, signatures and schema validation are used as ideal: equal values and no
others have equal digests. Git, the provider's API, PostgreSQL and the blueprint library are modelled as the code uses them and marked
external. The components table of `PROJECT.json` gives the reason for each part left out.
