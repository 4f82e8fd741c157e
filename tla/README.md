# Kubernetes platform control plane: TLA+ models

These modules describe the control plane of this repository: the controllers
that turn a `PlatformEnvironment` into Terraform-managed infrastructure and
runtime objects, execute Terraform in Jobs, and take everything down again.
They are written from the Go code; a line number without a file below belongs
to the file named just before it.

## 1. The system

| Component | State it keeps | Operations |
|---|---|---|
| Execution gate (`internal/reliability/gate.go`) | in memory: counters per kind, per stack and per concurrency group, the set of holders, three flags | `TryAcquire`, `EnsureActive`, `Release`, `Reconstruct`, `CloseAdmission`, `Ready` |
| TerraformRun controller (`internal/controller/terraformrun_controller.go`, `terraformrun_reconstruction.go`) | status of `TerraformRun` objects (outcome, JobRef, evidence) | one `Reconcile`; a goroutine that fills the gate after a restart |
| Jobs and runner (`internal/terraform/{job,executor}.go`, `cmd/terraform-runner`) | Jobs, Terraform state, `terminal-result.json` in the artifact store | prepare, plan or apply, upload evidence, store the terminal result, exit |
| InfraStack controller (`internal/controller/infrastack_controller.go`) | status of `InfraStack` (Ready condition, latest Plan, retained closure), its finalizer and fence | reconcile present, reconcile destroy, create and supersede Plans, create Applies |
| PlatformEnvironment controller (`platformenvironment_controller.go`, `environmentclass.go`) | environment status and finalizer, spec of the stack and of the ResourceSet | admit against class and quota, write the children, delete in order |
| ResourceSet controller (`resourceset_controller.go`, `internal/runtime`) | inventory of objects applied to the target cluster | apply in waves, prune, clean up on deletion |
| EnvironmentClass controller | usage count, spec digest, finalizer | validate, hold deletion while in use |
| Artifact store (`internal/artifacts/s3.go`) | immutable objects with their digest | put if the key is free, compare if it is taken, get verified |
| Console API (`internal/console`) | none of its own; writes environments, classes and approvals | create, update, delete with preconditions; approve a Plan; read model; AI drafts |
| Target resolution (`internal/target`), Terraform inputs and bundles (`internal/terraform`) | none | validate identities, discover clusters, pack and check files |

All controllers run in one leader-elected manager with one worker per
controller. They talk only through objects of the API server, which they read
through shared informer caches and write with optimistic locking; watches and
requeues wake them up. Jobs run independently of the manager.

What is hard here: a worker decides on a cached object while another worker or
a person has changed the original; a request takes effect and its answer is
lost; the manager stops between two requests of one reconciliation; the gate is
refilled while the reconciler already runs; Jobs disappear; evidence cannot be
read for a moment; Plans expire; deletion overtakes an Apply. `hazards` in
`PROJECT.json` lists these places line by line.

What makes each part correct: the gate never admits more than the limits and
loses no slot; a run is executed at most once and its outcome is true, final
and eventually there; a stack is reported ready or removed only when it is; an
environment is taken down in order and completely; a ResourceSet prunes exactly
what it owns; a class in use stays; an artifact is written once.

## 2. Modules

```
SlotPool  <--refines--  ExecutionGate  <--EXTENDS--  RunExecution

StackPromise  <--refines--  InfraStack
      ^
      | EXTENDS
Environment  --EXTENDS-->  ResourceSet
      |
      +--refines-->  Teardown

Admission                     Runner
```

Each module with runs of several instances has an `MC...` module that holds the
small sets; `Runner` needs none. The theorems of a module `M` are in `MProofs`:
`ExecutionGateProofs`, `RunExecutionProofs`, `RunnerProofs`, `AdmissionProofs`,
`ResourceSetProofs`, `EnvironmentProofs` (which uses the lemmas of
`ResourceSetProofs`) and `InfraStackProofs`. Definitions whose comment begins with "Mutant"
are variants of a definition with a plausible bug; no specification uses them.

**`SlotPool`** is the abstract promise of the gate: a pool of holders that is
closed when a process starts, is filled once with what already runs and then
admits a holder only while it is open and the holder fits the limits of the
manager, of its stack and of its concurrency group.

**`ExecutionGate`** is `gate.go`, one action per method, since every method
holds the mutex from beginning to end. `activeItems` is the set of the values of
the Go map. `Acquire` is both `TryAcquire` and `EnsureActive`, whose bodies are
the same; `Release` counts down what was reserved, not what the caller passes.

**`RunExecution`** is the execution of runs and extends the gate, whose actions
are parts of its own. A reconciliation of the single worker is one action, except
where it sends several requests that matter in their order: `PersistIntent`
(JobRef written, 170-174), `CreateJob`, `FailCreate` or `LoseCreate` (175-178)
and `RecordJob` (184-197) are separate, so the process can stop between them.
Before a JobRef exists the paths are `RejectProfile`, `AdoptEvidence`,
`WaitForSlot`, `RejectBinding`, `FindJob` and `PersistIntent`; afterwards
`LoseJob`, `WaitForReconstructedSlot`, `ObserveJob` and `CaptureResult`.
`ListActive` and `FillGate` are the reconstruction goroutine. The runner is
`StartRunner`, `Mutate`, `StoreResult`, `FinishJob`. With `StaleReads` each
object has a cached copy that is refreshed by `CacheRun` and `CacheJob`; a status
update on a stale copy fails on conflict (`WriteStatus`), and one that changes
nothing succeeds without a request (`Written`, from `updateExecutionStatus`).
The status of a Plan has a second writer, the controller of stacks: `Supersede` is
the update of `ensurePlanRun` (`infrastack_controller.go:189-197`), which may come
whenever its cache shows an attempt that has failed or may have expired; when and
why it comes is the subject of `InfraStack`. `mutated` and `created` are history
variables.

**`Runner`** opens up what `RunExecution` takes as one step each: the Pods of one
Job, what they upload and what the controller accepts of it. Each Pod is a
sequence of places (`at`): prepare, upload the module inputs, run Terraform, the
artifacts in the order of `main.go`, the discovery that is read back, the terminal
result, the exit code. An upload is `PutImmutable`: a conditional put (`Create`),
whose answer may be lost so that the client repeats it (`LoseAnswer`), and,
when the key is taken, a read and a comparison (`Meet`, `Compare`). Contents are
told apart by the Pod that made them or are `Same` for all. `Accepts` is
`verifyTerminalEvidence` of the controller. Kubernetes may start a second Pod of a
Job whose first one still runs or was killed; that is `StartPod`.

**`StackPromise`** is what an InfraStack promises to whoever owns it, without
Plans, runs and caches: which reason may be reported when (`Justified`), and that
infrastructure comes and goes by Applies only. It promises nothing about the
infrastructure of a ready stack; section 6 says why.

**`InfraStack`** is one stack with its Plans, approvals and Applies.
`ReconcileStack` is `Reconcile` with `reconcilePresent`, `reconcileDestroy`,
`ensurePlanRun`, `reconcilePlanResult` and `ensureApplyRun`; each branch that
ends in a status is an action. An update that follows another request may be
missing (`ThenUpdate`, `Releases`), which stands for a stop or a conflict in
between. The execution of runs is abstracted by what `RunExecution` shows: an
Apply ends `Succeeded`, `Indeterminate` or `Rejected` (the code maps every
failed Apply to `Indeterminate`, so the `Failed` branches of `reconcileDestroy`
are unreachable and left out). `AdmitApply` and `StartApply` are two actions,
since the admission of an Apply (`validateApplyApproval`) and the creation of its
Job are separated by requests. `infra` is what Terraform manages; a saved Plan is
refused when the state has changed since (`base`). `Discovered` is the verdict on
the target found by a run. The owner of the stack (`EditStack`) does what the
environment controller and operators do to it. `ApprovePlan` is the console, whose
checks and write are one step: what a late approval can do is stopped where the
Apply is admitted, which is checked again there.

**`ResourceSet`** is one set and the objects it stands for in the target cluster.
A reconciliation is a pass: it works on the set as it was read (`pass.view`), and
every request it sends to the cluster is an action: `ApplyObject` wave by wave,
`CheckObject` at the end of a wave, then for each object that is to be pruned
`ReadDoomed`, `DeleteDoomed` with UID and resource version as preconditions, and
`ConfirmPruned`; the pass ends with one update of the status (`FinishApply`,
`FinishCleanup`, `EndPass`), which fails on conflict when the set has changed. Two
passes over the inventory share these actions: `pruneRemoved` after an apply and
`pruneInventory` of a deletion, which differ in what a missing object means.
Between any two requests the owner edits the set, others delete, replace or
relabel objects (`Disturb`), requests fail and the manager stops. The final look
at all objects (`runtimeReadiness`) is one step: it only reads, and what it
reports is corrected by the next pass.

**`Environment`** is a PlatformEnvironment in Class Mode composed with its two
children: the stack as `StackPromise` describes it and the ResourceSet in full
detail. `EnvPresent` writes the children and reports readiness; `EnvDelete` is
`reconcileDelete`: fence the stack, close and delete the set, ask for Destroy,
delete the stack, let the environment go. Each request is an action, guarded by
what the caches show. `MarkDeleting` comes first, and the rest waits until the
cache shows that status, where the code goes on in the same pass with the object its
update has returned. Nobody else changes an environment that is being deleted here, and
the cache may deliver at once and without the stack, so no behaviour is lost. When
the cache of the stack lags, so may that of its runs: `NoApplyInSight` then says
nothing.

**`Teardown`** is what deleting an environment promises to its user: first nothing
is recorded in the cluster any more, then the infrastructure goes, then the
environment.

**`Admission`** is an EnvironmentClass, the environments of a tenant that ask for
it and those who change them. The controllers decide on cached copies: usage and
finalizer of the class (`ClassController`), the quota (`WithinQuota`), creation of
the stack (`Admit`). The console shows a page, checks a request against the API
server and writes, three steps apart (`ShowEnv`, `SubmitOnEnv`,
`UpdateEnvironment` and the like), with the UID and generation of the page and the
preconditions of the code. Users with other clients do as they like.
What a spec asks for is one of six forms (`Specs`): the class, within what it allows
(`fit`) or not (`misfit`); another class, which is taken to be installed and to stay;
an InfraStack and a target of its own (`legacy`); a class and those (`both`); neither.
`validatePlatformEnvironmentSpec` rejects the last two (`RejectMode`). No field of a
spec is immutable, so `EditEnvBy` may turn any form into any other, also while the
environment is being deleted: `classRef` comes and goes, and the class counts whom it
is named by at the moment (`Uses`). Each change is a new generation, and two history
fields say what it did: `since` is the generation from which on the spec has named the
class, and `sound` holds while the spec has been of Class Mode from the start.
`AdoptLegacy` is the admission of an environment of legacy mode, which passes no
quota. `MeetConflict` is the environment that finds the InfraStack of its
predecessor, `ReleaseEnvOf` the end of its deletion, which removes the InfraStack that
it finds (`Finds`; the cache may not show one yet that was created a moment ago), and
`CollectStack` the garbage collection of what it does not.

## 3. Runs

Bounds are constants of the modules: `MaxRestarts` (restarts of the manager),
`MaxEdits` (edits by an owner), `MaxFaults` (failed requests, restarts,
disturbances, damage; each module names its own), `MaxOps` (changes by users and
console), `MaxPods`. `Lagging` names the kinds of objects whose cache may lag.

| Run | Instance | What it shows |
|---|---|---|
| `gate` | 6 items of both kinds on 2 stacks, one group with limits, maximum 2 and 2 | counters equal holders, `overCapacity` is exact, Applies exclude each other per stack, `SlotPool` is implemented. Reconstruction over capacity and with unsafe observations is included. |
| `run_faults` | 2 Applies, one slot, fresh reads, deleted and foreign Jobs, unreadable evidence, one restart or restore from a backup | running Jobs stay within the limits and are never abandoned; stored evidence prevents a second execution |
| `run_stale` | 1 Apply, stale caches, lost Create answers, deleted and foreign Jobs, unreadable evidence, 2 restarts, fair | at most one Job per run; success only on evidence; a mutation is never hidden; outcomes are final; a started run ends |
| `run_quiet` | 1 Plan, 2 Applies, no faults, attempts of the Plan superseded at any time, fair | every run ends, although they wait for each other's slots |
| `stack_stale` | one version, 3 edits, stale caches | a removed stack leaves nothing behind; a Destroy Plan is never raced by another Apply; `StackPromise` is implemented |
| `stack_deletion` | one version, 2 edits, 1 fault, fresh reads, fair | deletion goes on until it is done, needs recovery or waits for an approval |
| `resources` | a namespace, a slow database, an application that was there before; 2 edits, 1 fault, stale set, fair | only own incarnations are pruned; waves are kept; readiness is recorded; nothing recorded is left behind; deletion and apply come to an end |
| `environment` | one object or none, 1 edit, stale environment and stack, no faults, fair | readiness is earned; an environment gets ready; it is torn down in order (`Teardown`) and completely |
| `admission` | 2 environments, quota 1, one whose users write specs of any form, 3 changes, fair | the quota holds for those that have been of Class Mode from the start; a class stays for the users it was known to have while they go on naming it, and goes without them; the console acts on what its page showed; room is given |
| `runner` | Plan, Apply and Destroy, 2 Pods, 3 faults | what is stored stays; accepted evidence is that of one attempt; good evidence is accepted; an attempt alone fails only for a reason |
| `resource_prune` | two objects, one slow | finding: `RuntimeConverges` does not hold |
| `admission_quota` | as `admission` | finding: `AdmittedWithinQuota` does not hold |

Why the bounds are enough. Two runs with limits of 1 meet every conflict over a
slot; two restarts allow a crash inside a recovery. Three edits of a stack allow
change, undo and deletion, or fence, Destroy and deletion. Two edits of a set allow
a change during a pass and a deletion during the next; one fault allows one stop or
one intruder at any point, and three objects give one that is never pruned, one
that lingers and one that was somebody else's. The environment needs only one
object, since the order among objects is the subject of `resources`, and one edit,
which may fall before, during or after a deletion starts; deletion itself is not an
edit. A class is told to go, an environment is created and one is edited or deleted
within three changes. An environment that is created, deleted and created again uses up
all three, so the console that showed the first of them cannot act any more: in the run
`ConsoleActsOnWhatWasSeen` meets new generations and a new class only, and the theorem
`ConsoleActsOnSeen`, for any number of changes, covers new environments. Two Pods
are the smallest number that can mix, and three faults lose an answer, kill the first Pod and fail one request of the second.

`run_stale` has a single TerraformRun, since a Plan and an Apply together, with stale
reads, have more than eleven million states. It is the Apply, which is the kind that changes
anything. With `Items <- OnlyPlan` and `ForeignJobs <- NoRuns` all its properties hold
as well (15,233 states), and that is where an attempt is superseded on a stale read;
`OutcomesFinal` covers both kinds for all constants. The runs have 263,540
(`run_faults`), 25,222 (`run_stale`), 431,208 (`run_quiet`) and 647,174 (`admission`)
distinct states.

All runs but `gate` switch deadlock checking off: the systems stop when every run
has ended, an object is gone or someone has to act, and the bounds are used up.

**Two findings.** `resource_prune`: an object the new spec dropped lingers when it
is deleted, so the pass ends and the inventory keeps it; once it is gone, `pruneItem`
answers NotFound, `pruneRemoved` (`resourceset_controller.go:193`) takes that for
an error, unlike `pruneInventory`, and every later pass does the same.
`RuntimeSettles` of `resources` is the strongest form that holds.
`admission_quota`: `environmentAlreadyAdmitted`
(`platformenvironment_controller.go:311`) counts an environment that was rejected
as `InvalidSpec` as admitted, whether it named neither a class nor the legacy fields
or both, so it gets past the quota when its spec is mended; the same goes for one that
was admitted in legacy mode, which has no quota. `ClassedWithinQuota` of `admission` is
the form that holds: it counts those whose specs have been of Class Mode, a class and no
legacy fields, from the start.

## 4. Fairness

All conditions are weak fairness.

`Fairness` of `RunExecution`: each run is reconciled until it has ended (every
path before that returns an error or a requeue, and the workqueue is fair), a Job
ends at the latest with `activeDeadlineSeconds`, caches deliver, and the
reconstruction runs once the process leads. None for rejections, for success of a
runner, for deleted Jobs or for stops.

`StackFairness`: the stack is requeued while it is not ready and woken by its runs;
Plans end; Applies that exist are taken up and end; caches deliver; a Plan whose
Apply was rejected expires an hour later. Approvals are never fair:
`DeletionProgresses` names a Plan that waits for one as an end.

`SetFairness`: every path of the ResourceSet controller ends in an error, a requeue
or a status, and changes of the set requeue it; whatever is left is reconciled by
the periodic resync. Deletions in the target cluster finish, and what was applied
becomes ready there; without that no readiness could be promised.

`EnvFairness`: the environment is requeued until it is ready and woken by its
children (`Owns` in `SetupWithManager`); the garbage collector works; caches
deliver; the ResourceSet as above. Of the stack only the end of a running Apply and
the release after a removal are fair: everything else it does, it may also never
do, and `EnvironmentConverges` and `DeletionGoesOn` say what they need of it.

`AdmFairness`: the queue of classes is worked off, but a class is only queued by
what the watches deliver (`due`): `UnusedClassGoes` depends on the watch that maps
environments to their class. Environments are requeued while they are not ready,
and the garbage collector works (`CollectStack`). Users and console are never fair.

`Runner` has no fairness: a Pod may hang until it is killed.

## 5. Proofs

`ExecutionGateProofs` proves, for all items, stacks, groups and limits that
satisfy the assumptions of `ExecutionGate`:

- `GateInvariant`: `GateSpec => []GateInv`
- `GateTypeCorrect`, `CountersNeverDrift`, `OverCapacityNeverStale`,
  `AppliesExclude`: the types and the three invariants the run `gate` checks
- `GateImplementsPool`: `GateSpec` implements `SlotPool`

The assumptions: items are work items and finite in number, the empty group is
not a group, both maxima are positive (`positiveEnvInt`).

The argument. None of the invariants is inductive alone. That counters stay
natural numbers needs that they count holders; that a counter equals a
cardinality after `Release` needs that the released item is held and that IDs of
holders are unique; that `overCapacity` is exact needs the counters and that
`Admissible` requires room, or the flag could become false without a release;
that Applies exclude each other needs `activeByStack` to be the number of
holders of the stack, since the gate only looks at that number. `GateInv` is the
conjunction. Lemmas state how each cardinality changes when one item is added or
removed (`FiniteSetTheorems` for single additions and removals), then each
action has one step per conjunct. The refinement uses the invariant: the gate
compares counters with limits where the pool compares cardinalities.

`RunExecutionProofs` proves about `RunExecution`, for any set of runs with
different UIDs, any limits, any number of restarts and every combination of the
faults:

- `ManagerUsesGate`: `ExecSpec => GateSpec`. The system makes only calls the gate
  alone allows, so all theorems above hold inside the manager, under stale
  caches, lost answers and restarts. `ReconInv` carries it: until the
  reconstruction has handed over its list the gate is closed, so it is filled
  once per process and never over slots already taken.
- `ExecTypeCorrect`: `ExecSpec => []ExecTypeOK`
- `SuccessEvidenced`: `ExecSpec => []SuccessIsEvidenced`. `EvidenceInv` adds that
  stored success of an Apply means it mutated, and uses that stored evidence is
  never replaced.
- `RerunPrevented`: `ExecSpec => EvidencePreventsRerun`, under every fault, also
  when statuses and Jobs are lost. `IntentInv` has it: behind a running Job there
  is a JobRef, and what the worker is about to create neither runs nor has left
  evidence. A runner can store evidence only while its Job runs, so none can appear
  between the read of the store and the Create request.
- `JobCreatedOnce`, `MutationVisible`, `OutcomesFinal`: `AtMostOneJob`,
  `MutationNeverHidden` and `OutcomesAreFinal`, if `StatusLoss` is false. With
  it they are false: a restored backup forgets the intent. All three follow
  from `HistoryInv`: a created Job stands behind a JobRef that stays; the worker
  about to create a Job has not created it before and its run has not ended; a
  run without a Job cannot be running or mutating; an Apply that ended neither
  Succeeded nor Indeterminate never had a Job. `OutcomesAreFinal` admits one change
  of what has ended: an attempt of a Plan becomes Superseded, once, and keeps the rest
  of its status. `SupersedeEffect` and `RetiresMeans` say that the controller of stacks
  does no more than that, whatever its cache shows, since the update carries the
  resourceVersion that was read; so the worker that is about to create or to record a
  Job never meets it.
- `NoneAbandoned`: `NoRunningJobIsAbandoned`, if `StaleReads` is false, from
  `IntentInv` and the evidence each path has of the Job (`Permitted`).
- `LimitsHold`: `ActiveWithinLimits`, if `StaleReads` and `CreateLoss` are false.
  `SlotInv` relates the Jobs in the cluster to the gate: while the reconstruction is
  under way no slot is held and what it has listed includes every running Job; after
  it every running Job holds a slot; what holds a slot was started, so it is not
  started again on the slot it has; and a Job is about to be created only among
  holders that are within the limits. The counters alone would not do: with more
  running than fits, which a restart may find, the holders exceed the limits, and
  what keeps the Jobs within them is that nothing is created then.

The hypotheses are the settings of the runs that check these properties; section 6
says what happens without them.

Lemmas first reduce each path of `Reconcile` to its effect on the statuses
(`Judges`, `Binds`, `Intends`, and `Retires` for `Supersede`) and on the gate
(`Settles`): they say once that a write on a stale read changes nothing, and every invariant is then preserved case by
case.

`RunnerProofs` proves about `Runner`, for any number of Pods and of faults:

- `RunnerTypeCorrect`: types, and every object carries the digest of what some Pod
  uploads under its key
- `StoredForGood`: `RunnerSpec => StoredStays`
- `OneAttempt`: `RunnerSpec => []AcceptedIsOneAttempt`
- `EvidenceAccepted`: `RunnerSpec => []EvidenceIsAccepted`
- `FailsOnlyForAReason`: `RunnerSpec => []FailsForAReason`

The argument. `AcceptedIsOneAttempt` looks at the store and at the references of
the Pod whose terminal result is stored, and says nothing of how they came to fit.
The strengthening is about the Pods (`SoundPod`): each reference a Pod holds is
either missing or to what the Pod itself makes under that key, which is its own or
the same for all; and a Pod that is about to read the discovery back has met it in
the store with the digest it makes itself. That survives the steps of the other
Pods because every step leaves the store, creates an object under a free key or
damages bytes without the digest (`StoreStep`), so digests stay (`DigestsStay`,
which is also `StoredForGood`). `Compare` needs `MetInv`: a Pod that found its key
taken is still at that upload. Accepted references are then compared byte by byte
with digests that only that attempt makes.

The other direction, that good evidence is accepted, needs to know how far a Pod
has come: `ReadyPod` says which artifacts are stored by the place a Pod has reached
(`Behind`), if it counts its artifacts as ready. `WellInv` says of a Pod that is
alone and was not blamed that nothing has failed: a repeated put meets its own
object.

`AdmissionProofs` proves about `Admission`, for any environments, any quota and any
number of changes:

- `AdmTypeCorrect`: `AdmSpec => []AdmTypeOK`
- `KnownUsersKeep`: `AdmSpec => []KnownUsersKeepClass`
- `ConsoleActsOnSeen`: `AdmSpec => ConsoleActsOnWhatWasSeen`
- `QuotaHolds`: `AdmSpec => []ClassedWithinQuota`, if `SharedSeconds` is false

The argument. `ViewInv` says that a cache shows what was: the same environment at an
earlier moment, or an earlier one of that name (`Later`). Most of what is said of an
environment is said for good (`Changed`): that it is being deleted, that it is not of
Class Mode from the start, and that it has named the class since some generation, until
it is edited to name it no more or anew, since a later one. `Sane` relates the
form of a spec to its history. A class goes when the cache shows no user. `KnownInv` says
that what the cache shows of a noted user is at least as new as what it showed when the
user was noted; so if it shows it as no user, the environment has dropped the class since,
or is gone, and if it names the class again, it does so since a later generation
(`KnownUsersStep`). The console is `CheckedInv`: what it is about to write was compared
with the page. The quota is decided by each environment for itself, from the order of
creation, so no state says that a tenant is within its quota. `RankInv` does: whoever is
sound and has passed (`Passed`: its InfraStack is there, or it is reported as started, in
the API server or in the cache) has fewer elder ones than the quota, whoever else comes,
goes or is edited. Reports of having started matter since `environmentAlreadyAdmitted`
believes them, also where an InfraStack of a predecessor was in the way. That a
stale cache does not hide an elder one is `SnapInv`: the cache shows all environments
at one moment, so if it shows one, it shows those born before. The youngest of those
admitted then bounds the number of all (`BirthInv`: seconds tell them apart).

`ResourceSetProofs` proves about `ResourceSet`, for any objects, versions, waves,
protected and foreign objects and any number of edits and faults:

- `SetTypeCorrect`: `SetSpec => []SetTypeOK`
- `ReadyRecorded`: `SetSpec => []ReadyIsRecorded`
- `PrunesOwn`: `SetSpec => PrunesOnlyItsOwn`
- `NothingOrphaned`: `SetSpec => RecordedNotOrphaned`
- `WavesOrdered`: `SetSpec => WavesInOrder`

The argument. A pass works on a copy of the set and writes it back only if the set has
not changed meanwhile, so the invariant is stated of copies: `RecordOK(record, ...)`
holds of the set, of what the cache shows and of what the pass has read. It says that
only incarnations that were applied are recorded, and none that is newer than the
object. `PassOK` says of the pass what it has learnt about the cluster and what the
cluster may not undo behind its back: an object it has pruned has not come back as
the incarnation that was recorded, and what it is about to delete, if it is still
the one that was read, is its own. The lemmas about steps do not depend on who owns
the set (`OwnMoves`), so that `EnvironmentProofs` can use them with another owner.

`EnvironmentProofs` proves about `Environment`, with any caches that lag and faults:

- `EnvTypeCorrect`: `EnvSpec => []EnvTypeOK`
- `ReadinessEarned`: `EnvSpec => []ReadyIsEarned`
- `TeardownImplemented`: `EnvSpec` implements `Teardown`

The argument. What the controller reads late is late in a harmless way, and `EnvInv`
says in which: a set that is not shown yet has recorded nothing, a stack that is not
shown has built nothing, an environment that is shown as being deleted stays so, and
a removal that is shown has taken place (`SetOrder`, `StackOrder`). `Sealed` is what
the order of the deletion is for: once Destroy has been asked, the set can neither
record nor apply anything, whichever pass is still under way. Steps are first sorted
by what they touch (`Kinds`); the refinement then has to show only that objects are
never used after the infrastructure goes, and infrastructure never after the
environment.

`InfraStackProofs` proves about `InfraStack`, for any inputs and any number of edits
and faults, with fresh or stale reads:

- `StackTypeCorrect`: `StackSpec => []StackTypeOK`
- `RemovalIsTrue`: `StackSpec => []RemovedMeansRemoved`
- `DestroyAlone`: `StackSpec => []DestroyPlansAlone`
- `PromiseKept`: `StackSpec => KeepsPromise`, that is, `InfraStack` implements
  `StackPromise`. With `TeardownImplemented`, this carries the order of deletion from
  Plans and Applies up to the environment.

The argument. Two controllers with stale caches create Plans and Applies and admit
them, and a stack that was reported as removed is removed only if nothing that was
approved before can still be applied. The invariant `StackInv` is stated of any
stack, runs and copies of them, so that a cache which catches up is a lemma of its own
(`StackRefreshed`, `RunsRefreshed`) and not part of every step. Its parts: the
caches show what was (`EarlierStack`, `EarlierRuns`); an Apply exists only for a Plan
that was seen, and runs only if it was seen itself (`ApplySeen`); once a later attempt
is seen, no Apply is created for an earlier one (`LaterAttempts`), and an attempt
that is not seen yet was made because the last one that is seen was discarded
(`UnseenAttempts`); one Apply is admitted or runs at a time (`OneApply`), and none but
Destroy since a Destroy Plan of the generation exists (`Alone`); a Destroy Plan that
found nothing, or whose Apply succeeded, still tells the truth while its generation is
that of the stack (`Emptied`). From these follows `Gone`, what holds of a removed
stack: every approved Plan is `Dead`, because its Apply has ended, its generation is
over for everyone who decides, or a later attempt is seen.

The refinement needs no more than the invariant: a step that reports a reason is
`JustReports`, for which the invariant gives the justification, a step that starts or
ends an Apply moves the infrastructure as `StackPromise` allows, and all others show
nothing (`SameRunning`, `Shown`).

Only model-checked are the liveness properties (`EveryRunEnds`, `StartedRunsEnd`,
`DeletionProgresses`, `CleanupCompletes`, `RuntimeSettles`, `DeletionGoesOn`,
`EnvironmentConverges`, `UnusedClassGoes`, `RoomIsGiven`): fairness and `ENABLED` are
outside the reach of the proof system. All type invariants, safety invariants and
action properties of the runs, and the three refinements, are theorems.

## 6. Known deviations

Where a property is stated for some faults only, or with an exception, this is
what happens otherwise. Each can be seen with the constant that is named.

- `ActiveWithinLimits` (`run_faults`) does not hold with `CreateLoss`: a lost
  answer to Create gives the slot away while the Job runs
  (`terraformrun_controller.go:175`).
- `NoRunningJobIsAbandoned` does not hold with `StaleReads`: the cache does not
  show the Job yet that was created a moment ago (201).
- A run whose Job vanished after the runner had stored its evidence ends
  Indeterminate, not with that evidence (199-202).
- `EveryRunEnds` (`run_quiet`) does not hold with a restart: a Job that finishes
  between the listing and the filling of the gate keeps its slot for ever
  (`terraformrun_reconstruction.go:34`).
- A stack may be Ready for a new spec, and the Apply of the old one change the
  infrastructure afterwards (`infrastack_controller.go:268`); hence the modest
  promise of `StackPromise`.
- A first Apply that succeeds after the deletion fence is not recorded, and
  deletion then ends in RecoveryRequired (113-123).
- Objects of a first pass that failed halfway are in no inventory. If the set is
  deleted then, they stay in the cluster (`resourceset_controller.go:120-122`).
  `RecordedNotOrphaned` speaks of what was recorded; a deletion in order, as
  `docs/architecture.md:113-116` has it, covers more.
- `KnownUsersKeepClass` protects the class for those that go on naming it. One that
  dropped `classRef` does not hold it any longer, even if it names the class again
  before the class goes: usage is counted by the `classRef` of the moment
  (`environmentclass_controller.go:43`).
- `ClassedWithinQuota` does not hold with `SharedSeconds`: a younger environment
  of the same second that comes first by its name is not yet in the cache when the
  older one is admitted (`platformenvironment_controller.go:292`).
- An environment whose stack is in recovery reports Deleting and RecoveryRequired
  by turns in every reconciliation (459). Nothing depends on it; the model keeps the
  first.
- ServiceAccount and Role of the runner are owned by the environment that created
  them and collected with it, though others use them (333). Not modelled.

## 7. What is not modelled, and why

Digests, identities and the outcome of target discovery are verdicts that may come
out either way, or functions of the run; parsing, packing and validation of files
and the adapters of cloud APIs are pure functions without interleavings. The read
model, plan view, AI drafts and the browser show and submit what other parts decide.
Generated code, CRDs, RBAC and deployment files hold no behaviour.

Of the parts that are modelled: the environment's legacy mode, children that belong
to another owner and the runner identity (`ensureRunnerIdentity`) are left out, as
no other controller reads what they write. Field ownership of server-side apply is
left out: one apply puts the object and the labels. Attempts of a Plan are ordered by
their creation, not by timestamps with a resolution of one second
(`infrastack_controller.go:175`). The reasons why evidence is pending are one.
`ExecutionEnabled = false` only writes a condition. The spec of a class is constant,
since its CRD makes it immutable, and so is its digest.

`Admission` has one class with a life of its own; another one that a spec may name is
installed and stays. The quota is that of the tenant and the limit of the class is the
same number. Of the legacy fields a spec has all or none, and what becomes of the
InfraStack of a legacy environment is left out. `Environment` is of Class Mode and stays
so: an environment that drops its `classRef` while it runs, or while it is being deleted
(`platformenvironment_controller.go:416-424`), is outside `TearsDownInOrder`. Its
owner does not write its spec any more once it is being deleted.

## 8. Plan

1. Safety parts of the liveness properties that are only checked, as theorems: for
   instance that a run which has not ended can always be reconciled, and that a slot
   that is held belongs to a Job that runs or to a run that will be looked at again.
2. `LimitsHold` per concurrency group, which holds for runs of one group with one
   limit.
3. That `Runner`, with one Job, implements the runner of `RunExecution`.
