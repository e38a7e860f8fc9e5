# Verification of MageLift's coordination core

MageLift deploys Magento environments to ECS, EKS, GKE, Scaleway and OVH from a
CLI. Several CLI processes (CI jobs, laptops, operators) may act on one
environment at the same time, each may be killed or cancelled at any moment, and
all they share is a bucket, a cloud, and a few files. This directory models the
parts of the program that have to keep that safe: the deployment lock, the
deployment orchestrator with the steps of each provider, the backup and restore
of the infrastructure state, the release journal and the import of the seed dump,
the cleanup ledger, and the registries, scheduler and execution of certification
runs. The modules are checked with TLC on small instances; their safety properties are
proved with TLAPS for every instance.

## Inventory

| Part | State | Operations | What is hard | What makes it correct |
|---|---|---|---|---|
| Deployment lock (`internal/cloud/aws/state/lock.go`, `providers/gcp/state/lock.go`) | one object per environment: owner, AcquiredAt, ETag or generation | Acquire (put if absent), Release and Unlock (inspect, then conditional delete), Status | no lease and no fencing token; lost answers; unlock while a run is at work | mutual exclusion, no run frees another's lock, a left lock can be cleared |
| Release closures of the providers (`aws/ops`, `aws/eksops`, `scaleway`, `ovh`, `providerhost/shim.go`) | the context or provider process each closure captured | release | which context it uses after a cancellation, whether it checks the owner | a finished run has given the lock up |
| Orchestrator (`internal/deploy`) | phase, `candidateRegistered` | `Run`: guards, acquire, hooks, preview, register, migrate, update, stabilize, health, record, deferred cleanup and release | every error path and every cancellation ends in the deferred functions, in the right order | candidate gone before release, migrations before traffic, record only what is served |
| Steps on ECS (`aws/deployment`, `aws/operations`) | registered candidate, ECS task | register, run and wait, stop, deregister, update, wait for rollout | migration task outlives the process; waits with a deadline | migrations run under the lock |
| Steps on Kubernetes (`internal/cloud/kube`) | migration Job | the same; the Job runs from registration on and its deletion is asynchronous | ready replicas of the previous revision, which the rollout check counts too | only the revision the services were updated to is recorded |
| Provider host and plugin (`internal/providerhost`, `providers/gcp/plugin`) | one child process per command | typed calls | a cancelled call kills the process that cleanup and release need | no call after the kill is assumed to work |
| Lifecycle commands (`internal/cli/lifecycle.go`, `state.go`, `execute.go`) | command context | deploy, destroy, state backup, restore, unlock | SIGINT and SIGTERM; infra-only deploys take no lock | as above |
| State archive (`internal/shared/statearchive`) | state objects, backups with manifest and marker | Backup, Restore | torn backups, failure half way, backups that rot | an accepted backup is whole, a restore is exact and removes last |
| Release journal (`internal/releasejournal`, `internal/cli/releases.go`) | JSON lines file and lock file, in the checkout | Append, List; promote, rollback, the row of a deploy | whole-file rewrite, lock file without takeover, one journal per checkout, schema read before the lock is taken from two counts that may fail, signatures inherited from earlier rows | no row is lost, the newest deploy row is what a deployment of the checkout serves, production serves promoted digests, a rollback fits the schema |
| Seed dump (`internal/seeddump`, `internal/dumpimport`, `internal/cli/env.go`) | status file and lock file, the database | import-dump, automatic import after a deploy | runs outside the deployment lock; interrupted loads are tried again; a failing gunzip goes unseen | "imported" means the whole dump is loaded |
| Cleanup ledger (`internal/cleanup`, `sdk/cleanup_ledger.go`, `internal/cli/cleanup.go`) | one JSON document per acceptance run | claim, record, plan, reconcile | unlocked load-modify-save, interruption, ownership through another resource, names used again | what is called gone is gone, "complete" means clean, everything owned is deleted in the end |
| Certification registries (`internal/certification`: `file_lock.go`, `artifact_registry.go`, `session_registry_file.go`) | two files, a lock directory each | lookup, claim, publish, put, mark, release | ownerless takeover of a stale directory, claims left by the dead, errors reported after the write | one builder, one user of a session, no second live stack |
| Certification scheduler (`scheduler.go`) | none: a function of matrix and checkpoints | BuildSchedule | units merge cells, warm transitions, keys, quotas, resumed plans | the plan passes the executor's own check |
| Certification execution (`scheduler_run.go`, `schedule_checkpoint_file.go`, `local_capacity.go`) | checkpoint file, capacity queue | ExecuteSchedule, Acquire, Release | concurrent units, grant against cancellation, death between mutation and checkpoint | dependencies first, no mutation without a mark, no capacity lost, attempts end |
| Admission snapshot, evidence, matrix, configuration, planning, Pulumi programs, cloud clients, secrets, logs, exec, tunnel, cost, local runtime, PHP build | - | - | sequential, external or formatting | see "Not modelled" |

How they interact: a lifecycle command acquires the lock through its provider,
calls `Orchestrator.Run` (deploy) or the infrastructure runner (destroy), and
gives the lock up through the closure the provider returned. On GKE everything,
the lock included, goes through a provider process. Backup and restore run under
the same lock. The last phase of a deploy appends to the release journal, still under the lock;
the seed dump is imported after its release. An operator may remove the lock object
with `magelift state unlock --yes` at any time. A certification run reads its
checkpoint file and the session registry to plan, executes, and writes checkpoints;
the acceptance scripts around it claim what they create in the cleanup ledger.

The hazards that follow from this, with the lines where they bite and the
properties that would catch them, are listed in `PROJECT.json`.

## Modules

`DeploymentLock` models the lock object, the managers and the closures. A run is a
CLI process that takes the lock at most once; its `pc` is where it is in the
protocol. `Acquire`, `AcquireLocked` and `AcquireFailed` are the outcomes of
`Manager.Acquire` (the last includes a put that was applied and whose answer was
lost). `BeginRelease`, `ReleaseInspect` and `ReleaseDelete` are `Handle.Release`;
`ReleaseFails` is a failing store, `ReleaseCancelled` a release whose context is
cancelled or whose provider process is gone. `ContextLive` says what separates the
providers: the ECS closure uses the context it is given, which for a deploy is
free of cancellation; the closures of EKS, Scaleway and OVH ("kube") use the
context of the acquisition; GKE ("plugin") needs its process. `OwnershipHolds`
says that GKE's release, a `state-unlock`, compares no owner. `UnlockInspect` and
`UnlockDelete` are `Manager.Unlock`. `evicted` and `faulty` are history.

`LockLease` is what the lock promises, in three variables: who is inside, whether
a lock nobody uses was left behind, and who has asked already. `DeploymentLock`
implements it, and `Releases` uses it in the place of the whole protocol.

`Orchestrator` composes the lock (`Lock == INSTANCE DeploymentLock`) with the
deploy and destroy commands. `phase` is the phase of `Run`; `candidateRegistered`,
`registeredSet` and `runErr` are the variables of that name in the code;
`candidates`, `task`, `infra`, `desired` and `served` are the cloud. `Skip` stands
for "disable" hooks and "replace" hooks that ran, `Abort` for a hook or phase that
fails without effect; the failures that do have an effect are actions of their
own (`RegisterLost`, `StartFails`, `WaitAborts`, `UpdateFails`, `DestroyFails`,
`CleanupFails`). The migration workload and the rollout end at their own pace
(`MigrationEnds`, `RolloutEnds`). `Intended` is what the health phase learns of the
rollout, `RolloutComplete` what it and the stabilisation ask of the running services. On ECS
the primary deployment has completed. On Kubernetes the check reads the
image from the template, counts updated pods that need not be ready, and ready pods of
any revision, so that a rollout with a surge may pass it while the previous image serves:
`Intended` asks for no more than the update and something that serves. The comments at
`kube/steps.go:309` and `:323` ("Stale healthy replicas fail") say more than the check
establishes. The probe that follows is a Job of the new image, and the plugin's request to
the storefront is answered by any ready pod; neither tells which image serves.

`StateArchive` models `Archive.Backup` and `Archive.Restore` with one step per
object and request. Contents are values a digest identifies; a manifest is the
function from keys to contents that its digests name. `WriteObject` is Pulumi
writing state, between commands or, by an infra-only deploy, at any time;
`Damage` is the expiry or corruption of a backup.

`Releases` models the journal of one checkout and the commands over it. A run is a process
that executes one of promote, deploy, rollback, import-dump, deploy --infra-only and
destroy (with the lock or with --skip-lock), or a command of another checkout of the same
environment (`DeployElsewhere`, `ImportElsewhere`): the journal and the status of the dump
are files under the checkout's `.magelift`, so a deploy from another machine shares the
lock and the database and writes a row elsewhere.
`LockJournal`, `ReadJournal`, `WriteJournal` and `UnlockJournal` are `Store.Append`,
which replaces the whole file; rows have an action, a digest, a signature and a schema
epoch, and a row's sequence number is its place. The deployment in between is
`Migrate`, `Update` and `Record` (Orchestrator has its detail), each of which may
fail with or without effect; `CreateInitial` is the registration on a stack without
outputs, which updates the services before the migrations. `DestroyStack` ends service, the
database, or one of them; the newest deploy row and the status "imported" stay as they
were. `epoch` is the schema epoch of the database, which migrations raise; `Observed` says
that reading it may fail, altogether or for one of the two counts it is the sum of.
`LoadTruncated` is a gunzip that fails half way, which mysql takes for the end of the dump.
`misled` and `spoilt` record what the properties except. `content` tells an empty
database from one with a site, with half a dump, with the dump, and with a mixture.
`MarkImporting`, `MarkImported` and `MarkFailed` are the transitions of the status file.

`CleanupLedger` models one ledger document. A maker claims a name, creates the
resource and records its identity, each time loading the document first and
replacing it whole; a cleanup process is `ReconcileCleanup`, dry for `cleanup plan`:
`Merge` takes an inventory and adopts what it finds, `Walk` takes the rows in the
order of rank, `Delete` and `Confirm` delete one, `Report` looks again and gives the
verdict. The provider is any that the interface allows, with the ownership rules of the
Cloud SQL adapter.

`CertificationRegistry` models one registry file with its lock directory: artifacts or
sessions, chosen in `Init`. `MakeDirectory`, `StatStale`, `RemoveStale` are
`acquireFileRegistryLock`; `Load`, `Store`, `Unlock` are `withState`; the operations
are functions from the file that was read to the file to write and a result; `After`
and `FinishWork` are what the callers do next (`EnsureImmutableArtifact`, the claim and
release of sessions around a schedule). A call may report an error although its write is in
the file: `StoreUnconfirmed` is a rename whose chmod fails, `UnlockFails` a directory
that cannot be removed after the operation succeeded. The caller then takes itself to have no
claim (`Granted` says when it has one) and does not release it. A quarantined session is live or
gone; `Put` looks at that, as the code looks at `Live`.

`Schedule` is `BuildSchedule` as an operator: validation, units, keys, dependencies
and batches (`Ready`, `Admits`, `Picked` and `Remaining` are the loops of `makeBatches`, as
recursive functions over positions); `ValidSchedule` is the independent check
`ExecuteSchedule` makes of a plan. `LocalCapacity` is the queue for local CPU and memory, for
any `Clients`: units of cells and, for `CertificationRun`, clients of other schedules. `CertificationRun` extends both:
`Plan`, the batches, and per unit `Acquire`, `MarkInProgress`, `Execute`, `ExecuteEnds`,
`ReturnUnit`; `Crash` leaves only the checkpoint file, and the next `Plan` goes on from it.

The theorems about a module `M` and their proofs are in `M_proofs`; the `MC` modules give
the constants their values. Operators marked "Mutant" are deliberate mistakes, used to confirm
that each property fails when the code has that mistake; no specification uses
them.

### Abstractions

- AcquiredAt stamps of two runs differ (`NewInfo`); the code compares times with
  nanosecond resolution. The store always returns an ETag or generation that
  identifies the written object, so the code's unconditional delete of an object
  without one does not arise.
- Digests do not collide.
- The ECS database grant task and the migration task are one workload. The pair
  of ECS task definitions is one candidate.
- `preview` and `refresh` are left out: they take no lock and no candidate.
  `destroy --skip-lock` (meant for acceptance cleanup) is in `Releases` and left out of
  `Orchestrator`. The guard at `lifecycle.go:264`
  between acquire and release of destroy returns without releasing, but refuses no
  destroy, so it has no step.
- A stopped task and a deleted Job may run on for a while ("stopping").
- A backup identity may be used again once everything under it is gone; in the
  code identities are time stamps, so this is more than can happen.
- In `Releases` a status transition is one step, because its lock file admits one process
  at a time; a crash may leave that lock file before or after the transition.
- In `Releases` a command of another checkout is one step: it happens while nobody holds the
  deployment lock (a deploy) or at any time (an import), and shares no file with the others.
- In `CertificationRegistry` records under other keys are left out: the operations touch
  one key, and the whole-file write of a robbed run is excepted by `robbed`. The owner of a
  session claim is the run: `resolveScheduleClaimOwner` makes a fresh one unless the caller
  supplies the one it persisted (`scheduler.go:88-92`, `703`), and a caller that resumes is
  taken to be the only live user of its owner; two live runs given the same owner would both
  be let in. The removal of a stale directory that a waiter has decided on succeeds.
- In `Schedule` unit identifiers, which are hashes, are an arbitrary order of the units.
- In `CleanupLedger` a resource is its name; kinds, regions and details are left out, and
  ranks are the order of `Order`, in which a backup comes before its instance, as the
  default ranks have it (`claim --rank` can say otherwise). Protection is something only
  directly owned resources have, as in the inventory of Cloud SQL. The list calls of the
  second inventory and the verdict are one step (`Report`). The run has one maker, so two
  writers of the ledger meet as maker and pass, not as two makers.

## Runs

| Run | Instance | States | Shows |
|---|---|---|---|
| `lock_forced` | three runs, an operator who unlocks at will, ECS and Kubernetes | 505,560 | `MutualExclusion` up to eviction, `OnlyWriterRemoves` |
| `lock_refinement` | three runs, two operators who clear stale locks, all providers | 1,992,778 | `TypeOK`, `ImplementsLease` |
| `lock_plugin_release` | GKE with forced unlocks | violation | `OnlyWriterRemoves` fails: the release deletes a successor's lock |
| `deploy` | a deploy and a destroy, hooks, an operator, all providers, with fairness | 672,838 | `TypeOK`, `CandidateGoneBeforeRelease`, `KubeMigrationUnderLock`, `EcsDeployFreesLock`, `LockEventuallyFree` |
| `deploy_pair` | two deploys, refused ones and ones without migrations included | 4,773,236 | `MigratedBeforeServed`, `RecordedIsServed` |
| `deploy_cancel` | deploys on Kubernetes providers | violation | `DeployFreesLock` fails: a cancelled deploy keeps the lock |
| `deploy_ecs_migration` | deploys on ECS | violation | `MigrationUnderLock` fails: the task outlives the lock |
| `archive` | two objects, two contents, one backup identity | 1,381,958 | `TypeOK`, `FaithfulBackup`, `RestoredExactly`, `StaleLast` |
| `registry` | three runs, two with one marker; one death, stall or directory left behind | 1,465,776 | `LockExclusive`, `NoTheftWhileFresh`, `BuildOnce`, `SessionExclusive`, `ClaimIsBacked`, `NoDuplicateWriter`, `WaiterGetsIn` |
| `certification` | every matrix of three cells of the given shapes, every checkpoint file, two attempts, one competing client | 191,160 | `CapacityConserved`, `HeadDoesNotFit`, `PlanIsValid`, `DependenciesPassed`, `NoSilentMutation`, `PassIsKept`, `AttemptEnds` |
| `releases` | three processes (a deploy or import; a rollback; a promotion, import, destroy, infra-only deploy or another checkout), two digests of different schema epochs, a new and a production environment, one kill | 234,834 | `DeployRowIsServed`, `ServedWasPromoted`, `RollbackFits`, `ImportedMeansLoaded`, `JournalGrows`, `CommandEnds` |
| `cleanup` | an instance made up to twice and a backup of it, a maker and a cleanup process, one mishap | 376,962 | `NoneStranded`, `GoneIsGone`, `CompleteMeansClean`, `CleanedUp` |

The three violations are disagreements between the code and what its tests, comments
or documents say of it; `PROJECT.json` quotes both sides.

### What the exceptions in the properties say

Several properties hold only up to a named exception. Each is a limit of the code, found by
stating the property without it; each is recorded by a history variable, so that the
property still shows that nothing else can go wrong.

- `LockExclusive`, `BuildOnce`, `SessionExclusive`, `ClaimIsBacked` except runs whose lock
  directory was removed under them (`robbed`): the directory carries no owner, so a
  takeover decided on a stale directory can remove the next one. `NoTheftWhileFresh`
  shows that this takes a death, a stall of five minutes, or a directory left behind first.
- `ClaimIsBacked` also shows which claims stay for ever: those of runs that died, of
  failed builds whose release timed out, and of runs that were told of an error after their
  claim had been written (`abandoned`).
- `RollbackFits` excepts rollbacks that took the schema for another than it is (`misled`):
  one of the two counts failed and was taken for 0, or a migration, import or destroy
  came after they had read it, which they do before they take the deployment lock. It also
  excepts digests for which a row was written when the schema was past them already
  (`Mislabelled`).
- `DeployRowIsServed` excepts a cutover whose run failed or was killed before its row
  (`unrecorded`), and what --infra-only, a destroy or another checkout made of the services:
  none of these writes a row of this journal. `ServedWasPromoted` is about the same journal.
- `ImportedMeansLoaded` excepts a database that is `spoilt`: an import ran beside another or
  beside a migration, gunzip failed unseen, or the database was destroyed or imported into
  from another checkout.
- `RecordedIsServed` claims the served image on ECS only, because the rollout check on
  Kubernetes does not establish it (see `Intended`); it excepts skipped phases and evicted runs.
- `FaithfulBackup` and `RestoredExactly` except state that was written without the lock meanwhile.
- `CandidateGoneBeforeRelease` excepts runs on which a cloud call failed and runs whose provider
  process is gone.
- `CommandEnds` excepts commands that wait behind a lock file of a killed process.
- `GoneIsGone` excepts overwritten rows and the window between the claim of a name
  that was used before, or of a resource owned through another, and its creation;
  `NoneStranded` excepts a backup made while a pass was running.

### Bounds

Three runs are the longest story about the lock: one is evicted, a second
takes the lock, a third would enter if the first freed it; two of them have the same
owner string, as two CI containers have. Two operators are needed for a stale
delete to meet a lock taken since. A run acquires once, so the clock is bounded by
the number of runs. Two commands suffice for the orchestrator: its properties
relate one run's work to what the other finds or leaves. Two state objects are
needed for a torn backup, two contents for an object that changes under the copy.
Three runs are needed for a theft of the lock directory (its dead maker and two waiters),
and two of them share a marker. Three cells give a merged unit, a dependency and a warm
transition at once; two attempts a resumed plan, which also starts from every
checkpoint file. Three processes suffice for the journal: a deploy, a command that reads what it
wrote or overtakes it, and a third that writes without the lock, without a row or from elsewhere.
A name made twice and a
backup of it are the two ways a ledger row can be wrong about the cloud.
`MaxMishaps`, `MaxCrashes` and `MaxAttempts` bound the faults, `MaxClaims` the ledger.

Deadlock is not checked where commands end and nothing restarts them; the archive
never stops and the registry's `Ended` says what its end looks like, so these two runs
check deadlock.

### Fairness

A process that is neither killed nor suspended takes its next step: each
request and each wait has a deadline (`waitForTaskTimeout`, `WaitJob`,
`WaitForIntendedRollout`, the one-minute release). `Orchestrator!FairSpec` asks this
of `Progress`; it assumes nothing of the migration, the rollout or of answers getting
lost. It also assumes that operators asked to clear a stale lock try again until a
delete is answered; without an operator a left lock stays for ever, which is the
documented design.

`CertificationRegistry!FairSpec`: live processes go on and directories age; nobody has to give
up waiting. `CertificationRun!FairSpec`: goroutines go on, the provider answers
(the executor has its own timeouts) and units of other schedules end. `Releases!FairSpec`: live
processes go on; an operator need not clear anything. The load of a dump has no deadline in
the code: that it ends is an assumption about mysql. `CleanupLedger!FairSpec`: live
processes go on and reconcile, not only plan, is run again and again (strong fairness,
because each pass chooses); nothing is assumed of makers or of the provider.

## Proofs

Every safety property that a passing run checks is also proved, for any processes, names,
matrices, contents and bounds: type correctness of the modules where a run checks it, the
other invariants, the action properties, and the implementation of `LockLease`. No
safety invariant is inductive as it stands; each module's `IInv` is the strengthening. It was
checked with TLC on the instances above before it was proved. The proof of a step has
one case per action; what several steps need is a lemma.

`DeploymentLock_proofs`. Mutual exclusion says nothing of a run at work still having its
object in the bucket. `IInv` adds that stamps are unique and in the past (`Stamps`, `Past`),
that an active run that was not evicted finds its own object (`Holds`), that a run about to
delete has accepted only its own (`Checked`), and that what an operator of the stale-only
kind is about to delete was written by a run that has ended (`Cleared`). A delete conditional
on the inspected object can then remove only that run's own, and two runs that both hold would
share a stamp. `LockInvariant`, `LockMutualExclusion` and `LockOnlyWriterRemoves` start from
`ReleaseSafe` (no GKE provider, or operators only clear stale locks; `lock_plugin_release`
shows why it is needed). `LeaseImplemented`: when operators only clear stale locks every
step is a step of `LockLease` or a stutter.

`Orchestrator_proofs`. `LockImplemented` shows that the deployments implement
`DeploymentLock` through the instance, so nothing about the lock is proved twice. `Phased`
ties the phase of a run to its step in the lock protocol, `Tracked` the flag
`candidateRegistered` and the candidate to the phase, `Jobs` the migration workload to both,
`Ordered` what the services are asked to run to the completed migrations, and `Stable` what they were
updated to, and on ECS what they run, to the record while nobody's lock was removed.

`StateArchive_proofs`. `Building` says that a backup under way has collected the state as it
still is, `Sound` that a manifest names the state its backup was taken of, `Restoring` and
`Phases` which objects a restore has put back and that it deletes only after that.

`Releases_proofs`. `JournalHeld` says that whoever has read the journal to rewrite it holds
the lock file and has read the journal as it is, hence `JournalGrows`. `LeaseHeld`,
`Recorded`, `Signed`, `Fits` and `Loads` say the same of the deployment lease, of
the row about to be written, of its signature, of the schema that was read, and of the dump;
`Fits` speaks of the rollbacks that are not `misled`, `Loads` of a database that is not
`spoilt`, and both have to survive every command that is not one of the exceptions.

`CertificationRegistry_proofs`. `Tenure` ties the directory to its maker and runs inside
without it to `robbed`; `Theft` says that a directory is taken for stale only after a death, a
stall or a failed removal, and `Fresh` that what a run has read is what the file holds while nobody was robbed.
`Owned` and `Held` then say which run every claim in the file is about; of a run that was told of
an error they say only that its claim, if it is there, is among the abandoned ones.

`Schedule_proofs`. `PlansAreValid`: whatever the matrix, the passed cells and the order of
identifiers, a plan that is returned passes the check of the executor. The batches are
defined by recursion. Instead of an induction, which the prover cannot instantiate, the
proof shows that such functions exist (`Iteration`) and looks at the first position where
a statement would fail (`LeastIn`).

`CertificationRun_proofs`. `CapacityOK` counts the requests of leases and grants (`Balanced`)
and says that the first waiter does not fit, also after a release that serves several waiters
at once. `Linked` ties clients to units, `Planned` the
batches to a plan that `PlansAreValid` speaks of, `Kept`, `InOrder`, `Fresh` and `Marked` the
checkpoint file to what has run.

`CleanupLedger_proofs`. The three properties lean on each other: a pass deletes backups first
only if its rows tell the truth about them, and the rows do so only if nothing is
stranded. `Sighted` and `Truthful` say that of a live resource without an excuse the
inventory and the rows of every pass are right, `Passed` and `Ranked` that a pass has deleted
what it has gone past, in order; `Exposing` and `Opened` say what happens to a resource in the
making. `NotYet` and `Once` are the stronger statement about names claimed once, which
need no exception. The proof also found that several `CASE`s of the module had
overlapping guards, which TLC reads in order and TLA+ does not; they are `IF`s now, as the
`switch` of the code is read.

Assumptions: the named `ASSUME`s of the modules, which the runs evaluate. Beyond types they
say: runs and operators are different processes and model values such as `None` are not
names (`DeploymentLock`, `LockAssumption` of `Orchestrator`, `ArchiveAssumption`,
`ReleasesAssumption`); a registry has finitely many runs; an environment that `Releases`
starts from is one the commands could have left (`HistoriesAssumption`: what a
deployment of the checkout serves is what the journal says, and was promoted in production;
"imported" means loaded); cells are a
finite sequence of distinct ones; clients of the local capacity ask for amounts of natural
numbers, and no other client is a unit; a backup has a lower rank than its instance and
is not protected itself.

Model-checked only: the liveness properties (`LockEventuallyFree`, `WaiterGetsIn`,
`AttemptEnds`, `CommandEnds`, `CleanedUp`), which are out of the prover's reach, and the
three violations, which are counterexamples.

## Not modelled

The repository has about 128,000 lines of Go. The greater part describes or transports rather
than coordinates, and has no state that two steps share:

- configuration, validation and planning (`internal/config`, `internal/platform`):
  sequential functions from a document to a plan;
- infrastructure programs (Pulumi, `internal/cloud/*/stack`, `internal/automation`):
  declarations handed to an external engine; their effect on the services is the update
  and destroy steps of `Orchestrator`;
- cloud clients (`providers/gcp/observability`, `edge`, `internal/cloud/aws/edge`, ...):
  requests and the mapping of their fields;
- certification evidence, matrix and reports: validation and sealing of documents. The
  admission snapshot is an in-process cache of read-only probes; its outcome is `PlanRefused`;
- secrets, logs, exec, tunnel, cost, local runtime, the PHP build: single requests or
  process invocations with formatting around them;
- of the modelled parts: the order and requirements of hooks, the ECS readiness
  probe's own task (whose definition leaks when a health phase is cancelled), budgets and
  estimates of a schedule, the first recording of a seed dump, `history` and `evidence`.

Modelling these line by line would restate them without a property that could fail, so the
share of source lines the map covers stays small: it covers the code that coordinates.

## Plan

1. A theorem that deployments implement `LockLease` when operators only clear stale locks, from
   `LockImplemented` and `LeaseImplemented`.
2. A theorem that `BuildSchedule` finds a plan whenever the dependencies of the matrix are acyclic and
   no key is without quota; `EmptyBatch`, which says that nothing is taken after a batch
   that is empty, is the first half of it.
3. The probe's own task definition on ECS, the one listed hazard without a property.
