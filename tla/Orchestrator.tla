---------------------------- MODULE Orchestrator ----------------------------
(***************************************************************************)
(* Deployments of one environment: Orchestrator.Run                        *)
(* (internal/deploy/orchestrator.go) with the steps of each provider       *)
(* (aws/deployment/steps.go over ECS, kube/steps.go over Kubernetes Jobs,  *)
(* providerhost/shim.go over a provider process), the destroy command, and *)
(* the deployment lock of module DeploymentLock they all take.             *)
(*                                                                         *)
(* A request to the cloud is one step.  It may fail, it may be applied     *)
(* without its answer arriving, and the command may be cancelled or killed *)
(* between any two.  The migration workload and the rollout run in the     *)
(* cloud, at their own pace, whether or not somebody is waiting.           *)
(***************************************************************************)
EXTENDS Naturals, FiniteSets

CONSTANTS
    Runs, Operators, Owner, Command, Providers, StaleOnly, NoLock,
    Requests,   \* the deployment requests a run may be started with
    SkipSets,   \* the phases the "replace" and "disable" hooks take out
    OldImage,   \* the image served by an environment that exists already
    NoImage     \* nothing is served

\* The image digest that a run deploys is its own; name it by the run.
Images == Runs \cup {OldImage, NoImage}

Request == [production : BOOLEAN, approved : BOOLEAN, signed : BOOLEAN,
            rollback : BOOLEAN, ackForwardOnly : BOOLEAN, ackDrain : BOOLEAN,
            protected : BOOLEAN]

\* The phases a hook can target, and the one that follows each.
\* (Mutant: skipping the migrations leads to a phase nobody runs.)
FollowsNowhere ==
           [preview |-> "register", register |-> "migrate",
            migrate |-> "services", update |-> "stabilize",
            stabilize |-> "health", health |-> "record", record |-> "unwind"]
Follows == [preview |-> "register", register |-> "migrate",
            migrate |-> "update", update |-> "stabilize",
            stabilize |-> "health", health |-> "record", record |-> "unwind"]

ASSUME OrchestratorAssumption ==
    /\ Requests \subseteq Request
    /\ SkipSets \subseteq SUBSET DOMAIN Follows
    /\ OldImage \notin Runs /\ NoImage \notin Runs /\ OldImage # NoImage

VARIABLES
    \* those of DeploymentLock
    provider, lock, clock, pc, info, seen, opc, cancelled, plugin, faulty,
    evicted,
    \* the process of each run
    phase,                \* the phase of Run the process is in
    req,                  \* its request
    skip,                 \* the phases its hooks take out
    candidateRegistered,  \* runs whose RegisterCandidate returned no error
    registeredSet,        \* runs whose Steps still have a candidate to remove
    runErr,               \* runs whose RunMigrations has failed
    \* the cloud
    candidates,  \* runs whose candidate task definition or Job exists
    task,        \* the migration workload of each run
    infra,       \* the stack exists, with its outputs
    desired,     \* the image of the last Pulumi update
    served,      \* the image all replicas run
    \* history
    creator,     \* runs that created the stack
    migrated,    \* runs whose migrations completed
    recorded,    \* runs recorded as released
    faulted      \* runs that missed an answer or whose cleanup failed

lockVars == <<provider, lock, clock, pc, info, seen, opc, cancelled, plugin,
              faulty, evicted>>
stepVars == <<candidateRegistered, registeredSet, runErr>>
serviceVars == <<infra, desired, served, creator>>
historyVars == <<migrated, recorded, faulted>>
vars == <<lockVars, phase, req, skip, stepVars, candidates, task, serviceVars,
          historyVars>>

Lock == INSTANCE DeploymentLock

ASSUME LockAssumption ==
    /\ Owner \in [Runs -> STRING] /\ Command \in [Runs -> Lock!Commands]
    /\ Providers \subseteq Lock!AllProviders /\ StaleOnly \in BOOLEAN
    /\ Runs \cap Operators = {} /\ NoLock \notin Lock!Info

Phases == DOMAIN Follows \cup
          {"start", "wait", "tidy", "destroy", "unwind", "cleaned", "release",
           "end"}

\* A workload that was told to stop is "stopping" until it really ends.
TaskValues == {"none", "running", "stopping", "succeeded", "failed", "stopped"}

TypeOK ==
    /\ Lock!TypeOK
    /\ phase \in [Runs -> Phases]
    /\ req \in [Runs -> Requests]
    /\ skip \in [Runs -> SkipSets]
    /\ candidateRegistered \subseteq Runs
    /\ registeredSet \subseteq Runs
    /\ runErr \subseteq Runs
    /\ candidates \subseteq Runs
    /\ task \in [Runs -> TaskValues]
    /\ infra \in BOOLEAN
    /\ {desired, served} \subseteq Images
    /\ creator \subseteq Runs
    /\ migrated \subseteq Runs
    /\ recorded \subseteq Runs
    /\ faulted \subseteq Runs

Init ==
    /\ Lock!Init
    /\ phase = [r \in Runs |-> "start"]
    /\ req \in [Runs -> Requests]
    /\ skip \in [Runs -> SkipSets]
    /\ \A r \in Runs : Command[r] # "deploy" => skip[r] = {}
    /\ candidateRegistered = {} /\ registeredSet = {} /\ runErr = {}
    /\ candidates = {}
    /\ task = [r \in Runs |-> "none"]
    /\ infra \in BOOLEAN
    /\ desired = IF infra THEN OldImage ELSE NoImage
    /\ served = desired
    /\ creator = {} /\ migrated = {} /\ recorded = {} /\ faulted = {}

-----------------------------------------------------------------------------
Goto(r, p) == phase' = [phase EXCEPT ![r] = p]

\* The candidate of "ecs" is a pair of task definitions; elsewhere it is the
\* migration Job itself, which starts to run when it is created and stops
\* when it is deleted.
CandidateRuns == provider # "ecs"

\* The guards that precede Acquire: those of the CLI and of Run for a deploy
\* (a signed digest, approval, acknowledgements), and those of destroy.
Admitted(r) ==
    LET q == req[r] IN
    IF Command[r] = "destroy"
    THEN (q.production => q.approved) /\ ~q.protected
    ELSE /\ q.production => q.approved /\ q.signed
         /\ q.rollback => q.ackForwardOnly
         /\ q.production /\ ~q.rollback => q.ackDrain

Reject(r) ==
    /\ phase[r] = "start"
    /\ ~Admitted(r)
    /\ Goto(r, "end")
    /\ UNCHANGED <<lockVars, req, skip, stepVars, candidates, task,
                   serviceVars, historyVars>>

Acquire(r) ==
    /\ phase[r] = "start"
    /\ Admitted(r)
    /\ Lock!Acquire(r)
    /\ Goto(r, IF Command[r] = "destroy" THEN "destroy" ELSE "preview")
    /\ UNCHANGED <<req, skip, stepVars, candidates, task, serviceVars,
                   historyVars>>

AcquireFails(r) ==
    /\ phase[r] = "start"
    /\ Admitted(r)
    /\ Lock!AcquireLocked(r) \/ Lock!AcquireFailed(r)
    /\ Goto(r, "end")
    /\ UNCHANGED <<req, skip, stepVars, candidates, task, serviceVars,
                   historyVars>>

\* The phase at hand runs: no hook takes it out and, being a call to the
\* cloud, it needs a context that is not cancelled.
Enter(r, p) ==
    /\ phase[r] = p
    /\ p \notin skip[r]
    /\ r \notin cancelled

\* A failed call: on "plugin" a cancelled one has killed the provider.
Unwind(r) ==
    /\ Goto(r, "unwind")
    /\ UNCHANGED lockVars \/ Lock!KillPlugin(r)

\* A "disable" hook, or a "replace" hook that ran, takes the phase out.
Skip(r) ==
    /\ phase[r] \in skip[r]
    /\ Goto(r, Follows[phase[r]])
    /\ UNCHANGED <<lockVars, req, skip, stepVars, candidates, task,
                   serviceVars, historyVars>>

\* A hook or the phase fails without having changed anything.
Abort(r) ==
    /\ phase[r] \in DOMAIN Follows \cup {"destroy"}
    /\ Unwind(r)
    /\ UNCHANGED <<req, skip, stepVars, candidates, task, serviceVars,
                   historyVars>>

Preview(r) ==
    /\ Enter(r, "preview")
    /\ Goto(r, "register")
    /\ UNCHANGED <<lockVars, req, skip, stepVars, candidates, task,
                   serviceVars, historyVars>>

-----------------------------------------------------------------------------
(***************************************************************************)
(* The candidate and its migrations.                                       *)
(***************************************************************************)

\* A stack without outputs is created before the candidate is registered.
CreateInitial(r) ==
    /\ Enter(r, "register")
    /\ ~infra
    /\ infra' = TRUE
    /\ desired' = r
    /\ creator' = creator \cup {r}
    /\ UNCHANGED <<lockVars, phase, req, skip, stepVars, candidates, task,
                   served, historyVars>>

RegisterCandidate(r) ==
    /\ Enter(r, "register")
    /\ infra
    /\ candidates' = candidates \cup {r}
    /\ task' = IF CandidateRuns THEN [task EXCEPT ![r] = "running"] ELSE task
    /\ registeredSet' = registeredSet \cup {r}
    /\ candidateRegistered' = candidateRegistered \cup {r}
    /\ Goto(r, "migrate")
    /\ UNCHANGED <<lockVars, req, skip, runErr, serviceVars, historyVars>>

\* The candidate exists but the run does not know: the answer was lost, or
\* the second task definition failed and so did deregistering the first.
RegisterLost(r) ==
    /\ phase[r] = "register" /\ "register" \notin skip[r]
    /\ infra
    /\ candidates' = candidates \cup {r}
    /\ task' = IF CandidateRuns THEN [task EXCEPT ![r] = "running"] ELSE task
    /\ faulted' = faulted \cup {r}
    /\ Unwind(r)
    /\ UNCHANGED <<req, skip, stepVars, serviceVars, migrated, recorded>>

\* ECS starts the migration task now; a Job has been running since it was
\* registered.
StartMigration(r) ==
    /\ Enter(r, "migrate")
    /\ r \in registeredSet
    /\ task' = IF CandidateRuns THEN task ELSE [task EXCEPT ![r] = "running"]
    /\ Goto(r, "wait")
    /\ UNCHANGED <<lockVars, req, skip, stepVars, candidates, serviceVars,
                   historyVars>>

\* RunTask fails, perhaps after it started the task; the candidate is tidied
\* up as after any failed migration.
StartFails(r) ==
    /\ phase[r] = "migrate" /\ "migrate" \notin skip[r]
    /\ r \in registeredSet
    /\ provider = "ecs"
    /\ \/ UNCHANGED <<task, faulted>>
       \/ /\ task' = [task EXCEPT ![r] = "running"]
          /\ faulted' = faulted \cup {r}
    /\ runErr' = runErr \cup {r}
    /\ Goto(r, "tidy")
    /\ UNCHANGED <<lockVars, req, skip, candidateRegistered, registeredSet,
                   candidates, serviceVars, migrated, recorded>>

\* The wait and the tidying up of "plugin" happen in the provider process and
\* end with it.
InProvider(r) == provider = "plugin" /\ r \in cancelled

\* The workload has ended; its exit code or Job condition is the result.
\* (Mutant: a finished workload counts as a successful one.)
WaitEndsBlindly(r) ==
    /\ phase[r] = "wait"
    /\ r \notin cancelled
    /\ task[r] \in {"succeeded", "failed"}
    /\ Goto(r, "tidy")
    /\ UNCHANGED <<lockVars, req, skip, stepVars, candidates, task,
                   serviceVars, historyVars>>
WaitEnds(r) ==
    /\ phase[r] = "wait"
    /\ r \notin cancelled
    /\ task[r] \in {"succeeded", "failed"}
    /\ runErr' = IF task[r] = "failed" THEN runErr \cup {r} ELSE runErr
    /\ Goto(r, "tidy")
    /\ UNCHANGED <<lockVars, req, skip, candidateRegistered, registeredSet,
                   candidates, task, serviceVars, historyVars>>

\* The loop's select sees the deadline or the cancellation.  Only ECS stops
\* the task here, ignoring an error.
\* (Mutant: a wait without a deadline, which only a cancellation ends.)
WaitForever(r) ==
    /\ phase[r] = "wait"
    /\ ~InProvider(r)
    /\ r \in cancelled
    /\ runErr' = runErr \cup {r}
    /\ Goto(r, "tidy")
    /\ UNCHANGED <<lockVars, req, skip, candidateRegistered, registeredSet,
                   candidates, task, serviceVars, historyVars>>
WaitTimesOut(r) ==
    /\ phase[r] = "wait"
    /\ ~InProvider(r)
    /\ IF provider = "ecs" /\ task[r] = "running"
       THEN \/ task' = [task EXCEPT ![r] = "stopping"] /\ UNCHANGED faulted
            \/ UNCHANGED task /\ faulted' = faulted \cup {r}
       ELSE UNCHANGED <<task, faulted>>
    /\ runErr' = runErr \cup {r}
    /\ Goto(r, "tidy")
    /\ UNCHANGED <<lockVars, req, skip, candidateRegistered, registeredSet,
                   candidates, serviceVars, migrated, recorded>>

\* The status request itself fails, of its own or because the deadline or
\* the cancellation arrives while it is under way: the wait returns at once.
WaitAborts(r) ==
    /\ phase[r] = "wait"
    /\ ~InProvider(r)
    /\ runErr' = runErr \cup {r}
    /\ Goto(r, "tidy")
    /\ UNCHANGED <<lockVars, req, skip, candidateRegistered, registeredSet,
                   candidates, task, serviceVars, historyVars>>

\* Deleting a Job stops its workload, in the background; deregistering a task
\* definition leaves its tasks alone.
\* (Mutant: the Job is deleted and its pods are orphaned.)
RemovedOrphaning(r) == candidates' = candidates \ {r} /\ UNCHANGED task
Removed(r) ==
    /\ candidates' = candidates \ {r}
    /\ task' = IF CandidateRuns /\ task[r] = "running"
               THEN [task EXCEPT ![r] = "stopping"] ELSE task

\* A removal without an answer: it may have been applied.
PerhapsRemoved(r) == Removed(r) \/ UNCHANGED <<candidates, task>>

\* RunMigrations cleans the candidate up itself, under the command's context.
Tidy(r) ==
    /\ phase[r] = "tidy"
    /\ r \notin cancelled
    /\ Removed(r)
    /\ registeredSet' = IF provider = "plugin" /\ r \in runErr
                        THEN registeredSet ELSE registeredSet \ {r}
    /\ Goto(r, IF r \in runErr THEN "unwind" ELSE "update")
    /\ UNCHANGED <<lockVars, req, skip, candidateRegistered, runErr,
                   serviceVars, historyVars>>

TidyFails(r) ==
    /\ phase[r] = "tidy"
    /\ ~InProvider(r)
    /\ PerhapsRemoved(r)
    /\ Goto(r, "unwind")
    /\ UNCHANGED <<lockVars, req, skip, stepVars, serviceVars, historyVars>>

\* The cancelled migrate call kills the provider process.
MigrateKilled(r) ==
    /\ phase[r] \in {"wait", "tidy"}
    /\ Lock!KillPlugin(r)
    /\ IF phase[r] = "tidy" THEN PerhapsRemoved(r)
                            ELSE UNCHANGED <<candidates, task>>
    /\ Goto(r, "unwind")
    /\ UNCHANGED <<req, skip, stepVars, serviceVars, historyVars>>

-----------------------------------------------------------------------------
(***************************************************************************)
(* Services.                                                               *)
(***************************************************************************)

UpdateServices(r) ==
    /\ Enter(r, "update")
    /\ infra' = TRUE
    /\ desired' = r
    /\ Goto(r, "stabilize")
    /\ UNCHANGED <<lockVars, req, skip, stepVars, candidates, task, served,
                   creator, historyVars>>

\* The update fails after it changed the services.
UpdateFails(r) ==
    /\ phase[r] = "update" /\ "update" \notin skip[r]
    /\ infra' = TRUE
    /\ desired' = r
    /\ Unwind(r)
    /\ UNCHANGED <<req, skip, stepVars, candidates, task, served, creator,
                   historyVars>>

\* What both waits ask of the services.  On ECS the primary deployment has
\* completed, with all its tasks; on Kubernetes enough pods are ready, which
\* those of the previous revision may be.
\* (Mutant: on ECS too, running tasks of any revision are enough.)
RunningOfAnyRevision == served # NoImage
RolloutComplete == IF provider = "ecs" THEN served = desired ELSE served # NoImage

Stabilize(r) ==
    /\ Enter(r, "stabilize")
    /\ RolloutComplete
    /\ Goto(r, "health")
    /\ UNCHANGED <<lockVars, req, skip, stepVars, candidates, task,
                   serviceVars, historyVars>>

\* What the health check sees of the rollout of r: its image as well.  On
\* Kubernetes that is the one in the template, and the updated pods only have
\* to exist: during a surge the old ones are enough.
Intended(r) == desired = r /\ RolloutComplete

\* The rollout is the intended one, and of the image the candidate had; the
\* plugin's health phase has no candidate to compare with.  The probe that
\* follows on Kubernetes is a Job of the new image, and the plugin's request
\* to the storefront is answered by any ready pod: both may fail (Abort),
\* neither tells which image serves.
Health(r) ==
    /\ Enter(r, "health")
    /\ Intended(r)
    /\ provider # "plugin" => r \in candidateRegistered
    /\ Goto(r, "record")
    /\ UNCHANGED <<lockVars, req, skip, stepVars, candidates, task,
                   serviceVars, historyVars>>

Record(r) ==
    /\ Enter(r, "record")
    /\ recorded' = recorded \cup {r}
    /\ Goto(r, "unwind")
    /\ UNCHANGED <<lockVars, req, skip, stepVars, candidates, task,
                   serviceVars, migrated, faulted>>

\* magelift destroy: preview and destroy the stack.
DestroyStack(r) ==
    /\ phase[r] = "destroy"
    /\ r \notin cancelled
    /\ infra' = FALSE
    /\ desired' = NoImage
    /\ served' = NoImage
    /\ Goto(r, "unwind")
    /\ UNCHANGED <<lockVars, req, skip, stepVars, candidates, task, creator,
                   historyVars>>

\* The destroy fails half way: the services are gone, the stack may remain.
DestroyFails(r) ==
    /\ phase[r] = "destroy"
    /\ infra
    /\ infra' \in BOOLEAN
    /\ desired' = NoImage
    /\ served' = NoImage
    /\ Unwind(r)
    /\ UNCHANGED <<req, skip, stepVars, candidates, task, creator, historyVars>>

-----------------------------------------------------------------------------
(***************************************************************************)
(* The deferred functions: clean up, then release.  Both run under          *)
(* context.WithoutCancel.                                                   *)
(***************************************************************************)

CleanupCandidate(r) ==
    /\ phase[r] = "unwind"
    /\ r \in candidateRegistered
    /\ IF r \in registeredSet
       THEN /\ provider = "plugin" => r \in plugin
            /\ Removed(r)
            /\ registeredSet' = registeredSet \ {r}
       ELSE UNCHANGED <<candidates, task, registeredSet>>
    /\ Goto(r, "cleaned")
    /\ UNCHANGED <<lockVars, req, skip, candidateRegistered, runErr,
                   serviceVars, historyVars>>

\* The cleanup request fails, or there is no provider process to send it to.
CleanupFails(r) ==
    /\ phase[r] = "unwind"
    /\ r \in candidateRegistered
    /\ r \in registeredSet
    /\ IF provider = "plugin" /\ r \notin plugin
       THEN UNCHANGED <<candidates, task, faulted>>
       ELSE PerhapsRemoved(r) /\ faulted' = faulted \cup {r}
    /\ Goto(r, "cleaned")
    /\ UNCHANGED <<lockVars, req, skip, stepVars, serviceVars, migrated,
                   recorded>>

\* The release closure is called after the cleanup, if there was one to do.
\* (Mutant: the two deferred functions in the other order.)
ReleaseFirst(r) == phase[r] \in {"cleaned", "unwind"}
ReadyToRelease(r) ==
    \/ phase[r] = "cleaned"
    \/ phase[r] = "unwind" /\ r \notin candidateRegistered

BeginRelease(r) ==
    /\ ReadyToRelease(r)
    /\ Lock!BeginRelease(r)
    /\ Goto(r, "release")
    /\ UNCHANGED <<req, skip, stepVars, candidates, task, serviceVars,
                   historyVars>>

ReleaseStep(r) ==
    /\ phase[r] = "release"
    /\ \/ Lock!ReleaseInspect(r)
       \/ Lock!ReleaseDelete(r)
       \/ Lock!ReleaseFails(r)
       \/ Lock!ReleaseCancelled(r)
    /\ UNCHANGED <<phase, req, skip, stepVars, candidates, task, serviceVars,
                   historyVars>>

-----------------------------------------------------------------------------
(***************************************************************************)
(* The environment.                                                        *)
(***************************************************************************)

Cancel(r) ==
    /\ Lock!Cancel(r)
    /\ UNCHANGED <<phase, req, skip, stepVars, candidates, task, serviceVars,
                   historyVars>>

Crash(r) ==
    /\ Lock!Crash(r)
    /\ Goto(r, "end")
    /\ UNCHANGED <<req, skip, stepVars, candidates, task, serviceVars,
                   historyVars>>

MigrationEnds(r) ==
    /\ task[r] \in {"running", "stopping"}
    /\ \/ /\ task' = [task EXCEPT ![r] = "succeeded"]
          /\ migrated' = migrated \cup {r}
       \/ /\ task' = [task EXCEPT ![r] = IF task[r] = "running" THEN "failed"
                                                              ELSE "stopped"]
          /\ UNCHANGED migrated
    /\ UNCHANGED <<lockVars, phase, req, skip, stepVars, candidates,
                   serviceVars, recorded, faulted>>

RolloutEnds ==
    /\ served # desired
    /\ served' = desired
    /\ UNCHANGED <<lockVars, phase, req, skip, stepVars, candidates, task,
                   infra, desired, creator, historyVars>>

\* state unlock: nothing but the lock changes.
BesideTheRuns ==
    UNCHANGED <<phase, req, skip, stepVars, candidates, task, serviceVars,
                historyVars>>

UnlockInspect(o) == Lock!UnlockInspect(o) /\ BesideTheRuns
UnlockDelete(o) == Lock!UnlockDelete(o) /\ BesideTheRuns
UnlockFails(o) == Lock!UnlockFails(o) /\ BesideTheRuns

-----------------------------------------------------------------------------
\* A live process takes its next step: a failed phase and a wait past its
\* deadline are such steps, an answer that gets lost is not.
Progress(r) ==
    \/ Reject(r) \/ Acquire(r) \/ AcquireFails(r)
    \/ Skip(r) \/ Abort(r) \/ Preview(r)
    \/ CreateInitial(r) \/ RegisterCandidate(r)
    \/ StartMigration(r) \/ WaitEnds(r) \/ WaitTimesOut(r)
    \/ Tidy(r) \/ TidyFails(r) \/ MigrateKilled(r)
    \/ UpdateServices(r) \/ Stabilize(r) \/ Health(r) \/ Record(r)
    \/ DestroyStack(r)
    \/ CleanupCandidate(r) \/ CleanupFails(r)
    \/ BeginRelease(r) \/ ReleaseStep(r)

Mishap(r) ==
    \/ RegisterLost(r) \/ StartFails(r) \/ WaitAborts(r) \/ UpdateFails(r)
    \/ DestroyFails(r) \/ Cancel(r) \/ Crash(r)

Next ==
    \/ \E r \in Runs : Progress(r) \/ Mishap(r) \/ MigrationEnds(r)
    \/ \E o \in Operators : UnlockInspect(o) \/ UnlockDelete(o) \/ UnlockFails(o)
    \/ RolloutEnds

Spec == Init /\ [][Next]_vars

\* An operator asked to clear a stale lock tries until the delete is answered.
\* Nothing is assumed of the migration workload and the rollout.
FairSpec ==
    /\ Spec
    /\ \A r \in Runs : WF_vars(Progress(r))
    /\ \A o \in Operators : WF_vars(UnlockInspect(o)) /\ SF_vars(UnlockDelete(o))

-----------------------------------------------------------------------------
(***************************************************************************)
(* Properties.                                                             *)
(***************************************************************************)

\* The provider process that "plugin" needs to reach the cluster is there.
ProviderReachable(r) == provider = "plugin" => r \in plugin

\* When the release of the lock begins the candidate is gone, whichever phase
\* failed and also after a cancellation, unless a cloud call failed
\* (orchestrator.go: cleanup deferred to run before the release).
CandidateGoneBeforeRelease ==
    \A r \in Runs :
        (phase[r] = "release" /\ r \notin faulted /\ ProviderReachable(r))
            => r \notin candidates

\* A migration workload that nobody has told to stop runs only while the run
\* that started it holds the lock, unless that run crashed or a cloud call
\* failed on it.
MigrationUnderLock ==
    \A r \in Runs :
        (task[r] = "running" /\ pc[r] # "crashed" /\ r \notin faulted)
            => Lock!Active(r)

\* Kubernetes: deleting the Job in the deferred cleanup ends a migration that
\* was abandoned by a failed wait or a cancellation.
KubeMigrationUnderLock == provider = "kube" => MigrationUnderLock

\* The services run the image of a run only after its migrations completed,
\* except on the stack it created itself and where a hook took the migrations
\* out (orchestrator.go: migrations before update).
MigratedBeforeServed ==
    \A r \in Runs \ creator :
        served = r => r \in migrated \/ "migrate" \in skip[r]

\* When a release is recorded its image is the one the services were last
\* updated to, and on ECS the one they run: nothing changed them between the
\* health check and the record, because the lock is held over both.  On
\* Kubernetes something serves, but it may be the previous image, although
\* kube/steps.go says of its check that stale healthy replicas fail.
RecordedIsServed ==
    [][\A r \in recorded' \ recorded :
          (skip[r] = {} /\ evicted = {}) =>
              /\ desired = r
              /\ served # NoImage
              /\ provider = "ecs" => served = r]_vars

\* ECS: a deploy whose release met no storage failure has freed the lock when
\* it ends, also after a cancellation.
EcsDeployFreesLock == provider = "ecs" => Lock!DeployFreesLock

\* The same on every provider: "always releases the lock".
DeployFreesLock == Lock!DeployFreesLock

\* The environment never stays locked for good on any provider: a run that
\* holds the lock ends, although migrations and rollouts may never finish
\* (every wait has a deadline and every failure leads to the release), and
\* what its crash, a lost answer or a cancelled release leaves behind an
\* operator who clears only stale locks can remove.
LockEventuallyFree == []<>(lock = NoLock)
=============================================================================
