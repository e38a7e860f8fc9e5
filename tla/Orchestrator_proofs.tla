-------------------------- MODULE Orchestrator_proofs --------------------------
(***************************************************************************)
(* Proofs about deployments, for any number of runs, operators, requests   *)
(* and hooks, on every provider.                                           *)
(*                                                                         *)
(* The argument: every step is a step of the deployment lock or leaves it  *)
(* alone, so what the lock promises carries over (LockFacts), and the      *)
(* phase of a run says where it is in the lock's protocol (Phased).  A     *)
(* candidate that a run has not lost track of is in its registered set     *)
(* until it is removed (Tracked), and on Kubernetes nothing runs without   *)
(* its Job (Jobs).  The services are updated after a migration that was    *)
(* seen to succeed (Ordered), and by nobody else between the health check  *)
(* and the record, since the lock is held over both (Stable).              *)
(***************************************************************************)
EXTENDS Orchestrator, TLAPS

Working == DOMAIN Follows \cup {"wait", "tidy", "destroy", "unwind", "cleaned"}

\* The phase of a run and its place in the lock's protocol.
Phased ==
    \A r \in Runs :
        /\ phase[r] = "start" => pc[r] = "idle"
        /\ phase[r] \in Working => pc[r] = "held"
        /\ phase[r] = "release" => pc[r] \in {"releasing", "deleting", "done"}
        /\ phase[r] = "end" =>
              pc[r] \in {"idle", "refused", "failed", "crashed"}

\* A candidate of an uninterrupted run is one that the run will remove, and
\* gone when it releases the lock, unless its provider process is.
Tracked ==
    \A r \in candidates \ faulted :
        /\ r \in registeredSet /\ r \in candidateRegistered
        /\ phase[r] \in {"cleaned", "release"} => ~ProviderReachable(r)

\* A migration on Kubernetes is a Job, which ends when the Job is deleted.
Jobs ==
    \A r \in Runs :
        /\ r \in candidates => /\ pc[r] # "idle"
                               /\ phase[r] = "end" => pc[r] = "crashed"
        /\ provider = "kube" /\ task[r] = "running" => r \in candidates

\* Runs whose image may be served on a stack that was there before.
Fit(r) == r \in migrated \/ "migrate" \in skip[r]

\* The order of the phases: a workload that succeeded, the end of the wait,
\* the update, the rollout.
Ordered ==
    \A r \in Runs :
        /\ task[r] = "succeeded" => r \in migrated
        /\ phase[r] = "tidy" /\ r \notin runErr => r \in migrated
        /\ phase[r] = "update" => Fit(r)
        /\ desired = r \/ served = r => Fit(r) \/ r \in creator

\* Nobody changes the services between the health check and the record: what
\* the check saw of them is still so.
Stable ==
    \A r \in Runs :
        evicted = {} /\ skip[r] = {} /\ phase[r] = "record"
            => /\ desired = r
               /\ served # NoImage
               /\ provider = "ecs" => served = r

\* Stamps are unique and in the past, and an idle run has none.
Stamps ==
    /\ lock # NoLock => lock.at \in 1 .. clock
    /\ \A r \in Runs :
          /\ pc[r] = "idle" => info[r] = NoLock
          /\ Lock!Active(r) => info[r] # NoLock
          /\ info[r] # NoLock => info[r].at \in 1 .. clock
    /\ \A r, s \in Runs :
          (info[r] # NoLock /\ info[s] # NoLock /\ info[r].at = info[s].at)
              => r = s

\* As long as no lock was removed from under a run, a holder's object is in
\* the bucket, on every provider.
Holds == evicted = {} => \A r \in Runs : Lock!Active(r) => lock = info[r]

\* A release on ECS compares owners, so it deletes what the run wrote.
Checked ==
    provider = "ecs" =>
        \A r \in Runs : pc[r] = "deleting" => seen[r] = info[r]

LockFacts == Lock!TypeOK /\ Stamps /\ Holds /\ Checked /\ EcsDeployFreesLock

IInv == TypeOK /\ LockFacts /\ Phased /\ Tracked /\ Jobs /\ Ordered /\ Stable

-----------------------------------------------------------------------------
(***************************************************************************)
(* The deployment lock under the orchestrator.                             *)
(***************************************************************************)
\* Every step is a step of the deployment lock, or leaves it alone.
LEMMA LockStep == [Next]_vars => [Lock!Next]_(Lock!vars)
<1>. SUFFICES ASSUME [Next]_vars PROVE [Lock!Next]_(Lock!vars)
  OBVIOUS
<1>. USE DEF lockVars, Lock!vars, Lock!Next, Lock!RunStep, Lock!OperatorStep
<1>1. ASSUME NEW r \in Runs, Progress(r) PROVE [Lock!Next]_(Lock!vars)
  <2>1. CASE Acquire(r) \/ AcquireFails(r)
    BY <2>1 DEF Acquire, AcquireFails
  <2>2. CASE Abort(r) \/ MigrateKilled(r)
    BY <2>2 DEF Abort, Unwind, MigrateKilled
  <2>3. CASE BeginRelease(r) \/ ReleaseStep(r)
    BY <2>3 DEF BeginRelease, ReleaseStep
  <2>4. CASE \/ Reject(r) \/ Skip(r) \/ Preview(r) \/ CreateInitial(r)
             \/ RegisterCandidate(r) \/ StartMigration(r) \/ WaitEnds(r)
             \/ WaitTimesOut(r)
    BY <2>4 DEF Reject, Skip, Preview, CreateInitial, RegisterCandidate,
                StartMigration, WaitEnds, WaitTimesOut
  <2>5. CASE \/ Tidy(r) \/ TidyFails(r) \/ UpdateServices(r) \/ Stabilize(r)
             \/ Health(r) \/ Record(r) \/ DestroyStack(r)
             \/ CleanupCandidate(r) \/ CleanupFails(r)
    BY <2>5 DEF Tidy, TidyFails, UpdateServices, Stabilize, Health, Record,
                DestroyStack, CleanupCandidate, CleanupFails
  <2>. QED
    BY <1>1, <2>1, <2>2, <2>3, <2>4, <2>5 DEF Progress
<1>2. ASSUME NEW r \in Runs, Mishap(r) PROVE [Lock!Next]_(Lock!vars)
  <2>1. CASE RegisterLost(r) \/ UpdateFails(r) \/ DestroyFails(r)
    BY <2>1 DEF RegisterLost, UpdateFails, DestroyFails, Unwind
  <2>2. CASE StartFails(r) \/ WaitAborts(r)
    BY <2>2 DEF StartFails, WaitAborts
  <2>3. CASE Cancel(r) \/ Crash(r)
    BY <2>3 DEF Cancel, Crash
  <2>. QED
    BY <1>2, <2>1, <2>2, <2>3 DEF Mishap
<1>3. ASSUME NEW r \in Runs, MigrationEnds(r) PROVE [Lock!Next]_(Lock!vars)
  BY <1>3 DEF MigrationEnds
<1>4. ASSUME NEW o \in Operators,
             UnlockInspect(o) \/ UnlockDelete(o) \/ UnlockFails(o)
      PROVE  [Lock!Next]_(Lock!vars)
  BY <1>4 DEF UnlockInspect, UnlockDelete, UnlockFails
<1>5. CASE RolloutEnds \/ UNCHANGED vars
  BY <1>5 DEF RolloutEnds, vars
<1>. QED
  BY <1>1, <1>2, <1>3, <1>4, <1>5 DEF Next

\* Every step of the lock keeps its variables in their types.
LEMMA LockTypeStep == Lock!TypeOK /\ [Lock!Next]_Lock!vars => Lock!TypeOK'
<1>. SUFFICES ASSUME Lock!TypeOK, [Lock!Next]_Lock!vars PROVE Lock!TypeOK'
  OBVIOUS
<1>. USE LockAssumption DEF Lock!TypeOK, Lock!PcValues
<1>1. ASSUME NEW r \in Runs, Lock!Acquire(r) PROVE Lock!TypeOK'
  BY <1>1 DEF Lock!Acquire, Lock!NewInfo, Lock!Info
<1>2. ASSUME NEW r \in Runs, Lock!AcquireLocked(r) PROVE Lock!TypeOK'
  BY <1>2 DEF Lock!AcquireLocked
<1>3. ASSUME NEW r \in Runs, Lock!AcquireFailed(r) PROVE Lock!TypeOK'
  BY <1>3 DEF Lock!AcquireFailed, Lock!NewInfo, Lock!Info
<1>4. ASSUME NEW r \in Runs, Lock!BeginRelease(r) PROVE Lock!TypeOK'
  BY <1>4 DEF Lock!BeginRelease
<1>5. ASSUME NEW r \in Runs, Lock!ReleaseInspect(r) PROVE Lock!TypeOK'
  BY <1>5 DEF Lock!ReleaseInspect
<1>6. ASSUME NEW r \in Runs, Lock!ReleaseDelete(r) PROVE Lock!TypeOK'
  BY <1>6 DEF Lock!ReleaseDelete, Lock!Matches
<1>7. ASSUME NEW r \in Runs, Lock!ReleaseFails(r) PROVE Lock!TypeOK'
  BY <1>7 DEF Lock!ReleaseFails, Lock!Matches
<1>8. ASSUME NEW r \in Runs, Lock!ReleaseCancelled(r) PROVE Lock!TypeOK'
  BY <1>8 DEF Lock!ReleaseCancelled
<1>9. ASSUME NEW r \in Runs, Lock!Cancel(r) PROVE Lock!TypeOK'
  BY <1>9 DEF Lock!Cancel
<1>10. ASSUME NEW r \in Runs, Lock!KillPlugin(r) PROVE Lock!TypeOK'
  BY <1>10 DEF Lock!KillPlugin
<1>11. ASSUME NEW r \in Runs, Lock!Crash(r) PROVE Lock!TypeOK'
  BY <1>11 DEF Lock!Crash
<1>12. ASSUME NEW o \in Operators, Lock!UnlockInspect(o) PROVE Lock!TypeOK'
  BY <1>12 DEF Lock!UnlockInspect
<1>13. ASSUME NEW o \in Operators, Lock!UnlockDelete(o) PROVE Lock!TypeOK'
  BY <1>13 DEF Lock!UnlockDelete, Lock!Matches, Lock!Wrote
<1>14. ASSUME NEW o \in Operators, Lock!UnlockFails(o) PROVE Lock!TypeOK'
  BY <1>14 DEF Lock!UnlockFails
<1>15. CASE UNCHANGED Lock!vars
  BY <1>15 DEF Lock!vars
<1>. QED
  BY <1>1, <1>2, <1>3, <1>4, <1>5, <1>6, <1>7, <1>8, <1>9, <1>10, <1>11, <1>12,
     <1>13, <1>14, <1>15 DEF Lock!Next, Lock!RunStep, Lock!OperatorStep

\* Acquire stamps the object with a time nobody has used (lock.go).
LEMMA StampsStep == Lock!TypeOK /\ Stamps /\ [Lock!Next]_Lock!vars => Stamps'
<1>. SUFFICES ASSUME Lock!TypeOK, Stamps, [Lock!Next]_Lock!vars PROVE Stamps'
  OBVIOUS
<1>. USE LockAssumption DEF Lock!TypeOK, Lock!PcValues, Stamps, Lock!Active
<1>1. ASSUME NEW r \in Runs, Lock!Acquire(r) PROVE Stamps'
  BY <1>1 DEF Lock!Acquire, Lock!NewInfo, Lock!Info
<1>2. ASSUME NEW r \in Runs, Lock!AcquireLocked(r) PROVE Stamps'
  BY <1>2 DEF Lock!AcquireLocked
<1>3. ASSUME NEW r \in Runs, Lock!AcquireFailed(r) PROVE Stamps'
  BY <1>3 DEF Lock!AcquireFailed, Lock!NewInfo, Lock!Info
<1>4. ASSUME NEW r \in Runs, Lock!BeginRelease(r) PROVE Stamps'
  BY <1>4 DEF Lock!BeginRelease
<1>5. ASSUME NEW r \in Runs, Lock!ReleaseInspect(r) PROVE Stamps'
  BY <1>5 DEF Lock!ReleaseInspect
<1>6. ASSUME NEW r \in Runs, Lock!ReleaseDelete(r) PROVE Stamps'
  BY <1>6 DEF Lock!ReleaseDelete, Lock!Matches
<1>7. ASSUME NEW r \in Runs, Lock!ReleaseFails(r) PROVE Stamps'
  BY <1>7 DEF Lock!ReleaseFails, Lock!Matches
<1>8. ASSUME NEW r \in Runs, Lock!ReleaseCancelled(r) PROVE Stamps'
  BY <1>8 DEF Lock!ReleaseCancelled
<1>9. ASSUME NEW r \in Runs, Lock!Cancel(r) PROVE Stamps'
  BY <1>9 DEF Lock!Cancel
<1>10. ASSUME NEW r \in Runs, Lock!KillPlugin(r) PROVE Stamps'
  BY <1>10 DEF Lock!KillPlugin
<1>11. ASSUME NEW r \in Runs, Lock!Crash(r) PROVE Stamps'
  BY <1>11 DEF Lock!Crash
<1>12. ASSUME NEW o \in Operators, Lock!UnlockInspect(o) PROVE Stamps'
  BY <1>12 DEF Lock!UnlockInspect
<1>13. ASSUME NEW o \in Operators, Lock!UnlockDelete(o) PROVE Stamps'
  BY <1>13 DEF Lock!UnlockDelete, Lock!Matches, Lock!Wrote
<1>14. ASSUME NEW o \in Operators, Lock!UnlockFails(o) PROVE Stamps'
  BY <1>14 DEF Lock!UnlockFails
<1>15. CASE UNCHANGED Lock!vars
  BY <1>15 DEF Lock!vars
<1>. QED
  BY <1>1, <1>2, <1>3, <1>4, <1>5, <1>6, <1>7, <1>8, <1>9, <1>10, <1>11, <1>12,
     <1>13, <1>14, <1>15 DEF Lock!Next, Lock!RunStep, Lock!OperatorStep

\* A release deletes the object that the run wrote, while nobody was evicted; a
\* state unlock evicts whoever wrote what it deletes.
LEMMA HoldsStep ==
    Lock!TypeOK /\ Stamps /\ Holds /\ [Lock!Next]_Lock!vars => Holds'
<1>. SUFFICES ASSUME Lock!TypeOK, Stamps, Holds, [Lock!Next]_Lock!vars
              PROVE  Holds'
  OBVIOUS
<1>. USE LockAssumption DEF Lock!TypeOK, Lock!PcValues, Stamps, Holds,
     Lock!Active
<1>1. ASSUME NEW r \in Runs, Lock!Acquire(r) PROVE Holds'
  BY <1>1 DEF Lock!Acquire, Lock!NewInfo, Lock!Info
<1>2. ASSUME NEW r \in Runs, Lock!AcquireLocked(r) PROVE Holds'
  BY <1>2 DEF Lock!AcquireLocked
<1>3. ASSUME NEW r \in Runs, Lock!AcquireFailed(r) PROVE Holds'
  BY <1>3 DEF Lock!AcquireFailed, Lock!NewInfo, Lock!Info
<1>4. ASSUME NEW r \in Runs, Lock!BeginRelease(r) PROVE Holds'
  BY <1>4 DEF Lock!BeginRelease
<1>5. ASSUME NEW r \in Runs, Lock!ReleaseInspect(r) PROVE Holds'
  BY <1>5 DEF Lock!ReleaseInspect
<1>6. ASSUME NEW r \in Runs, Lock!ReleaseDelete(r) PROVE Holds'
  BY <1>6 DEF Lock!ReleaseDelete, Lock!Matches
<1>7. ASSUME NEW r \in Runs, Lock!ReleaseFails(r) PROVE Holds'
  BY <1>7 DEF Lock!ReleaseFails, Lock!Matches
<1>8. ASSUME NEW r \in Runs, Lock!ReleaseCancelled(r) PROVE Holds'
  BY <1>8 DEF Lock!ReleaseCancelled
<1>9. ASSUME NEW r \in Runs, Lock!Cancel(r) PROVE Holds'
  BY <1>9 DEF Lock!Cancel
<1>10. ASSUME NEW r \in Runs, Lock!KillPlugin(r) PROVE Holds'
  BY <1>10 DEF Lock!KillPlugin
<1>11. ASSUME NEW r \in Runs, Lock!Crash(r) PROVE Holds'
  BY <1>11 DEF Lock!Crash
<1>12. ASSUME NEW o \in Operators, Lock!UnlockInspect(o) PROVE Holds'
  BY <1>12 DEF Lock!UnlockInspect
<1>13. ASSUME NEW o \in Operators, Lock!UnlockDelete(o) PROVE Holds'
  BY <1>13 DEF Lock!UnlockDelete, Lock!Matches, Lock!Wrote
<1>14. ASSUME NEW o \in Operators, Lock!UnlockFails(o) PROVE Holds'
  BY <1>14 DEF Lock!UnlockFails
<1>15. CASE UNCHANGED Lock!vars
  BY <1>15 DEF Lock!vars
<1>. QED
  BY <1>1, <1>2, <1>3, <1>4, <1>5, <1>6, <1>7, <1>8, <1>9, <1>10, <1>11, <1>12,
     <1>13, <1>14, <1>15 DEF Lock!Next, Lock!RunStep, Lock!OperatorStep

\* On ECS the handle compares owner and AcquiredAt before it deletes.
LEMMA CheckedStep ==
    Lock!TypeOK /\ Stamps /\ Checked /\ [Lock!Next]_Lock!vars => Checked'
<1>. SUFFICES ASSUME Lock!TypeOK, Stamps, Checked, [Lock!Next]_Lock!vars
              PROVE  Checked'
  OBVIOUS
<1>. USE LockAssumption DEF Lock!TypeOK, Lock!PcValues, Stamps, Checked,
     Lock!Active
<1>1. ASSUME NEW r \in Runs, Lock!Acquire(r) PROVE Checked'
  BY <1>1 DEF Lock!Acquire, Lock!NewInfo, Lock!Info
<1>2. ASSUME NEW r \in Runs, Lock!AcquireLocked(r) PROVE Checked'
  BY <1>2 DEF Lock!AcquireLocked
<1>3. ASSUME NEW r \in Runs, Lock!AcquireFailed(r) PROVE Checked'
  BY <1>3 DEF Lock!AcquireFailed, Lock!NewInfo, Lock!Info
<1>4. ASSUME NEW r \in Runs, Lock!BeginRelease(r) PROVE Checked'
  BY <1>4 DEF Lock!BeginRelease
<1>5. ASSUME NEW r \in Runs, Lock!ReleaseInspect(r) PROVE Checked'
  BY <1>5 DEF Lock!ReleaseInspect, Lock!OwnershipHolds, Lock!SameOwner,
     Lock!Info
<1>6. ASSUME NEW r \in Runs, Lock!ReleaseDelete(r) PROVE Checked'
  BY <1>6 DEF Lock!ReleaseDelete, Lock!Matches
<1>7. ASSUME NEW r \in Runs, Lock!ReleaseFails(r) PROVE Checked'
  BY <1>7 DEF Lock!ReleaseFails, Lock!Matches
<1>8. ASSUME NEW r \in Runs, Lock!ReleaseCancelled(r) PROVE Checked'
  BY <1>8 DEF Lock!ReleaseCancelled
<1>9. ASSUME NEW r \in Runs, Lock!Cancel(r) PROVE Checked'
  BY <1>9 DEF Lock!Cancel
<1>10. ASSUME NEW r \in Runs, Lock!KillPlugin(r) PROVE Checked'
  BY <1>10 DEF Lock!KillPlugin
<1>11. ASSUME NEW r \in Runs, Lock!Crash(r) PROVE Checked'
  BY <1>11 DEF Lock!Crash
<1>12. ASSUME NEW o \in Operators, Lock!UnlockInspect(o) PROVE Checked'
  BY <1>12 DEF Lock!UnlockInspect
<1>13. ASSUME NEW o \in Operators, Lock!UnlockDelete(o) PROVE Checked'
  BY <1>13 DEF Lock!UnlockDelete, Lock!Matches, Lock!Wrote
<1>14. ASSUME NEW o \in Operators, Lock!UnlockFails(o) PROVE Checked'
  BY <1>14 DEF Lock!UnlockFails
<1>15. CASE UNCHANGED Lock!vars
  BY <1>15 DEF Lock!vars
<1>. QED
  BY <1>1, <1>2, <1>3, <1>4, <1>5, <1>6, <1>7, <1>8, <1>9, <1>10, <1>11, <1>12,
     <1>13, <1>14, <1>15 DEF Lock!Next, Lock!RunStep, Lock!OperatorStep

\* On ECS the release of a deploy reaches the store under a context that is not
\* cancelled, and finds its object gone or deletes it.
LEMMA FreesStep ==
    Lock!TypeOK /\ Stamps /\ Checked /\ EcsDeployFreesLock
    /\ [Lock!Next]_Lock!vars => EcsDeployFreesLock'
<1>. SUFFICES ASSUME Lock!TypeOK, Stamps, Checked, EcsDeployFreesLock,
                     [Lock!Next]_Lock!vars
              PROVE  EcsDeployFreesLock'
  OBVIOUS
<1>. USE LockAssumption DEF Lock!TypeOK, Lock!PcValues, Stamps, Checked,
     EcsDeployFreesLock, Lock!DeployFreesLock, Lock!Wrote, Lock!Active
<1>1. ASSUME NEW r \in Runs, Lock!Acquire(r) PROVE EcsDeployFreesLock'
  BY <1>1 DEF Lock!Acquire, Lock!NewInfo, Lock!Info
<1>2. ASSUME NEW r \in Runs, Lock!AcquireLocked(r) PROVE EcsDeployFreesLock'
  BY <1>2 DEF Lock!AcquireLocked
<1>3. ASSUME NEW r \in Runs, Lock!AcquireFailed(r) PROVE EcsDeployFreesLock'
  BY <1>3 DEF Lock!AcquireFailed, Lock!NewInfo, Lock!Info
<1>4. ASSUME NEW r \in Runs, Lock!BeginRelease(r) PROVE EcsDeployFreesLock'
  BY <1>4 DEF Lock!BeginRelease
<1>5. ASSUME NEW r \in Runs, Lock!ReleaseInspect(r) PROVE EcsDeployFreesLock'
  BY <1>5 DEF Lock!ReleaseInspect, Lock!OwnershipHolds, Lock!SameOwner,
     Lock!Info
<1>6. ASSUME NEW r \in Runs, Lock!ReleaseDelete(r) PROVE EcsDeployFreesLock'
  BY <1>6 DEF Lock!ReleaseDelete, Lock!Matches
<1>7. ASSUME NEW r \in Runs, Lock!ReleaseFails(r) PROVE EcsDeployFreesLock'
  BY <1>7 DEF Lock!ReleaseFails, Lock!Matches
<1>8. ASSUME NEW r \in Runs, Lock!ReleaseCancelled(r) PROVE EcsDeployFreesLock'
  BY <1>8 DEF Lock!ReleaseCancelled, Lock!ContextLive
<1>9. ASSUME NEW r \in Runs, Lock!Cancel(r) PROVE EcsDeployFreesLock'
  BY <1>9 DEF Lock!Cancel
<1>10. ASSUME NEW r \in Runs, Lock!KillPlugin(r) PROVE EcsDeployFreesLock'
  BY <1>10 DEF Lock!KillPlugin
<1>11. ASSUME NEW r \in Runs, Lock!Crash(r) PROVE EcsDeployFreesLock'
  BY <1>11 DEF Lock!Crash
<1>12. ASSUME NEW o \in Operators, Lock!UnlockInspect(o)
     PROVE  EcsDeployFreesLock'
  BY <1>12 DEF Lock!UnlockInspect
<1>13. ASSUME NEW o \in Operators, Lock!UnlockDelete(o)
     PROVE  EcsDeployFreesLock'
  BY <1>13 DEF Lock!UnlockDelete, Lock!Matches, Lock!Wrote
<1>14. ASSUME NEW o \in Operators, Lock!UnlockFails(o)
     PROVE  EcsDeployFreesLock'
  BY <1>14 DEF Lock!UnlockFails
<1>15. CASE UNCHANGED Lock!vars
  BY <1>15 DEF Lock!vars
<1>. QED
  BY <1>1, <1>2, <1>3, <1>4, <1>5, <1>6, <1>7, <1>8, <1>9, <1>10, <1>11, <1>12,
     <1>13, <1>14, <1>15 DEF Lock!Next, Lock!RunStep, Lock!OperatorStep

\* What holds of the lock holds under every step of the orchestrator.
LEMMA LockFactsStep == LockFacts /\ [Next]_vars => LockFacts'
BY LockStep, LockTypeStep, StampsStep, HoldsStep, CheckedStep, FreesStep
   DEF LockFacts

\* While no lock was removed from under a run, one run works at a time.
LEMMA Alone ==
    ASSUME LockFacts, Phased, evicted = {}, NEW r \in Runs, NEW s \in Runs,
           phase[r] \in Working, phase[s] \in Working
    PROVE  r = s
<1>1. Lock!Active(r) /\ Lock!Active(s)
  BY DEF Phased, Lock!Active
<1>2. lock = info[r] /\ lock = info[s] /\ info[r] # NoLock
  BY <1>1 DEF LockFacts, Holds, Stamps
<1>. QED
  BY <1>2 DEF LockFacts, Stamps

-----------------------------------------------------------------------------
(***************************************************************************)
(* Types and phases.                                                       *)
(***************************************************************************)
\* Every step keeps the variables in their types.
LEMMA TypeStep == TypeOK /\ [Next]_vars => TypeOK'
<1>. SUFFICES ASSUME TypeOK, [Next]_vars PROVE TypeOK'
  OBVIOUS
<1>. USE OrchestratorAssumption, LockAssumption DEF TypeOK, Phases, Images,
     TaskValues, Follows
<1>0. Lock!TypeOK'
  BY LockStep, LockTypeStep
<1>1. ASSUME NEW r \in Runs, Reject(r) PROVE TypeOK'
  BY <1>1, <1>0 DEF Reject, Goto, lockVars, stepVars, serviceVars, historyVars
<1>2. ASSUME NEW r \in Runs, Acquire(r) PROVE TypeOK'
  BY <1>2, <1>0 DEF Acquire, Lock!Acquire, Goto, stepVars, serviceVars,
     historyVars
<1>3. ASSUME NEW r \in Runs, AcquireFails(r) PROVE TypeOK'
  BY <1>3, <1>0 DEF AcquireFails, Lock!AcquireLocked, Lock!AcquireFailed, Goto,
     stepVars, serviceVars, historyVars
<1>4. ASSUME NEW r \in Runs, Skip(r) PROVE TypeOK'
  BY <1>4, <1>0 DEF Skip, Follows, Goto, lockVars, stepVars, serviceVars,
     historyVars
<1>5. ASSUME NEW r \in Runs, Abort(r) PROVE TypeOK'
  BY <1>5, <1>0 DEF Abort, Unwind, Lock!KillPlugin, Goto, lockVars, stepVars,
     serviceVars, historyVars
<1>6. ASSUME NEW r \in Runs, Preview(r) PROVE TypeOK'
  BY <1>6, <1>0 DEF Preview, Enter, Goto, lockVars, stepVars, serviceVars,
     historyVars
<1>7. ASSUME NEW r \in Runs, CreateInitial(r) PROVE TypeOK'
  BY <1>7, <1>0 DEF CreateInitial, Enter, lockVars, stepVars, historyVars
<1>8. ASSUME NEW r \in Runs, RegisterCandidate(r) PROVE TypeOK'
  BY <1>8, <1>0 DEF RegisterCandidate, Enter, CandidateRuns, Goto, lockVars,
     serviceVars, historyVars
<1>9. ASSUME NEW r \in Runs, RegisterLost(r) PROVE TypeOK'
  BY <1>9, <1>0 DEF RegisterLost, Unwind, Lock!KillPlugin, Goto, CandidateRuns,
     lockVars, stepVars, serviceVars
<1>10. ASSUME NEW r \in Runs, StartMigration(r) PROVE TypeOK'
  BY <1>10, <1>0 DEF StartMigration, Enter, CandidateRuns, Goto, lockVars,
     stepVars, serviceVars, historyVars
<1>11. ASSUME NEW r \in Runs, StartFails(r) PROVE TypeOK'
  BY <1>11, <1>0 DEF StartFails, Goto, lockVars, serviceVars
<1>12. ASSUME NEW r \in Runs, WaitEnds(r) PROVE TypeOK'
  BY <1>12, <1>0 DEF WaitEnds, Goto, lockVars, serviceVars, historyVars
<1>13. ASSUME NEW r \in Runs, WaitTimesOut(r) PROVE TypeOK'
  BY <1>13, <1>0 DEF WaitTimesOut, Goto, lockVars, serviceVars
<1>14. ASSUME NEW r \in Runs, WaitAborts(r) PROVE TypeOK'
  BY <1>14, <1>0 DEF WaitAborts, Goto, lockVars, serviceVars, historyVars
<1>15. ASSUME NEW r \in Runs, Tidy(r) PROVE TypeOK'
  BY <1>15, <1>0 DEF Tidy, Removed, CandidateRuns, Goto, lockVars, serviceVars,
     historyVars
<1>16. ASSUME NEW r \in Runs, TidyFails(r) PROVE TypeOK'
  BY <1>16, <1>0 DEF TidyFails, PerhapsRemoved, Removed, CandidateRuns, Goto,
     lockVars, stepVars, serviceVars, historyVars
<1>17. ASSUME NEW r \in Runs, MigrateKilled(r) PROVE TypeOK'
  BY <1>17, <1>0 DEF MigrateKilled, Lock!KillPlugin, PerhapsRemoved, Removed,
     CandidateRuns, Goto, stepVars, serviceVars, historyVars
<1>18. ASSUME NEW r \in Runs, UpdateServices(r) PROVE TypeOK'
  BY <1>18, <1>0 DEF UpdateServices, Enter, Goto, lockVars, stepVars,
     historyVars
<1>19. ASSUME NEW r \in Runs, UpdateFails(r) PROVE TypeOK'
  BY <1>19, <1>0 DEF UpdateFails, Unwind, Lock!KillPlugin, Goto, lockVars,
     stepVars, historyVars
<1>20. ASSUME NEW r \in Runs, Stabilize(r) PROVE TypeOK'
  BY <1>20, <1>0 DEF Stabilize, Enter, Goto, lockVars, stepVars, serviceVars,
     historyVars
<1>21. ASSUME NEW r \in Runs, Health(r) PROVE TypeOK'
  BY <1>21, <1>0 DEF Health, Enter, Intended, Goto, lockVars, stepVars,
     serviceVars, historyVars
<1>22. ASSUME NEW r \in Runs, Record(r) PROVE TypeOK'
  BY <1>22, <1>0 DEF Record, Enter, Goto, lockVars, stepVars, serviceVars
<1>23. ASSUME NEW r \in Runs, DestroyStack(r) PROVE TypeOK'
  BY <1>23, <1>0 DEF DestroyStack, Goto, lockVars, stepVars, historyVars
<1>24. ASSUME NEW r \in Runs, DestroyFails(r) PROVE TypeOK'
  BY <1>24, <1>0 DEF DestroyFails, Unwind, Lock!KillPlugin, Goto, lockVars,
     stepVars, historyVars
<1>25. ASSUME NEW r \in Runs, CleanupCandidate(r) PROVE TypeOK'
  BY <1>25, <1>0 DEF CleanupCandidate, Removed, CandidateRuns, Goto, lockVars,
     serviceVars, historyVars
<1>26. ASSUME NEW r \in Runs, CleanupFails(r) PROVE TypeOK'
  BY <1>26, <1>0 DEF CleanupFails, PerhapsRemoved, Removed, CandidateRuns,
     Goto, lockVars, stepVars, serviceVars
<1>27. ASSUME NEW r \in Runs, BeginRelease(r) PROVE TypeOK'
  BY <1>27, <1>0 DEF BeginRelease, ReadyToRelease, Lock!BeginRelease, Goto,
     stepVars, serviceVars, historyVars
<1>28. ASSUME NEW r \in Runs, ReleaseStep(r) PROVE TypeOK'
  BY <1>28, <1>0 DEF ReleaseStep, Lock!ReleaseInspect, Lock!ReleaseDelete,
     Lock!ReleaseFails, Lock!ReleaseCancelled, stepVars, serviceVars,
     historyVars
<1>29. ASSUME NEW r \in Runs, Cancel(r) PROVE TypeOK'
  BY <1>29, <1>0 DEF Cancel, Lock!Cancel, stepVars, serviceVars, historyVars
<1>30. ASSUME NEW r \in Runs, Crash(r) PROVE TypeOK'
  BY <1>30, <1>0 DEF Crash, Lock!Crash, Lock!Active, Goto, stepVars,
     serviceVars, historyVars
<1>31. ASSUME NEW r \in Runs, MigrationEnds(r) PROVE TypeOK'
  BY <1>31, <1>0 DEF MigrationEnds, lockVars, stepVars, serviceVars
<1>32. ASSUME NEW o \in Operators, UnlockInspect(o) PROVE TypeOK'
  BY <1>32, <1>0 DEF UnlockInspect, BesideTheRuns, Lock!UnlockInspect,
     stepVars, serviceVars, historyVars
<1>33. ASSUME NEW o \in Operators, UnlockDelete(o) PROVE TypeOK'
  BY <1>33, <1>0 DEF UnlockDelete, BesideTheRuns, Lock!UnlockDelete, stepVars,
     serviceVars, historyVars
<1>34. ASSUME NEW o \in Operators, UnlockFails(o) PROVE TypeOK'
  BY <1>34, <1>0 DEF UnlockFails, BesideTheRuns, Lock!UnlockFails, stepVars,
     serviceVars, historyVars
<1>35. CASE RolloutEnds
  BY <1>35, <1>0 DEF RolloutEnds, lockVars, stepVars, historyVars
<1>36. CASE UNCHANGED vars
  BY <1>0, <1>36 DEF vars, stepVars, serviceVars, historyVars
<1>. QED
  BY <1>1, <1>2, <1>3, <1>4, <1>5, <1>6, <1>7, <1>8, <1>9, <1>10, <1>11, <1>12,
     <1>13, <1>14, <1>15, <1>16, <1>17, <1>18, <1>19, <1>20, <1>21, <1>22,
     <1>23, <1>24, <1>25, <1>26, <1>27, <1>28, <1>29, <1>30, <1>31, <1>32,
     <1>33, <1>34, <1>35, <1>36 DEF Next, Progress, Mishap

\* A run works while it holds the lock, and is past its work when it releases
\* it (orchestrator.go: Run).
LEMMA PhasedStep == TypeOK /\ Phased /\ [Next]_vars => Phased'
<1>. SUFFICES ASSUME TypeOK, Phased, [Next]_vars PROVE Phased'
  OBVIOUS
<1>. USE OrchestratorAssumption, LockAssumption DEF TypeOK, Phased, Working,
     Follows, Lock!TypeOK
<1>1. ASSUME NEW r \in Runs, Reject(r) PROVE Phased'
  BY <1>1 DEF Reject, Goto, lockVars, stepVars, serviceVars, historyVars
<1>2. ASSUME NEW r \in Runs, Acquire(r) PROVE Phased'
  BY <1>2 DEF Acquire, Lock!Acquire, Goto, stepVars, serviceVars, historyVars
<1>3. ASSUME NEW r \in Runs, AcquireFails(r) PROVE Phased'
  BY <1>3 DEF AcquireFails, Lock!AcquireLocked, Lock!AcquireFailed, Goto,
     stepVars, serviceVars, historyVars
<1>4. ASSUME NEW r \in Runs, Skip(r) PROVE Phased'
  BY <1>4 DEF Skip, Follows, Goto, lockVars, stepVars, serviceVars, historyVars
<1>5. ASSUME NEW r \in Runs, Abort(r) PROVE Phased'
  BY <1>5 DEF Abort, Unwind, Lock!KillPlugin, Goto, lockVars, stepVars,
     serviceVars, historyVars
<1>6. ASSUME NEW r \in Runs, Preview(r) PROVE Phased'
  BY <1>6 DEF Preview, Enter, Goto, lockVars, stepVars, serviceVars,
     historyVars
<1>7. ASSUME NEW r \in Runs, CreateInitial(r) PROVE Phased'
  BY <1>7 DEF CreateInitial, Enter, lockVars, stepVars, historyVars
<1>8. ASSUME NEW r \in Runs, RegisterCandidate(r) PROVE Phased'
  BY <1>8 DEF RegisterCandidate, Enter, CandidateRuns, Goto, lockVars,
     serviceVars, historyVars
<1>9. ASSUME NEW r \in Runs, RegisterLost(r) PROVE Phased'
  BY <1>9 DEF RegisterLost, Unwind, Lock!KillPlugin, Goto, CandidateRuns,
     lockVars, stepVars, serviceVars
<1>10. ASSUME NEW r \in Runs, StartMigration(r) PROVE Phased'
  BY <1>10 DEF StartMigration, Enter, CandidateRuns, Goto, lockVars, stepVars,
     serviceVars, historyVars
<1>11. ASSUME NEW r \in Runs, StartFails(r) PROVE Phased'
  BY <1>11 DEF StartFails, Goto, lockVars, serviceVars
<1>12. ASSUME NEW r \in Runs, WaitEnds(r) PROVE Phased'
  BY <1>12 DEF WaitEnds, Goto, lockVars, serviceVars, historyVars
<1>13. ASSUME NEW r \in Runs, WaitTimesOut(r) PROVE Phased'
  BY <1>13 DEF WaitTimesOut, Goto, lockVars, serviceVars
<1>14. ASSUME NEW r \in Runs, WaitAborts(r) PROVE Phased'
  BY <1>14 DEF WaitAborts, Goto, lockVars, serviceVars, historyVars
<1>15. ASSUME NEW r \in Runs, Tidy(r) PROVE Phased'
  BY <1>15 DEF Tidy, Removed, CandidateRuns, Goto, lockVars, serviceVars,
     historyVars
<1>16. ASSUME NEW r \in Runs, TidyFails(r) PROVE Phased'
  BY <1>16 DEF TidyFails, PerhapsRemoved, Removed, CandidateRuns, Goto,
     lockVars, stepVars, serviceVars, historyVars
<1>17. ASSUME NEW r \in Runs, MigrateKilled(r) PROVE Phased'
  BY <1>17 DEF MigrateKilled, Lock!KillPlugin, PerhapsRemoved, Removed,
     CandidateRuns, Goto, stepVars, serviceVars, historyVars
<1>18. ASSUME NEW r \in Runs, UpdateServices(r) PROVE Phased'
  BY <1>18 DEF UpdateServices, Enter, Goto, lockVars, stepVars, historyVars
<1>19. ASSUME NEW r \in Runs, UpdateFails(r) PROVE Phased'
  BY <1>19 DEF UpdateFails, Unwind, Lock!KillPlugin, Goto, lockVars, stepVars,
     historyVars
<1>20. ASSUME NEW r \in Runs, Stabilize(r) PROVE Phased'
  BY <1>20 DEF Stabilize, Enter, Goto, lockVars, stepVars, serviceVars,
     historyVars
<1>21. ASSUME NEW r \in Runs, Health(r) PROVE Phased'
  BY <1>21 DEF Health, Enter, Intended, Goto, lockVars, stepVars, serviceVars,
     historyVars
<1>22. ASSUME NEW r \in Runs, Record(r) PROVE Phased'
  BY <1>22 DEF Record, Enter, Goto, lockVars, stepVars, serviceVars
<1>23. ASSUME NEW r \in Runs, DestroyStack(r) PROVE Phased'
  BY <1>23 DEF DestroyStack, Goto, lockVars, stepVars, historyVars
<1>24. ASSUME NEW r \in Runs, DestroyFails(r) PROVE Phased'
  BY <1>24 DEF DestroyFails, Unwind, Lock!KillPlugin, Goto, lockVars, stepVars,
     historyVars
<1>25. ASSUME NEW r \in Runs, CleanupCandidate(r) PROVE Phased'
  BY <1>25 DEF CleanupCandidate, Removed, CandidateRuns, Goto, lockVars,
     serviceVars, historyVars
<1>26. ASSUME NEW r \in Runs, CleanupFails(r) PROVE Phased'
  BY <1>26 DEF CleanupFails, PerhapsRemoved, Removed, CandidateRuns, Goto,
     lockVars, stepVars, serviceVars
<1>27. ASSUME NEW r \in Runs, BeginRelease(r) PROVE Phased'
  BY <1>27 DEF BeginRelease, ReadyToRelease, Lock!BeginRelease, Goto, stepVars,
     serviceVars, historyVars
<1>28. ASSUME NEW r \in Runs, ReleaseStep(r) PROVE Phased'
  BY <1>28 DEF ReleaseStep, Lock!ReleaseInspect, Lock!ReleaseDelete,
     Lock!ReleaseFails, Lock!ReleaseCancelled, stepVars, serviceVars,
     historyVars
<1>29. ASSUME NEW r \in Runs, Cancel(r) PROVE Phased'
  BY <1>29 DEF Cancel, Lock!Cancel, stepVars, serviceVars, historyVars
<1>30. ASSUME NEW r \in Runs, Crash(r) PROVE Phased'
  BY <1>30 DEF Crash, Lock!Crash, Lock!Active, Goto, stepVars, serviceVars,
     historyVars
<1>31. ASSUME NEW r \in Runs, MigrationEnds(r) PROVE Phased'
  BY <1>31 DEF MigrationEnds, lockVars, stepVars, serviceVars
<1>32. ASSUME NEW o \in Operators, UnlockInspect(o) PROVE Phased'
  BY <1>32 DEF UnlockInspect, BesideTheRuns, Lock!UnlockInspect, stepVars,
     serviceVars, historyVars
<1>33. ASSUME NEW o \in Operators, UnlockDelete(o) PROVE Phased'
  BY <1>33 DEF UnlockDelete, BesideTheRuns, Lock!UnlockDelete, stepVars,
     serviceVars, historyVars
<1>34. ASSUME NEW o \in Operators, UnlockFails(o) PROVE Phased'
  BY <1>34 DEF UnlockFails, BesideTheRuns, Lock!UnlockFails, stepVars,
     serviceVars, historyVars
<1>35. CASE RolloutEnds
  BY <1>35 DEF RolloutEnds, lockVars, stepVars, historyVars
<1>36. CASE UNCHANGED vars
  BY <1>36 DEF vars, lockVars, stepVars, serviceVars, historyVars
<1>. QED
  BY <1>1, <1>2, <1>3, <1>4, <1>5, <1>6, <1>7, <1>8, <1>9, <1>10, <1>11, <1>12,
     <1>13, <1>14, <1>15, <1>16, <1>17, <1>18, <1>19, <1>20, <1>21, <1>22,
     <1>23, <1>24, <1>25, <1>26, <1>27, <1>28, <1>29, <1>30, <1>31, <1>32,
     <1>33, <1>34, <1>35, <1>36 DEF Next, Progress, Mishap

-----------------------------------------------------------------------------
(***************************************************************************)
(* Candidates and migrations.                                              *)
(***************************************************************************)
\* A run removes its candidate, or knows of it until the cleanup that precedes
\* the release; a removal that fails is a fault (RunMigrations,
\* CleanupCandidate).
LEMMA TrackedStep == TypeOK /\ Tracked /\ [Next]_vars => Tracked'
<1>. SUFFICES ASSUME TypeOK, Tracked, [Next]_vars PROVE Tracked'
  OBVIOUS
<1>. USE OrchestratorAssumption, LockAssumption DEF TypeOK, Lock!TypeOK,
     Tracked, ProviderReachable, Follows
<1>1. ASSUME NEW r \in Runs, Reject(r) PROVE Tracked'
  BY <1>1 DEF Reject, Goto, lockVars, stepVars, serviceVars, historyVars
<1>2. ASSUME NEW r \in Runs, Acquire(r) PROVE Tracked'
  BY <1>2 DEF Acquire, Lock!Acquire, Goto, stepVars, serviceVars, historyVars
<1>3. ASSUME NEW r \in Runs, AcquireFails(r) PROVE Tracked'
  BY <1>3 DEF AcquireFails, Lock!AcquireLocked, Lock!AcquireFailed, Goto,
     stepVars, serviceVars, historyVars
<1>4. ASSUME NEW r \in Runs, Skip(r) PROVE Tracked'
  BY <1>4 DEF Skip, Follows, Goto, lockVars, stepVars, serviceVars, historyVars
<1>5. ASSUME NEW r \in Runs, Abort(r) PROVE Tracked'
  BY <1>5 DEF Abort, Unwind, Lock!KillPlugin, Goto, lockVars, stepVars,
     serviceVars, historyVars
<1>6. ASSUME NEW r \in Runs, Preview(r) PROVE Tracked'
  BY <1>6 DEF Preview, Enter, Goto, lockVars, stepVars, serviceVars,
     historyVars
<1>7. ASSUME NEW r \in Runs, CreateInitial(r) PROVE Tracked'
  BY <1>7 DEF CreateInitial, Enter, lockVars, stepVars, historyVars
<1>8. ASSUME NEW r \in Runs, RegisterCandidate(r) PROVE Tracked'
  BY <1>8 DEF RegisterCandidate, Enter, CandidateRuns, Goto, lockVars,
     serviceVars, historyVars
<1>9. ASSUME NEW r \in Runs, RegisterLost(r) PROVE Tracked'
  BY <1>9 DEF RegisterLost, Unwind, Lock!KillPlugin, Goto, CandidateRuns,
     lockVars, stepVars, serviceVars
<1>10. ASSUME NEW r \in Runs, StartMigration(r) PROVE Tracked'
  BY <1>10 DEF StartMigration, Enter, CandidateRuns, Goto, lockVars, stepVars,
     serviceVars, historyVars
<1>11. ASSUME NEW r \in Runs, StartFails(r) PROVE Tracked'
  BY <1>11 DEF StartFails, Goto, lockVars, serviceVars
<1>12. ASSUME NEW r \in Runs, WaitEnds(r) PROVE Tracked'
  BY <1>12 DEF WaitEnds, Goto, lockVars, serviceVars, historyVars
<1>13. ASSUME NEW r \in Runs, WaitTimesOut(r) PROVE Tracked'
  BY <1>13 DEF WaitTimesOut, Goto, lockVars, serviceVars
<1>14. ASSUME NEW r \in Runs, WaitAborts(r) PROVE Tracked'
  BY <1>14 DEF WaitAborts, Goto, lockVars, serviceVars, historyVars
<1>15. ASSUME NEW r \in Runs, Tidy(r) PROVE Tracked'
  BY <1>15 DEF Tidy, Removed, CandidateRuns, Goto, lockVars, serviceVars,
     historyVars
<1>16. ASSUME NEW r \in Runs, TidyFails(r) PROVE Tracked'
  BY <1>16 DEF TidyFails, PerhapsRemoved, Removed, CandidateRuns, Goto,
     lockVars, stepVars, serviceVars, historyVars
<1>17. ASSUME NEW r \in Runs, MigrateKilled(r) PROVE Tracked'
  BY <1>17 DEF MigrateKilled, Lock!KillPlugin, PerhapsRemoved, Removed,
     CandidateRuns, Goto, stepVars, serviceVars, historyVars
<1>18. ASSUME NEW r \in Runs, UpdateServices(r) PROVE Tracked'
  BY <1>18 DEF UpdateServices, Enter, Goto, lockVars, stepVars, historyVars
<1>19. ASSUME NEW r \in Runs, UpdateFails(r) PROVE Tracked'
  BY <1>19 DEF UpdateFails, Unwind, Lock!KillPlugin, Goto, lockVars, stepVars,
     historyVars
<1>20. ASSUME NEW r \in Runs, Stabilize(r) PROVE Tracked'
  BY <1>20 DEF Stabilize, Enter, Goto, lockVars, stepVars, serviceVars,
     historyVars
<1>21. ASSUME NEW r \in Runs, Health(r) PROVE Tracked'
  BY <1>21 DEF Health, Enter, Intended, Goto, lockVars, stepVars, serviceVars,
     historyVars
<1>22. ASSUME NEW r \in Runs, Record(r) PROVE Tracked'
  BY <1>22 DEF Record, Enter, Goto, lockVars, stepVars, serviceVars
<1>23. ASSUME NEW r \in Runs, DestroyStack(r) PROVE Tracked'
  BY <1>23 DEF DestroyStack, Goto, lockVars, stepVars, historyVars
<1>24. ASSUME NEW r \in Runs, DestroyFails(r) PROVE Tracked'
  BY <1>24 DEF DestroyFails, Unwind, Lock!KillPlugin, Goto, lockVars, stepVars,
     historyVars
<1>25. ASSUME NEW r \in Runs, CleanupCandidate(r) PROVE Tracked'
  BY <1>25 DEF CleanupCandidate, Removed, CandidateRuns, Goto, lockVars,
     serviceVars, historyVars
<1>26. ASSUME NEW r \in Runs, CleanupFails(r) PROVE Tracked'
  BY <1>26 DEF CleanupFails, PerhapsRemoved, Removed, CandidateRuns, Goto,
     lockVars, stepVars, serviceVars
<1>27. ASSUME NEW r \in Runs, BeginRelease(r) PROVE Tracked'
  BY <1>27 DEF BeginRelease, ReadyToRelease, Lock!BeginRelease, Goto, stepVars,
     serviceVars, historyVars
<1>28. ASSUME NEW r \in Runs, ReleaseStep(r) PROVE Tracked'
  BY <1>28 DEF ReleaseStep, Lock!ReleaseInspect, Lock!ReleaseDelete,
     Lock!ReleaseFails, Lock!ReleaseCancelled, stepVars, serviceVars,
     historyVars
<1>29. ASSUME NEW r \in Runs, Cancel(r) PROVE Tracked'
  BY <1>29 DEF Cancel, Lock!Cancel, stepVars, serviceVars, historyVars
<1>30. ASSUME NEW r \in Runs, Crash(r) PROVE Tracked'
  BY <1>30 DEF Crash, Lock!Crash, Lock!Active, Goto, stepVars, serviceVars,
     historyVars
<1>31. ASSUME NEW r \in Runs, MigrationEnds(r) PROVE Tracked'
  BY <1>31 DEF MigrationEnds, lockVars, stepVars, serviceVars
<1>32. ASSUME NEW o \in Operators, UnlockInspect(o) PROVE Tracked'
  BY <1>32 DEF UnlockInspect, BesideTheRuns, Lock!UnlockInspect, stepVars,
     serviceVars, historyVars
<1>33. ASSUME NEW o \in Operators, UnlockDelete(o) PROVE Tracked'
  BY <1>33 DEF UnlockDelete, BesideTheRuns, Lock!UnlockDelete, stepVars,
     serviceVars, historyVars
<1>34. ASSUME NEW o \in Operators, UnlockFails(o) PROVE Tracked'
  BY <1>34 DEF UnlockFails, BesideTheRuns, Lock!UnlockFails, stepVars,
     serviceVars, historyVars
<1>35. CASE RolloutEnds
  BY <1>35 DEF RolloutEnds, lockVars, stepVars, historyVars
<1>36. CASE UNCHANGED vars
  BY <1>36 DEF vars, lockVars, stepVars, serviceVars, historyVars
<1>. QED
  BY <1>1, <1>2, <1>3, <1>4, <1>5, <1>6, <1>7, <1>8, <1>9, <1>10, <1>11, <1>12,
     <1>13, <1>14, <1>15, <1>16, <1>17, <1>18, <1>19, <1>20, <1>21, <1>22,
     <1>23, <1>24, <1>25, <1>26, <1>27, <1>28, <1>29, <1>30, <1>31, <1>32,
     <1>33, <1>34, <1>35, <1>36 DEF Next, Progress, Mishap

\* On Kubernetes a migration is created and stopped with its Job.
LEMMA JobsStep == TypeOK /\ Phased /\ Jobs /\ [Next]_vars => Jobs'
<1>. SUFFICES ASSUME TypeOK, Phased, Jobs, [Next]_vars PROVE Jobs'
  OBVIOUS
<1>. USE OrchestratorAssumption, LockAssumption DEF TypeOK, Lock!TypeOK,
     Phased, Jobs, Working, Follows
<1>1. ASSUME NEW r \in Runs, Reject(r) PROVE Jobs'
  BY <1>1 DEF Reject, Goto, lockVars, stepVars, serviceVars, historyVars
<1>2. ASSUME NEW r \in Runs, Acquire(r) PROVE Jobs'
  BY <1>2 DEF Acquire, Lock!Acquire, Goto, stepVars, serviceVars, historyVars
<1>3. ASSUME NEW r \in Runs, AcquireFails(r) PROVE Jobs'
  BY <1>3 DEF AcquireFails, Lock!AcquireLocked, Lock!AcquireFailed, Goto,
     stepVars, serviceVars, historyVars
<1>4. ASSUME NEW r \in Runs, Skip(r) PROVE Jobs'
  BY <1>4 DEF Skip, Follows, Goto, lockVars, stepVars, serviceVars, historyVars
<1>5. ASSUME NEW r \in Runs, Abort(r) PROVE Jobs'
  BY <1>5 DEF Abort, Unwind, Lock!KillPlugin, Goto, lockVars, stepVars,
     serviceVars, historyVars
<1>6. ASSUME NEW r \in Runs, Preview(r) PROVE Jobs'
  BY <1>6 DEF Preview, Enter, Goto, lockVars, stepVars, serviceVars,
     historyVars
<1>7. ASSUME NEW r \in Runs, CreateInitial(r) PROVE Jobs'
  BY <1>7 DEF CreateInitial, Enter, lockVars, stepVars, historyVars
<1>8. ASSUME NEW r \in Runs, RegisterCandidate(r) PROVE Jobs'
  BY <1>8 DEF RegisterCandidate, Enter, CandidateRuns, Goto, lockVars,
     serviceVars, historyVars
<1>9. ASSUME NEW r \in Runs, RegisterLost(r) PROVE Jobs'
  BY <1>9 DEF RegisterLost, Unwind, Lock!KillPlugin, Goto, CandidateRuns,
     lockVars, stepVars, serviceVars
<1>10. ASSUME NEW r \in Runs, StartMigration(r) PROVE Jobs'
  BY <1>10 DEF StartMigration, Enter, CandidateRuns, Goto, lockVars, stepVars,
     serviceVars, historyVars
<1>11. ASSUME NEW r \in Runs, StartFails(r) PROVE Jobs'
  BY <1>11 DEF StartFails, Goto, lockVars, serviceVars
<1>12. ASSUME NEW r \in Runs, WaitEnds(r) PROVE Jobs'
  BY <1>12 DEF WaitEnds, Goto, lockVars, serviceVars, historyVars
<1>13. ASSUME NEW r \in Runs, WaitTimesOut(r) PROVE Jobs'
  BY <1>13 DEF WaitTimesOut, Goto, lockVars, serviceVars
<1>14. ASSUME NEW r \in Runs, WaitAborts(r) PROVE Jobs'
  BY <1>14 DEF WaitAborts, Goto, lockVars, serviceVars, historyVars
<1>15. ASSUME NEW r \in Runs, Tidy(r) PROVE Jobs'
  BY <1>15 DEF Tidy, Removed, CandidateRuns, Goto, lockVars, serviceVars,
     historyVars
<1>16. ASSUME NEW r \in Runs, TidyFails(r) PROVE Jobs'
  BY <1>16 DEF TidyFails, PerhapsRemoved, Removed, CandidateRuns, Goto,
     lockVars, stepVars, serviceVars, historyVars
<1>17. ASSUME NEW r \in Runs, MigrateKilled(r) PROVE Jobs'
  BY <1>17 DEF MigrateKilled, Lock!KillPlugin, PerhapsRemoved, Removed,
     CandidateRuns, Goto, stepVars, serviceVars, historyVars
<1>18. ASSUME NEW r \in Runs, UpdateServices(r) PROVE Jobs'
  BY <1>18 DEF UpdateServices, Enter, Goto, lockVars, stepVars, historyVars
<1>19. ASSUME NEW r \in Runs, UpdateFails(r) PROVE Jobs'
  BY <1>19 DEF UpdateFails, Unwind, Lock!KillPlugin, Goto, lockVars, stepVars,
     historyVars
<1>20. ASSUME NEW r \in Runs, Stabilize(r) PROVE Jobs'
  BY <1>20 DEF Stabilize, Enter, Goto, lockVars, stepVars, serviceVars,
     historyVars
<1>21. ASSUME NEW r \in Runs, Health(r) PROVE Jobs'
  BY <1>21 DEF Health, Enter, Intended, Goto, lockVars, stepVars, serviceVars,
     historyVars
<1>22. ASSUME NEW r \in Runs, Record(r) PROVE Jobs'
  BY <1>22 DEF Record, Enter, Goto, lockVars, stepVars, serviceVars
<1>23. ASSUME NEW r \in Runs, DestroyStack(r) PROVE Jobs'
  BY <1>23 DEF DestroyStack, Goto, lockVars, stepVars, historyVars
<1>24. ASSUME NEW r \in Runs, DestroyFails(r) PROVE Jobs'
  BY <1>24 DEF DestroyFails, Unwind, Lock!KillPlugin, Goto, lockVars, stepVars,
     historyVars
<1>25. ASSUME NEW r \in Runs, CleanupCandidate(r) PROVE Jobs'
  BY <1>25 DEF CleanupCandidate, Removed, CandidateRuns, Goto, lockVars,
     serviceVars, historyVars
<1>26. ASSUME NEW r \in Runs, CleanupFails(r) PROVE Jobs'
  BY <1>26 DEF CleanupFails, PerhapsRemoved, Removed, CandidateRuns, Goto,
     lockVars, stepVars, serviceVars
<1>27. ASSUME NEW r \in Runs, BeginRelease(r) PROVE Jobs'
  BY <1>27 DEF BeginRelease, ReadyToRelease, Lock!BeginRelease, Goto, stepVars,
     serviceVars, historyVars
<1>28. ASSUME NEW r \in Runs, ReleaseStep(r) PROVE Jobs'
  BY <1>28 DEF ReleaseStep, Lock!ReleaseInspect, Lock!ReleaseDelete,
     Lock!ReleaseFails, Lock!ReleaseCancelled, stepVars, serviceVars,
     historyVars
<1>29. ASSUME NEW r \in Runs, Cancel(r) PROVE Jobs'
  BY <1>29 DEF Cancel, Lock!Cancel, stepVars, serviceVars, historyVars
<1>30. ASSUME NEW r \in Runs, Crash(r) PROVE Jobs'
  BY <1>30 DEF Crash, Lock!Crash, Lock!Active, Goto, stepVars, serviceVars,
     historyVars
<1>31. ASSUME NEW r \in Runs, MigrationEnds(r) PROVE Jobs'
  BY <1>31 DEF MigrationEnds, lockVars, stepVars, serviceVars
<1>32. ASSUME NEW o \in Operators, UnlockInspect(o) PROVE Jobs'
  BY <1>32 DEF UnlockInspect, BesideTheRuns, Lock!UnlockInspect, stepVars,
     serviceVars, historyVars
<1>33. ASSUME NEW o \in Operators, UnlockDelete(o) PROVE Jobs'
  BY <1>33 DEF UnlockDelete, BesideTheRuns, Lock!UnlockDelete, stepVars,
     serviceVars, historyVars
<1>34. ASSUME NEW o \in Operators, UnlockFails(o) PROVE Jobs'
  BY <1>34 DEF UnlockFails, BesideTheRuns, Lock!UnlockFails, stepVars,
     serviceVars, historyVars
<1>35. CASE RolloutEnds
  BY <1>35 DEF RolloutEnds, lockVars, stepVars, historyVars
<1>36. CASE UNCHANGED vars
  BY <1>36 DEF vars, lockVars, stepVars, serviceVars, historyVars
<1>. QED
  BY <1>1, <1>2, <1>3, <1>4, <1>5, <1>6, <1>7, <1>8, <1>9, <1>10, <1>11, <1>12,
     <1>13, <1>14, <1>15, <1>16, <1>17, <1>18, <1>19, <1>20, <1>21, <1>22,
     <1>23, <1>24, <1>25, <1>26, <1>27, <1>28, <1>29, <1>30, <1>31, <1>32,
     <1>33, <1>34, <1>35, <1>36 DEF Next, Progress, Mishap

\* The services are updated after the wait has seen the migration succeed, or
\* where a hook took it out (orchestrator.go: the order of the phases).
LEMMA OrderedStep == TypeOK /\ Ordered /\ [Next]_vars => Ordered'
<1>. SUFFICES ASSUME TypeOK, Ordered, [Next]_vars PROVE Ordered'
  OBVIOUS
<1>. USE OrchestratorAssumption, LockAssumption DEF TypeOK, Lock!TypeOK,
     Ordered, Fit, Images, Follows
<1>1. ASSUME NEW r \in Runs, Reject(r) PROVE Ordered'
  BY <1>1 DEF Reject, Goto, lockVars, stepVars, serviceVars, historyVars
<1>2. ASSUME NEW r \in Runs, Acquire(r) PROVE Ordered'
  BY <1>2 DEF Acquire, Lock!Acquire, Goto, stepVars, serviceVars, historyVars
<1>3. ASSUME NEW r \in Runs, AcquireFails(r) PROVE Ordered'
  BY <1>3 DEF AcquireFails, Lock!AcquireLocked, Lock!AcquireFailed, Goto,
     stepVars, serviceVars, historyVars
<1>4. ASSUME NEW r \in Runs, Skip(r) PROVE Ordered'
  BY <1>4 DEF Skip, Follows, Goto, lockVars, stepVars, serviceVars, historyVars
<1>5. ASSUME NEW r \in Runs, Abort(r) PROVE Ordered'
  BY <1>5 DEF Abort, Unwind, Lock!KillPlugin, Goto, lockVars, stepVars,
     serviceVars, historyVars
<1>6. ASSUME NEW r \in Runs, Preview(r) PROVE Ordered'
  BY <1>6 DEF Preview, Enter, Goto, lockVars, stepVars, serviceVars,
     historyVars
<1>7. ASSUME NEW r \in Runs, CreateInitial(r) PROVE Ordered'
  BY <1>7 DEF CreateInitial, Enter, lockVars, stepVars, historyVars
<1>8. ASSUME NEW r \in Runs, RegisterCandidate(r) PROVE Ordered'
  BY <1>8 DEF RegisterCandidate, Enter, CandidateRuns, Goto, lockVars,
     serviceVars, historyVars
<1>9. ASSUME NEW r \in Runs, RegisterLost(r) PROVE Ordered'
  BY <1>9 DEF RegisterLost, Unwind, Lock!KillPlugin, Goto, CandidateRuns,
     lockVars, stepVars, serviceVars
<1>10. ASSUME NEW r \in Runs, StartMigration(r) PROVE Ordered'
  BY <1>10 DEF StartMigration, Enter, CandidateRuns, Goto, lockVars, stepVars,
     serviceVars, historyVars
<1>11. ASSUME NEW r \in Runs, StartFails(r) PROVE Ordered'
  BY <1>11 DEF StartFails, Goto, lockVars, serviceVars
<1>12. ASSUME NEW r \in Runs, WaitEnds(r) PROVE Ordered'
  BY <1>12 DEF WaitEnds, Goto, lockVars, serviceVars, historyVars
<1>13. ASSUME NEW r \in Runs, WaitTimesOut(r) PROVE Ordered'
  BY <1>13 DEF WaitTimesOut, Goto, lockVars, serviceVars
<1>14. ASSUME NEW r \in Runs, WaitAborts(r) PROVE Ordered'
  BY <1>14 DEF WaitAborts, Goto, lockVars, serviceVars, historyVars
<1>15. ASSUME NEW r \in Runs, Tidy(r) PROVE Ordered'
  BY <1>15 DEF Tidy, Removed, CandidateRuns, Goto, lockVars, serviceVars,
     historyVars
<1>16. ASSUME NEW r \in Runs, TidyFails(r) PROVE Ordered'
  BY <1>16 DEF TidyFails, PerhapsRemoved, Removed, CandidateRuns, Goto,
     lockVars, stepVars, serviceVars, historyVars
<1>17. ASSUME NEW r \in Runs, MigrateKilled(r) PROVE Ordered'
  BY <1>17 DEF MigrateKilled, Lock!KillPlugin, PerhapsRemoved, Removed,
     CandidateRuns, Goto, stepVars, serviceVars, historyVars
<1>18. ASSUME NEW r \in Runs, UpdateServices(r) PROVE Ordered'
  BY <1>18 DEF UpdateServices, Enter, Goto, lockVars, stepVars, historyVars
<1>19. ASSUME NEW r \in Runs, UpdateFails(r) PROVE Ordered'
  BY <1>19 DEF UpdateFails, Unwind, Lock!KillPlugin, Goto, lockVars, stepVars,
     historyVars
<1>20. ASSUME NEW r \in Runs, Stabilize(r) PROVE Ordered'
  BY <1>20 DEF Stabilize, Enter, Goto, lockVars, stepVars, serviceVars,
     historyVars
<1>21. ASSUME NEW r \in Runs, Health(r) PROVE Ordered'
  <2>1. /\ UNCHANGED <<task, runErr, migrated, skip, desired, served, creator>>
        /\ phase' = [phase EXCEPT ![r] = "record"]
    BY <1>21 DEF Health, Goto, stepVars, serviceVars, historyVars
  <2>. QED
    BY <2>1
<1>22. ASSUME NEW r \in Runs, Record(r) PROVE Ordered'
  BY <1>22 DEF Record, Enter, Goto, lockVars, stepVars, serviceVars
<1>23. ASSUME NEW r \in Runs, DestroyStack(r) PROVE Ordered'
  BY <1>23 DEF DestroyStack, Goto, lockVars, stepVars, historyVars
<1>24. ASSUME NEW r \in Runs, DestroyFails(r) PROVE Ordered'
  BY <1>24 DEF DestroyFails, Unwind, Lock!KillPlugin, Goto, lockVars, stepVars,
     historyVars
<1>25. ASSUME NEW r \in Runs, CleanupCandidate(r) PROVE Ordered'
  BY <1>25 DEF CleanupCandidate, Removed, CandidateRuns, Goto, lockVars,
     serviceVars, historyVars
<1>26. ASSUME NEW r \in Runs, CleanupFails(r) PROVE Ordered'
  BY <1>26 DEF CleanupFails, PerhapsRemoved, Removed, CandidateRuns, Goto,
     lockVars, stepVars, serviceVars
<1>27. ASSUME NEW r \in Runs, BeginRelease(r) PROVE Ordered'
  BY <1>27 DEF BeginRelease, ReadyToRelease, Lock!BeginRelease, Goto, stepVars,
     serviceVars, historyVars
<1>28. ASSUME NEW r \in Runs, ReleaseStep(r) PROVE Ordered'
  BY <1>28 DEF ReleaseStep, Lock!ReleaseInspect, Lock!ReleaseDelete,
     Lock!ReleaseFails, Lock!ReleaseCancelled, stepVars, serviceVars,
     historyVars
<1>29. ASSUME NEW r \in Runs, Cancel(r) PROVE Ordered'
  BY <1>29 DEF Cancel, Lock!Cancel, stepVars, serviceVars, historyVars
<1>30. ASSUME NEW r \in Runs, Crash(r) PROVE Ordered'
  BY <1>30 DEF Crash, Lock!Crash, Lock!Active, Goto, stepVars, serviceVars,
     historyVars
<1>31. ASSUME NEW r \in Runs, MigrationEnds(r) PROVE Ordered'
  BY <1>31 DEF MigrationEnds, lockVars, stepVars, serviceVars
<1>32. ASSUME NEW o \in Operators, UnlockInspect(o) PROVE Ordered'
  BY <1>32 DEF UnlockInspect, BesideTheRuns, Lock!UnlockInspect, stepVars,
     serviceVars, historyVars
<1>33. ASSUME NEW o \in Operators, UnlockDelete(o) PROVE Ordered'
  BY <1>33 DEF UnlockDelete, BesideTheRuns, Lock!UnlockDelete, stepVars,
     serviceVars, historyVars
<1>34. ASSUME NEW o \in Operators, UnlockFails(o) PROVE Ordered'
  BY <1>34 DEF UnlockFails, BesideTheRuns, Lock!UnlockFails, stepVars,
     serviceVars, historyVars
<1>35. CASE RolloutEnds
  BY <1>35 DEF RolloutEnds, lockVars, stepVars, historyVars
<1>36. CASE UNCHANGED vars
  BY <1>36 DEF vars, lockVars, stepVars, serviceVars, historyVars
<1>. QED
  BY <1>1, <1>2, <1>3, <1>4, <1>5, <1>6, <1>7, <1>8, <1>9, <1>10, <1>11, <1>12,
     <1>13, <1>14, <1>15, <1>16, <1>17, <1>18, <1>19, <1>20, <1>21, <1>22,
     <1>23, <1>24, <1>25, <1>26, <1>27, <1>28, <1>29, <1>30, <1>31, <1>32,
     <1>33, <1>34, <1>35, <1>36 DEF Next, Progress, Mishap

-----------------------------------------------------------------------------
(***************************************************************************)
(* The services.                                                           *)
(***************************************************************************)
\* From the health check to the record the services are changed by nobody else:
\* whoever changes them works under the lock (orchestrator.go: Run).
LEMMA StableStep ==
    TypeOK /\ LockFacts /\ Phased /\ Stable /\ [Next]_vars => Stable'
<1>. SUFFICES ASSUME TypeOK, LockFacts, Phased, Stable, [Next]_vars
              PROVE  Stable'
  OBVIOUS
<1>. USE OrchestratorAssumption, LockAssumption DEF TypeOK, Lock!TypeOK,
     Stable, Working, Follows
<1>1. ASSUME NEW r \in Runs, Reject(r) PROVE Stable'
  BY <1>1 DEF Reject, Goto, lockVars, stepVars, serviceVars, historyVars
<1>2. ASSUME NEW r \in Runs, Acquire(r) PROVE Stable'
  BY <1>2 DEF Acquire, Lock!Acquire, Goto, stepVars, serviceVars, historyVars
<1>3. ASSUME NEW r \in Runs, AcquireFails(r) PROVE Stable'
  BY <1>3 DEF AcquireFails, Lock!AcquireLocked, Lock!AcquireFailed, Goto,
     stepVars, serviceVars, historyVars
<1>4. ASSUME NEW r \in Runs, Skip(r) PROVE Stable'
  BY <1>4 DEF Skip, Follows, Goto, lockVars, stepVars, serviceVars, historyVars
<1>5. ASSUME NEW r \in Runs, Abort(r) PROVE Stable'
  BY <1>5 DEF Abort, Unwind, Lock!KillPlugin, Goto, lockVars, stepVars,
     serviceVars, historyVars
<1>6. ASSUME NEW r \in Runs, Preview(r) PROVE Stable'
  BY <1>6 DEF Preview, Enter, Goto, lockVars, stepVars, serviceVars,
     historyVars
<1>7. ASSUME NEW r \in Runs, CreateInitial(r) PROVE Stable'
  <2>1. \A q \in Runs : evicted' = {} /\ phase'[q] = "record" =>
                            evicted = {} /\ q = r
    BY <1>7, Alone DEF CreateInitial, Enter, lockVars
  <2>2. phase'[r] # "record"
    BY <1>7 DEF CreateInitial, Enter
  <2>. QED
    BY <2>1, <2>2
<1>8. ASSUME NEW r \in Runs, RegisterCandidate(r) PROVE Stable'
  BY <1>8 DEF RegisterCandidate, Enter, CandidateRuns, Goto, lockVars,
     serviceVars, historyVars
<1>9. ASSUME NEW r \in Runs, RegisterLost(r) PROVE Stable'
  BY <1>9 DEF RegisterLost, Unwind, Lock!KillPlugin, Goto, CandidateRuns,
     lockVars, stepVars, serviceVars
<1>10. ASSUME NEW r \in Runs, StartMigration(r) PROVE Stable'
  BY <1>10 DEF StartMigration, Enter, CandidateRuns, Goto, lockVars, stepVars,
     serviceVars, historyVars
<1>11. ASSUME NEW r \in Runs, StartFails(r) PROVE Stable'
  BY <1>11 DEF StartFails, Goto, lockVars, serviceVars
<1>12. ASSUME NEW r \in Runs, WaitEnds(r) PROVE Stable'
  BY <1>12 DEF WaitEnds, Goto, lockVars, serviceVars, historyVars
<1>13. ASSUME NEW r \in Runs, WaitTimesOut(r) PROVE Stable'
  BY <1>13 DEF WaitTimesOut, Goto, lockVars, serviceVars
<1>14. ASSUME NEW r \in Runs, WaitAborts(r) PROVE Stable'
  BY <1>14 DEF WaitAborts, Goto, lockVars, serviceVars, historyVars
<1>15. ASSUME NEW r \in Runs, Tidy(r) PROVE Stable'
  BY <1>15 DEF Tidy, Removed, CandidateRuns, Goto, lockVars, serviceVars,
     historyVars
<1>16. ASSUME NEW r \in Runs, TidyFails(r) PROVE Stable'
  BY <1>16 DEF TidyFails, PerhapsRemoved, Removed, CandidateRuns, Goto,
     lockVars, stepVars, serviceVars, historyVars
<1>17. ASSUME NEW r \in Runs, MigrateKilled(r) PROVE Stable'
  BY <1>17 DEF MigrateKilled, Lock!KillPlugin, PerhapsRemoved, Removed,
     CandidateRuns, Goto, stepVars, serviceVars, historyVars
<1>18. ASSUME NEW r \in Runs, UpdateServices(r) PROVE Stable'
  <2>1. \A q \in Runs : evicted' = {} /\ phase'[q] = "record" =>
                            evicted = {} /\ q = r
    BY <1>18, Alone DEF UpdateServices, Enter, Goto, lockVars
  <2>2. phase'[r] # "record"
    BY <1>18 DEF UpdateServices, Enter, Goto
  <2>. QED
    BY <2>1, <2>2
<1>19. ASSUME NEW r \in Runs, UpdateFails(r) PROVE Stable'
  <2>1. \A q \in Runs : evicted' = {} /\ phase'[q] = "record" =>
                            evicted = {} /\ q = r
    BY <1>19, Alone DEF UpdateFails, Unwind, Goto, lockVars, Lock!KillPlugin
  <2>2. phase'[r] # "record"
    BY <1>19 DEF UpdateFails, Unwind, Goto
  <2>. QED
    BY <2>1, <2>2
<1>20. ASSUME NEW r \in Runs, Stabilize(r) PROVE Stable'
  BY <1>20 DEF Stabilize, Enter, Goto, lockVars, stepVars, serviceVars,
     historyVars
<1>21. ASSUME NEW r \in Runs, Health(r) PROVE Stable'
  BY <1>21 DEF Health, Enter, Intended, RolloutComplete, Goto, lockVars,
     stepVars, serviceVars, historyVars
<1>22. ASSUME NEW r \in Runs, Record(r) PROVE Stable'
  BY <1>22 DEF Record, Enter, Goto, lockVars, stepVars, serviceVars
<1>23. ASSUME NEW r \in Runs, DestroyStack(r) PROVE Stable'
  <2>1. \A q \in Runs : evicted' = {} /\ phase'[q] = "record" =>
                            evicted = {} /\ q = r
    BY <1>23, Alone DEF DestroyStack, Goto, lockVars
  <2>2. phase'[r] # "record"
    BY <1>23 DEF DestroyStack, Goto
  <2>. QED
    BY <2>1, <2>2
<1>24. ASSUME NEW r \in Runs, DestroyFails(r) PROVE Stable'
  <2>1. \A q \in Runs : evicted' = {} /\ phase'[q] = "record" =>
                            evicted = {} /\ q = r
    BY <1>24, Alone DEF DestroyFails, Unwind, Goto, lockVars, Lock!KillPlugin
  <2>2. phase'[r] # "record"
    BY <1>24 DEF DestroyFails, Unwind, Goto
  <2>. QED
    BY <2>1, <2>2
<1>25. ASSUME NEW r \in Runs, CleanupCandidate(r) PROVE Stable'
  BY <1>25 DEF CleanupCandidate, Removed, CandidateRuns, Goto, lockVars,
     serviceVars, historyVars
<1>26. ASSUME NEW r \in Runs, CleanupFails(r) PROVE Stable'
  BY <1>26 DEF CleanupFails, PerhapsRemoved, Removed, CandidateRuns, Goto,
     lockVars, stepVars, serviceVars
<1>27. ASSUME NEW r \in Runs, BeginRelease(r) PROVE Stable'
  BY <1>27 DEF BeginRelease, ReadyToRelease, Lock!BeginRelease, Goto, stepVars,
     serviceVars, historyVars
<1>28. ASSUME NEW r \in Runs, ReleaseStep(r) PROVE Stable'
  BY <1>28 DEF ReleaseStep, Lock!ReleaseInspect, Lock!ReleaseDelete,
     Lock!ReleaseFails, Lock!ReleaseCancelled, stepVars, serviceVars,
     historyVars
<1>29. ASSUME NEW r \in Runs, Cancel(r) PROVE Stable'
  BY <1>29 DEF Cancel, Lock!Cancel, stepVars, serviceVars, historyVars
<1>30. ASSUME NEW r \in Runs, Crash(r) PROVE Stable'
  BY <1>30 DEF Crash, Lock!Crash, Lock!Active, Goto, stepVars, serviceVars,
     historyVars
<1>31. ASSUME NEW r \in Runs, MigrationEnds(r) PROVE Stable'
  BY <1>31 DEF MigrationEnds, lockVars, stepVars, serviceVars
<1>32. ASSUME NEW o \in Operators, UnlockInspect(o) PROVE Stable'
  BY <1>32 DEF UnlockInspect, BesideTheRuns, Lock!UnlockInspect, stepVars,
     serviceVars, historyVars
<1>33. ASSUME NEW o \in Operators, UnlockDelete(o) PROVE Stable'
  BY <1>33 DEF UnlockDelete, BesideTheRuns, Lock!UnlockDelete, stepVars,
     serviceVars, historyVars, Lock!Matches, Lock!Wrote
<1>34. ASSUME NEW o \in Operators, UnlockFails(o) PROVE Stable'
  BY <1>34 DEF UnlockFails, BesideTheRuns, Lock!UnlockFails, stepVars,
     serviceVars, historyVars
<1>35. CASE RolloutEnds
  BY <1>35 DEF RolloutEnds, lockVars, stepVars, historyVars
<1>36. CASE UNCHANGED vars
  BY <1>36 DEF vars, lockVars, stepVars, serviceVars, historyVars
<1>. QED
  BY <1>1, <1>2, <1>3, <1>4, <1>5, <1>6, <1>7, <1>8, <1>9, <1>10, <1>11, <1>12,
     <1>13, <1>14, <1>15, <1>16, <1>17, <1>18, <1>19, <1>20, <1>21, <1>22,
     <1>23, <1>24, <1>25, <1>26, <1>27, <1>28, <1>29, <1>30, <1>31, <1>32,
     <1>33, <1>34, <1>35, <1>36 DEF Next, Progress, Mishap

-----------------------------------------------------------------------------
(***************************************************************************)
(* The theorems.                                                           *)
(***************************************************************************)
\* The initial states satisfy the invariant.
LEMMA InitHolds == Init => IInv
<1>. SUFFICES ASSUME Init PROVE IInv
  OBVIOUS
<1>. USE OrchestratorAssumption, LockAssumption DEF Init, Lock!Init
<1>1. Lock!TypeOK
  BY DEF Lock!TypeOK, Lock!PcValues
<1>2. TypeOK
  BY <1>1 DEF TypeOK, Phases, TaskValues, Images
<1>3. LockFacts
  BY <1>1 DEF LockFacts, Stamps, Holds, Checked, EcsDeployFreesLock,
              Lock!DeployFreesLock, Lock!Active
<1>4. Phased /\ Tracked /\ Jobs
  BY DEF Phased, Tracked, Jobs, Working, Follows
<1>5. Ordered /\ Stable
  BY DEF Ordered, Stable
<1>. QED
  BY <1>2, <1>3, <1>4, <1>5 DEF IInv

\* The inductive invariant of deployments.
THEOREM DeploymentInvariant == Spec => []IInv
<1>1. IInv /\ [Next]_vars => IInv'
  <2>1. ASSUME IInv, [Next]_vars PROVE TypeOK' /\ LockFacts' /\ Phased'
    BY <2>1, TypeStep, LockFactsStep, PhasedStep DEF IInv
  <2>2. ASSUME IInv, [Next]_vars PROVE Tracked' /\ Jobs' /\ Ordered' /\ Stable'
    BY <2>2, TrackedStep, JobsStep, OrderedStep, StableStep DEF IInv
  <2>. QED
    BY <2>1, <2>2 DEF IInv
<1>. QED
  BY InitHolds, <1>1, PTL DEF Spec

\* The variables of the deployments and of their lock keep their types.
THEOREM TypeCorrect == Spec => []TypeOK
<1>1. IInv => TypeOK
  BY DEF IInv
<1>. QED
  BY DeploymentInvariant, <1>1, PTL

\* Deployments use the lock as its protocol says: whatever is proved of
\* DeploymentLock holds of every deployment and destroy command.
THEOREM LockImplemented == Spec => Lock!Spec
<1>1. Init => Lock!Init
  BY DEF Init
<1>. QED
  BY <1>1, LockStep, PTL DEF Spec, Lock!Spec

\* When the release of the lock begins the candidate is gone, whichever phase
\* failed and also after a cancellation, unless a cloud call failed or the
\* provider process is gone (orchestrator.go: the deferred cleanup).
THEOREM CandidatesAreRemoved == Spec => []CandidateGoneBeforeRelease
<1>1. IInv => CandidateGoneBeforeRelease
  BY DEF IInv, Tracked, CandidateGoneBeforeRelease
<1>. QED
  BY DeploymentInvariant, <1>1, PTL

\* On Kubernetes a migration that nobody has told to stop runs only while the
\* run that started it holds the lock, unless that run crashed or a cloud call
\* failed on it (kube/steps.go: the Job is deleted in the cleanup).
THEOREM KubeMigrationsUnderLock == Spec => []KubeMigrationUnderLock
<1>1. ASSUME IInv, provider = "kube", NEW r \in Runs, task[r] = "running",
             pc[r] # "crashed", r \notin faulted
      PROVE  Lock!Active(r)
  <2>1. r \in candidates /\ pc[r] # "idle" /\ phase[r] # "end"
    BY <1>1 DEF IInv, Jobs
  <2>2. phase[r] \notin {"cleaned", "release"}
    BY <1>1, <2>1 DEF IInv, Tracked, ProviderReachable
  <2>3. phase[r] \in Working
    BY <1>1, <2>1, <2>2 DEF IInv, TypeOK, Phases, Working, Phased
  <2>. QED
    BY <1>1, <2>3 DEF IInv, Phased, Lock!Active
<1>2. IInv => KubeMigrationUnderLock
  BY <1>1 DEF KubeMigrationUnderLock, MigrationUnderLock
<1>. QED
  BY DeploymentInvariant, <1>2, PTL

\* On ECS a deploy whose release met no storage failure has freed the lock
\* when it ends, also after a cancellation (orchestrator.go: the release runs
\* under context.WithoutCancel).
THEOREM EcsDeploysFreeLock == Spec => []EcsDeployFreesLock
<1>1. IInv => EcsDeployFreesLock
  BY DEF IInv, LockFacts
<1>. QED
  BY DeploymentInvariant, <1>1, PTL

\* The services run the image of a run only after its migrations completed,
\* except on the stack it created and where a hook took the migrations out
\* (orchestrator.go: migrations before update).
THEOREM MigrationsComeFirst == Spec => []MigratedBeforeServed
<1>1. IInv => MigratedBeforeServed
  BY DEF IInv, Ordered, Fit, MigratedBeforeServed
<1>. QED
  BY DeploymentInvariant, <1>1, PTL

\* When a release is recorded its image is the one the services were last
\* updated to, and on ECS the one they run, as long as nobody's lock was
\* removed: the lock is held from the health check to the record
\* (orchestrator.go: Run).
THEOREM RecordsAreTrue == Spec => RecordedIsServed
<1>1. ASSUME IInv, [Next]_vars, NEW r \in recorded' \ recorded,
             skip[r] = {}, evicted = {}
      PROVE  desired = r /\ served # NoImage /\ (provider = "ecs" => served = r)
  <2>1. Record(r)
    <3>1. ASSUME NEW q \in Runs, Record(q) PROVE q = r
      BY <1>1, <3>1 DEF Record
    <3>2. \/ recorded' = recorded
          \/ \E q \in Runs : Record(q)
      <4>. USE DEF historyVars
      <4>1. ASSUME NEW q \in Runs, Progress(q)
            PROVE  recorded' = recorded \/ Record(q)
        BY <4>1 DEF Progress, Reject, Acquire, AcquireFails, Skip, Abort,
           Preview, CreateInitial, RegisterCandidate, StartMigration, WaitEnds,
           WaitTimesOut, Tidy, TidyFails, MigrateKilled, UpdateServices,
           Stabilize, Health, DestroyStack, CleanupCandidate, CleanupFails,
           BeginRelease, ReleaseStep
      <4>2. ASSUME NEW q \in Runs, Mishap(q) \/ MigrationEnds(q)
            PROVE  recorded' = recorded
        BY <4>2 DEF Mishap, RegisterLost, StartFails, WaitAborts, UpdateFails,
           DestroyFails, Cancel, Crash, MigrationEnds
      <4>3. ASSUME NEW o \in Operators,
                   UnlockInspect(o) \/ UnlockDelete(o) \/ UnlockFails(o)
            PROVE  recorded' = recorded
        BY <4>3 DEF UnlockInspect, UnlockDelete, UnlockFails, BesideTheRuns
      <4>4. CASE RolloutEnds \/ UNCHANGED vars
        BY <4>4 DEF RolloutEnds, vars
      <4>. QED
        BY <1>1, <4>1, <4>2, <4>3, <4>4 DEF Next
    <3>. QED
      BY <1>1, <3>1, <3>2
  <2>2. r \in Runs
    BY <1>1, TypeStep DEF IInv, TypeOK
  <2>. QED
    BY <1>1, <2>1, <2>2 DEF Record, Enter, IInv, Stable
<1>2. IInv /\ [Next]_vars =>
        [\A r \in recorded' \ recorded :
            skip[r] = {} /\ evicted = {} =>
                /\ desired = r
                /\ served # NoImage
                /\ provider = "ecs" => served = r]_vars
  BY <1>1
<1>. QED
  BY DeploymentInvariant, <1>2, PTL DEF RecordedIsServed, Spec
================================================================================
