----------------------- MODULE DeploymentLock_proofs -----------------------
(***************************************************************************)
(* Proofs about the deployment lock, for any number of runs and operators. *)
(*                                                                         *)
(* The argument: AcquiredAt stamps are unique, so the object in the bucket *)
(* identifies the run that wrote it (Stamps).  A run that believes it      *)
(* holds the lock and was not evicted finds its own object there (Holds),  *)
(* because the only deletes are conditional on an object that was          *)
(* inspected: by a releasing run, whose inspect accepted only its own      *)
(* object (Checked), or by an operator, which evicts the writer.           *)
(***************************************************************************)
EXTENDS DeploymentLock, TLAPS

\* Every release compares owners, or else nobody is ever evicted while active.
ReleaseSafe == "plugin" \notin Providers \/ StaleOnly

\* Stamps are unique, in the past, and an idle run has none; so it cannot have
\* been evicted.
Stamps ==
    /\ \A r \in Runs : pc[r] = "idle" => info[r] = NoLock /\ r \notin evicted
    /\ \A r \in Runs : Active(r) => info[r] # NoLock
    /\ \A r \in Runs : info[r] # NoLock => info[r].at \in 1 .. clock
    /\ \A r, s \in Runs :
          (info[r] # NoLock /\ info[s] # NoLock /\ info[r].at = info[s].at)
              => r = s

\* What was read from the bucket was written before.
Past ==
    /\ lock # NoLock => lock.at \in 1 .. clock
    /\ \A p \in Runs \cup Operators :
          seen[p] # NoLock => seen[p].at \in 1 .. clock

\* A holder that was not evicted finds its own object in the bucket.
Holds == \A r \in Runs : (Active(r) /\ r \notin evicted) => lock = info[r]

\* A run about to delete has accepted only its own object.
Checked == \A r \in Runs : pc[r] = "deleting" => seen[r] = info[r]

\* Where operators only clear stale locks, what an operator is about to
\* delete was written by a run that has ended.
Cleared ==
    StaleOnly =>
      /\ \A r \in Runs : Active(r) => r \notin evicted
      /\ \A o \in Operators : opc[o] = "deleting" =>
            /\ seen[o] # NoLock
            /\ \A r \in Runs : seen[o] = info[r] => ~Active(r)

IInv == TypeOK /\ Stamps /\ Past /\ Holds /\ Checked /\ Cleared
-----------------------------------------------------------------------------
(***************************************************************************)
(* Type correctness.                                                       *)
(***************************************************************************)

\* Every step of the lock protocol keeps the variables in their types.
LEMMA TypeStep == TypeOK /\ [Next]_vars => TypeOK'
<1>. SUFFICES ASSUME TypeOK, [Next]_vars PROVE TypeOK'
  OBVIOUS
<1>. USE ConstantsAssumption, NoLockAssumption DEF TypeOK, PcValues
<1>1. ASSUME NEW r \in Runs, Acquire(r) PROVE TypeOK'
  BY <1>1 DEF Acquire, Active, NewInfo, Info
<1>2. ASSUME NEW r \in Runs, AcquireLocked(r) PROVE TypeOK'
  BY <1>2 DEF AcquireLocked, Active
<1>3. ASSUME NEW r \in Runs, AcquireFailed(r) PROVE TypeOK'
  BY <1>3 DEF AcquireFailed, Active, NewInfo, Info
<1>4. ASSUME NEW r \in Runs, BeginRelease(r) PROVE TypeOK'
  BY <1>4 DEF BeginRelease, Active
<1>5. ASSUME NEW r \in Runs, ReleaseInspect(r) PROVE TypeOK'
  BY <1>5 DEF ReleaseInspect, Active
<1>6. ASSUME NEW r \in Runs, ReleaseDelete(r) PROVE TypeOK'
  BY <1>6 DEF ReleaseDelete, Active
<1>7. ASSUME NEW r \in Runs, ReleaseFails(r) PROVE TypeOK'
  BY <1>7 DEF ReleaseFails, Active
<1>8. ASSUME NEW r \in Runs, ReleaseCancelled(r) PROVE TypeOK'
  BY <1>8 DEF ReleaseCancelled, Active
<1>9. ASSUME NEW r \in Runs, Cancel(r) PROVE TypeOK'
  BY <1>9 DEF Cancel, Active
<1>10. ASSUME NEW r \in Runs, KillPlugin(r) PROVE TypeOK'
  BY <1>10 DEF KillPlugin, Active
<1>11. ASSUME NEW r \in Runs, Crash(r) PROVE TypeOK'
  BY <1>11 DEF Crash, Active
<1>12. ASSUME NEW o \in Operators, UnlockInspect(o) PROVE TypeOK'
  BY <1>12 DEF UnlockInspect, Active
<1>13. ASSUME NEW o \in Operators, UnlockDelete(o) PROVE TypeOK'
  BY <1>13 DEF UnlockDelete, Active, Wrote
<1>14. ASSUME NEW o \in Operators, UnlockFails(o) PROVE TypeOK'
  BY <1>14 DEF UnlockFails, Active
<1>15. CASE UNCHANGED vars
  BY <1>15 DEF vars, Active
<1>. QED
  BY <1>1, <1>2, <1>3, <1>4, <1>5, <1>6, <1>7, <1>8, <1>9, <1>10, <1>11, <1>12,
     <1>13, <1>14, <1>15 DEF Next, RunStep, OperatorStep

\* The variables have their types in every reachable state.
THEOREM TypeCorrect == Spec => []TypeOK
<1>1. Init => TypeOK
  BY ConstantsAssumption, NoLockAssumption DEF Init, TypeOK, PcValues
<1>. QED
  BY <1>1, TypeStep, PTL DEF Spec

-----------------------------------------------------------------------------
(***************************************************************************)
(* The inductive invariant, one conjunct at a time.                        *)
(***************************************************************************)

\* Acquire stamps the object with a time nobody has used (lock.go: AcquiredAt
\* comes from the manager's clock), and no other step writes an Info.
LEMMA StampsStep == TypeOK /\ Stamps /\ Past /\ [Next]_vars => Stamps'
<1>. SUFFICES ASSUME TypeOK, Stamps, Past, [Next]_vars PROVE Stamps'
  OBVIOUS
<1>. USE ConstantsAssumption, NoLockAssumption DEF TypeOK, PcValues, Stamps, Active
<1>1. ASSUME NEW r \in Runs, Acquire(r) PROVE Stamps'
  BY <1>1 DEF Acquire, NewInfo, Info
<1>2. ASSUME NEW r \in Runs, AcquireLocked(r) PROVE Stamps'
  BY <1>2 DEF AcquireLocked
<1>3. ASSUME NEW r \in Runs, AcquireFailed(r) PROVE Stamps'
  BY <1>3 DEF AcquireFailed, NewInfo, Info
<1>4. ASSUME NEW r \in Runs, BeginRelease(r) PROVE Stamps'
  BY <1>4 DEF BeginRelease
<1>5. ASSUME NEW r \in Runs, ReleaseInspect(r) PROVE Stamps'
  BY <1>5 DEF ReleaseInspect
<1>6. ASSUME NEW r \in Runs, ReleaseDelete(r) PROVE Stamps'
  BY <1>6 DEF ReleaseDelete
<1>7. ASSUME NEW r \in Runs, ReleaseFails(r) PROVE Stamps'
  BY <1>7 DEF ReleaseFails
<1>8. ASSUME NEW r \in Runs, ReleaseCancelled(r) PROVE Stamps'
  BY <1>8 DEF ReleaseCancelled
<1>9. ASSUME NEW r \in Runs, Cancel(r) PROVE Stamps'
  BY <1>9 DEF Cancel
<1>10. ASSUME NEW r \in Runs, KillPlugin(r) PROVE Stamps'
  BY <1>10 DEF KillPlugin
<1>11. ASSUME NEW r \in Runs, Crash(r) PROVE Stamps'
  BY <1>11 DEF Crash
<1>12. ASSUME NEW o \in Operators, UnlockInspect(o) PROVE Stamps'
  BY <1>12 DEF UnlockInspect
<1>13. ASSUME NEW o \in Operators, UnlockDelete(o) PROVE Stamps'
  BY <1>13 DEF UnlockDelete, Wrote
<1>14. ASSUME NEW o \in Operators, UnlockFails(o) PROVE Stamps'
  BY <1>14 DEF UnlockFails
<1>15. CASE UNCHANGED vars
  BY <1>15 DEF vars
<1>. QED
  BY <1>1, <1>2, <1>3, <1>4, <1>5, <1>6, <1>7, <1>8, <1>9, <1>10, <1>11, <1>12,
     <1>13, <1>14, <1>15 DEF Next, RunStep, OperatorStep

\* The bucket and every inspect hold objects written before.
LEMMA PastStep == TypeOK /\ Stamps /\ Past /\ [Next]_vars => Past'
<1>. SUFFICES ASSUME TypeOK, Stamps, Past, [Next]_vars PROVE Past'
  OBVIOUS
<1>. USE ConstantsAssumption, NoLockAssumption DEF TypeOK, PcValues, Past
<1>1. ASSUME NEW r \in Runs, Acquire(r) PROVE Past'
  BY <1>1 DEF Acquire, NewInfo, Info
<1>2. ASSUME NEW r \in Runs, AcquireLocked(r) PROVE Past'
  BY <1>2 DEF AcquireLocked
<1>3. ASSUME NEW r \in Runs, AcquireFailed(r) PROVE Past'
  BY <1>3 DEF AcquireFailed, NewInfo, Info
<1>4. ASSUME NEW r \in Runs, BeginRelease(r) PROVE Past'
  BY <1>4 DEF BeginRelease
<1>5. ASSUME NEW r \in Runs, ReleaseInspect(r) PROVE Past'
  BY <1>5 DEF ReleaseInspect
<1>6. ASSUME NEW r \in Runs, ReleaseDelete(r) PROVE Past'
  BY <1>6 DEF ReleaseDelete
<1>7. ASSUME NEW r \in Runs, ReleaseFails(r) PROVE Past'
  BY <1>7 DEF ReleaseFails
<1>8. ASSUME NEW r \in Runs, ReleaseCancelled(r) PROVE Past'
  BY <1>8 DEF ReleaseCancelled
<1>9. ASSUME NEW r \in Runs, Cancel(r) PROVE Past'
  BY <1>9 DEF Cancel
<1>10. ASSUME NEW r \in Runs, KillPlugin(r) PROVE Past'
  BY <1>10 DEF KillPlugin
<1>11. ASSUME NEW r \in Runs, Crash(r) PROVE Past'
  BY <1>11 DEF Crash
<1>12. ASSUME NEW o \in Operators, UnlockInspect(o) PROVE Past'
  BY <1>12 DEF UnlockInspect
<1>13. ASSUME NEW o \in Operators, UnlockDelete(o) PROVE Past'
  BY <1>13 DEF UnlockDelete
<1>14. ASSUME NEW o \in Operators, UnlockFails(o) PROVE Past'
  BY <1>14 DEF UnlockFails
<1>15. CASE UNCHANGED vars
  BY <1>15 DEF vars
<1>. QED
  BY <1>1, <1>2, <1>3, <1>4, <1>5, <1>6, <1>7, <1>8, <1>9, <1>10, <1>11, <1>12,
     <1>13, <1>14, <1>15 DEF Next, RunStep, OperatorStep

\* Only a holder's own release or an eviction removes its object.
LEMMA HoldsStep == IInv /\ [Next]_vars => Holds'
<1>. SUFFICES ASSUME IInv, [Next]_vars PROVE Holds'
  OBVIOUS
<1>. USE ConstantsAssumption, NoLockAssumption
     DEF IInv, TypeOK, PcValues, Stamps, Past, Holds, Checked, Active
<1>1. ASSUME NEW r \in Runs, Acquire(r) PROVE Holds'
  BY <1>1 DEF Acquire, NewInfo, Info
<1>2. ASSUME NEW r \in Runs, AcquireLocked(r) PROVE Holds'
  BY <1>2 DEF AcquireLocked
<1>3. ASSUME NEW r \in Runs, AcquireFailed(r) PROVE Holds'
  BY <1>3 DEF AcquireFailed, NewInfo, Info
<1>4. ASSUME NEW r \in Runs, BeginRelease(r) PROVE Holds'
  BY <1>4 DEF BeginRelease
<1>5. ASSUME NEW r \in Runs, ReleaseInspect(r) PROVE Holds'
  BY <1>5 DEF ReleaseInspect
<1>6. ASSUME NEW r \in Runs, ReleaseDelete(r) PROVE Holds'
  BY <1>6 DEF ReleaseDelete, Matches
<1>7. ASSUME NEW r \in Runs, ReleaseFails(r) PROVE Holds'
  BY <1>7 DEF ReleaseFails, Matches
<1>8. ASSUME NEW r \in Runs, ReleaseCancelled(r) PROVE Holds'
  BY <1>8 DEF ReleaseCancelled
<1>9. ASSUME NEW r \in Runs, Cancel(r) PROVE Holds'
  BY <1>9 DEF Cancel
<1>10. ASSUME NEW r \in Runs, KillPlugin(r) PROVE Holds'
  BY <1>10 DEF KillPlugin
<1>11. ASSUME NEW r \in Runs, Crash(r) PROVE Holds'
  BY <1>11 DEF Crash
<1>12. ASSUME NEW o \in Operators, UnlockInspect(o) PROVE Holds'
  BY <1>12 DEF UnlockInspect
<1>13. ASSUME NEW o \in Operators, UnlockDelete(o) PROVE Holds'
  BY <1>13 DEF UnlockDelete, Matches, Wrote
<1>14. ASSUME NEW o \in Operators, UnlockFails(o) PROVE Holds'
  BY <1>14 DEF UnlockFails
<1>15. CASE UNCHANGED vars
  BY <1>15 DEF vars
<1>. QED
  BY <1>1, <1>2, <1>3, <1>4, <1>5, <1>6, <1>7, <1>8, <1>9, <1>10, <1>11, <1>12,
     <1>13, <1>14, <1>15 DEF Next, RunStep, OperatorStep

\* The inspect of a release lets only the run's own object through: by the
\* owner comparison, or because nobody could have replaced it.
LEMMA CheckedStep == ASSUME ReleaseSafe PROVE IInv /\ [Next]_vars => Checked'
<1>. SUFFICES ASSUME IInv, [Next]_vars PROVE Checked'
  OBVIOUS
<1>. USE ConstantsAssumption, NoLockAssumption
     DEF IInv, TypeOK, PcValues, Stamps, Past, Checked, Active
<1>1. ASSUME NEW r \in Runs, Acquire(r) PROVE Checked'
  BY <1>1 DEF Acquire, NewInfo, Info
<1>2. ASSUME NEW r \in Runs, AcquireLocked(r) PROVE Checked'
  BY <1>2 DEF AcquireLocked
<1>3. ASSUME NEW r \in Runs, AcquireFailed(r) PROVE Checked'
  BY <1>3 DEF AcquireFailed, NewInfo, Info
<1>4. ASSUME NEW r \in Runs, BeginRelease(r) PROVE Checked'
  BY <1>4 DEF BeginRelease
<1>5. ASSUME NEW r \in Runs, ReleaseInspect(r) PROVE Checked'
  BY <1>5 DEF ReleaseInspect, OwnershipHolds, SameOwner, ReleaseSafe, Cleared, Holds, Info
<1>6. ASSUME NEW r \in Runs, ReleaseDelete(r) PROVE Checked'
  BY <1>6 DEF ReleaseDelete
<1>7. ASSUME NEW r \in Runs, ReleaseFails(r) PROVE Checked'
  BY <1>7 DEF ReleaseFails
<1>8. ASSUME NEW r \in Runs, ReleaseCancelled(r) PROVE Checked'
  BY <1>8 DEF ReleaseCancelled
<1>9. ASSUME NEW r \in Runs, Cancel(r) PROVE Checked'
  BY <1>9 DEF Cancel
<1>10. ASSUME NEW r \in Runs, KillPlugin(r) PROVE Checked'
  BY <1>10 DEF KillPlugin
<1>11. ASSUME NEW r \in Runs, Crash(r) PROVE Checked'
  BY <1>11 DEF Crash
<1>12. ASSUME NEW o \in Operators, UnlockInspect(o) PROVE Checked'
  BY <1>12 DEF UnlockInspect
<1>13. ASSUME NEW o \in Operators, UnlockDelete(o) PROVE Checked'
  BY <1>13 DEF UnlockDelete
<1>14. ASSUME NEW o \in Operators, UnlockFails(o) PROVE Checked'
  BY <1>14 DEF UnlockFails
<1>15. CASE UNCHANGED vars
  BY <1>15 DEF vars
<1>. QED
  BY <1>1, <1>2, <1>3, <1>4, <1>5, <1>6, <1>7, <1>8, <1>9, <1>10, <1>11, <1>12,
     <1>13, <1>14, <1>15 DEF Next, RunStep, OperatorStep

\* A stale lock stays stale: a run that ended never becomes active again, and
\* a new holder has a new stamp.
LEMMA ClearedStep == IInv /\ [Next]_vars => Cleared'
<1>. SUFFICES ASSUME IInv, [Next]_vars PROVE Cleared'
  OBVIOUS
<1>. USE ConstantsAssumption, NoLockAssumption
     DEF IInv, TypeOK, PcValues, Stamps, Past, Cleared, Active
<1>1. ASSUME NEW r \in Runs, Acquire(r) PROVE Cleared'
  BY <1>1 DEF Acquire, NewInfo, Info, Holds
<1>2. ASSUME NEW r \in Runs, AcquireLocked(r) PROVE Cleared'
  BY <1>2 DEF AcquireLocked
<1>3. ASSUME NEW r \in Runs, AcquireFailed(r) PROVE Cleared'
  BY <1>3 DEF AcquireFailed, NewInfo, Info
<1>4. ASSUME NEW r \in Runs, BeginRelease(r) PROVE Cleared'
  BY <1>4 DEF BeginRelease
<1>5. ASSUME NEW r \in Runs, ReleaseInspect(r) PROVE Cleared'
  BY <1>5 DEF ReleaseInspect
<1>6. ASSUME NEW r \in Runs, ReleaseDelete(r) PROVE Cleared'
  BY <1>6 DEF ReleaseDelete
<1>7. ASSUME NEW r \in Runs, ReleaseFails(r) PROVE Cleared'
  BY <1>7 DEF ReleaseFails
<1>8. ASSUME NEW r \in Runs, ReleaseCancelled(r) PROVE Cleared'
  BY <1>8 DEF ReleaseCancelled
<1>9. ASSUME NEW r \in Runs, Cancel(r) PROVE Cleared'
  BY <1>9 DEF Cancel
<1>10. ASSUME NEW r \in Runs, KillPlugin(r) PROVE Cleared'
  BY <1>10 DEF KillPlugin
<1>11. ASSUME NEW r \in Runs, Crash(r) PROVE Cleared'
  BY <1>11 DEF Crash
<1>12. ASSUME NEW o \in Operators, UnlockInspect(o) PROVE Cleared'
  BY <1>12 DEF UnlockInspect, Stale, Wrote
<1>13. ASSUME NEW o \in Operators, UnlockDelete(o) PROVE Cleared'
  BY <1>13 DEF UnlockDelete, Matches, Wrote
<1>14. ASSUME NEW o \in Operators, UnlockFails(o) PROVE Cleared'
  BY <1>14 DEF UnlockFails
<1>15. CASE UNCHANGED vars
  BY <1>15 DEF vars
<1>. QED
  BY <1>1, <1>2, <1>3, <1>4, <1>5, <1>6, <1>7, <1>8, <1>9, <1>10, <1>11, <1>12,
     <1>13, <1>14, <1>15 DEF Next, RunStep, OperatorStep

\* The invariant holds in every reachable state.
THEOREM LockInvariant == ASSUME ReleaseSafe PROVE Spec => []IInv
<1>1. Init => IInv
  BY ConstantsAssumption, NoLockAssumption
  DEF Init, IInv, TypeOK, PcValues, Stamps, Past, Holds, Checked, Cleared, Active
<1>2. IInv /\ [Next]_vars => IInv'
  BY TypeStep, StampsStep, PastStep, HoldsStep, CheckedStep, ClearedStep DEF IInv
<1>. QED
  BY <1>1, <1>2, PTL DEF Spec

-----------------------------------------------------------------------------
(***************************************************************************)
(* What the lock guarantees.                                               *)
(***************************************************************************)

\* Two runs that both believe they hold the lock, neither evicted, are the
\* same run: both find their own stamp on the one object (Acquire, Release).
THEOREM LockMutualExclusion == ASSUME ReleaseSafe PROVE Spec => []MutualExclusion
<1>1. IInv => MutualExclusion
  BY DEF IInv, Stamps, Holds, MutualExclusion
<1>. QED
  BY <1>1, LockInvariant, PTL

\* A lock object is removed only by its writer's release or by a state unlock,
\* which records the eviction (Handle.Release, Manager.Unlock).
THEOREM LockOnlyWriterRemoves == ASSUME ReleaseSafe PROVE Spec => OnlyWriterRemoves
<1> DEFINE Removal ==
      lock # NoLock /\ lock' # lock =>
          /\ lock' = NoLock
          /\ \A r \in Runs : lock = info[r] =>
                \/ pc[r] = "deleting" /\ pc'[r] = "done"
                \/ r \in evicted'
<1>1. IInv /\ [Next]_vars => [Removal]_vars
  <2>. SUFFICES ASSUME IInv, [Next]_vars PROVE Removal
    OBVIOUS
  <2>. USE DEF IInv, TypeOK, Stamps, Checked
  <2>1. ASSUME NEW r \in Runs, ReleaseDelete(r) \/ ReleaseFails(r) PROVE Removal
    BY <2>1 DEF ReleaseDelete, ReleaseFails, Matches
  <2>2. ASSUME NEW o \in Operators, UnlockDelete(o) PROVE Removal
    BY <2>2 DEF UnlockDelete, Matches, Wrote
  <2>3. ASSUME NEW r \in Runs,
               RunStep(r) \/ Cancel(r) \/ KillPlugin(r) \/ Crash(r),
               ~ReleaseDelete(r), ~ReleaseFails(r)
        PROVE  Removal
    BY <2>3 DEF RunStep, Acquire, AcquireLocked, AcquireFailed, BeginRelease,
                ReleaseInspect, ReleaseCancelled, Cancel, KillPlugin, Crash
  <2>4. ASSUME NEW o \in Operators, UnlockInspect(o) \/ UnlockFails(o) PROVE Removal
    BY <2>4 DEF UnlockInspect, UnlockFails
  <2>5. CASE UNCHANGED vars
    BY <2>5 DEF vars
  <2>. QED
    BY <2>1, <2>2, <2>3, <2>4, <2>5 DEF Next, OperatorStep
<1>. QED
  BY <1>1, LockInvariant, PTL DEF Spec, OnlyWriterRemoves

-----------------------------------------------------------------------------
(***************************************************************************)
(* Where operators only clear stale locks the lock implements LockLease.   *)
(***************************************************************************)

\* The refinement mapping of DeploymentLock!Lease, by name.
Inside == {r \in Runs : Active(r)}
Left == lock # NoLock /\ Stale
Used == {r \in Runs : pc[r] # "idle"}

\* An active run is alone and its object is the one in the bucket.
LEMMA ActiveAlone ==
  ASSUME StaleOnly, IInv, NEW r \in Runs, Active(r)
  PROVE  Inside = {r} /\ lock = info[r] /\ lock # NoLock
<1>1. \A s \in Runs : Active(s) => lock = info[s] /\ info[s] # NoLock
  BY DEF IInv, Holds, Cleared, Stamps
<1>2. \A s \in Runs : Active(s) => s = r
  BY <1>1 DEF IInv, Stamps
<1>. QED
  BY <1>1, <1>2 DEF Inside

\* Each step of the lock is a step of LockLease or changes nothing there.
LEMMA LeaseStep ==
  ASSUME StaleOnly, IInv, [Next]_vars PROVE [Lease!Next]_(Lease!vars)
<1> DEFINE Stutter == Inside' = Inside /\ (Left' <=> Left) /\ Used' = Used
<1>a. Stutter => UNCHANGED Lease!vars
  BY DEF Lease!vars, Inside, Left, Used
<1>. USE ConstantsAssumption, NoLockAssumption DEF IInv, TypeOK, PcValues
<1>1. ASSUME NEW r \in Runs, Acquire(r) PROVE Lease!Enter(r)
  <2>1. Inside = {} /\ lock = NoLock
    BY <1>1, ActiveAlone DEF Acquire, Inside
  <2>2. Inside' = {r} /\ Used' = Used \cup {r} /\ r \notin Used
    BY <1>1, <2>1 DEF Acquire, Inside, Used, Active
  <2>3. ~Left /\ ~Left'
    BY <1>1, <2>1 DEF Acquire, Left, Stale, Wrote, Active
  <2>. QED
    BY <2>1, <2>2, <2>3 DEF Lease!Enter, Lease!Open, Inside, Left, Used
<1>2. ASSUME NEW r \in Runs, AcquireLocked(r) PROVE Lease!GiveUp(r)
  <2>1. Inside' = Inside /\ Used' = Used \cup {r} /\ r \notin Used
    BY <1>2 DEF AcquireLocked, Inside, Used, Active
  <2>2. Left' <=> Left
    BY <1>2 DEF AcquireLocked, Left, Stale, Wrote, Active
  <2>. QED
    BY <2>1, <2>2 DEF Lease!GiveUp, Inside, Left, Used
<1>3. ASSUME NEW r \in Runs, AcquireFailed(r) PROVE Lease!GiveUp(r)
  <2>1. Inside' = Inside /\ Used' = Used \cup {r} /\ r \notin Used
    BY <1>3 DEF AcquireFailed, Inside, Used, Active
  <2>2. CASE UNCHANGED <<lock, info>>
    <3>1. Left' <=> Left
      BY <1>3, <2>2 DEF AcquireFailed, Left, Stale, Wrote, Active
    <3>. QED
      BY <2>1, <3>1 DEF Lease!GiveUp, Inside, Left, Used
  <2>3. CASE lock = NoLock /\ lock' = NewInfo(r)
             /\ info' = [info EXCEPT ![r] = NewInfo(r)]
    <3>1. Inside = {} /\ ~Left
      BY <2>3, ActiveAlone DEF Inside, Left
    <3>2. Left'
      BY <1>3, <2>3, <3>1
      DEF AcquireFailed, Left, Stale, Wrote, Active, Inside, NewInfo, Info
    <3>. QED
      BY <2>1, <3>1, <3>2 DEF Lease!GiveUp, Lease!Open, Inside, Left, Used
  <2>. QED
    BY <1>3, <2>2, <2>3 DEF AcquireFailed
<1>4. ASSUME NEW r \in Runs, Active(r), pc' = [pc EXCEPT ![r] = pc'[r]],
             pc'[r] \in {"done", "crashed"}
      PROVE  Lease!Leave(r)
  <2>1. Inside = {r} /\ Inside' = {} /\ Used' = Used
    BY <1>4, ActiveAlone DEF Inside, Used, Active
  <2>. QED
    BY <2>1 DEF Lease!Leave, Inside, Used, Left
<1>5. ASSUME NEW r \in Runs, Active(r), pc' = [pc EXCEPT ![r] = pc'[r]],
             pc'[r] \in {"releasing", "deleting"}, UNCHANGED <<lock, info>>
      PROVE  Stutter
  BY <1>5 DEF Inside, Left, Used, Active, Stale, Wrote
<1>6. ASSUME NEW r \in Runs, RunStep(r) \/ Crash(r),
             ~Acquire(r), ~AcquireLocked(r), ~AcquireFailed(r)
      PROVE  Lease!Leave(r) \/ Stutter
  <2>1. CASE BeginRelease(r)
    BY <1>5, <2>1 DEF BeginRelease, Active
  <2>2. CASE ReleaseInspect(r)
    BY <1>4, <1>5, <2>2 DEF ReleaseInspect, Active
  <2>3. CASE ReleaseDelete(r) \/ ReleaseFails(r) \/ ReleaseCancelled(r)
             \/ Crash(r)
    BY <1>4, <2>3 DEF ReleaseDelete, ReleaseFails, ReleaseCancelled, Crash, Active
  <2>. QED
    BY <1>6, <2>1, <2>2, <2>3 DEF RunStep
<1>7. ASSUME NEW o \in Operators, UnlockDelete(o) PROVE Lease!Clear \/ Stutter
  <2>1. Inside' = Inside /\ Used' = Used
    BY <1>7 DEF UnlockDelete, Inside, Used, Active
  <2>2. CASE Matches(o)
    <3>1. Left /\ ~Left'
      BY <1>7, <2>2 DEF UnlockDelete, Matches, Left, Stale, Wrote, Cleared
    <3>. QED
      BY <2>1, <3>1 DEF Lease!Clear, Inside, Left, Used
  <2>3. CASE ~Matches(o)
    BY <1>7, <2>1, <2>3 DEF UnlockDelete, Left, Stale, Wrote, Active
  <2>. QED
    BY <2>2, <2>3
<1>8. ASSUME UNCHANGED <<lock, info, pc>> PROVE Stutter
  BY <1>8 DEF Inside, Left, Used, Active, Stale, Wrote
<1>9. ASSUME NEW r \in Runs, Cancel(r) \/ KillPlugin(r) PROVE Stutter
  BY <1>8, <1>9 DEF Cancel, KillPlugin
<1>10. ASSUME NEW o \in Operators, UnlockInspect(o) \/ UnlockFails(o)
       PROVE  Stutter
  BY <1>8, <1>10 DEF UnlockInspect, UnlockFails
<1>11. CASE UNCHANGED vars
  BY <1>8, <1>11, <1>a DEF vars
<1>12. CASE Next
  <2>1. ASSUME NEW r \in Runs,
               RunStep(r) \/ Cancel(r) \/ KillPlugin(r) \/ Crash(r)
        PROVE  Lease!Next \/ Stutter
    BY <1>1, <1>2, <1>3, <1>6, <1>9, <2>1 DEF Lease!Next
  <2>2. ASSUME NEW o \in Operators, OperatorStep(o)
        PROVE  Lease!Next \/ Stutter
    BY <1>7, <1>10, <2>2 DEF Lease!Next, OperatorStep
  <2>. QED
    BY <1>12, <2>1, <2>2, <1>a DEF Next
<1>. QED
  BY <1>11, <1>12

\* A run enters only when nobody is inside and nothing is left behind, and a
\* lock that is left behind stays until it is cleared: the conditional puts and
\* deletes of lock.go implement LockLease on every provider.
THEOREM LeaseImplemented == ASSUME StaleOnly PROVE Spec => ImplementsLease
<1>1. Init => Lease!Init
  BY DEF Init, Lease!Init, Active
<1>2. IInv /\ [Next]_vars => [Lease!Next]_(Lease!vars)
  BY LeaseStep
<1>3. Spec => []IInv
  BY LockInvariant DEF ReleaseSafe
<1>. QED
  BY <1>1, <1>2, <1>3, PTL DEF Spec, ImplementsLease, Lease!Spec

=============================================================================
