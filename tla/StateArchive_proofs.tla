------------------------ MODULE StateArchive_proofs ------------------------
(***************************************************************************)
(* Proofs about backup and restore, for any state objects, contents and    *)
(* backup identities, with and without writers that ignore the lock.       *)
(*                                                                         *)
(* The argument: a backup works under an identity that had no manifest     *)
(* (Building), and unless somebody writes meanwhile the manifest under     *)
(* construction agrees with the state on every object that is no longer to *)
(* do; so the manifest that is put is the state (Sound).  A restore walks  *)
(* the same way back: what is not to do has the content of the manifest,   *)
(* and what the manifest does not list is gone or stale (Restoring).       *)
(***************************************************************************)
EXTENDS StateArchive, TLAPS

BackupOps == {"read", "copy", "check"}

\* A backup under way has no manifest yet, and what it has collected is the
\* state, except for the objects it has still to copy.
Building ==
    op \in BackupOps =>
        /\ manifest[id] = NoState
        /\ origin[id] # NoState =>
              /\ state = origin[id]
              /\ \A k \in Keys :
                    expected[k] = IF k \in todo THEN NoObject ELSE state[k]
              /\ op # "read" => body = state[key]

\* A manifest names the state its backup was taken of.
Sound ==
    \A i \in Ids :
        (manifest[i] \in Contents /\ origin[i] # NoState)
            => manifest[i] = origin[i]

\* A restore under way has brought back the objects that are not to do, and
\* any other object it found is stale; it follows the manifest it began with.
Restoring ==
    (op \in {"restore", "verify"} /\ before # NoState) =>
        /\ origin[id] # NoState => expected = origin[id]
        /\ \A k \in Keys \ todo :
              expected[k] # NoObject => state[k] = expected[k]
        /\ \A k \in Keys :
              (expected[k] = NoObject /\ state[k] # NoObject) => k \in stale
        /\ \A k \in todo : expected[k] # NoObject
        /\ \A k \in stale : expected[k] = NoObject
        /\ todo # {} => Listed(before) \subseteq Listed(state)
        /\ op = "verify" => key \in todo

\* A restore that reported success has ended, and a backup forgets what an
\* earlier restore found.
Phases ==
    /\ result = "restored" => op = "idle"
    /\ op \in BackupOps \cup {"mark"} => before = NoState

IInv ==
    /\ TypeOK /\ Building /\ Sound /\ Restoring /\ Phases
    /\ StaleLast /\ RestoredExactly
-----------------------------------------------------------------------------
(***************************************************************************)
(* Type correctness.                                                       *)
(***************************************************************************)

\* Two states of the bucket that agree on every object are the same.
LEMMA SameContents ==
    ASSUME NEW a \in Contents, NEW b \in Contents, \A k \in Keys : a[k] = b[k]
    PROVE  a = b
<1>1. a = [k \in Keys |-> a[k]] /\ b = [k \in Keys |-> b[k]]
  BY DEF Contents
<1>. QED
  BY <1>1, Zenon

\* Every request of a command, every unlocked write and every loss keeps the
\* variables in their types.
LEMMA TypeStep == TypeOK /\ [Next]_vars => TypeOK'
<1>. SUFFICES ASSUME TypeOK, [Next]_vars PROVE TypeOK'
  OBVIOUS
<1>. USE ArchiveAssumption, NoStateAssumption DEF TypeOK, Contents, Ops, Empty,
     Listed
<1>1. ASSUME NEW i \in Ids, BeginBackup(i) PROVE TypeOK'
  BY <1>1 DEF BeginBackup, Occupied, archiveVars
<1>2. ASSUME NEW i \in Ids, RefuseBackup(i) PROVE TypeOK'
  BY <1>2 DEF RefuseBackup, Fail, archiveVars, commandVars
<1>3. ASSUME NEW i \in Ids, BeginRestore(i) PROVE TypeOK'
  BY <1>3 DEF BeginRestore, Restorable, archiveVars
<1>4. ASSUME NEW i \in Ids, RefuseRestore(i) PROVE TypeOK'
  BY <1>4 DEF RefuseRestore, Fail, archiveVars, commandVars
<1>5. ASSUME NEW i \in Ids, Damage(i) PROVE TypeOK'
  <2>1. objects' \in [Ids -> Contents]
    <3>1. CASE objects' = objects
      BY <3>1
    <3>2. ASSUME NEW k \in Keys, NEW v \in {NoObject, Corrupt},
                 objects' = [objects EXCEPT ![i][k] = v]
          PROVE  objects' \in [Ids -> Contents]
      <4>1. [objects[i] EXCEPT ![k] = v] \in Contents
        OBVIOUS
      <4>. QED
        BY <3>2, <4>1
    <3>. QED
      BY <1>5, <3>1, <3>2 DEF Damage
  <2>2. manifest' \in [Ids -> Contents \cup {NoState, Corrupt}]
    BY <1>5 DEF Damage
  <2>3. marker' \in [Ids -> {"absent", "complete", "corrupt"}]
    BY <1>5 DEF Damage
  <2>. QED
    BY <1>5, <2>1, <2>2, <2>3 DEF Damage, commandVars
<1>6. ASSUME NEW k \in Keys, ReadObject(k) PROVE TypeOK'
  BY <1>6 DEF ReadObject, archiveVars
<1>7. ASSUME NEW k \in Keys, RestoreObject(k) PROVE TypeOK'
  BY <1>7 DEF RestoreObject, archiveVars
<1>8. ASSUME NEW k \in Keys, DeleteStale(k) PROVE TypeOK'
  BY <1>8 DEF DeleteStale, archiveVars
<1>9. CASE CopyObject
  BY <1>9 DEF CopyObject, commandVars
<1>10. CASE CheckCopy
  BY <1>10 DEF CheckCopy, archiveVars
<1>11. CASE PutManifest
  BY <1>11 DEF PutManifest, commandVars
<1>12. CASE PutMarker
  BY <1>12 DEF PutMarker, commandVars
<1>13. CASE VerifyRestored
  BY <1>13 DEF VerifyRestored, archiveVars
<1>14. CASE FinishRestore
  BY <1>14 DEF FinishRestore, archiveVars, commandVars
<1>15. CASE Abort
  BY <1>15 DEF Abort, Fail, archiveVars, commandVars
<1>16. ASSUME NEW k \in Keys, NEW v \in Values \cup {NoObject}, WriteObject(k, v)
     PROVE  TypeOK'
  BY <1>16 DEF WriteObject, archiveVars, commandVars
<1>17. CASE UNCHANGED vars
  BY <1>17 DEF vars, archiveVars, commandVars
<1>. QED
  BY <1>1, <1>2, <1>3, <1>4, <1>5, <1>6, <1>7, <1>8, <1>9, <1>10, <1>11, <1>12,
     <1>13, <1>14, <1>15, <1>16, <1>17 DEF Next

\* The variables have their types in every reachable state.
THEOREM TypeCorrect == Spec => []TypeOK
<1>1. Init => TypeOK
  BY ArchiveAssumption, NoStateAssumption
     DEF Init, TypeOK, Contents, Ops, Empty
<1>. QED
  BY <1>1, TypeStep, PTL DEF Spec

-----------------------------------------------------------------------------
(***************************************************************************)
(* The inductive invariant, one conjunct at a time.                        *)
(***************************************************************************)

\* Copies, checks and unlocked writes keep the collected manifest equal to the
\* state on what is not to do (Backup).
LEMMA BuildingStep == TypeOK /\ Building /\ [Next]_vars => Building'
<1>. SUFFICES ASSUME TypeOK, Building, [Next]_vars PROVE Building'
  OBVIOUS
<1>. USE ArchiveAssumption, NoStateAssumption DEF TypeOK, Contents, Empty,
     Listed, Building, BackupOps
<1>1. ASSUME NEW i \in Ids, BeginBackup(i) PROVE Building'
  BY <1>1 DEF BeginBackup, Occupied, archiveVars
<1>2. ASSUME NEW i \in Ids, RefuseBackup(i) PROVE Building'
  BY <1>2 DEF RefuseBackup, Fail, archiveVars, commandVars
<1>3. ASSUME NEW i \in Ids, BeginRestore(i) PROVE Building'
  BY <1>3 DEF BeginRestore, Restorable, archiveVars
<1>4. ASSUME NEW i \in Ids, RefuseRestore(i) PROVE Building'
  BY <1>4 DEF RefuseRestore, Fail, archiveVars, commandVars
<1>5. ASSUME NEW i \in Ids, Damage(i) PROVE Building'
  BY <1>5 DEF Damage, commandVars
<1>6. ASSUME NEW k \in Keys, ReadObject(k) PROVE Building'
  BY <1>6 DEF ReadObject, archiveVars
<1>7. ASSUME NEW k \in Keys, RestoreObject(k) PROVE Building'
  BY <1>7 DEF RestoreObject, archiveVars
<1>8. ASSUME NEW k \in Keys, DeleteStale(k) PROVE Building'
  BY <1>8 DEF DeleteStale, archiveVars
<1>9. CASE CopyObject
  BY <1>9 DEF CopyObject, commandVars
<1>10. CASE CheckCopy
  BY <1>10 DEF CheckCopy, archiveVars
<1>11. CASE PutManifest
  BY <1>11 DEF PutManifest, commandVars
<1>12. CASE PutMarker
  BY <1>12 DEF PutMarker, commandVars
<1>13. CASE VerifyRestored
  BY <1>13 DEF VerifyRestored, archiveVars
<1>14. CASE FinishRestore
  BY <1>14 DEF FinishRestore, archiveVars, commandVars
<1>15. CASE Abort
  BY <1>15 DEF Abort, Fail, archiveVars, commandVars
<1>16. ASSUME NEW k \in Keys, NEW v \in Values \cup {NoObject}, WriteObject(k, v)
     PROVE  Building'
  BY <1>16 DEF WriteObject, archiveVars, commandVars
<1>17. CASE UNCHANGED vars
  BY <1>17 DEF vars, archiveVars, commandVars
<1>. QED
  BY <1>1, <1>2, <1>3, <1>4, <1>5, <1>6, <1>7, <1>8, <1>9, <1>10, <1>11, <1>12,
     <1>13, <1>14, <1>15, <1>16, <1>17 DEF Next

\* A manifest is put once everything is copied (putManifest), under an identity
\* that had none.
LEMMA SoundStep == TypeOK /\ Building /\ Sound /\ [Next]_vars => Sound'
<1>. SUFFICES ASSUME TypeOK, Building, Sound, [Next]_vars PROVE Sound'
  OBVIOUS
<1>. USE ArchiveAssumption, NoStateAssumption DEF TypeOK, Contents, Empty,
     Listed, Building, BackupOps, Sound
<1>1. ASSUME NEW i \in Ids, BeginBackup(i) PROVE Sound'
  BY <1>1 DEF BeginBackup, Occupied, archiveVars
<1>2. ASSUME NEW i \in Ids, RefuseBackup(i) PROVE Sound'
  BY <1>2 DEF RefuseBackup, Fail, archiveVars, commandVars
<1>3. ASSUME NEW i \in Ids, BeginRestore(i) PROVE Sound'
  BY <1>3 DEF BeginRestore, Restorable, archiveVars
<1>4. ASSUME NEW i \in Ids, RefuseRestore(i) PROVE Sound'
  BY <1>4 DEF RefuseRestore, Fail, archiveVars, commandVars
<1>5. ASSUME NEW i \in Ids, Damage(i) PROVE Sound'
  BY <1>5 DEF Damage, commandVars
<1>6. ASSUME NEW k \in Keys, ReadObject(k) PROVE Sound'
  BY <1>6 DEF ReadObject, archiveVars
<1>7. ASSUME NEW k \in Keys, RestoreObject(k) PROVE Sound'
  BY <1>7 DEF RestoreObject, archiveVars
<1>8. ASSUME NEW k \in Keys, DeleteStale(k) PROVE Sound'
  BY <1>8 DEF DeleteStale, archiveVars
<1>9. CASE CopyObject
  BY <1>9 DEF CopyObject, commandVars
<1>10. CASE CheckCopy
  BY <1>10 DEF CheckCopy, archiveVars
<1>11. CASE PutManifest
  <2>1. ASSUME origin[id] # NoState PROVE expected = origin[id]
    <3>1. \A k \in Keys : expected[k] = state[k]
      BY <1>11, <2>1 DEF PutManifest
    <3>2. expected = state
      BY <3>1, SameContents
    <3>. QED
      BY <1>11, <2>1, <3>2 DEF PutManifest
  <2>2. manifest'[id] = expected /\ origin' = origin
    BY <1>11 DEF PutManifest
  <2>3. \A i \in Ids \ {id} : manifest'[i] = manifest[i]
    BY <1>11 DEF PutManifest
  <2>. QED
    BY <2>1, <2>2, <2>3
<1>12. CASE PutMarker
  BY <1>12 DEF PutMarker, commandVars
<1>13. CASE VerifyRestored
  BY <1>13 DEF VerifyRestored, archiveVars
<1>14. CASE FinishRestore
  BY <1>14 DEF FinishRestore, archiveVars, commandVars
<1>15. CASE Abort
  BY <1>15 DEF Abort, Fail, archiveVars, commandVars
<1>16. ASSUME NEW k \in Keys, NEW v \in Values \cup {NoObject}, WriteObject(k, v)
     PROVE  Sound'
  BY <1>16 DEF WriteObject, archiveVars, commandVars
<1>17. CASE UNCHANGED vars
  BY <1>17 DEF vars, archiveVars, commandVars
<1>. QED
  BY <1>1, <1>2, <1>3, <1>4, <1>5, <1>6, <1>7, <1>8, <1>9, <1>10, <1>11, <1>12,
     <1>13, <1>14, <1>15, <1>16, <1>17 DEF Next

\* A restored object is checked before the next is copied, and stale ones go
\* last (Restore).
LEMMA RestoringStep ==
    TypeOK /\ Sound /\ Restoring /\ [Next]_vars => Restoring'
<1>. SUFFICES ASSUME TypeOK, Sound, Restoring, [Next]_vars PROVE Restoring'
  OBVIOUS
<1>. USE ArchiveAssumption, NoStateAssumption DEF TypeOK, Contents, Empty,
     Listed, Sound, Restoring
<1>1. ASSUME NEW i \in Ids, BeginBackup(i) PROVE Restoring'
  BY <1>1 DEF BeginBackup, Occupied, archiveVars
<1>2. ASSUME NEW i \in Ids, RefuseBackup(i) PROVE Restoring'
  BY <1>2 DEF RefuseBackup, Fail, archiveVars, commandVars
<1>3. ASSUME NEW i \in Ids, BeginRestore(i) PROVE Restoring'
  BY <1>3 DEF BeginRestore, Restorable, archiveVars
<1>4. ASSUME NEW i \in Ids, RefuseRestore(i) PROVE Restoring'
  BY <1>4 DEF RefuseRestore, Fail, archiveVars, commandVars
<1>5. ASSUME NEW i \in Ids, Damage(i) PROVE Restoring'
  BY <1>5 DEF Damage, commandVars
<1>6. ASSUME NEW k \in Keys, ReadObject(k) PROVE Restoring'
  BY <1>6 DEF ReadObject, archiveVars
<1>7. ASSUME NEW k \in Keys, RestoreObject(k) PROVE Restoring'
  BY <1>7 DEF RestoreObject, archiveVars
<1>8. ASSUME NEW k \in Keys, DeleteStale(k) PROVE Restoring'
  BY <1>8 DEF DeleteStale, archiveVars
<1>9. CASE CopyObject
  BY <1>9 DEF CopyObject, commandVars
<1>10. CASE CheckCopy
  BY <1>10 DEF CheckCopy, archiveVars
<1>11. CASE PutManifest
  BY <1>11 DEF PutManifest, commandVars
<1>12. CASE PutMarker
  BY <1>12 DEF PutMarker, commandVars
<1>13. CASE VerifyRestored
  BY <1>13 DEF VerifyRestored, archiveVars
<1>14. CASE FinishRestore
  BY <1>14 DEF FinishRestore, archiveVars, commandVars
<1>15. CASE Abort
  BY <1>15 DEF Abort, Fail, archiveVars, commandVars
<1>16. ASSUME NEW k \in Keys, NEW v \in Values \cup {NoObject}, WriteObject(k, v)
     PROVE  Restoring'
  BY <1>16 DEF WriteObject, archiveVars, commandVars
<1>17. CASE UNCHANGED vars
  BY <1>17 DEF vars, archiveVars, commandVars
<1>. QED
  BY <1>1, <1>2, <1>3, <1>4, <1>5, <1>6, <1>7, <1>8, <1>9, <1>10, <1>11, <1>12,
     <1>13, <1>14, <1>15, <1>16, <1>17 DEF Next

\* Beginning a command clears the last outcome.
LEMMA PhasesStep == TypeOK /\ Phases /\ [Next]_vars => Phases'
<1>. SUFFICES ASSUME TypeOK, Phases, [Next]_vars PROVE Phases'
  OBVIOUS
<1>. USE ArchiveAssumption, NoStateAssumption DEF Phases, BackupOps
<1>1. ASSUME NEW i \in Ids, BeginBackup(i) PROVE Phases'
  BY <1>1 DEF BeginBackup, Occupied, archiveVars
<1>2. ASSUME NEW i \in Ids, RefuseBackup(i) PROVE Phases'
  BY <1>2 DEF RefuseBackup, Fail, archiveVars, commandVars
<1>3. ASSUME NEW i \in Ids, BeginRestore(i) PROVE Phases'
  BY <1>3 DEF BeginRestore, Restorable, archiveVars
<1>4. ASSUME NEW i \in Ids, RefuseRestore(i) PROVE Phases'
  BY <1>4 DEF RefuseRestore, Fail, archiveVars, commandVars
<1>5. ASSUME NEW i \in Ids, Damage(i) PROVE Phases'
  BY <1>5 DEF Damage, commandVars
<1>6. ASSUME NEW k \in Keys, ReadObject(k) PROVE Phases'
  BY <1>6 DEF ReadObject, archiveVars
<1>7. ASSUME NEW k \in Keys, RestoreObject(k) PROVE Phases'
  BY <1>7 DEF RestoreObject, archiveVars
<1>8. ASSUME NEW k \in Keys, DeleteStale(k) PROVE Phases'
  BY <1>8 DEF DeleteStale, archiveVars
<1>9. CASE CopyObject
  BY <1>9 DEF CopyObject, commandVars
<1>10. CASE CheckCopy
  BY <1>10 DEF CheckCopy, archiveVars
<1>11. CASE PutManifest
  BY <1>11 DEF PutManifest, commandVars
<1>12. CASE PutMarker
  BY <1>12 DEF PutMarker, commandVars
<1>13. CASE VerifyRestored
  BY <1>13 DEF VerifyRestored, archiveVars
<1>14. CASE FinishRestore
  BY <1>14 DEF FinishRestore, archiveVars, commandVars
<1>15. CASE Abort
  BY <1>15 DEF Abort, Fail, archiveVars, commandVars
<1>16. ASSUME NEW k \in Keys, NEW v \in Values \cup {NoObject}, WriteObject(k, v)
     PROVE  Phases'
  BY <1>16 DEF WriteObject, archiveVars, commandVars
<1>17. CASE UNCHANGED vars
  BY <1>17 DEF vars, archiveVars, commandVars
<1>. QED
  BY <1>1, <1>2, <1>3, <1>4, <1>5, <1>6, <1>7, <1>8, <1>9, <1>10, <1>11, <1>12,
     <1>13, <1>14, <1>15, <1>16, <1>17 DEF Next

\* Nothing is deleted before the whole snapshot is back, and a later command
\* that changes either forgets what the restore found.
LEMMA StaleLastStep ==
    TypeOK /\ Restoring /\ Phases /\ StaleLast /\ [Next]_vars => StaleLast'
<1>. SUFFICES ASSUME TypeOK, Restoring, Phases, StaleLast, [Next]_vars
              PROVE  StaleLast'
  OBVIOUS
<1>. USE ArchiveAssumption, NoStateAssumption DEF TypeOK, Contents, Empty,
     Listed, Restoring, Phases, StaleLast, BackupOps
<1>1. ASSUME NEW i \in Ids, BeginBackup(i) PROVE StaleLast'
  BY <1>1 DEF BeginBackup, Occupied, archiveVars
<1>2. ASSUME NEW i \in Ids, RefuseBackup(i) PROVE StaleLast'
  BY <1>2 DEF RefuseBackup, Fail, archiveVars, commandVars
<1>3. ASSUME NEW i \in Ids, BeginRestore(i) PROVE StaleLast'
  BY <1>3 DEF BeginRestore, Restorable, archiveVars
<1>4. ASSUME NEW i \in Ids, RefuseRestore(i) PROVE StaleLast'
  BY <1>4 DEF RefuseRestore, Fail, archiveVars, commandVars
<1>5. ASSUME NEW i \in Ids, Damage(i) PROVE StaleLast'
  BY <1>5 DEF Damage, commandVars
<1>6. ASSUME NEW k \in Keys, ReadObject(k) PROVE StaleLast'
  BY <1>6 DEF ReadObject, archiveVars
<1>7. ASSUME NEW k \in Keys, RestoreObject(k) PROVE StaleLast'
  BY <1>7 DEF RestoreObject, archiveVars
<1>8. ASSUME NEW k \in Keys, DeleteStale(k) PROVE StaleLast'
  BY <1>8 DEF DeleteStale, archiveVars
<1>9. CASE CopyObject
  BY <1>9 DEF CopyObject, commandVars
<1>10. CASE CheckCopy
  BY <1>10 DEF CheckCopy, archiveVars
<1>11. CASE PutManifest
  BY <1>11 DEF PutManifest, commandVars
<1>12. CASE PutMarker
  BY <1>12 DEF PutMarker, commandVars
<1>13. CASE VerifyRestored
  BY <1>13 DEF VerifyRestored, archiveVars
<1>14. CASE FinishRestore
  BY <1>14 DEF FinishRestore, archiveVars, commandVars
<1>15. CASE Abort
  BY <1>15 DEF Abort, Fail, archiveVars, commandVars
<1>16. ASSUME NEW k \in Keys, NEW v \in Values \cup {NoObject}, WriteObject(k, v)
     PROVE  StaleLast'
  BY <1>16 DEF WriteObject, archiveVars, commandVars
<1>17. CASE UNCHANGED vars
  BY <1>17 DEF vars, archiveVars, commandVars
<1>. QED
  BY <1>1, <1>2, <1>3, <1>4, <1>5, <1>6, <1>7, <1>8, <1>9, <1>10, <1>11, <1>12,
     <1>13, <1>14, <1>15, <1>16, <1>17 DEF Next

\* A restore reports success with nothing to do and nothing stale; whatever
\* changes the state or the backup afterwards clears that report.
LEMMA RestoredStep ==
    TypeOK /\ Restoring /\ Phases /\ RestoredExactly /\ [Next]_vars => RestoredExactly'
<1>. SUFFICES ASSUME TypeOK, Restoring, Phases, RestoredExactly, [Next]_vars
              PROVE  RestoredExactly'
  OBVIOUS
<1>. USE ArchiveAssumption, NoStateAssumption DEF TypeOK, Contents, Empty,
     Listed, Restoring, Phases, RestoredExactly, BackupOps
<1>1. ASSUME NEW i \in Ids, BeginBackup(i) PROVE RestoredExactly'
  BY <1>1 DEF BeginBackup, Occupied, archiveVars
<1>2. ASSUME NEW i \in Ids, RefuseBackup(i) PROVE RestoredExactly'
  BY <1>2 DEF RefuseBackup, Fail, archiveVars, commandVars
<1>3. ASSUME NEW i \in Ids, BeginRestore(i) PROVE RestoredExactly'
  BY <1>3 DEF BeginRestore, Restorable, archiveVars
<1>4. ASSUME NEW i \in Ids, RefuseRestore(i) PROVE RestoredExactly'
  BY <1>4 DEF RefuseRestore, Fail, archiveVars, commandVars
<1>5. ASSUME NEW i \in Ids, Damage(i) PROVE RestoredExactly'
  BY <1>5 DEF Damage, commandVars
<1>6. ASSUME NEW k \in Keys, ReadObject(k) PROVE RestoredExactly'
  BY <1>6 DEF ReadObject, archiveVars
<1>7. ASSUME NEW k \in Keys, RestoreObject(k) PROVE RestoredExactly'
  BY <1>7 DEF RestoreObject, archiveVars
<1>8. ASSUME NEW k \in Keys, DeleteStale(k) PROVE RestoredExactly'
  BY <1>8 DEF DeleteStale, archiveVars
<1>9. CASE CopyObject
  BY <1>9 DEF CopyObject, commandVars
<1>10. CASE CheckCopy
  BY <1>10 DEF CheckCopy, archiveVars
<1>11. CASE PutManifest
  BY <1>11 DEF PutManifest, commandVars
<1>12. CASE PutMarker
  BY <1>12 DEF PutMarker, commandVars
<1>13. CASE VerifyRestored
  BY <1>13 DEF VerifyRestored, archiveVars
<1>14. CASE FinishRestore
  <2>1. ASSUME before # NoState, origin[id] # NoState PROVE state = origin[id]
    <3>1. \A k \in Keys : expected[k] = state[k]
      BY <1>14, <2>1 DEF FinishRestore
    <3>2. expected = state
      BY <3>1, SameContents
    <3>. QED
      BY <1>14, <2>1, <3>2 DEF FinishRestore
  <2>. QED
    BY <1>14, <2>1 DEF FinishRestore, archiveVars, commandVars
<1>15. CASE Abort
  BY <1>15 DEF Abort, Fail, archiveVars, commandVars
<1>16. ASSUME NEW k \in Keys, NEW v \in Values \cup {NoObject}, WriteObject(k, v)
     PROVE  RestoredExactly'
  BY <1>16 DEF WriteObject, archiveVars, commandVars
<1>17. CASE UNCHANGED vars
  BY <1>17 DEF vars, archiveVars, commandVars
<1>. QED
  BY <1>1, <1>2, <1>3, <1>4, <1>5, <1>6, <1>7, <1>8, <1>9, <1>10, <1>11, <1>12,
     <1>13, <1>14, <1>15, <1>16, <1>17 DEF Next

-----------------------------------------------------------------------------
(***************************************************************************)
(* The theorems.                                                           *)
(***************************************************************************)

\* The inductive invariant holds in every reachable state.
THEOREM ArchiveInvariant == Spec => []IInv
<1>. USE ArchiveAssumption, NoStateAssumption
<1>1. Init => IInv
  BY DEF Init, IInv, TypeOK, Contents, Ops, Empty, Building, BackupOps, Sound,
         Restoring, Phases, StaleLast, RestoredExactly
<1>2. IInv /\ [Next]_vars => IInv'
  BY TypeStep, BuildingStep, SoundStep, RestoringStep, PhasesStep,
     StaleLastStep, RestoredStep DEF IInv
<1>. QED
  BY <1>1, <1>2, PTL DEF Spec

\* A backup that Restore accepts is the whole state it was taken of, unless
\* state was written without the lock meanwhile (Backup), for every set of
\* objects and identities and whatever fails, is lost or expires.
THEOREM BackupsAreFaithful == Spec => []FaithfulBackup
<1>1. IInv => FaithfulBackup
  BY DEF IInv, Sound, FaithfulBackup, Restorable
<1>. QED
  BY <1>1, ArchiveInvariant, PTL

\* A restore that reports success has brought back exactly the state the
\* backup was taken of (Restore).
THEOREM RestoresAreExact == Spec => []RestoredExactly
<1>1. IInv => RestoredExactly
  BY DEF IInv
<1>. QED
  BY <1>1, ArchiveInvariant, PTL

\* Wherever a restore stops, every object it found still exists or the whole
\* snapshot is back (Restore: stale objects are deleted last).
THEOREM RestoresDeleteLast == Spec => []StaleLast
<1>1. IInv => StaleLast
  BY DEF IInv
<1>. QED
  BY <1>1, ArchiveInvariant, PTL
=============================================================================
