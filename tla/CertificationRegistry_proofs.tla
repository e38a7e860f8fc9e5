-------------------- MODULE CertificationRegistry_proofs --------------------
(***************************************************************************)
(* Proofs about the certification registries, for any number of runs and   *)
(* markers and any number of deaths and suspensions.                       *)
(*                                                                         *)
(* The argument: a run inside the lock made the directory, or was robbed   *)
(* of it (Tenure); so while nobody was robbed only one run is inside, what *)
(* it read is the file (Fresh), and the read, the change and the write of  *)
(* an operation are one step as far as the others can tell.  Then a claim  *)
(* in the file and the call of the run it protects go together: for an     *)
(* artifact from the claim to its publication or release (Owned), for a    *)
(* session from the claim to its release or to the verified deletion       *)
(* (Held).  A call that reports an error may have written all the same, so *)
(* neither says anything of the file from such a report to the next call.  *)
(***************************************************************************)
EXTENDS CertificationRegistry, FiniteSetTheorems, TLAPS

Files == IF registry = "artifacts" THEN ArtifactFiles ELSE SessionFiles
Calls == IF registry = "artifacts" THEN BuildCalls ELSE SessionCalls

\* A run inside a registry call is in a call of that registry, a run at work
\* in the work that the call led to, and a run that ended in none.
Stages ==
    \A r \in Runs :
        /\ call[r] \in Calls \cup {"none"}
        /\ pc[r] \in {"wait", "takeover", "locked", "loaded", "unlock"}
               => call[r] \notin Work \cup {"none"}
        /\ pc[r] = "work" => call[r] \in Work
        /\ pc[r] \in {"done", "dead"} => call[r] = "none"
        /\ pc[r] = "loaded" => seen[r] \in Files
        /\ pc[r] = "unlock" /\ call[r] \in Detached
               => outcome[r] \in {"ok", "error"}

\* A directory has a maker, and a run inside is that maker or was robbed.
Tenure ==
    /\ dir = "absent" <=> maker = None
    /\ \A r \in Inside : r = maker \/ r \in robbed

Mishap == suspended > 0 \/ \E r \in Runs : pc[r] = "dead"

\* A directory is left behind, stale, or taken for stale only after a mishap.
Theft ==
    /\ maker \notin Inside \cup {None} => Mishap
    /\ dir = "stale" => Mishap
    /\ \A r \in Runs : pc[r] = "takeover" => Mishap
    /\ robbed # {} => Mishap

\* While nobody was robbed, what a run has read is what the file holds.
Fresh == robbed = {} => \A r \in Runs : pc[r] = "loaded" => seen[r] = file

Answered(r, result) == pc[r] = "unlock" /\ outcome[r] = result

\* Run r owns the artifact claim, from the store of its claim to the store of
\* its publication or release.  A publication that was reported as an error
\* may be in the file all the same, and so may a release.
Owner(r) ==
    \/ call[r] = "claim" /\ Answered(r, "miss")
    \/ call[r] = "build"
    \/ call[r] = "publish" /\ ~Answered(r, "ok") /\ file.record = None
    \/ call[r] = "release" /\ pc[r] # "unlock" /\ file.record = None

\* The release of run r has failed, or seems to have.
Failing(r) == call[r] = "release" /\ Answered(r, "error")

Owned ==
    (robbed = {} /\ registry = "artifacts") =>
        /\ \A r \in Runs :
              Owner(r) => file.claim = Marker[r] /\ file.record = None
        /\ \A p, q \in Runs : Owner(p) /\ Owner(q) => p = q
        /\ \A r \in Runs :
              call[r] = "publish" /\ Answered(r, "ok") => file.record # None
        /\ file.claim # None =>
              \E r \in Runs :
                 /\ file.claim = Marker[r]
                 /\ r \in abandoned \/ Owner(r) \/ Failing(r)

\* Run r uses the session it has claimed; it has marked it for deletion; it
\* is done with the session, the deletion being verified or one of the marks
\* reported as an error, and has not yet given up the lock.
User(r) ==
    \/ call[r] = "claimSession" /\ Answered(r, "ready")
    \/ call[r] = "use"
    \/ call[r] = "markPending" /\ pc[r] # "unlock"
Deleter(r) ==
    \/ call[r] = "markPending" /\ Answered(r, "ok")
    \/ call[r] = "markVerified" /\ pc[r] # "unlock"
Leaver(r) ==
    /\ pc[r] = "unlock"
    /\ \/ call[r] = "markPending" /\ outcome[r] # "ok"
       \/ call[r] = "markVerified"
Holder(r) == User(r) \/ Deleter(r) \/ Leaver(r)

\* Run r has not registered the stack it may come to provision.
Unregistered(r) ==
    \/ call[r] \in {"claimSession", "provision"}
    \/ call[r] = "put" /\ pc[r] # "unlock"

Held ==
    (robbed = {} /\ registry = "sessions") =>
        /\ \A r \in Runs : User(r) => file.state = "ready" /\ file.claim = r
        /\ \A r \in Runs : Deleter(r) => file.state = "pending-delete"
        /\ \A p, q \in Runs : Holder(p) /\ Holder(q) => p = q
        /\ \A r \in Runs : Unregistered(r) => file.stack # r
        /\ file.claim # None =>
              \/ file.claim \in abandoned
              \/ User(file.claim)
              \/ Leaver(file.claim)
              \/ call[file.claim] = "releaseSession"
                     /\ ~Answered(file.claim, "ok")

IInv == TypeOK /\ Stages /\ Tenure /\ Theft /\ Fresh /\ Owned /\ Held
-----------------------------------------------------------------------------
(***************************************************************************)
(* Type correctness.                                                       *)
(***************************************************************************)

\* What an operation makes of a well-formed file is well-formed.
LEMMA OperationType ==
    ASSUME TypeOK, Stages, NEW r \in Runs, pc[r] = "loaded"
    PROVE  /\ Operation(r, seen[r]).file \in Files
           /\ Operation(r, seen[r]).result
                  \in {"ok", "error", "ready", "miss", "blocked"}
           /\ call[r] \in Detached =>
                  Operation(r, seen[r]).result \in {"ok", "error"}
<1>. USE RegistryAssumption
     DEF TypeOK, Stages, Calls, Files, ArtifactFiles, SessionFiles, SessionStates,
         BuildCalls, SessionCalls, Work, Detached
<1>1. CASE call[r] = "lookup"
  BY <1>1 DEF Operation, Lookup
<1>2. CASE call[r] = "claim"
  BY <1>2 DEF Operation, ClaimArtifact
<1>3. CASE call[r] = "publish"
  BY <1>3 DEF Operation, Publish
<1>4. CASE call[r] = "release"
  BY <1>4 DEF Operation, ReleaseArtifactClaim
<1>5. CASE call[r] = "claimSession"
  BY <1>5 DEF Operation, ClaimSession
<1>6. CASE call[r] = "releaseSession"
  BY <1>6 DEF Operation, ReleaseSessionClaim
<1>7. CASE call[r] = "put"
  BY <1>7 DEF Operation, Put
<1>8. CASE call[r] = "markPending"
  BY <1>8 DEF Operation, MarkPendingDeletion
<1>9. CASE call[r] = "markVerified"
  BY <1>9 DEF Operation, MarkCleanupVerified
<1>. QED
  BY <1>1, <1>2, <1>3, <1>4, <1>5, <1>6, <1>7, <1>8, <1>9

\* The deaths and suspensions that are bounded are a number, since there are
\* finitely many runs.
LEMMA MishapsType == TypeOK => Mishaps \in Nat /\ suspended <= Mishaps
<1>. SUFFICES ASSUME TypeOK PROVE Mishaps \in Nat /\ suspended <= Mishaps
  OBVIOUS
<1>1. IsFiniteSet({r \in Runs : pc[r] = "dead"})
  BY RegistryAssumption, FS_Subset
<1>2. Cardinality({r \in Runs : pc[r] = "dead"}) \in Nat
  BY <1>1, FS_CardinalityType
<1>. QED
  BY <1>2, RegistryAssumption DEF Mishaps, TypeOK

\* Every step keeps the variables in their types.
LEMMA TypeStep == TypeOK /\ Stages /\ [Next]_vars => TypeOK'
<1>. SUFFICES ASSUME TypeOK, Stages, [Next]_vars PROVE TypeOK'
  OBVIOUS
<1>. USE RegistryAssumption DEF TypeOK, BuildCalls, SessionCalls
<1>1. ASSUME NEW r \in Runs, MakeDirectory(r) PROVE TypeOK'
  BY <1>1 DEF MakeDirectory
<1>2. ASSUME NEW r \in Runs, StatStale(r) PROVE TypeOK'
  BY <1>2 DEF StatStale, history
<1>3. ASSUME NEW r \in Runs, RemoveStale(r) PROVE TypeOK'
  BY <1>3 DEF RemoveStale, Remove, Inside
<1>4. ASSUME NEW r \in Runs, Load(r) PROVE TypeOK'
  BY <1>4 DEF Load, history, ArtifactFiles, SessionFiles
<1>5. ASSUME NEW r \in Runs, Store(r) PROVE TypeOK'
  BY <1>5, OperationType DEF Store, history, Files
<1>6. ASSUME NEW r \in Runs, StoreFails(r) PROVE TypeOK'
  BY <1>6 DEF StoreFails, history
<1>7. ASSUME NEW r \in Runs, Unlock(r) PROVE TypeOK'
  BY <1>7 DEF Unlock, Remove, Proceed, After, Inside
<1>8. ASSUME NEW r \in Runs, FinishWork(r) PROVE TypeOK'
  BY <1>8 DEF FinishWork, history, Stages, Work
<1>9. ASSUME NEW r \in Runs, GiveUpWaiting(r) PROVE TypeOK'
  BY <1>9 DEF GiveUpWaiting, Proceed, After
<1>10. ASSUME NEW r \in Runs, Crash(r) PROVE TypeOK'
  BY <1>10 DEF Crash
<1>11. CASE Age
  BY <1>11, MishapsType DEF Age
<1>12. CASE Ended
  BY <1>12 DEF Ended, vars, history
<1>13. CASE UNCHANGED vars
  BY <1>13 DEF vars, history
<1>14. ASSUME NEW r \in Runs, StoreUnconfirmed(r) PROVE TypeOK'
  BY <1>14, OperationType DEF StoreUnconfirmed, Granted, Files
<1>15. ASSUME NEW r \in Runs, UnlockFails(r) PROVE TypeOK'
  BY <1>15, MishapsType DEF UnlockFails, After, Granted
<1>. QED
  BY <1>1, <1>2, <1>3, <1>4, <1>5, <1>6, <1>7, <1>8, <1>9, <1>10, <1>11, <1>12,
     <1>13, <1>14, <1>15 DEF Next, RunStep

-----------------------------------------------------------------------------
(***************************************************************************)
(* The inductive invariant, one conjunct at a time.                        *)
(***************************************************************************)

\* A call ends in the call or the work that follows its result (After), and a
\* run that ends or dies is in none.
LEMMA StagesStep == TypeOK /\ Stages /\ [Next]_vars => Stages'
<1>. SUFFICES ASSUME TypeOK, Stages, [Next]_vars PROVE Stages'
  OBVIOUS
<1>. USE RegistryAssumption DEF TypeOK, Stages, Calls, BuildCalls,
     SessionCalls, Work, Files, Detached
<1>1. ASSUME NEW r \in Runs, MakeDirectory(r) PROVE Stages'
  BY <1>1 DEF MakeDirectory
<1>2. ASSUME NEW r \in Runs, StatStale(r) PROVE Stages'
  BY <1>2 DEF StatStale, history
<1>3. ASSUME NEW r \in Runs, RemoveStale(r) PROVE Stages'
  BY <1>3 DEF RemoveStale, Remove
<1>4. ASSUME NEW r \in Runs, Load(r) PROVE Stages'
  BY <1>4 DEF Load, history
<1>5. ASSUME NEW r \in Runs, Store(r) PROVE Stages'
  BY <1>5, OperationType DEF Store, history
<1>6. ASSUME NEW r \in Runs, StoreFails(r) PROVE Stages'
  BY <1>6 DEF StoreFails, history
<1>7. ASSUME NEW r \in Runs, Unlock(r) PROVE Stages'
  BY <1>7 DEF Unlock, Remove, Proceed, After
<1>8. ASSUME NEW r \in Runs, FinishWork(r) PROVE Stages'
  BY <1>8 DEF FinishWork, history
<1>9. ASSUME NEW r \in Runs, GiveUpWaiting(r) PROVE Stages'
  BY <1>9 DEF GiveUpWaiting, Proceed, After
<1>10. ASSUME NEW r \in Runs, Crash(r) PROVE Stages'
  BY <1>10 DEF Crash
<1>11. CASE Age
  BY <1>11 DEF Age
<1>12. CASE Ended
  BY <1>12 DEF Ended, vars, history
<1>13. CASE UNCHANGED vars
  BY <1>13 DEF vars, history
<1>14. ASSUME NEW r \in Runs, StoreUnconfirmed(r) PROVE Stages'
  BY <1>14, OperationType DEF StoreUnconfirmed, Granted
<1>15. ASSUME NEW r \in Runs, UnlockFails(r) PROVE Stages'
  BY <1>15 DEF UnlockFails, After, Granted
<1>. QED
  BY <1>1, <1>2, <1>3, <1>4, <1>5, <1>6, <1>7, <1>8, <1>9, <1>10, <1>11, <1>12,
     <1>13, <1>14, <1>15 DEF Next, RunStep

\* A directory is made where there was none, and whoever removes it robs the
\* maker that is still inside.
LEMMA TenureStep == TypeOK /\ Tenure /\ [Next]_vars => Tenure'
<1>. SUFFICES ASSUME TypeOK, Tenure, [Next]_vars PROVE Tenure'
  OBVIOUS
<1>. USE RegistryAssumption DEF TypeOK, Tenure, Inside
<1>1. ASSUME NEW r \in Runs, MakeDirectory(r) PROVE Tenure'
  BY <1>1 DEF MakeDirectory
<1>2. ASSUME NEW r \in Runs, StatStale(r) PROVE Tenure'
  BY <1>2 DEF StatStale, history
<1>3. ASSUME NEW r \in Runs, RemoveStale(r) PROVE Tenure'
  BY <1>3 DEF RemoveStale, Remove
<1>4. ASSUME NEW r \in Runs, Load(r) PROVE Tenure'
  BY <1>4 DEF Load, history
<1>5. ASSUME NEW r \in Runs, Store(r) PROVE Tenure'
  BY <1>5 DEF Store, history
<1>6. ASSUME NEW r \in Runs, StoreFails(r) PROVE Tenure'
  BY <1>6 DEF StoreFails, history
<1>7. ASSUME NEW r \in Runs, Unlock(r) PROVE Tenure'
  BY <1>7 DEF Unlock, Remove, Proceed, After
<1>8. ASSUME NEW r \in Runs, FinishWork(r) PROVE Tenure'
  BY <1>8 DEF FinishWork, history
<1>9. ASSUME NEW r \in Runs, GiveUpWaiting(r) PROVE Tenure'
  BY <1>9 DEF GiveUpWaiting, Proceed, After
<1>10. ASSUME NEW r \in Runs, Crash(r) PROVE Tenure'
  BY <1>10 DEF Crash, Mishaps
<1>11. CASE Age
  BY <1>11 DEF Age
<1>12. CASE Ended
  BY <1>12 DEF Ended, vars, history
<1>13. CASE UNCHANGED vars
  BY <1>13 DEF vars, history
<1>14. ASSUME NEW r \in Runs, StoreUnconfirmed(r) PROVE Tenure'
  BY <1>14 DEF StoreUnconfirmed, Granted
<1>15. ASSUME NEW r \in Runs, UnlockFails(r) PROVE Tenure'
  BY <1>15 DEF UnlockFails, After, Granted
<1>. QED
  BY <1>1, <1>2, <1>3, <1>4, <1>5, <1>6, <1>7, <1>8, <1>9, <1>10, <1>11, <1>12,
     <1>13, <1>14, <1>15 DEF Next, RunStep

\* A directory ages only when its maker is dead or suspended, the dead stay
\* dead, and only a robbed run removes a directory it did not find stale.
LEMMA TheftStep == TypeOK /\ Tenure /\ Theft /\ [Next]_vars => Theft'
<1>. SUFFICES ASSUME TypeOK, Tenure, Theft, [Next]_vars PROVE Theft'
  OBVIOUS
<1>. USE RegistryAssumption DEF TypeOK, Tenure, Theft, Mishap, Inside
<1>1. ASSUME NEW r \in Runs, MakeDirectory(r) PROVE Theft'
  BY <1>1 DEF MakeDirectory
<1>2. ASSUME NEW r \in Runs, StatStale(r) PROVE Theft'
  BY <1>2 DEF StatStale, history
<1>3. ASSUME NEW r \in Runs, RemoveStale(r) PROVE Theft'
  BY <1>3 DEF RemoveStale, Remove
<1>4. ASSUME NEW r \in Runs, Load(r) PROVE Theft'
  BY <1>4 DEF Load, history
<1>5. ASSUME NEW r \in Runs, Store(r) PROVE Theft'
  BY <1>5 DEF Store, history
<1>6. ASSUME NEW r \in Runs, StoreFails(r) PROVE Theft'
  BY <1>6 DEF StoreFails, history
<1>7. ASSUME NEW r \in Runs, Unlock(r) PROVE Theft'
  BY <1>7 DEF Unlock, Remove, Proceed, After
<1>8. ASSUME NEW r \in Runs, FinishWork(r) PROVE Theft'
  BY <1>8 DEF FinishWork, history
<1>9. ASSUME NEW r \in Runs, GiveUpWaiting(r) PROVE Theft'
  BY <1>9 DEF GiveUpWaiting, Proceed, After
<1>10. ASSUME NEW r \in Runs, Crash(r) PROVE Theft'
  BY <1>10 DEF Crash
<1>11. CASE Age
  BY <1>11 DEF Age
<1>12. CASE Ended
  BY <1>12 DEF Ended, vars, history
<1>13. CASE UNCHANGED vars
  BY <1>13 DEF vars, history
<1>14. ASSUME NEW r \in Runs, StoreUnconfirmed(r) PROVE Theft'
  BY <1>14 DEF StoreUnconfirmed, Granted
<1>15. ASSUME NEW r \in Runs, UnlockFails(r) PROVE Theft'
  BY <1>15 DEF UnlockFails, After, Granted
<1>. QED
  BY <1>1, <1>2, <1>3, <1>4, <1>5, <1>6, <1>7, <1>8, <1>9, <1>10, <1>11, <1>12,
     <1>13, <1>14, <1>15 DEF Next, RunStep

\* Two runs inside that were not robbed are the same, so nobody writes between
\* the read and the write of another.
LEMMA FreshStep == TypeOK /\ Tenure /\ Fresh /\ [Next]_vars => Fresh'
<1>. SUFFICES ASSUME TypeOK, Tenure, Fresh, [Next]_vars PROVE Fresh'
  OBVIOUS
<1>. USE RegistryAssumption DEF TypeOK, Tenure, Fresh, Inside
<1>1. ASSUME NEW r \in Runs, MakeDirectory(r) PROVE Fresh'
  BY <1>1 DEF MakeDirectory
<1>2. ASSUME NEW r \in Runs, StatStale(r) PROVE Fresh'
  BY <1>2 DEF StatStale, history
<1>3. ASSUME NEW r \in Runs, RemoveStale(r) PROVE Fresh'
  BY <1>3 DEF RemoveStale, Remove
<1>4. ASSUME NEW r \in Runs, Load(r) PROVE Fresh'
  BY <1>4 DEF Load, history
<1>5. ASSUME NEW r \in Runs, Store(r) PROVE Fresh'
  BY <1>5 DEF Store, history
<1>6. ASSUME NEW r \in Runs, StoreFails(r) PROVE Fresh'
  BY <1>6 DEF StoreFails, history
<1>7. ASSUME NEW r \in Runs, Unlock(r) PROVE Fresh'
  BY <1>7 DEF Unlock, Remove, Proceed, After
<1>8. ASSUME NEW r \in Runs, FinishWork(r) PROVE Fresh'
  BY <1>8 DEF FinishWork, history
<1>9. ASSUME NEW r \in Runs, GiveUpWaiting(r) PROVE Fresh'
  BY <1>9 DEF GiveUpWaiting, Proceed, After
<1>10. ASSUME NEW r \in Runs, Crash(r) PROVE Fresh'
  BY <1>10 DEF Crash
<1>11. CASE Age
  BY <1>11 DEF Age
<1>12. CASE Ended
  BY <1>12 DEF Ended, vars, history
<1>13. CASE UNCHANGED vars
  BY <1>13 DEF vars, history
<1>14. ASSUME NEW r \in Runs, StoreUnconfirmed(r) PROVE Fresh'
  BY <1>14 DEF StoreUnconfirmed, Granted
<1>15. ASSUME NEW r \in Runs, UnlockFails(r) PROVE Fresh'
  BY <1>15 DEF UnlockFails, After, Granted
<1>. QED
  BY <1>1, <1>2, <1>3, <1>4, <1>5, <1>6, <1>7, <1>8, <1>9, <1>10, <1>11, <1>12,
     <1>13, <1>14, <1>15 DEF Next, RunStep

\* An artifact claim is given where there is none, and taken back by the run
\* that has it; nobody else can have it meanwhile (ClaimArtifact, Publish,
\* ReleaseArtifactClaim).
LEMMA OwnedStep ==
    TypeOK /\ Stages /\ Tenure /\ Fresh /\ Owned /\ [Next]_vars => Owned'
<1>. SUFFICES ASSUME TypeOK, Stages, Tenure, Fresh, Owned, [Next]_vars
              PROVE  Owned'
  OBVIOUS
<1>. USE RegistryAssumption DEF TypeOK, Stages, Calls, Tenure, Fresh, Inside,
     Owned, Owner, Failing, Answered, BuildCalls, SessionCalls, Work, Detached, Files,
     ArtifactFiles
<1>1. ASSUME NEW r \in Runs, MakeDirectory(r) PROVE Owned'
  BY <1>1 DEF MakeDirectory
<1>2. ASSUME NEW r \in Runs, StatStale(r) PROVE Owned'
  BY <1>2 DEF StatStale, history
<1>3. ASSUME NEW r \in Runs, RemoveStale(r) PROVE Owned'
  BY <1>3 DEF RemoveStale, Remove
<1>4. ASSUME NEW r \in Runs, Load(r) PROVE Owned'
  BY <1>4 DEF Load, history
<1>5. ASSUME NEW r \in Runs, Store(r) PROVE Owned'
  <2>. SUFFICES ASSUME robbed = {}, registry = "artifacts" PROVE Owned'
    BY <1>5 DEF Store, history
  <2>. DEFINE done == Operation(r, file)
  <2>1. /\ seen[r] = file /\ file \in ArtifactFiles
        /\ registry' = registry /\ robbed' = robbed /\ abandoned' = abandoned
        /\ call' = call /\ pc' = [pc EXCEPT ![r] = "unlock"]
        /\ outcome' = [outcome EXCEPT ![r] = done.result]
        /\ file' = IF done.result # "error" /\ call[r] # "lookup"
                   THEN done.file ELSE file
    BY <1>5 DEF Store, history
  <2>2. \A q \in Runs \ {r} :
            /\ Failing(q)' <=> Failing(q)
            /\ file'.record = file.record => (Owner(q)' <=> Owner(q))
            /\ pc[q] # "unlock"
    BY <1>5, <2>1 DEF Store
  <2>3. CASE call[r] = "lookup"
    BY <1>5, <2>1, <2>2, <2>3 DEF Store
  <2>4. CASE call[r] = "claim"
    <3>1. \/ file' = file /\ outcome'[r] # "miss"
          \/ /\ file.claim = None /\ file.record = None
             /\ file'.claim = Marker[r] /\ file'.record = None
             /\ outcome'[r] = "miss"
      BY <2>1, <2>4 DEF Operation, ClaimArtifact
    <3>2. ~Owner(r) /\ ~Failing(r) /\ (Owner(r)' <=> outcome'[r] = "miss")
      BY <1>5, <2>1, <2>4 DEF Store
    <3>. QED
      BY <2>1, <2>2, <2>4, <3>1, <3>2
  <2>5. CASE call[r] = "publish"
    <3>1. \/ file' = file /\ outcome'[r] = "error"
          \/ /\ file'.claim = None /\ file'.record = r
             /\ outcome'[r] = "ok"
      BY <2>1, <2>5 DEF Operation, Publish
    <3>2. /\ ~Failing(r)
          /\ Owner(r) <=> file.record = None
          /\ Owner(r)' <=> outcome'[r] # "ok" /\ file'.record = None
      BY <1>5, <2>1, <2>5 DEF Store
    <3>3. CASE file' = file /\ outcome'[r] = "error"
      BY <2>1, <2>2, <2>5, <3>2, <3>3
    <3>4. CASE file'.claim = None /\ file'.record = r /\ outcome'[r] = "ok"
      <4>1. \A q \in Runs \ {r} : ~Owner(q)
        BY <3>2
      <4>2. \A q \in Runs : ~Owner(q)'
        BY <2>1, <3>2, <3>4, <4>1
      <4>. QED
        BY <2>1, <3>4, <4>2
    <3>. QED
      BY <3>1, <3>3, <3>4
  <2>6. CASE call[r] = "release"
    <3>1. /\ ~Failing(r) /\ ~Owner(r)'
          /\ Owner(r) <=> file.record = None
      BY <1>5, <2>1, <2>6 DEF Store
    <3>2. /\ file'.record = file.record
          /\ \/ file'.claim = None
             \/ file' = file /\ file.claim # Marker[r]
      BY <2>1, <2>6 DEF Operation, ReleaseArtifactClaim
    <3>3. \A q \in Runs : ~Owner(q)'
      BY <2>2, <3>1, <3>2
    <3>4. \A q \in Runs : call'[q] = "publish" => ~Answered(q, "ok")'
      BY <2>1, <2>2, <2>6
    <3>5. CASE file'.claim = None
      BY <2>1, <3>3, <3>4, <3>5
    <3>6. CASE file' = file /\ file.claim # Marker[r]
      <4>1. file.record # None \/ file.claim = Marker[r]
        BY <3>1
      <4>2. \A q \in Runs : ~Owner(q)
        BY <3>6, <4>1
      <4>. QED
        BY <2>1, <2>2, <3>1, <3>3, <3>4, <3>6, <4>2
    <3>. QED
      BY <3>2, <3>5, <3>6
  <2>. QED
    BY <1>5, <2>3, <2>4, <2>5, <2>6 DEF Store
<1>6. ASSUME NEW r \in Runs, StoreFails(r) PROVE Owned'
  BY <1>6 DEF StoreFails, history
<1>7. ASSUME NEW r \in Runs, Unlock(r) PROVE Owned'
  <2>. SUFFICES ASSUME robbed = {}, registry = "artifacts" PROVE Owned'
    BY <1>7 DEF Unlock, Remove
  <2>1. file' = file /\ registry' = registry
    BY <1>7 DEF Unlock
  <2>2. \A q \in Runs \ {r} :
            /\ Owner(q)' <=> Owner(q)
            /\ Failing(q)' <=> Failing(q)
            /\ q \in abandoned => q \in abandoned'
            /\ call'[q] = call[q] /\ pc'[q] = pc[q] /\ outcome'[q] = outcome[q]
    BY <1>7 DEF Unlock, Proceed
  <2>3. /\ Owner(r)' => Owner(r)
        /\ r \in abandoned => r \in abandoned'
        /\ pc'[r] # "unlock"
    BY <1>7 DEF Unlock, Proceed, After
  <2>4. Owner(r) \/ Failing(r) => Owner(r)' \/ r \in abandoned'
    BY <1>7 DEF Unlock, Proceed, After
  <2>. QED
    BY <2>1, <2>2, <2>3, <2>4
<1>8. ASSUME NEW r \in Runs, FinishWork(r) PROVE Owned'
  BY <1>8 DEF FinishWork, history
<1>9. ASSUME NEW r \in Runs, GiveUpWaiting(r) PROVE Owned'
  BY <1>9 DEF GiveUpWaiting, Proceed, After
<1>10. ASSUME NEW r \in Runs, Crash(r) PROVE Owned'
  BY <1>10 DEF Crash
<1>11. CASE Age
  BY <1>11 DEF Age
<1>12. CASE Ended
  BY <1>12 DEF Ended, vars, history
<1>13. CASE UNCHANGED vars
  BY <1>13 DEF vars, history
<1>14. ASSUME NEW r \in Runs, StoreUnconfirmed(r) PROVE Owned'
  <2>. SUFFICES ASSUME robbed = {}, registry = "artifacts" PROVE Owned'
    BY <1>14 DEF StoreUnconfirmed
  <2>. DEFINE done == Operation(r, file)
  <2>1. /\ seen[r] = file /\ file \in ArtifactFiles
        /\ registry' = registry /\ robbed' = robbed
        /\ abandoned' = IF Granted(call[r], done.result)
                        THEN abandoned \cup {r} ELSE abandoned
        /\ call' = call /\ pc' = [pc EXCEPT ![r] = "unlock"]
        /\ outcome' = [outcome EXCEPT ![r] = "error"]
        /\ done.result # "error" /\ file' = done.file
    BY <1>14 DEF StoreUnconfirmed
  <2>2. \A q \in Runs \ {r} :
            /\ Failing(q)' <=> Failing(q)
            /\ file'.record = file.record => (Owner(q)' <=> Owner(q))
            /\ pc[q] # "unlock"
    BY <1>14, <2>1 DEF StoreUnconfirmed
  <2>3. CASE call[r] = "claim"
    <3>1. \/ file' = file
          \/ /\ file.claim = None /\ file.record = None
             /\ file'.claim = Marker[r] /\ file'.record = None
             /\ r \in abandoned'
      BY <2>1, <2>3 DEF Operation, ClaimArtifact, Granted
    <3>2. ~Owner(r) /\ ~Failing(r) /\ ~Owner(r)'
      BY <1>14, <2>1, <2>3 DEF StoreUnconfirmed
    <3>. QED
      BY <2>1, <2>2, <2>3, <3>1, <3>2
  <2>4. CASE call[r] = "publish"
    <3>1. file'.claim = None /\ file'.record = r
      BY <2>1, <2>4 DEF Operation, Publish
    <3>2. Owner(r) <=> file.record = None
      BY <1>14, <2>1, <2>4 DEF StoreUnconfirmed
    <3>3. \A q \in Runs \ {r} : ~Owner(q)
      BY <3>2
    <3>4. \A q \in Runs : ~Owner(q)'
      BY <2>1, <2>4, <3>1, <3>3
    <3>. QED
      BY <2>1, <3>1, <3>4
  <2>5. CASE call[r] = "release"
    <3>1. /\ ~Failing(r) /\ ~Owner(r)'
          /\ Owner(r) <=> file.record = None
      BY <1>14, <2>1, <2>5 DEF StoreUnconfirmed
    <3>2. file'.record = file.record /\ file'.claim = None
      BY <2>1, <2>5 DEF Operation, ReleaseArtifactClaim
    <3>3. \A q \in Runs : ~Owner(q)'
      BY <2>2, <3>1, <3>2
    <3>4. \A q \in Runs : call'[q] = "publish" => ~Answered(q, "ok")'
      BY <2>1, <2>2, <2>5
    <3>. QED
      BY <2>1, <3>2, <3>3, <3>4
  <2>. QED
    BY <1>14, <2>3, <2>4, <2>5 DEF StoreUnconfirmed
<1>15. ASSUME NEW r \in Runs, UnlockFails(r) PROVE Owned'
  <2>. SUFFICES ASSUME robbed = {}, registry = "artifacts" PROVE Owned'
    BY <1>15 DEF UnlockFails
  <2>1. file' = file /\ registry' = registry
    BY <1>15 DEF UnlockFails
  <2>2. \A q \in Runs \ {r} :
            /\ Owner(q)' <=> Owner(q)
            /\ Failing(q)' <=> Failing(q)
            /\ q \in abandoned => q \in abandoned'
            /\ call'[q] = call[q] /\ pc'[q] = pc[q] /\ outcome'[q] = outcome[q]
    BY <1>15 DEF UnlockFails
  <2>3. /\ Owner(r)' => Owner(r)
        /\ r \in abandoned => r \in abandoned'
        /\ pc'[r] # "unlock"
    BY <1>15 DEF UnlockFails, After
  <2>4. Owner(r) \/ Failing(r) => Owner(r)' \/ r \in abandoned'
    BY <1>15 DEF UnlockFails, After, Granted
  <2>. QED
    BY <2>1, <2>2, <2>3, <2>4
<1>. QED
  BY <1>1, <1>2, <1>3, <1>4, <1>5, <1>6, <1>7, <1>8, <1>9, <1>10, <1>11, <1>12,
     <1>13, <1>14, <1>15 DEF Next, RunStep

\* A session is claimed only when it is ready and unclaimed, marked only by the
\* run that uses it, and registered anew only once its deletion is verified
\* (ClaimSession, MarkPendingDeletion, Put).
LEMMA HeldStep ==
    TypeOK /\ Stages /\ Tenure /\ Fresh /\ Held /\ [Next]_vars => Held'
<1>. SUFFICES ASSUME TypeOK, Stages, Tenure, Fresh, Held, [Next]_vars
              PROVE  Held'
  OBVIOUS
<1>. USE RegistryAssumption DEF TypeOK, Stages, Calls, Tenure, Fresh, Inside,
     Held, User, Deleter, Leaver, Holder, Unregistered, Answered, BuildCalls,
     SessionCalls, Work, Detached, Files, SessionFiles, SessionStates
<1>1. ASSUME NEW r \in Runs, MakeDirectory(r) PROVE Held'
  BY <1>1 DEF MakeDirectory
<1>2. ASSUME NEW r \in Runs, StatStale(r) PROVE Held'
  BY <1>2 DEF StatStale, history
<1>3. ASSUME NEW r \in Runs, RemoveStale(r) PROVE Held'
  BY <1>3 DEF RemoveStale, Remove
<1>4. ASSUME NEW r \in Runs, Load(r) PROVE Held'
  BY <1>4 DEF Load, history
<1>5. ASSUME NEW r \in Runs, Store(r) PROVE Held'
  <2>. SUFFICES ASSUME robbed = {}, registry = "sessions" PROVE Held'
    BY <1>5 DEF Store, history
  <2>. DEFINE done == Operation(r, file)
  <2>1. /\ seen[r] = file /\ file \in SessionFiles
        /\ registry' = registry /\ robbed' = robbed /\ abandoned' = abandoned
        /\ call' = call /\ pc' = [pc EXCEPT ![r] = "unlock"]
        /\ outcome' = [outcome EXCEPT ![r] = done.result]
        /\ file' = IF done.result # "error" /\ call[r] # "lookup"
                   THEN done.file ELSE file
    BY <1>5 DEF Store, history
  <2>2. \A q \in Runs \ {r} :
            /\ User(q)' <=> User(q)
            /\ Deleter(q)' <=> Deleter(q)
            /\ Leaver(q)' <=> Leaver(q)
            /\ Unregistered(q)' <=> Unregistered(q)
            /\ (call[q] = "releaseSession" /\ ~Answered(q, "ok"))'
                 <=> call[q] = "releaseSession" /\ ~Answered(q, "ok")
    BY <2>1
  <2>3. CASE call[r] = "claimSession"
    <3>1. \/ file' = file /\ outcome'[r] # "ready"
          \/ /\ file.state = "ready" /\ file.claim \in {None, r}
             /\ file'.state = "ready" /\ file'.claim = r
             /\ file'.stack = file.stack
             /\ outcome'[r] = "ready"
      BY <2>1, <2>3 DEF Operation, ClaimSession
    <3>2. /\ ~Holder(r) /\ Unregistered(r)
          /\ ~Deleter(r)' /\ ~Leaver(r)'
          /\ User(r)' <=> outcome'[r] = "ready"
      BY <1>5, <2>1, <2>3 DEF Store
    <3>3. \A q \in Runs \ {r} : ~Leaver(q)
      BY <1>5 DEF Store
    <3>4. CASE file' = file /\ outcome'[r] # "ready"
      BY <2>1, <2>2, <2>3, <3>2, <3>4
    <3>5. CASE outcome'[r] = "ready"
      <4>1. \A q \in Runs \ {r} : ~Holder(q)
        BY <3>1, <3>3, <3>5
      <4>. QED
        BY <2>1, <2>2, <2>3, <3>1, <3>2, <3>5, <4>1
    <3>. QED
      BY <3>1, <3>4, <3>5
  <2>4. CASE call[r] = "releaseSession"
    BY <2>1, <2>2, <2>4 DEF Operation, ReleaseSessionClaim
  <2>5. CASE call[r] = "put"
    <3>1. Unregistered(r) /\ ~Holder(r) /\ ~Holder(r)'
      BY <1>5, <2>1, <2>5 DEF Store
    <3>2. \/ file' = file /\ outcome'[r] # "ok"
          \/ /\ file.state \notin {"ready", "pending-delete"}
             /\ file'.claim = None /\ file'.stack = r /\ outcome'[r] = "ok"
      BY <2>1, <2>5, <3>1 DEF Operation, Put, Live
    <3>3. \A q \in Runs \ {r} : ~Leaver(q)
      BY <1>5 DEF Store
    <3>4. CASE file' = file /\ outcome'[r] # "ok"
      BY <2>1, <2>2, <2>5, <3>1, <3>4
    <3>5. CASE outcome'[r] = "ok"
      <4>1. \A q \in Runs : ~Holder(q) /\ ~Holder(q)'
        BY <2>2, <3>1, <3>2, <3>3, <3>5
      <4>2. ~Unregistered(r)'
        BY <2>1, <2>5, <3>5
      <4>. QED
        BY <2>1, <2>2, <3>2, <3>5, <4>1, <4>2
    <3>. QED
      BY <3>2, <3>4, <3>5
  <2>6. CASE call[r] = "markPending"
    BY <2>1, <2>2, <2>6 DEF Operation, MarkPendingDeletion
  <2>7. CASE call[r] = "markVerified"
    <3>1. Deleter(r) /\ ~User(r) /\ ~User(r)'
      BY <1>5, <2>1, <2>7 DEF Store
    <3>2. /\ file'.claim = None /\ file'.stack = file.stack
          /\ outcome'[r] = "ok"
      BY <2>1, <2>7, <3>1 DEF Operation, MarkCleanupVerified
    <3>3. \A q \in Runs \ {r} : ~Holder(q) /\ ~Holder(q)'
      BY <2>2, <3>1
    <3>. QED
      BY <2>1, <2>2, <2>7, <3>1, <3>2, <3>3
  <2>. QED
    BY <1>5, <2>3, <2>4, <2>5, <2>6, <2>7 DEF Store
<1>6. ASSUME NEW r \in Runs, StoreFails(r) PROVE Held'
  BY <1>6 DEF StoreFails, history
<1>7. ASSUME NEW r \in Runs, Unlock(r) PROVE Held'
  <2>. SUFFICES ASSUME robbed = {}, registry = "sessions" PROVE Held'
    BY <1>7 DEF Unlock, Remove
  <2>1. file' = file /\ registry' = registry /\ file \in SessionFiles
    BY <1>7 DEF Unlock
  <2>2. \A q \in Runs \ {r} :
            /\ User(q)' <=> User(q)
            /\ Deleter(q)' <=> Deleter(q)
            /\ Leaver(q)' <=> Leaver(q)
            /\ Unregistered(q)' <=> Unregistered(q)
            /\ (call[q] = "releaseSession" /\ ~Answered(q, "ok"))'
                 <=> call[q] = "releaseSession" /\ ~Answered(q, "ok")
            /\ q \in abandoned => q \in abandoned'
    BY <1>7 DEF Unlock, Proceed
  <2>3. /\ User(r)' => User(r)
        /\ Deleter(r)' => Deleter(r)
        /\ ~Leaver(r)'
        /\ Unregistered(r)' => Unregistered(r)
        /\ r \in abandoned => r \in abandoned'
    BY <1>7 DEF Unlock, Proceed, After
  <2>4. \/ User(r) \/ Leaver(r)
        \/ call[r] = "releaseSession" /\ ~Answered(r, "ok")
        =>
            \/ User(r)' \/ r \in abandoned'
            \/ (call[r] = "releaseSession" /\ ~Answered(r, "ok"))'
    BY <1>7 DEF Unlock, Proceed, After
  <2>. QED
    BY <2>1, <2>2, <2>3, <2>4
<1>8. ASSUME NEW r \in Runs, FinishWork(r) PROVE Held'
  BY <1>8 DEF FinishWork, history
<1>9. ASSUME NEW r \in Runs, GiveUpWaiting(r) PROVE Held'
  BY <1>9 DEF GiveUpWaiting, Proceed, After
<1>10. ASSUME NEW r \in Runs, Crash(r) PROVE Held'
  BY <1>10 DEF Crash
<1>11. CASE Age
  BY <1>11 DEF Age
<1>12. CASE Ended
  BY <1>12 DEF Ended, vars, history
<1>13. CASE UNCHANGED vars
  BY <1>13 DEF vars, history
<1>14. ASSUME NEW r \in Runs, StoreUnconfirmed(r) PROVE Held'
  <2>. SUFFICES ASSUME robbed = {}, registry = "sessions" PROVE Held'
    BY <1>14 DEF StoreUnconfirmed
  <2>. DEFINE done == Operation(r, file)
  <2>1. /\ seen[r] = file /\ file \in SessionFiles
        /\ registry' = registry /\ robbed' = robbed
        /\ abandoned' = IF Granted(call[r], done.result)
                        THEN abandoned \cup {r} ELSE abandoned
        /\ call' = call /\ pc' = [pc EXCEPT ![r] = "unlock"]
        /\ outcome' = [outcome EXCEPT ![r] = "error"]
        /\ done.result # "error" /\ file' = done.file
    BY <1>14 DEF StoreUnconfirmed
  <2>2. \A q \in Runs \ {r} :
            /\ User(q)' <=> User(q)
            /\ Deleter(q)' <=> Deleter(q)
            /\ Leaver(q)' <=> Leaver(q)
            /\ Unregistered(q)' <=> Unregistered(q)
            /\ (call[q] = "releaseSession" /\ ~Answered(q, "ok"))'
                 <=> call[q] = "releaseSession" /\ ~Answered(q, "ok")
    BY <2>1
  <2>3. \A q \in Runs \ {r} : ~Leaver(q)
    BY <1>14 DEF StoreUnconfirmed
  <2>4. CASE call[r] = "claimSession"
    <3>1. ~Holder(r) /\ ~Holder(r)' /\ Unregistered(r)
      BY <1>14, <2>1, <2>4 DEF StoreUnconfirmed
    <3>2. \/ file' = file /\ abandoned' = abandoned
          \/ /\ file.state = "ready" /\ file.claim \in {None, r}
             /\ file'.state = "ready" /\ file'.claim = r
             /\ file'.stack = file.stack
             /\ r \in abandoned'
      BY <2>1, <2>4 DEF Operation, ClaimSession, Granted
    <3>3. CASE file' = file /\ abandoned' = abandoned
      BY <2>1, <2>2, <2>4, <3>1, <3>3
    <3>4. CASE /\ file.state = "ready" /\ file.claim \in {None, r}
               /\ file'.claim = r /\ file'.stack = file.stack
               /\ r \in abandoned'
      <4>1. \A q \in Runs : ~Holder(q) /\ ~Holder(q)'
        BY <2>2, <2>3, <3>1, <3>4
      <4>. QED
        BY <2>1, <2>2, <2>4, <3>1, <3>4, <4>1
    <3>. QED
      BY <3>2, <3>3, <3>4
  <2>5. CASE call[r] = "releaseSession"
    BY <2>1, <2>2, <2>5 DEF Operation, ReleaseSessionClaim, Granted
  <2>6. CASE call[r] = "put"
    <3>1. Unregistered(r) /\ ~Holder(r) /\ ~Holder(r)' /\ ~Unregistered(r)'
      BY <1>14, <2>1, <2>6 DEF StoreUnconfirmed
    <3>2. /\ file.state \notin {"ready", "pending-delete"}
          /\ file'.claim = None /\ file'.stack = r
      BY <2>1, <2>6, <3>1 DEF Operation, Put, Live
    <3>3. \A q \in Runs : ~Holder(q) /\ ~Holder(q)'
      BY <2>2, <2>3, <3>1, <3>2
    <3>. QED
      BY <2>1, <2>2, <3>1, <3>2, <3>3
  <2>7. CASE call[r] = "markPending"
    <3>1. User(r) /\ Leaver(r)' /\ ~User(r)' /\ ~Deleter(r)'
      BY <1>14, <2>1, <2>7 DEF StoreUnconfirmed
    <3>2. file'.claim = None /\ file'.stack = file.stack
      BY <2>1, <2>7 DEF Operation, MarkPendingDeletion
    <3>3. \A q \in Runs \ {r} : ~Holder(q) /\ ~Holder(q)'
      BY <2>2, <3>1
    <3>. QED
      BY <2>1, <2>2, <2>7, <3>1, <3>2, <3>3
  <2>8. CASE call[r] = "markVerified"
    <3>1. Deleter(r) /\ Leaver(r)' /\ ~User(r)' /\ ~Deleter(r)'
      BY <1>14, <2>1, <2>8 DEF StoreUnconfirmed
    <3>2. file'.claim = None /\ file'.stack = file.stack
      BY <2>1, <2>8 DEF Operation, MarkCleanupVerified
    <3>3. \A q \in Runs \ {r} : ~Holder(q) /\ ~Holder(q)'
      BY <2>2, <3>1
    <3>. QED
      BY <2>1, <2>2, <2>8, <3>1, <3>2, <3>3
  <2>. QED
    BY <1>14, <2>4, <2>5, <2>6, <2>7, <2>8 DEF StoreUnconfirmed
<1>15. ASSUME NEW r \in Runs, UnlockFails(r) PROVE Held'
  BY <1>15 DEF UnlockFails, After, Granted
<1>. QED
  BY <1>1, <1>2, <1>3, <1>4, <1>5, <1>6, <1>7, <1>8, <1>9, <1>10, <1>11, <1>12,
     <1>13, <1>14, <1>15 DEF Next, RunStep

-----------------------------------------------------------------------------
(***************************************************************************)
(* The theorems.                                                           *)
(***************************************************************************)

\* The inductive invariant holds in every reachable state.
THEOREM RegistryInvariant == Spec => []IInv
<1>. USE RegistryAssumption
<1>1. Init => IInv
  <2>. SUFFICES ASSUME Init PROVE IInv
    OBVIOUS
  <2>1. TypeOK
    BY DEF Init, TypeOK, ArtifactFiles, SessionFiles, SessionStates, BuildCalls,
           SessionCalls
  <2>2. Stages
    BY DEF Init, Stages, Calls, BuildCalls, SessionCalls, Work
  <2>3. Tenure /\ Theft /\ Fresh
    BY DEF Init, Tenure, Inside, Theft, Fresh
  <2>4. Owned
    BY DEF Init, Owned, Owner, Answered
  <2>5. Held
    BY DEF Init, Held, Holder, User, Deleter, Leaver, Unregistered, Answered
  <2>. QED
    BY <2>1, <2>2, <2>3, <2>4, <2>5 DEF IInv
<1>2. IInv /\ [Next]_vars => IInv'
  BY TypeStep, StagesStep, TenureStep, TheftStep, FreshStep, OwnedStep,
     HeldStep DEF IInv
<1>. QED
  BY <1>1, <1>2, PTL DEF Spec

\* The variables have their types in every reachable state.
THEOREM TypeCorrect == Spec => []TypeOK
<1>1. IInv => TypeOK
  BY DEF IInv
<1>. QED
  BY <1>1, RegistryInvariant, PTL

\* Two runs are inside the lock of a registry together only when one of them
\* lost its directory to another run (withFileRegistryLock), for any number
\* of runs.
THEOREM LockIsExclusive == Spec => []LockExclusive
<1>1. IInv => LockExclusive
  BY DEF IInv, Tenure, LockExclusive, Inside
<1>. QED
  BY <1>1, RegistryInvariant, PTL

\* A directory is removed under its maker only after a run has died, has kept
\* the lock for longer than the stale age, or has left a directory behind that
\* it could not remove (withFileRegistryLock).
THEOREM TheftNeedsMishap == Spec => []NoTheftWhileFresh
<1>1. IInv => NoTheftWhileFresh
  BY DEF IInv, Theft, Mishap, NoTheftWhileFresh
<1>. QED
  BY <1>1, RegistryInvariant, PTL

\* While no directory was lost, an artifact is built by one run at a time and
\* never again once it is published (EnsureImmutableArtifact).
THEOREM ArtifactsAreBuiltOnce == Spec => []BuildOnce
<1>1. IInv => BuildOnce
  <2>. SUFFICES ASSUME IInv, robbed = {}, NEW p \in Building, NEW q \in Building
                PROVE  p = q /\ file.record = None
    BY DEF BuildOnce
  <2>1. registry = "artifacts"
    BY DEF IInv, TypeOK, Stages, Calls, SessionCalls, Building
  <2>. QED
    BY <2>1 DEF IInv, Owned, Owner, Building
<1>. QED
  BY <1>1, RegistryInvariant, PTL

\* While no directory was lost, a session is used by one run at a time
\* (ClaimSession, MarkPendingDeletion, MarkCleanupVerified).
THEOREM SessionsAreExclusive == Spec => []SessionExclusive
<1>1. IInv => SessionExclusive
  <2>. SUFFICES ASSUME IInv, robbed = {}, NEW p \in Using, NEW q \in Using
                PROVE  p = q
    BY DEF SessionExclusive
  <2>1. registry = "sessions"
    BY DEF IInv, TypeOK, Stages, Calls, BuildCalls, Using
  <2>2. Holder(p) /\ Holder(q)
    BY DEF IInv, Using, Holder, User, Deleter, Leaver, Answered
  <2>. QED
    BY <2>1, <2>2 DEF IInv, Held, Using
<1>. QED
  BY <1>1, RegistryInvariant, PTL

\* A claim in the file belongs to a run that is on its way to release it, or
\* was left by one that died, failed to release it, or was told of an error
\* after the claim was written (Claim, ReleaseClaim, writeState).
THEOREM ClaimsAreBacked == Spec => []ClaimIsBacked
<1>1. IInv => ClaimIsBacked
  <2>. SUFFICES ASSUME IInv, robbed = {}, file.claim # None PROVE ClaimIsBacked
    BY DEF ClaimIsBacked
  <2>1. CASE registry = "artifacts"
    BY <2>1 DEF IInv, Owned, Owner, Failing, ClaimIsBacked
  <2>2. CASE registry = "sessions"
    <3>1. file.claim \in Runs
      BY <2>2 DEF IInv, TypeOK, SessionFiles
    <3>. QED
      BY <2>2, <3>1 DEF IInv, Held, User, Leaver, ClaimIsBacked
  <2>. QED
    BY <2>1, <2>2 DEF IInv, TypeOK
<1>. QED
  BY <1>1, RegistryInvariant, PTL

\* A live stack is replaced only after its removal has been verified, and a
\* published artifact never, while no directory was lost (Put, Publish).
THEOREM NoDuplicates == Spec => NoDuplicateWriter
<1>1. IInv /\ [Next]_vars => [robbed = {} /\ Settled => Content' = Content]_vars
  <2>. SUFFICES ASSUME IInv, Next, robbed = {}, Settled PROVE Content' = Content
    OBVIOUS
  <2>1. ASSUME NEW r \in Runs, Store(r) \/ StoreUnconfirmed(r)
        PROVE  Content' = Content
    <3>. DEFINE done == Operation(r, file)
    <3>1. /\ seen[r] = file /\ registry' = registry
          /\ file' = IF done.result # "error" /\ call[r] # "lookup"
                     THEN done.file ELSE file
      BY <2>1 DEF Store, StoreUnconfirmed, IInv, Fresh
    <3>2. /\ file \in Files
          /\ registry = "artifacts"
                 => call[r] \in {"lookup", "claim", "publish", "release"}
          /\ registry # "artifacts"
                 => call[r] \in {"claimSession", "releaseSession", "put",
                                 "markPending", "markVerified"}
      BY <2>1 DEF Store, StoreUnconfirmed, IInv, TypeOK, Stages, Files, Calls, BuildCalls,
                  SessionCalls, Work
    <3>3. CASE registry = "artifacts"
      <4>1. done.file.record = file.record \/ done.result = "error"
        BY <3>2, <3>3 DEF Settled, Operation, Lookup, ClaimArtifact, Publish,
                          ReleaseArtifactClaim, Files, ArtifactFiles
      <4>. QED
        BY <3>1, <3>3, <4>1 DEF Content
    <3>4. CASE registry # "artifacts"
      <4>. USE <3>2, <3>4
           DEF Settled, Live, Operation, Files, SessionFiles, SessionStates
      <4>1. CASE call[r] = "claimSession"
        BY <3>1, <4>1 DEF Content, ClaimSession
      <4>2. CASE call[r] = "releaseSession"
        BY <3>1, <4>2 DEF Content, ReleaseSessionClaim
      <4>3. CASE call[r] = "put"
        BY <3>1, <4>3 DEF Content, Put
      <4>4. CASE call[r] = "markPending"
        BY <3>1, <4>4 DEF Content, MarkPendingDeletion
      <4>5. CASE call[r] = "markVerified"
        BY <3>1, <4>5 DEF Content, MarkCleanupVerified
      <4>. QED
        BY <4>1, <4>2, <4>3, <4>4, <4>5
    <3>. QED
      BY <3>3, <3>4
  <2>2. CASE \A r \in Runs : ~Store(r) /\ ~StoreUnconfirmed(r)
    <3>1. file' = file /\ registry' = registry
      BY <2>2 DEF Next, RunStep, MakeDirectory, StatStale, RemoveStale, Load,
                  StoreFails, Unlock, UnlockFails, FinishWork, GiveUpWaiting, Crash, Age,
                  Ended, vars
    <3>. QED
      BY <3>1 DEF Content
  <2>. QED
    BY <2>1, <2>2
<1>. QED
  BY <1>1, RegistryInvariant, PTL DEF Spec, NoDuplicateWriter
=============================================================================
