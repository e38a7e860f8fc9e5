----------------------- MODULE CertificationRegistry -----------------------
(***************************************************************************)
(* The file-backed registries that certification runs on one host share    *)
(* (internal/certification): the immutable artifacts, built once, and the  *)
(* reusable sessions, used by one run at a time.                           *)
(*                                                                         *)
(* Every operation takes the registry's lock, a directory, reads the file, *)
(* changes what it read, replaces the file, and removes the directory.  A  *)
(* directory older than five minutes is taken over by whoever waits; it    *)
(* carries no owner, so a takeover decided on one directory can remove     *)
(* another.  A run may stop at any step, and a call may report an error    *)
(* although its write is in the file: the mode of the replaced file, or    *)
(* the removal of the directory, fails after it.                           *)
(*                                                                         *)
(* The two registries have a file and a lock each, and no run waits for    *)
(* one inside the other: a behaviour is about one of them.  One            *)
(* compatibility boundary, or one session fingerprint, is modelled:        *)
(* records under other keys of the same file do not interact with it.  A   *)
(* session claim is owned by the run itself: a fresh owner per invocation, *)
(* as resolveScheduleClaimOwner makes it.  A caller that resumes a run may *)
(* supply the owner it persisted, and is taken to be the only live user of *)
(* it.                                                                     *)
(***************************************************************************)
EXTENDS Naturals, FiniteSets

CONSTANTS
    Runs,    \* certification runs, one process each
    Markers, \* ownership markers, which own artifact claims
    Marker,  \* the marker of each run; runs may share one
    MaxMishaps, \* bound: deaths, and live runs that keep the lock too long
                \* or cannot give it up
    None     \* no run, no claim, no record

ASSUME RegistryAssumption ==
    /\ IsFiniteSet(Runs)
    /\ Marker \in [Runs -> Markers]
    /\ MaxMishaps \in Nat
    /\ None \notin Runs \cup Markers

VARIABLES
    registry,  \* which registry this behaviour is about
    file,      \* its file: claim and published artifact, or the session
    dir,       \* its lock directory, by age
    call,      \* the call or the work each run is in
    pc,        \* how far the registry call has come
    seen,      \* what the run has read of the file
    outcome,   \* what the call will return
    maker,     \* history: the run that made the lock directory
    robbed,    \* history: runs whose directory was removed under them
    suspended, \* history: how often a live run kept the lock too long or
               \* could not remove its directory
    abandoned  \* history: runs that died, could not release their claim, or
               \* were told of an error after it was written

history == <<maker, robbed, suspended, abandoned>>
vars == <<registry, file, dir, call, pc, seen, outcome, history>>

BuildCalls == {"lookup", "claim", "build", "publish", "release"}
SessionCalls == {"claimSession", "use", "provision", "put", "markPending",
                 "markVerified", "releaseSession"}
Work == {"build", "use", "provision"}
Detached == {"release", "releaseSession"}

ArtifactFiles == [claim : Markers \cup {None}, record : Runs \cup {None}]
\* A quarantined session is live or gone.
SessionStates ==
    {"none", "ready", "pending-delete", "cleanup-verified", "quarantined",
     "quarantined-gone"}
SessionFiles ==
    [state : SessionStates, claim : Runs \cup {None}, stack : Runs \cup {None}]

TypeOK ==
    /\ registry \in {"artifacts", "sessions"}
    /\ file \in IF registry = "artifacts" THEN ArtifactFiles ELSE SessionFiles
    /\ dir \in {"absent", "fresh", "stale"}
    /\ call \in [Runs -> BuildCalls \cup SessionCalls \cup {"none"}]
    /\ pc \in [Runs -> {"wait", "takeover", "locked", "loaded", "unlock",
                        "work", "done", "dead"}]
    /\ seen \in [Runs -> ArtifactFiles \cup SessionFiles \cup {None}]
    /\ outcome \in [Runs -> {"none", "ok", "error", "ready", "miss", "blocked"}]
    /\ maker \in Runs \cup {None}
    /\ robbed \subseteq Runs
    /\ suspended \in 0..MaxMishaps
    /\ abandoned \subseteq Runs

\* The artifact is not built yet; the session, left by earlier runs, is in
\* any state a record can have, its claim released.  A run that has not
\* started is one that has not yet tried the lock.
Init ==
    /\ \/ /\ registry = "artifacts"
          /\ file = [claim |-> None, record |-> None]
       \/ /\ registry = "sessions"
          /\ file \in [state : SessionStates, claim : {None}, stack : {None}]
    /\ dir = "absent"
    /\ call = [r \in Runs |-> IF registry = "artifacts" THEN "lookup"
                              ELSE "claimSession"]
    /\ pc = [r \in Runs |-> "wait"]
    /\ seen = [r \in Runs |-> None]
    /\ outcome = [r \in Runs |-> "none"]
    /\ maker = None
    /\ robbed = {} /\ abandoned = {}
    /\ suspended = 0

-----------------------------------------------------------------------------
(***************************************************************************)
(* The lock directory.                                                     *)
(***************************************************************************)

\* (Mutant: a directory that exists is taken for one's own.)
MakeDirectoryAnyway(r) ==
    /\ pc[r] = "wait"
    /\ dir' = "fresh"
    /\ maker' = r
    /\ pc' = [pc EXCEPT ![r] = "locked"]
    /\ UNCHANGED <<registry, file, call, seen, outcome, robbed, suspended, abandoned>>
MakeDirectory(r) ==
    /\ pc[r] = "wait"
    /\ dir = "absent"
    /\ dir' = "fresh"
    /\ maker' = r
    /\ pc' = [pc EXCEPT ![r] = "locked"]
    /\ UNCHANGED <<registry, file, call, seen, outcome, robbed, suspended, abandoned>>

\* (Mutants: the age of the directory is never looked at; or any age will do.)
NeverStale(r) ==
    FALSE /\ UNCHANGED vars
AnyAgeIsStale(r) ==
    /\ pc[r] = "wait"
    /\ dir # "absent"
    /\ pc' = [pc EXCEPT ![r] = "takeover"]
    /\ UNCHANGED <<registry, file, dir, call, seen, outcome, history>>
\* The directory exists and is too old: the run decides to take it over.
StatStale(r) ==
    /\ pc[r] = "wait"
    /\ dir = "stale"
    /\ pc' = [pc EXCEPT ![r] = "takeover"]
    /\ UNCHANGED <<registry, file, dir, call, seen, outcome, history>>

\* Run r removes the directory, and robs its maker, if that is another run
\* that is still at work under it.
Inside == {r \in Runs : pc[r] \in {"locked", "loaded", "unlock"}}
Remove(r) ==
    /\ dir' = "absent"
    /\ maker' = None
    /\ robbed' = robbed \cup ({maker} \cap (Inside \ {r}))

\* Whatever directory is there now goes, and the run tries again.
RemoveStale(r) ==
    /\ pc[r] = "takeover"
    /\ Remove(r)
    /\ pc' = [pc EXCEPT ![r] = "wait"]
    /\ UNCHANGED <<registry, file, call, seen, outcome, suspended, abandoned>>

Mishaps == suspended + Cardinality({r \in Runs : pc[r] = "dead"})

\* Five minutes pass over a directory: its maker has left it behind or is
\* suspended.
Age ==
    /\ dir = "fresh"
    /\ dir' = "stale"
    /\ \/ maker \notin Inside /\ UNCHANGED suspended
       \/ /\ maker \in Inside
          /\ Mishaps < MaxMishaps
          /\ suspended' = suspended + 1
    /\ UNCHANGED <<registry, file, call, pc, seen, outcome, maker, robbed, abandoned>>

-----------------------------------------------------------------------------
(***************************************************************************)
(* The operations, on the content f that run r has read.                   *)
(***************************************************************************)

\* EnsureImmutableArtifact.
Lookup(f) == [file |-> f, result |-> IF f.record # None THEN "ready" ELSE "miss"]

\* (Mutant: a claim under the run's own marker is taken for its own.)
ClaimArtifactAgain(r, f) ==
    [file |-> IF f.record = None THEN [f EXCEPT !.claim = Marker[r]] ELSE f,
     result |-> IF f.record # None THEN "ready"
                ELSE IF f.claim \notin {None, Marker[r]} THEN "blocked"
                ELSE "miss"]
\* A claim blocks everyone, its own marker included.
ClaimArtifact(r, f) ==
    IF f.record # None THEN [file |-> f, result |-> "ready"]
    ELSE IF f.claim # None THEN [file |-> f, result |-> "blocked"]
    ELSE [file |-> [f EXCEPT !.claim = Marker[r]], result |-> "miss"]

Publish(r, f) ==
    IF f.claim = Marker[r] /\ f.record \in {None, r}
    THEN [file |-> [claim |-> None, record |-> r], result |-> "ok"]
    ELSE [file |-> f, result |-> "error"]

\* A claim that is gone is a release that is done; another's is an error.
ReleaseArtifactClaim(r, f) ==
    [file |-> IF f.claim = Marker[r] THEN [f EXCEPT !.claim = None] ELSE f,
     result |-> IF f.claim \in {None, Marker[r]} THEN "ok" ELSE "error"]

\* Only a ready session that nobody else has claimed can be claimed; one
\* that is missing or cleaned up is a miss, anything else a block.
\* (Mutant: the claim of another run is not looked at.)
ClaimSessionOfAnother(r, f) ==
    IF f.state = "ready"
    THEN [file |-> [f EXCEPT !.claim = r], result |-> "ready"]
    ELSE [file |-> f, result |-> IF f.state \in {"none", "cleanup-verified"}
                                 THEN "miss" ELSE "blocked"]
ClaimSession(r, f) ==
    IF f.state = "ready" /\ f.claim \in {None, r}
    THEN [file |-> [f EXCEPT !.claim = r], result |-> "ready"]
    ELSE [file |-> f, result |-> IF f.state \in {"none", "cleanup-verified"}
                                 THEN "miss" ELSE "blocked"]

ReleaseSessionClaim(r, f) ==
    [file |-> IF f.claim = r THEN [f EXCEPT !.claim = None] ELSE f,
     result |-> IF f.state # "none" /\ f.claim \in {None, r}
                THEN "ok" ELSE "error"]

Live(f) == f.state \in {"ready", "pending-delete", "quarantined"}

\* A second stack is refused while the registered one is live.
\* (Mutant: it replaces it.)
PutOver(r, f) ==
    [file |-> [state |-> "ready", claim |-> None, stack |-> r], result |-> "ok"]
Put(r, f) ==
    IF Live(f) /\ f.stack # r
    THEN [file |-> f, result |-> "error"]
    ELSE [file |-> [state |-> "ready", claim |-> None, stack |-> r],
          result |-> "ok"]

\* The claim goes with the mark, whoever has it.
MarkPendingDeletion(f) ==
    IF f.state = "none" THEN [file |-> f, result |-> "error"]
    ELSE [file |-> [f EXCEPT !.state = "pending-delete", !.claim = None],
          result |-> "ok"]

MarkCleanupVerified(f) ==
    IF f.state # "pending-delete" THEN [file |-> f, result |-> "error"]
    ELSE [file |-> [f EXCEPT !.state = "cleanup-verified", !.claim = None],
          result |-> "ok"]

Operation(r, f) ==
    CASE call[r] = "lookup"         -> Lookup(f)
      [] call[r] = "claim"          -> ClaimArtifact(r, f)
      [] call[r] = "publish"        -> Publish(r, f)
      [] call[r] = "release"        -> ReleaseArtifactClaim(r, f)
      [] call[r] = "claimSession"   -> ClaimSession(r, f)
      [] call[r] = "releaseSession" -> ReleaseSessionClaim(r, f)
      [] call[r] = "put"            -> Put(r, f)
      [] call[r] = "markPending"    -> MarkPendingDeletion(f)
      [] call[r] = "markVerified"   -> MarkCleanupVerified(f)

-----------------------------------------------------------------------------
(***************************************************************************)
(* withState: read, change, write, unlock.                                 *)
(***************************************************************************)

Load(r) ==
    /\ pc[r] = "locked"
    /\ seen' = [seen EXCEPT ![r] = file]
    /\ pc' = [pc EXCEPT ![r] = "loaded"]
    /\ UNCHANGED <<registry, file, dir, call, outcome, history>>

\* The whole file is replaced by what was read, changed; an operation that
\* fails, or only looks, writes nothing.
Store(r) ==
    /\ pc[r] = "loaded"
    /\ LET done == Operation(r, seen[r])
       IN  /\ outcome' = [outcome EXCEPT ![r] = done.result]
           /\ file' = IF done.result # "error" /\ call[r] # "lookup"
                      THEN done.file ELSE file
    /\ seen' = [seen EXCEPT ![r] = None]
    /\ pc' = [pc EXCEPT ![r] = "unlock"]
    /\ UNCHANGED <<registry, dir, call, history>>

\* The answer that leaves a claim in the file for the run to release.
Granted(c, result) ==
    \/ c = "claim" /\ result = "miss"
    \/ c = "claimSession" /\ result = "ready"

\* The file is replaced, and the call fails afterwards in setting its mode.
\* A caller that is told of an error does not release a claim it was given.
StoreUnconfirmed(r) ==
    /\ pc[r] = "loaded"
    /\ call[r] # "lookup"
    /\ LET done == Operation(r, seen[r])
       IN  /\ done.result # "error"
           /\ file' = done.file
           /\ abandoned' = IF Granted(call[r], done.result)
                           THEN abandoned \cup {r} ELSE abandoned
    /\ outcome' = [outcome EXCEPT ![r] = "error"]
    /\ seen' = [seen EXCEPT ![r] = None]
    /\ pc' = [pc EXCEPT ![r] = "unlock"]
    /\ UNCHANGED <<registry, dir, call, maker, robbed, suspended>>

\* The file cannot be read or replaced.
StoreFails(r) ==
    /\ pc[r] = "loaded"
    /\ outcome' = [outcome EXCEPT ![r] = "error"]
    /\ seen' = [seen EXCEPT ![r] = None]
    /\ pc' = [pc EXCEPT ![r] = "unlock"]
    /\ UNCHANGED <<registry, file, dir, call, history>>

-----------------------------------------------------------------------------
(***************************************************************************)
(* What a run does with the answer: EnsureImmutableArtifact for a build,   *)
(* and for a schedule the claim, the executor's calls and the release.     *)
(***************************************************************************)

\* (Mutant: a failed build or publication leaves its claim.)
AfterForgetting(c, result) ==
    CASE c = "lookup" /\ result = "miss"        -> "claim"
      [] c = "claim" /\ result = "miss"         -> "build"
      [] c = "claimSession" /\ result = "ready" -> "use"
      [] c = "claimSession" /\ result = "miss"  -> "provision"
      [] c = "markPending"                      -> IF result = "ok"
                                                   THEN "markVerified"
                                                   ELSE "releaseSession"
      [] c = "markVerified"                     -> "releaseSession"
      [] OTHER                                  -> "none"
After(c, result) ==
    CASE c = "lookup" /\ result = "miss"        -> "claim"
      [] c = "claim" /\ result = "miss"         -> "build"
      [] c = "publish" /\ result # "ok"         -> "release"
      [] c = "claimSession" /\ result = "ready" -> "use"
      [] c = "claimSession" /\ result = "miss"  -> "provision"
      [] c = "markPending"                      -> IF result = "ok"
                                                   THEN "markVerified"
                                                   ELSE "releaseSession"
      [] c = "markVerified"                     -> "releaseSession"
      [] OTHER                                  -> "none"

\* Run r goes on with the call or work that follows the result.
Proceed(r, result) ==
    LET next == After(call[r], result)
    IN  /\ call' = [call EXCEPT ![r] = next]
        /\ pc' = [pc EXCEPT ![r] = IF next = "none" THEN "done"
                                   ELSE IF next \in Work THEN "work"
                                   ELSE "wait"]
        /\ abandoned' = IF call[r] \in Detached /\ result = "error"
                        THEN abandoned \cup {r} ELSE abandoned

\* The lock is given up by removing whatever directory is there.
Unlock(r) ==
    /\ pc[r] = "unlock"
    /\ Remove(r)
    /\ Proceed(r, outcome[r])
    /\ outcome' = [outcome EXCEPT ![r] = "none"]
    /\ UNCHANGED <<registry, file, seen, suspended>>

\* The directory cannot be removed: it stays behind, and the call reports an
\* error whatever it has done.
UnlockFails(r) ==
    /\ pc[r] = "unlock"
    /\ dir # "absent"
    /\ Mishaps < MaxMishaps
    /\ LET next == After(call[r], "error")
       IN  /\ call' = [call EXCEPT ![r] = next]
           /\ pc' = [pc EXCEPT ![r] = IF next = "none" THEN "done" ELSE "wait"]
    /\ abandoned' = IF call[r] \in Detached \/ Granted(call[r], outcome[r])
                    THEN abandoned \cup {r} ELSE abandoned
    /\ outcome' = [outcome EXCEPT ![r] = "none"]
    /\ suspended' = suspended + 1
    /\ UNCHANGED <<registry, file, dir, seen, maker, robbed>>

\* The caller is interrupted while it waits, or a detached release reaches
\* its own timeout, which is shorter than the age of a stale directory.
GiveUpWaiting(r) ==
    /\ pc[r] = "wait"
    /\ Proceed(r, "error")
    /\ UNCHANGED <<registry, file, dir, seen, outcome, maker, robbed, suspended>>

\* The build ends well, or fails; the work on a session ends, or also deletes
\* its stack; a provisioned stack is registered.
FinishWork(r) ==
    /\ pc[r] = "work"
    /\ \E c \in CASE call[r] = "build"     -> {"publish", "release"}
                  [] call[r] = "use"       -> {"releaseSession", "markPending"}
                  [] call[r] = "provision" -> {"put"} :
           call' = [call EXCEPT ![r] = c]
    /\ pc' = [pc EXCEPT ![r] = "wait"]
    /\ UNCHANGED <<registry, file, dir, seen, outcome, history>>

Crash(r) ==
    /\ pc[r] \notin {"done", "dead"}
    /\ Mishaps < MaxMishaps
    /\ pc' = [pc EXCEPT ![r] = "dead"]
    /\ call' = [call EXCEPT ![r] = "none"]
    /\ seen' = [seen EXCEPT ![r] = None]
    /\ outcome' = [outcome EXCEPT ![r] = "none"]
    /\ abandoned' = abandoned \cup {r}
    /\ UNCHANGED <<registry, file, dir, maker, robbed, suspended>>

RunStep(r) ==
    \/ MakeDirectory(r) \/ StatStale(r) \/ RemoveStale(r)
    \/ Load(r) \/ Store(r) \/ StoreUnconfirmed(r) \/ StoreFails(r)
    \/ Unlock(r) \/ FinishWork(r)

\* A run that has ended, or died, has nothing left to do.
Ended == /\ \A r \in Runs : pc[r] \in {"done", "dead"}
         /\ dir # "fresh"
         /\ UNCHANGED vars

Next ==
    \/ \E r \in Runs :
           RunStep(r) \/ UnlockFails(r) \/ GiveUpWaiting(r) \/ Crash(r)
    \/ Age
    \/ Ended

Spec == Init /\ [][Next]_vars

\* A process that has not died goes on, and time passes.  Nothing makes a
\* caller give up.
FairSpec ==
    /\ Spec
    /\ \A r \in Runs : WF_vars(RunStep(r))
    /\ WF_vars(Age)

-----------------------------------------------------------------------------
(***************************************************************************)
(* Properties.                                                             *)
(***************************************************************************)

\* The lock serializes the operations of a registry: two runs are inside
\* together only when one of them lost its directory to another run.
LockExclusive ==
    \A p, q \in Inside : p = q \/ {p, q} \cap robbed # {}

\* A directory is removed under its maker only after a run has died, has kept
\* the lock for longer than the stale age, or has left a directory behind that
\* it could not remove.
NoTheftWhileFresh ==
    robbed # {} => suspended > 0 \/ \E r \in Runs : pc[r] = "dead"

\* While no directory was lost, an artifact is built by one run at a time,
\* even when runs share a marker, and never built again once it is published.
Building == {r \in Runs : pc[r] = "work" /\ call[r] = "build"}
BuildOnce ==
    robbed = {} => \A p, q \in Building : p = q /\ file.record = None

\* While no directory was lost, a session is used by one run at a time, from
\* its claim until it is released or verified gone.
Using == {r \in Runs : call[r] \in {"use", "markPending", "markVerified"}}
SessionExclusive ==
    robbed = {} => \A p, q \in Using : p = q

\* A claim in the file belongs to a run that is on its way to release it, or
\* was left by one that died, failed to release it, or was told of an error
\* after the claim was written and so does not know of it.
ClaimIsBacked ==
    robbed = {} /\ file.claim # None =>
        \E r \in Runs :
            /\ file.claim = IF registry = "artifacts" THEN Marker[r] ELSE r
            /\ r \in abandoned \/ call[r] # "none"

\* A registered live stack is replaced by another one only after its record
\* says that it is gone, and a published artifact is never replaced.
Settled ==
    IF registry = "artifacts" THEN file.record # None
    ELSE Live(file)
Content == IF registry = "artifacts" THEN file.record ELSE file.stack
NoDuplicateWriter ==
    [][robbed = {} /\ Settled => Content' = Content]_vars

\* Whoever waits for a registry gets in, although a run may die with the lock
\* in its hands: the directory it leaves becomes stale and is taken over.
Waiting == {r \in Runs : pc[r] \in {"wait", "takeover"}}
WaiterGetsIn == Waiting # {} ~> Waiting = {}
=============================================================================
