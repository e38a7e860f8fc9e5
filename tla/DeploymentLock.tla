--------------------------- MODULE DeploymentLock ---------------------------
(***************************************************************************)
(* The deployment lock of one environment: the object                      *)
(* locks/<project>/<environment>.json in the state bucket, the lock        *)
(* managers that write and delete it (internal/cloud/aws/state/lock.go,    *)
(* providers/gcp/state/lock.go), and the release closures that the CLI     *)
(* obtains from each provider.                                             *)
(*                                                                         *)
(* A run is one CLI process that takes the lock at most once.  Every       *)
(* request to the object store is one step; Release and Unlock are two     *)
(* (an inspect, then a delete conditional on what was inspected), and      *)
(* anything may happen in between.  The lock has no lease, no renewal and  *)
(* no fencing token: only a delete frees it.                               *)
(***************************************************************************)
EXTENDS Naturals, FiniteSets

CONSTANTS
    Runs,       \* CLI processes that take the lock
    Operators,  \* processes running "magelift state unlock --yes"
    Owner,      \* Owner[r] is the owner string of r: host name and pid
    Command,    \* Command[r] \in Commands
    Providers,  \* the providers the environment may live on
    StaleOnly,  \* TRUE when operators only unlock a lock nobody uses
    NoLock      \* the lock object is absent

\* "deploy" releases under context.WithoutCancel; "destroy" and the "state"
\* backup and restore commands release with their own cancellable context.
Commands == {"deploy", "destroy", "state"}

\* "ecs": internal/cloud/aws/ops returns handle.Release, which honours the
\* context it is given.  "kube": EKS, Scaleway and OVH return a closure bound
\* to the context of the acquisition.  "plugin": the GKE provider process is
\* asked to state-unlock, which compares no owner.
AllProviders == {"ecs", "kube", "plugin"}

ASSUME ConstantsAssumption ==
    /\ Owner \in [Runs -> STRING]
    /\ Command \in [Runs -> Commands]
    /\ Providers \subseteq AllProviders
    /\ StaleOnly \in BOOLEAN
    /\ Runs \cap Operators = {}

Info == [owner : STRING, at : Nat]

ASSUME NoLockAssumption == NoLock \notin Info

VARIABLES
    provider,   \* the provider of the environment; never changes
    lock,       \* the lock object, NoLock when absent
    clock,      \* the last AcquiredAt handed out by the managers' clock
    pc,         \* where each run is in the protocol
    info,       \* the Info each run put in its lock object
    seen,       \* what the inspect of a run or an operator last returned
    opc,        \* where each operator is in Unlock
    cancelled,  \* runs whose command context was cancelled (SIGINT, SIGTERM)
    plugin,     \* runs whose provider process is still alive
    faulty,     \* history: runs whose release met a storage failure
    evicted     \* history: runs whose object a state unlock removed

vars == <<provider, lock, clock, pc, info, seen, opc, cancelled, plugin,
          faulty, evicted>>

PcValues == {"idle", "held", "releasing", "deleting", "done", "refused",
             "failed", "crashed"}

TypeOK ==
    /\ provider \in Providers
    /\ lock \in Info \cup {NoLock}
    /\ clock \in Nat
    /\ pc \in [Runs -> PcValues]
    /\ info \in [Runs -> Info \cup {NoLock}]
    /\ seen \in [Runs \cup Operators -> Info \cup {NoLock}]
    /\ opc \in [Operators -> {"idle", "deleting"}]
    /\ cancelled \subseteq Runs
    /\ plugin \subseteq Runs
    /\ faulty \subseteq Runs
    /\ evicted \subseteq Runs

Init ==
    /\ provider \in Providers
    /\ lock = NoLock
    /\ clock = 0
    /\ pc = [r \in Runs |-> "idle"]
    /\ info = [r \in Runs |-> NoLock]
    /\ seen = [p \in Runs \cup Operators |-> NoLock]
    /\ opc = [o \in Operators |-> "idle"]
    /\ cancelled = {}
    /\ plugin = Runs
    /\ faulty = {}
    /\ evicted = {}

-----------------------------------------------------------------------------
(***************************************************************************)
(* Who holds the lock.                                                     *)
(***************************************************************************)

\* The run believes it holds the lock: Acquire returned and its release
\* closure has not.
Active(r) == pc[r] \in {"held", "releasing", "deleting"}

\* The object in the bucket is the one r wrote.
Wrote(r) == lock # NoLock /\ lock = info[r]

\* Owner and AcquiredAt of the inspected object are those of the handle.
\* (Mutant: the owner alone is compared.)
SameOwnerByName(current, h) == current.owner = h.owner
SameOwner(current, h) == current.owner = h.owner /\ current.at = h.at

\* The delete carries the ETag or generation that the inspect returned.
\* (Mutant: a delete without a precondition.)
MatchesAny(p) == lock # NoLock
Matches(p) == lock # NoLock /\ lock = seen[p]

\* The context under which the release closure of r reaches the store.  The
\* kube closure ignores the context it is passed and uses the one Acquire
\* had; the plugin closure needs the provider process, which a cancelled call
\* kills.
\* (Mutant: the deploy's release inherits the cancelled context as well.)
ContextInherited(r) ==
    /\ r \notin cancelled
    /\ provider = "plugin" => r \in plugin
ContextLive(r) ==
    /\ r \in cancelled => Command[r] = "deploy" /\ provider # "kube"
    /\ provider = "plugin" => r \in plugin

-----------------------------------------------------------------------------
(***************************************************************************)
(* Acquire.                                                                *)
(***************************************************************************)

\* The Info marshalled by r: owner and the manager's clock.
\* (Mutant: a stamp from before the clock's origin.)
NewInfoEarly(r) == [owner |-> Owner[r], at |-> clock - 1]
NewInfo(r) == [owner |-> Owner[r], at |-> clock + 1]

\* The conditional put succeeds and the caller gets its handle.
Acquire(r) ==
    /\ pc[r] = "idle"
    /\ r \notin cancelled
    /\ lock = NoLock
    /\ lock' = NewInfo(r)
    /\ clock' = clock + 1
    /\ info' = [info EXCEPT ![r] = NewInfo(r)]
    /\ pc' = [pc EXCEPT ![r] = "held"]
    /\ UNCHANGED <<provider, seen, opc, cancelled, plugin, faulty, evicted>>

\* Somebody holds the lock: the put is refused and Acquire inspects the
\* object only to name its owner in ErrLocked.
AcquireLocked(r) ==
    /\ pc[r] = "idle"
    /\ r \notin cancelled
    /\ lock # NoLock
    /\ pc' = [pc EXCEPT ![r] = "refused"]
    /\ UNCHANGED <<provider, lock, clock, info, seen, opc, cancelled, plugin,
                   faulty, evicted>>

\* The put fails.  A put that was applied and whose answer was lost (or whose
\* retry then met the run's own object) is an error to the caller, which gets
\* no handle: the object stays behind.  A cancelled plugin call kills the
\* provider process.
AcquireFailed(r) ==
    /\ pc[r] = "idle"
    /\ \/ UNCHANGED <<lock, clock, info>>
       \/ /\ lock = NoLock
          /\ lock' = NewInfo(r)
          /\ clock' = clock + 1
          /\ info' = [info EXCEPT ![r] = NewInfo(r)]
    /\ pc' = [pc EXCEPT ![r] = "failed"]
    /\ plugin' = IF r \in cancelled THEN plugin \ {r} ELSE plugin
    /\ UNCHANGED <<provider, seen, opc, cancelled, faulty, evicted>>

-----------------------------------------------------------------------------
(***************************************************************************)
(* What happens to a run from outside.                                     *)
(***************************************************************************)

\* SIGINT or SIGTERM cancels the command context.
Cancel(r) ==
    /\ pc[r] = "idle" \/ Active(r)
    /\ r \notin cancelled
    /\ cancelled' = cancelled \cup {r}
    /\ UNCHANGED <<provider, lock, clock, pc, info, seen, opc, plugin, faulty,
                   evicted>>

\* A plugin call of the run's work sees the cancelled context, kills the
\* provider process and fails.  Nothing dials it again.
KillPlugin(r) ==
    /\ provider = "plugin"
    /\ pc[r] = "held"
    /\ r \in cancelled
    /\ r \in plugin
    /\ plugin' = plugin \ {r}
    /\ UNCHANGED <<provider, lock, clock, pc, info, seen, opc, cancelled,
                   faulty, evicted>>

\* The process dies without running its deferred functions.
Crash(r) ==
    /\ Active(r)
    /\ pc' = [pc EXCEPT ![r] = "crashed"]
    /\ UNCHANGED <<provider, lock, clock, info, seen, opc, cancelled, plugin,
                   faulty, evicted>>

-----------------------------------------------------------------------------
(***************************************************************************)
(* Release.                                                                *)
(***************************************************************************)

\* The work is over, well or badly, and the release closure is called.
BeginRelease(r) ==
    /\ pc[r] = "held"
    /\ pc' = [pc EXCEPT ![r] = "releasing"]
    /\ UNCHANGED <<provider, lock, clock, info, seen, opc, cancelled, plugin,
                   faulty, evicted>>

\* The object may be deleted by r: the handle checks owner and AcquiredAt,
\* the plugin's state-unlock deletes whatever it finds.
\* (Mutant: no release compares.)
OwnershipUnchecked(r) == TRUE
OwnershipHolds(r) == provider = "plugin" \/ SameOwner(lock, info[r])

\* Release reads the current object.  A missing object and a changed owner
\* end it: the first is ErrNotLocked, the second "ownership changed".
ReleaseInspect(r) ==
    /\ pc[r] = "releasing"
    /\ ContextLive(r)
    /\ IF lock # NoLock /\ OwnershipHolds(r)
       THEN /\ seen' = [seen EXCEPT ![r] = lock]
            /\ pc' = [pc EXCEPT ![r] = "deleting"]
       ELSE /\ pc' = [pc EXCEPT ![r] = "done"]
            /\ UNCHANGED seen
    /\ UNCHANGED <<provider, lock, clock, info, opc, cancelled, plugin, faulty,
                   evicted>>

\* The conditional delete, answered by the store: it removes the object it
\* names or fails its precondition.
ReleaseDelete(r) ==
    /\ pc[r] = "deleting"
    /\ ContextLive(r)
    /\ lock' = IF Matches(r) THEN NoLock ELSE lock
    /\ pc' = [pc EXCEPT ![r] = "done"]
    /\ UNCHANGED <<provider, clock, info, seen, opc, cancelled, plugin, faulty,
                   evicted>>

\* The store or the network fails either request, or the minute allowed for
\* the release runs out; a delete may still have been applied.
ReleaseFails(r) ==
    /\ pc[r] \in {"releasing", "deleting"}
    /\ ContextLive(r)
    /\ \/ UNCHANGED lock
       \/ pc[r] = "deleting" /\ Matches(r) /\ lock' = NoLock
    /\ pc' = [pc EXCEPT ![r] = "done"]
    /\ faulty' = faulty \cup {r}
    /\ UNCHANGED <<provider, clock, info, seen, opc, cancelled, plugin,
                   evicted>>

\* The request is never sent: its context is cancelled or the provider
\* process is gone.
ReleaseCancelled(r) ==
    /\ pc[r] \in {"releasing", "deleting"}
    /\ ~ContextLive(r)
    /\ pc' = [pc EXCEPT ![r] = "done"]
    /\ UNCHANGED <<provider, lock, clock, info, seen, opc, cancelled, plugin,
                   faulty, evicted>>

-----------------------------------------------------------------------------
(***************************************************************************)
(* magelift state unlock --yes.                                            *)
(***************************************************************************)

\* The operator has made sure that nobody uses the lock: its writer ended.
Stale == \A r \in Runs : Wrote(r) => ~Active(r)

UnlockInspect(o) ==
    /\ opc[o] = "idle"
    /\ lock # NoLock
    /\ StaleOnly => Stale
    /\ seen' = [seen EXCEPT ![o] = lock]
    /\ opc' = [opc EXCEPT ![o] = "deleting"]
    /\ UNCHANGED <<provider, lock, clock, pc, info, cancelled, plugin, faulty,
                   evicted>>

\* The delete of exactly the object that was inspected.
UnlockDelete(o) ==
    /\ opc[o] = "deleting"
    /\ lock' = IF Matches(o) THEN NoLock ELSE lock
    /\ evicted' = IF Matches(o) THEN evicted \cup {r \in Runs : Wrote(r)}
                                ELSE evicted
    /\ opc' = [opc EXCEPT ![o] = "idle"]
    /\ UNCHANGED <<provider, clock, pc, info, seen, cancelled, plugin, faulty>>

\* The delete fails or the operator's process is interrupted.
UnlockFails(o) ==
    /\ opc[o] = "deleting"
    /\ opc' = [opc EXCEPT ![o] = "idle"]
    /\ UNCHANGED <<provider, lock, clock, pc, info, seen, cancelled, plugin,
                   faulty, evicted>>

-----------------------------------------------------------------------------
RunStep(r) ==
    \/ Acquire(r)
    \/ AcquireLocked(r)
    \/ AcquireFailed(r)
    \/ BeginRelease(r)
    \/ ReleaseInspect(r)
    \/ ReleaseDelete(r)
    \/ ReleaseFails(r)
    \/ ReleaseCancelled(r)

OperatorStep(o) == UnlockInspect(o) \/ UnlockDelete(o) \/ UnlockFails(o)

Next ==
    \/ \E r \in Runs : RunStep(r) \/ Cancel(r) \/ KillPlugin(r) \/ Crash(r)
    \/ \E o \in Operators : OperatorStep(o)

Spec == Init /\ [][Next]_vars

-----------------------------------------------------------------------------
(***************************************************************************)
(* Properties.                                                             *)
(***************************************************************************)

\* At most one run works on the environment at a time, whatever crashes,
\* lost answers, failed releases and concurrent unlocks happen, unless an
\* operator removed the lock from under a run: Acquire's put-if-absent and
\* the two conditional deletes (lock.go) together give mutual exclusion.
MutualExclusion ==
    \A r, s \in Runs :
        (Active(r) /\ Active(s) /\ r \notin evicted /\ s \notin evicted) => r = s

\* The lock object of a run disappears only by that run's own release or by
\* a state unlock, and no step replaces one object by another: a release
\* never frees a successor's lock (Handle.Release, lock.go).
OnlyWriterRemoves ==
    [][lock # NoLock /\ lock' # lock =>
          /\ lock' = NoLock
          /\ \A r \in Runs : lock = info[r] =>
                \/ pc[r] = "deleting" /\ pc'[r] = "done"
                \/ r \in evicted']_vars

\* A deploy whose release met no storage failure has freed its lock when it
\* ends, also after a cancellation: the orchestrator "always releases the
\* lock".
DeployFreesLock ==
    \A r \in Runs :
        (pc[r] = "done" /\ Command[r] = "deploy" /\ r \notin faulty)
            => ~Wrote(r)

\* When operators only clear stale locks, the lock implements LockLease on
\* every provider: inside are the runs that believe they hold the lock, left
\* is an object whose writer is gone.
Lease == INSTANCE LockLease WITH
    inside <- {r \in Runs : Active(r)},
    left <- lock # NoLock /\ Stale,
    used <- {r \in Runs : pc[r] # "idle"}

ImplementsLease == Lease!Spec
=============================================================================
