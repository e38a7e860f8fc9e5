-------------------------- MODULE CertificationRun --------------------------
(***************************************************************************)
(* A certification run: a plan is built from the checkpoints that earlier  *)
(* attempts left, and executed batch by batch, its units concurrently      *)
(* (internal/certification: BuildSchedule and ExecuteSchedule).  Every unit*)
(* reserves local capacity, marks its cells in progress, calls the         *)
(* provider, and records how it ended.  Other schedules of the same process*)
(* compete for the capacity.  The process may be cancelled or die at any   *)
(* step; the next attempt goes on from the checkpoint file.                *)
(***************************************************************************)
EXTENDS Schedule, LocalCapacity

CONSTANTS
    Matrices,     \* the matrices to certify
    Orders,       \* the orders in which the identifiers of units may fall
    Others,       \* clients of the capacity that belong to other schedules
    MaxAttempts   \* bound: attempts

ASSUME RunAssumption ==
    /\ \A m \in Matrices : DOMAIN m = Cells
    /\ Orders \subseteq Seq(Cells)
    /\ Clients = (SUBSET Cells) \cup Others
    /\ \A o \in Others : \A S \in SUBSET Cells : o # S
    /\ MaxAttempts \in Nat

VARIABLES
    matrix,      \* the matrix of this run
    checkpoint,  \* the recorded status of each cell
    phase,       \* what the process does
    attempts,    \* attempts so far
    batches,     \* the batches that have not begun
    unit,        \* where each unit of the current batch is
    cancelled,   \* the context of the attempt is cancelled
    completed,   \* the cells that had passed when the plan was made
    ask,         \* where each client of another schedule is
    touched      \* history: cells the provider has been called for

runVars == <<phase, attempts, batches, unit, cancelled, completed>>
vars == <<matrix, checkpoint, runVars, ask, capacityVars, touched>>

NoUnits == [u \in {} |-> ""]
UnitStates == {"new", "queued", "leased", "marked", "executing", "passed",
               "failed", "ok", "error"}

TypeOK ==
    /\ DOMAIN matrix = Cells
    /\ checkpoint \in [Cells -> {"none", "IN_PROGRESS", "PASS", "FAIL"}]
    /\ phase \in {"idle", "running", "batch"}
    /\ attempts \in 0..MaxAttempts
    /\ \A i \in DOMAIN batches : batches[i] \subseteq SUBSET Cells
    /\ DOMAIN unit \subseteq SUBSET Cells
    /\ \A u \in DOMAIN unit : unit[u] \in UnitStates
    /\ cancelled \in BOOLEAN
    /\ completed \subseteq Cells
    /\ ask \in [Others -> {"none", "queued", "leased"}]
    /\ touched \subseteq Cells
    /\ granted \cup leased \subseteq DOMAIN unit \cup Others

\* What an earlier run, of a matrix with fewer cells, may have certified.
Certified(m) ==
    {S \in SUBSET Cells : \A c \in S :
         /\ m[c].runnable
         /\ m[c].dependencies \cup ({m[c].warmFrom} \ {None}) \subseteq S}

Init ==
    /\ matrix \in Matrices
    /\ \E S \in Certified(matrix) :
           /\ checkpoint = [c \in Cells |-> IF c \in S THEN "PASS" ELSE "none"]
           /\ touched = S
    /\ phase = "idle" /\ attempts = 0
    /\ batches = <<>> /\ unit = NoUnits
    /\ cancelled = FALSE
    /\ completed = {}
    /\ ask = [o \in Others |-> "none"]
    /\ CapacityInit

-----------------------------------------------------------------------------
Passed == {c \in Cells : checkpoint[c] = "PASS"}

\* An attempt: a plan for what has not passed.  Admission, the budget or an
\* unresolved deletion may refuse it, as may the matrix itself.
Plan ==
    /\ phase = "idle"
    /\ attempts < MaxAttempts
    /\ attempts' = attempts + 1
    /\ cancelled' = FALSE
    /\ \E order \in Orders :
           LET plan == BuildSchedule(matrix, Passed, order)
           IN  /\ plan.ok
               /\ phase' = "running"
               /\ batches' = plan.batches
               /\ completed' = Passed
    /\ UNCHANGED <<matrix, checkpoint, unit, ask, capacityVars, touched>>

PlanRefused ==
    /\ phase = "idle"
    /\ attempts < MaxAttempts
    /\ attempts' = attempts + 1
    /\ UNCHANGED <<matrix, checkpoint, phase, batches, unit, cancelled,
                   completed, ask, capacityVars, touched>>

\* A unit for every member of the next batch.
StartBatch ==
    /\ phase = "running"
    /\ batches # <<>> /\ ~cancelled
    /\ phase' = "batch"
    /\ unit' = [u \in Head(batches) |-> "new"]
    /\ batches' = Tail(batches)
    /\ UNCHANGED <<matrix, checkpoint, attempts, cancelled, completed, ask,
                   capacityVars, touched>>

\* All units have returned: on with the next batch, or, after an error, no
\* further.
\* (Mutant: a failed unit does not stop the run.)
EndBatchRegardless ==
    /\ phase = "batch"
    /\ \A u \in DOMAIN unit : unit[u] \in {"ok", "error"}
    /\ phase' = "running"
    /\ unit' = NoUnits
    /\ UNCHANGED <<matrix, checkpoint, attempts, batches, cancelled, completed,
                   ask, capacityVars, touched>>
EndBatch ==
    /\ phase = "batch"
    /\ \A u \in DOMAIN unit : unit[u] \in {"ok", "error"}
    /\ \/ /\ \A u \in DOMAIN unit : unit[u] = "ok"
          /\ phase' = "running"
          /\ UNCHANGED batches
       \/ /\ \E u \in DOMAIN unit : unit[u] = "error"
          /\ phase' = "idle"
          /\ batches' = <<>>
    /\ unit' = NoUnits
    /\ UNCHANGED <<matrix, checkpoint, attempts, cancelled, completed, ask,
                   capacityVars, touched>>

EndSchedule ==
    /\ phase = "running"
    /\ batches = <<>> \/ cancelled
    /\ phase' = "idle"
    /\ batches' = <<>>
    /\ UNCHANGED <<matrix, checkpoint, attempts, unit, cancelled, completed,
                   ask, capacityVars, touched>>

Cancel ==
    /\ phase # "idle" /\ ~cancelled
    /\ cancelled' = TRUE
    /\ UNCHANGED <<matrix, checkpoint, phase, attempts, batches, unit,
                   completed, ask, capacityVars, touched>>

-----------------------------------------------------------------------------
\* Unit u is at state from and goes to state to.
Moves(u, from, to) ==
    /\ unit[u] = from
    /\ unit' = [unit EXCEPT ![u] = to]
    /\ UNCHANGED <<matrix, phase, attempts, batches, cancelled, completed, ask>>

\* A context that is cancelled, or a request beyond the host, is an error
\* before anything is reserved.
AcquireFails(u) ==
    /\ Moves(u, "new", "error")
    /\ cancelled \/ ~Fits(Request(u), Capacity)
    /\ UNCHANGED <<checkpoint, capacityVars, touched>>

Acquire(u) ==
    /\ ~cancelled
    /\ \/ Moves(u, "new", "leased") /\ AcquireAtOnce(u)
       \/ Moves(u, "new", "queued") /\ Enqueue(u)
    /\ UNCHANGED <<checkpoint, touched>>

\* Both the grant and the cancellation may be there: either may win.
Granted(u) ==
    /\ Moves(u, "queued", "leased")
    /\ TakeGrant(u)
    /\ UNCHANGED <<checkpoint, touched>>

WaitCancelled(u) ==
    /\ cancelled
    /\ Moves(u, "queued", "error")
    /\ CancelWait(u)
    /\ UNCHANGED <<checkpoint, touched>>

\* The checkpoints of all cells of a unit are written together.
Record(u, status) ==
    checkpoint' = [c \in Cells |-> IF c \in u THEN status ELSE checkpoint[c]]

\* The cells are marked before the provider is called; with no mark there is
\* no call.
\* (Mutant: the mark is written after the call.)
CallUnmarked(u) ==
    /\ ~cancelled
    /\ Moves(u, "leased", "marked")
    /\ UNCHANGED <<checkpoint, capacityVars, touched>>
MarkInProgress(u) ==
    /\ ~cancelled
    /\ Moves(u, "leased", "marked")
    /\ Record(u, "IN_PROGRESS")
    /\ UNCHANGED <<capacityVars, touched>>

MarkFails(u) ==
    /\ Moves(u, "leased", "failed")
    /\ UNCHANGED <<checkpoint, capacityVars, touched>>

Execute(u) ==
    /\ Moves(u, "marked", "executing")
    /\ touched' = touched \cup u
    /\ UNCHANGED <<checkpoint, capacityVars>>

\* The provider reports, and the result is recorded under a context that
\* outlives a cancellation.  A result that cannot be recorded is an error.
ExecuteEnds(u) ==
    /\ \/ Moves(u, "executing", "passed") /\ Record(u, "PASS")
       \/ Moves(u, "executing", "failed") /\ Record(u, "FAIL")
       \/ Moves(u, "executing", "failed") /\ UNCHANGED checkpoint
    /\ UNCHANGED <<capacityVars, touched>>

\* The lease goes back on every way out.
\* (Mutant: only after a pass.)
ReturnUnitLeaking(u) ==
    /\ \/ Moves(u, "passed", "ok") /\ Release(u)
       \/ Moves(u, "failed", "error") /\ UNCHANGED capacityVars
    /\ UNCHANGED <<checkpoint, touched>>
ReturnUnit(u) ==
    /\ Moves(u, "passed", "ok") \/ Moves(u, "failed", "error")
    /\ Release(u)
    /\ UNCHANGED <<checkpoint, touched>>

UnitStep(u) ==
    \/ AcquireFails(u) \/ Acquire(u) \/ Granted(u) \/ WaitCancelled(u)
    \/ MarkInProgress(u) \/ MarkFails(u) \/ Execute(u) \/ ExecuteEnds(u)
    \/ ReturnUnit(u)

-----------------------------------------------------------------------------
\* A unit of another schedule in the same process: it reserves, works and
\* releases, or is cancelled while it waits.
OtherMoves(o, from, to) ==
    /\ ask[o] = from
    /\ ask' = [ask EXCEPT ![o] = to]
    /\ UNCHANGED <<matrix, checkpoint, runVars, touched>>

OtherAcquires(o) ==
    \/ OtherMoves(o, "none", "leased") /\ AcquireAtOnce(o)
    \/ OtherMoves(o, "none", "queued") /\ Enqueue(o)
OtherGranted(o) == OtherMoves(o, "queued", "leased") /\ TakeGrant(o)
OtherCancelled(o) == OtherMoves(o, "queued", "none") /\ CancelWait(o)
OtherReleases(o) == OtherMoves(o, "leased", "none") /\ Release(o)

OtherEnds(o) == OtherGranted(o) \/ OtherReleases(o)

\* The process dies: only the checkpoint file is left.
Crash ==
    /\ phase # "idle"
    /\ phase' = "idle"
    /\ batches' = <<>> /\ unit' = NoUnits
    /\ ask' = [o \in Others |-> "none"]
    /\ available' = Capacity /\ waiters' = <<>>
    /\ granted' = {} /\ leased' = {}
    /\ UNCHANGED <<matrix, checkpoint, attempts, cancelled, completed, touched>>

RunStep ==
    \/ StartBatch \/ EndBatch \/ EndSchedule

Next ==
    \/ Plan \/ PlanRefused \/ Cancel \/ Crash \/ RunStep
    \/ \E u \in DOMAIN unit : UnitStep(u)
    \/ \E o \in Others : OtherAcquires(o) \/ OtherCancelled(o) \/ OtherEnds(o)

Spec == Init /\ [][Next]_vars

\* Every goroutine that can go on does, the provider answers, and the units
\* of other schedules end.  Nothing makes anyone plan, cancel or reserve.
FairSpec ==
    /\ Spec
    /\ WF_vars(RunStep)
    /\ \A u \in SUBSET Cells : WF_vars(u \in DOMAIN unit /\ UnitStep(u))
    /\ \A o \in Others : WF_vars(OtherEnds(o))

-----------------------------------------------------------------------------
(***************************************************************************)
(* Properties.                                                             *)
(***************************************************************************)

\* A plan always passes the check that ExecuteSchedule makes of it, whatever
\* has passed before: the run never fails on its own plan.  (Until its first
\* batch ends well, nothing more has passed than when the plan was made.)
PlanIsValid ==
    phase = "running" /\ completed = Passed =>
        ValidSchedule(matrix, completed, batches)

Active == {u \in DOMAIN unit : unit[u] \in {"marked", "executing"}}

\* Whatever attempts failed or died before, the provider is called for a cell
\* only when the cells it depends on, and the one it warms from, have a
\* recorded pass, or are cells of the same unit.
DependenciesPassed ==
    \A u \in Active : \A c \in u :
        (matrix[c].dependencies \cup ({matrix[c].warmFrom} \ {None}))
            \subseteq Passed \cup u

\* The checkpoint file always tells that the provider was called for a cell,
\* so that the next attempt need not guess whether a mutation started.
NoSilentMutation == \A c \in touched : checkpoint[c] # "none"

\* A recorded pass is never taken back: no attempt runs its cell again, alone
\* or in a unit with cells that have not passed.
PassIsKept ==
    [][\A c \in Passed : checkpoint'[c] = "PASS"]_vars

\* An attempt ends: no unit waits for ever for capacity, although units fail,
\* are cancelled while they wait, or find others before them in the queue.
AttemptEnds == phase # "idle" ~> phase = "idle"
=============================================================================
