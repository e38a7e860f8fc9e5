------------------------------ MODULE Schedule ------------------------------
(***************************************************************************)
(* What BuildSchedule computes (internal/certification/scheduler.go): from *)
(* a matrix of certification cells and the cells that have passed already, *)
(* the execution units, their dependencies and the batches in which they   *)
(* run.                                                                    *)
(*                                                                         *)
(* A matrix gives each cell a scope (ownership marker and warm boundary),  *)
(* a fingerprint, mutation keys, dependencies, the cell whose stack it     *)
(* warms from, and whether it can run.  A unit is the set of its cells: the*)
(* cells of one scope and fingerprint that start from nothing together, or *)
(* one warm transition.                                                    *)
(***************************************************************************)
EXTENDS Naturals, Sequences, FiniteSets

CONSTANTS
    CellOrder,    \* the cells, in the order they are listed
    Keys,         \* mutation keys
    Quota,        \* the quota of each constrained key
    MaxParallel,  \* units in a batch
    None          \* no cell

Cells == {CellOrder[i] : i \in DOMAIN CellOrder}

ASSUME ScheduleAssumption ==
    /\ CellOrder \in Seq(Cells) \ {<<>>} /\ Cardinality(Cells) = Len(CellOrder)
    /\ None \notin Cells
    /\ MaxParallel \in Nat \ {0}
    /\ \A k \in DOMAIN Quota : k \in Keys /\ Quota[k] \in Nat

Position(c) == CHOOSE i \in DOMAIN CellOrder : CellOrder[i] = c

Identity(m, c) == <<m[c].scope, m[c].fingerprint>>

\* validateScheduleCells.
WarmTransitionsSound(m) ==
    \A c \in Cells : m[c].warmFrom # None =>
        /\ m[c].warmFrom \in Cells \ {c}
        /\ m[m[c].warmFrom].scope = m[c].scope
        /\ m[m[c].warmFrom].fingerprint # m[c].fingerprint

\* Cells of one scope repeat the first one listed, or are warm transitions.
FirstOfScope(m, c) ==
    \A e \in Cells : m[e].scope = m[c].scope => Position(c) <= Position(e)
ScopesSound(m) ==
    \A c, d \in Cells :
        FirstOfScope(m, c) /\ m[c].scope = m[d].scope =>
            m[d].warmFrom # None \/ Identity(m, d) = Identity(m, c)

\* Only declared dependencies are searched for a cycle: a set of cells each
\* of which waits for another one of the set.
DependencyCycle(m) ==
    \E S \in SUBSET Cells \ {{}} : \A c \in S : m[c].dependencies \cap S # {}

ValidCells(m) ==
    /\ \A c \in Cells : m[c].keys # {} /\ m[c].dependencies \subseteq Cells \ {c}
    /\ WarmTransitionsSound(m)
    /\ ScopesSound(m)
    /\ ~DependencyCycle(m)

-----------------------------------------------------------------------------
\* (Mutant: a cell that has passed is run again.)
ScheduledAgain(m, completed) == {c \in Cells : m[c].runnable}
Scheduled(m, completed) == {c \in Cells \ completed : m[c].runnable}

\* The unit of a scheduled cell.
UnitOf(m, completed, c) ==
    IF m[c].warmFrom # None THEN {c}
    ELSE {d \in Scheduled(m, completed) :
              m[d].warmFrom = None /\ Identity(m, d) = Identity(m, c)}

MakeExecutionUnits(m, completed) ==
    {UnitOf(m, completed, c) : c \in Scheduled(m, completed)}

\* A unit takes the keys of its cells, and those of the completed baseline it
\* goes on from: the last one listed.
Baselines(m, completed, u) ==
    {d \in completed : /\ m[d].runnable /\ m[d].warmFrom = None
                       /\ \E c \in u : /\ m[c].warmFrom = None
                                       /\ Identity(m, c) = Identity(m, d)}
MutationKeys(m, completed, u) ==
    UNION {m[c].keys : c \in u} \cup
    UNION {m[d].keys : d \in {b \in Baselines(m, completed, u) :
               \A e \in Baselines(m, completed, u) : Position(e) <= Position(b)}}

DependsOn(m, completed, u) ==
    {v \in MakeExecutionUnits(m, completed) \ {u} :
        \E c \in u : \/ (m[c].dependencies \ completed) \cap v # {}
                     \/ m[c].warmFrom \in v}

\* A cell that waits for one that neither passed nor runs cannot be planned.
Schedulable(m, completed) ==
    \A c \in Scheduled(m, completed) :
        (m[c].dependencies \cup ({m[c].warmFrom} \ {None}))
            \subseteq completed \cup Scheduled(m, completed)

-----------------------------------------------------------------------------
\* makeBatches.  order ranks the units by their identifiers, which are hashes:
\* it is a listing of the cells, and a unit comes where its first cell comes.

\* Quotas count the units of a batch that use a key.
ExceedsQuota(keys, batchKeys) ==
    \E k \in keys \cap DOMAIN Quota :
        (IF k \in batchKeys THEN 2 ELSE 1) > Quota[k]

\* Units whose dependencies are in earlier batches, or complete.
Ready(m, completed, remaining) ==
    {u \in remaining : DependsOn(m, completed, u) \cap remaining = {}}

KeysOf(m, completed, units) == UNION {MutationKeys(m, completed, u) : u \in units}

\* There is room in the batch and no unit in it shares a key with u.
Admits(m, completed, batch, u) ==
    /\ Cardinality(batch) < MaxParallel
    /\ MutationKeys(m, completed, u) \cap KeysOf(m, completed, batch) = {}
    /\ ~ExceedsQuota(MutationKeys(m, completed, u), KeysOf(m, completed, batch))

\* The batch after i positions of the order: the ready units are taken as
\* they come, each if the batch admits it.
Picked(m, completed, order, remaining) ==
    LET ready == Ready(m, completed, remaining)
        pick[i \in 0..Len(order)] ==
            IF i = 0 THEN {}
            ELSE pick[i - 1] \cup
                 {u \in ready \ pick[i - 1] :
                      order[i] \in u /\ Admits(m, completed, pick[i - 1], u)}
    IN  pick

\* (Mutant: shared keys are not looked at.)
NextBatchOfReady(m, completed, order, remaining) ==
    LET ready == Ready(m, completed, remaining)
        pick[i \in 0..Len(order)] ==
            IF i = 0 THEN {}
            ELSE LET u == {v \in ready : order[i] \in v} \ pick[i - 1]
                 IN  IF Cardinality(pick[i - 1]) < MaxParallel
                     THEN pick[i - 1] \cup u ELSE pick[i - 1]
    IN  pick[Len(order)]
NextBatch(m, completed, order, remaining) ==
    Picked(m, completed, order, remaining)[Len(order)]

\* What is left after i batches; no unit takes part in two.
Remaining(m, completed, order) ==
    LET units == MakeExecutionUnits(m, completed)
        left[i \in 0..Cardinality(units)] ==
            IF i = 0 THEN units
            ELSE left[i - 1] \ NextBatch(m, completed, order, left[i - 1])
    IN  left

\* A batch that takes nothing ends it all.
MakeBatches(m, completed, order) ==
    LET n == Cardinality(MakeExecutionUnits(m, completed))
        left == Remaining(m, completed, order)
        rounds == {i \in 1..n : left[i - 1] # {}}
    IN  [ok |-> left[n] = {},
         batches |-> [i \in 1..Cardinality(rounds) |->
                          NextBatch(m, completed, order, left[i - 1])]]

\* A plan, or a refusal.
BuildSchedule(m, completed, order) ==
    LET made == MakeBatches(m, completed, order)
    IN  IF ValidCells(m) /\ Schedulable(m, completed)
        THEN made ELSE [ok |-> FALSE, batches |-> <<>>]

-----------------------------------------------------------------------------
\* validateExecutionSchedule, the check ExecuteSchedule makes of a plan: every
\* unit in one batch, no key twice in a batch, dependencies in earlier ones.
ValidSchedule(m, completed, batches) ==
    LET In(u, i) == u \in batches[i]
    IN  /\ UNION {batches[i] : i \in DOMAIN batches}
               = MakeExecutionUnits(m, completed)
        /\ \A i, j \in DOMAIN batches : \A u \in batches[i] :
               In(u, j) => i = j
        /\ \A i \in DOMAIN batches : \A u, v \in batches[i] :
               u # v => MutationKeys(m, completed, u)
                            \cap MutationKeys(m, completed, v) = {}
        /\ \A i \in DOMAIN batches : \A u \in batches[i] :
               \A v \in DependsOn(m, completed, u) :
                   \E j \in 1..(i - 1) : In(v, j)
=============================================================================
