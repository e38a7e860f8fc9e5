--------------------------- MODULE Schedule_proofs ---------------------------
(***************************************************************************)
(* What BuildSchedule returns, for every matrix, whatever has passed and   *)
(* in whatever order the identifiers of the units fall: a plan that passes *)
(* the check of ExecuteSchedule.                                           *)
(*                                                                         *)
(* The functions that describe the two loops of makeBatches are recursive. *)
(* That they exist is shown once (Iteration); what holds of them at every  *)
(* position is shown by looking at the first position where it would not   *)
(* (LeastIn).                                                              *)
(***************************************************************************)
EXTENDS Schedule, FiniteSetTheorems, WellFoundedInduction, TLAPS

-----------------------------------------------------------------------------
(***************************************************************************)
(* Recursion over positions.                                               *)
(***************************************************************************)

\* A set of numbers has a least one.
LEMMA LeastIn ==
    ASSUME NEW S, S \subseteq Nat, S # {}
    PROVE  \E k \in S : \A j \in S : k <= j
<1>1. PICK k \in S : \A j \in S : ~(<<j, k>> \in OpToRel(<, Nat))
  BY NatLessThanWellFounded, WFMin, Zenon
<1>2. \A j \in S : ~(j < k)
  BY <1>1 DEF OpToRel
<1>. QED
  BY <1>2

\* h has a first value, and a value for every position from the one before.
Iterates(h, n, a, g) ==
    h[0] = a /\ \A i \in 1 .. n : h[i] = g[<<h[i - 1], i>>]

\* A function that is given by its first value and a step exists.
LEMMA Iteration ==
    ASSUME NEW n \in Nat, NEW S, NEW a \in S, NEW g \in [S \X (1 .. n) -> S]
    PROVE  \E h \in [0 .. n -> S] : Iterates(h, n, a, g)
<1>. USE DEF Iterates
<1>. DEFINE Good(k) == \E h \in [0 .. k -> S] : Iterates(h, k, a, g)
            Bad == {k \in 0 .. n : ~Good(k)}
<1>1. SUFFICES Bad = {}
  <2>1. n \in 0 .. n
    OBVIOUS
  <2>2. Good(n)
    BY <1>1, <2>1
  <2>. QED
    BY <2>2
<1>2. SUFFICES ASSUME Bad # {} PROVE FALSE
  OBVIOUS
<1>3. PICK k \in Bad : \A j \in Bad : k <= j
  <2>1. Bad \subseteq Nat
    OBVIOUS
  <2>. QED
    BY <1>2, <2>1, LeastIn
<1>. HIDE DEF Bad
<1>4. k \in 0 .. n /\ ~Good(k)
  BY DEF Bad
<1>5. CASE k = 0
  <2>1. [i \in 0 .. 0 |-> a] \in [0 .. 0 -> S]
    OBVIOUS
  <2>2. [i \in 0 .. 0 |-> a][0] = a
    OBVIOUS
  <2>3. 1 .. 0 = {}
    OBVIOUS
  <2>. QED
    BY <1>4, <1>5, <2>1, <2>2, <2>3
<1>6. CASE k # 0
  <2>1. k - 1 \in 0 .. n /\ ~(k <= k - 1)
    BY <1>4, <1>6
  <2>2. Good(k - 1)
    BY <1>3, <2>1 DEF Bad
  <2>3. PICK h \in [0 .. (k - 1) -> S] :
            /\ h[0] = a
            /\ \A i \in 1 .. (k - 1) : h[i] = g[<<h[i - 1], i>>]
    BY <2>2
  <2>. DEFINE f == [i \in 0 .. k |-> IF i < k THEN h[i] ELSE g[<<h[k - 1], k>>]]
  <2>4. h[k - 1] \in S /\ k \in 1 .. n
    BY <1>4, <1>6, <2>1, <2>3
  <2>5. g[<<h[k - 1], k>>] \in S
    BY <2>4
  <2>6. f \in [0 .. k -> S]
    <3>1. ASSUME NEW i \in 0 .. k PROVE f[i] \in S
      BY <1>4, <2>3, <2>5
    <3>. QED
      BY <3>1
  <2>7. f[0] = a
    BY <1>4, <1>6, <2>3
  <2>8. ASSUME NEW i \in 1 .. k PROVE f[i] = g[<<f[i - 1], i>>]
    <3>1. f[i - 1] = h[i - 1]
      BY <1>4
    <3>2. CASE i < k
      <4>1. f[i] = h[i] /\ i \in 1 .. (k - 1)
        BY <1>4, <3>2
      <4>. QED
        BY <2>3, <3>1, <4>1
    <3>3. CASE i = k
      <4>1. f[i] = g[<<h[k - 1], k>>]
        BY <1>4, <3>3
      <4>. QED
        BY <3>1, <3>3, <4>1
    <3>. QED
      BY <1>4, <3>2, <3>3
  <2>. QED
    BY <1>4, <2>6, <2>7, <2>8
<1>. QED
  BY <1>5, <1>6

\* The first loop of makeBatches: a batch grows by ready units.
LEMMA PickedStep ==
    ASSUME NEW m, NEW completed, NEW order, NEW remaining, Len(order) \in Nat
    PROVE  LET ready == Ready(m, completed, remaining)
               pick  == Picked(m, completed, order, remaining)
           IN  /\ pick[0] = {}
               /\ \A i \in 1 .. Len(order) :
                     pick[i] = pick[i - 1] \cup
                         {u \in ready \ pick[i - 1] :
                             /\ order[i] \in u
                             /\ Admits(m, completed, pick[i - 1], u)}
<1>. DEFINE n     == Len(order)
            ready == Ready(m, completed, remaining)
            More(p, i) == p \cup
                {u \in ready \ p : order[i] \in u /\ Admits(m, completed, p, u)}
            g     == [x \in (SUBSET ready) \X (1 .. n) |-> More(x[1], x[2])]
            pick  == Picked(m, completed, order, remaining)
<1>1. g \in [(SUBSET ready) \X (1 .. n) -> SUBSET ready]
  <2>1. ASSUME NEW x \in (SUBSET ready) \X (1 .. n)
        PROVE  More(x[1], x[2]) \in SUBSET ready
    OBVIOUS
  <2>. QED
    BY <2>1
<1>2. PICK h \in [0 .. n -> SUBSET ready] :
          h[0] = {} /\ \A i \in 1 .. n : h[i] = g[<<h[i - 1], i>>]
  <2>. DEFINE S == SUBSET ready
  <2>1. {} \in S /\ n \in Nat /\ g \in [S \X (1 .. n) -> S]
    BY <1>1
  <2>. HIDE DEF g, S, n
  <2>2. \E h \in [0 .. n -> S] : Iterates(h, n, {}, g)
    BY <2>1, Iteration
  <2>. QED
    BY <2>2 DEF S, Iterates
<1>3. h = [i \in 0 .. n |-> IF i = 0 THEN {} ELSE More(h[i - 1], i)]
  <2>1. ASSUME NEW i \in 1 .. n PROVE h[i] = More(h[i - 1], i)
    <3>1. h[i - 1] \in SUBSET ready
      BY <1>2
    <3>2. g[<<h[i - 1], i>>] = More(h[i - 1], i)
      BY <3>1
    <3>. QED
      BY <1>2, <3>2
  <2>2. \A i \in 0 .. n : h[i] = IF i = 0 THEN {} ELSE More(h[i - 1], i)
    BY <1>2, <2>1
  <2>3. h = [i \in 0 .. n |-> h[i]]
    BY <1>2
  <2>. HIDE DEF More
  <2>. QED
    BY <2>2, <2>3
<1>4. pick = CHOOSE f : f = [i \in 0 .. n |-> IF i = 0 THEN {}
                                              ELSE More(f[i - 1], i)]
  BY DEF Picked
<1>5. pick = [i \in 0 .. n |-> IF i = 0 THEN {} ELSE More(pick[i - 1], i)]
  <2>. HIDE DEF More, pick
  <2>. QED
    BY <1>3, <1>4
<1>6. pick[0] = {} /\ \A i \in 1 .. n : pick[i] = More(pick[i - 1], i)
  <2>1. n \in Nat
    OBVIOUS
  <2>. HIDE DEF More, pick, n
  <2>2. ASSUME NEW i \in 0 .. n
        PROVE  pick[i] = IF i = 0 THEN {} ELSE More(pick[i - 1], i)
    BY <1>5
  <2>. QED
    BY <2>1, <2>2
<1>. QED
  BY <1>6
-----------------------------------------------------------------------------
(***************************************************************************)
(* Units.                                                                  *)
(***************************************************************************)

\* A unit consists of cells to be scheduled, and it is the unit of each.
LEMMA UnitCells ==
    ASSUME NEW m, NEW completed, NEW u \in MakeExecutionUnits(m, completed)
    PROVE  /\ u \subseteq Scheduled(m, completed) /\ u # {}
           /\ \A c \in u : UnitOf(m, completed, c) = u
<1>1. PICK c \in Scheduled(m, completed) : u = UnitOf(m, completed, c)
  BY DEF MakeExecutionUnits
<1>2. CASE m[c].warmFrom # None
  BY <1>1, <1>2 DEF UnitOf
<1>3. CASE m[c].warmFrom = None
  <2>1. u = {d \in Scheduled(m, completed) :
                 m[d].warmFrom = None /\ Identity(m, d) = Identity(m, c)}
    BY <1>1, <1>3 DEF UnitOf
  <2>2. c \in u
    BY <1>1, <1>3, <2>1
  <2>3. ASSUME NEW d \in u PROVE UnitOf(m, completed, d) = u
    <3>1. m[d].warmFrom = None /\ Identity(m, d) = Identity(m, c)
      BY <2>1
    <3>2. UnitOf(m, completed, d) =
             {e \in Scheduled(m, completed) :
                 m[e].warmFrom = None /\ Identity(m, e) = Identity(m, d)}
      BY <3>1 DEF UnitOf
    <3>. QED
      BY <2>1, <3>1, <3>2
  <2>. QED
    BY <2>1, <2>2, <2>3
<1>. QED
  BY <1>2, <1>3

\* Units do not share cells.
LEMMA UnitsDisjoint ==
    ASSUME NEW m, NEW completed, NEW u \in MakeExecutionUnits(m, completed),
           NEW v \in MakeExecutionUnits(m, completed), u \cap v # {}
    PROVE  u = v
BY UnitCells

\* A scheduled cell is in its unit.
LEMMA UnitOfCell ==
    ASSUME NEW m, NEW completed, NEW c \in Scheduled(m, completed)
    PROVE  /\ c \in UnitOf(m, completed, c)
           /\ UnitOf(m, completed, c) \in MakeExecutionUnits(m, completed)
BY DEF UnitOf, MakeExecutionUnits

\* There are finitely many.
LEMMA UnitsFinite ==
    ASSUME NEW m, NEW completed
    PROVE  /\ MakeExecutionUnits(m, completed) \subseteq SUBSET Cells
           /\ Cardinality(MakeExecutionUnits(m, completed)) \in Nat
<1>1. IsFiniteSet(Cells)
  <2>1. IsFiniteSet(DOMAIN CellOrder)
    <3>1. DOMAIN CellOrder = 1 .. Len(CellOrder) /\ Len(CellOrder) \in Int
      BY ScheduleAssumption
    <3>. QED
      BY <3>1, FS_Interval
  <2>2. Cells = {CellOrder[i] : i \in DOMAIN CellOrder}
    BY DEF Cells
  <2>3. CellOrder \in [DOMAIN CellOrder -> Cells]
    BY ScheduleAssumption
  <2>4. CellOrder \in Surjection(DOMAIN CellOrder, Cells)
    BY <2>2, <2>3 DEF Surjection
  <2>. QED
    BY <2>1, <2>4, FS_Surjection
<1>2. MakeExecutionUnits(m, completed) \subseteq SUBSET Cells
  BY UnitCells DEF Scheduled
<1>3. IsFiniteSet(SUBSET Cells)
  BY <1>1, FS_SUBSET
<1>4. IsFiniteSet(MakeExecutionUnits(m, completed))
  BY <1>2, <1>3, FS_Subset
<1>. QED
  BY <1>2, <1>4, FS_CardinalityType

-----------------------------------------------------------------------------
(***************************************************************************)
(* Batches.                                                                *)
(***************************************************************************)

\* A batch takes ready units, no two of which share a key.
LEMMA BatchSound ==
    ASSUME NEW m, NEW completed, NEW order, Len(order) \in Nat,
           NEW remaining, remaining \subseteq MakeExecutionUnits(m, completed)
    PROVE  LET batch == NextBatch(m, completed, order, remaining)
           IN  /\ batch \subseteq Ready(m, completed, remaining)
               /\ \A u, v \in batch : u # v =>
                     MutationKeys(m, completed, u)
                         \cap MutationKeys(m, completed, v) = {}
<1>. DEFINE n     == Len(order)
            ready == Ready(m, completed, remaining)
            pick  == Picked(m, completed, order, remaining)
            keys(u) == MutationKeys(m, completed, u)
            Good(b) == /\ b \subseteq ready
                       /\ \A u, v \in b : u # v => keys(u) \cap keys(v) = {}
            Bad   == {i \in 0 .. n : ~Good(pick[i])}
<1>1. /\ pick[0] = {}
      /\ \A i \in 1 .. n : pick[i] = pick[i - 1] \cup
            {u \in ready \ pick[i - 1] :
                order[i] \in u /\ Admits(m, completed, pick[i - 1], u)}
  BY PickedStep
<1>. HIDE DEF pick
<1>2. Bad = {}
  <2>. SUFFICES ASSUME Bad # {} PROVE FALSE
    OBVIOUS
  <2>1. PICK k \in Bad : \A j \in Bad : k <= j
    <3>1. Bad \subseteq Nat
      OBVIOUS
    <3>. HIDE DEF Bad
    <3>. QED
      BY <3>1, LeastIn
  <2>2. k # 0
    BY <1>1
  <2>3. k \in 1 .. n /\ k - 1 \in 0 .. n
    BY <2>2
  <2>4. Good(pick[k - 1])
    BY <2>1, <2>3
  <2>5. ASSUME NEW u \in pick[k], NEW v \in pick[k], u # v
        PROVE  keys(u) \cap keys(v) = {}
    <3>1. \/ u \in pick[k - 1]
          \/ /\ u \in ready /\ order[k] \in u
             /\ Admits(m, completed, pick[k - 1], u)
      BY <1>1, <2>3
    <3>2. \/ v \in pick[k - 1]
          \/ /\ v \in ready /\ order[k] \in v
             /\ Admits(m, completed, pick[k - 1], v)
      BY <1>1, <2>3
    <3>3. ASSUME NEW x, Admits(m, completed, pick[k - 1], x),
                 NEW y \in pick[k - 1]
          PROVE  keys(x) \cap keys(y) = {}
      BY <3>3 DEF Admits, KeysOf
    <3>4. CASE u \in pick[k - 1] /\ v \in pick[k - 1]
      BY <2>4, <2>5, <3>4
    <3>5. CASE order[k] \in u /\ order[k] \in v /\ u \in ready /\ v \in ready
      <4>1. /\ u \in MakeExecutionUnits(m, completed)
            /\ v \in MakeExecutionUnits(m, completed)
        BY <3>5 DEF Ready
      <4>. QED
        BY <2>5, <3>5, <4>1, UnitsDisjoint
    <3>. QED
      BY <3>1, <3>2, <3>3, <3>4, <3>5
  <2>6. pick[k] \subseteq ready
    BY <1>1, <2>3, <2>4
  <2>. QED
    BY <2>1, <2>5, <2>6
<1>3. n \in 0 .. n
  OBVIOUS
<1>4. Good(pick[n])
  BY <1>2, <1>3
<1>. QED
  BY <1>4 DEF NextBatch, pick

\* The second loop of makeBatches: what is left shrinks by a batch.
LEMMA RemainingStep ==
    ASSUME NEW m, NEW completed, NEW order, Len(order) \in Nat
    PROVE  LET units == MakeExecutionUnits(m, completed)
               left  == Remaining(m, completed, order)
           IN  /\ left[0] = units
               /\ \A i \in 1 .. Cardinality(units) :
                     left[i] = left[i - 1]
                                 \ NextBatch(m, completed, order, left[i - 1])
<1>. DEFINE units == MakeExecutionUnits(m, completed)
            n     == Cardinality(units)
            S     == SUBSET units
            Rest(w) == w \ NextBatch(m, completed, order, w)
            g     == [x \in S \X (1 .. n) |-> Rest(x[1])]
            left  == Remaining(m, completed, order)
<1>1. n \in Nat
  BY UnitsFinite
<1>2. units \in S /\ g \in [S \X (1 .. n) -> S]
  <2>1. ASSUME NEW x \in S \X (1 .. n) PROVE Rest(x[1]) \in S
    OBVIOUS
  <2>. QED
    BY <2>1
<1>3. PICK h \in [0 .. n -> S] : Iterates(h, n, units, g)
  <2>. HIDE DEF g, S, n, units
  <2>. QED
    BY <1>1, <1>2, Iteration
<1>4. h = [i \in 0 .. n |-> IF i = 0 THEN units ELSE Rest(h[i - 1])]
  <2>1. ASSUME NEW i \in 1 .. n PROVE h[i] = Rest(h[i - 1])
    <3>1. h[i - 1] \in S
      BY <1>1, <1>3
    <3>2. g[<<h[i - 1], i>>] = Rest(h[i - 1])
      BY <3>1
    <3>. QED
      BY <1>3, <3>2 DEF Iterates
  <2>2. \A i \in 0 .. n : h[i] = IF i = 0 THEN units ELSE Rest(h[i - 1])
    BY <1>1, <1>3, <2>1 DEF Iterates
  <2>3. h = [i \in 0 .. n |-> h[i]]
    BY <1>3
  <2>. HIDE DEF Rest, units, n
  <2>. QED
    BY <2>2, <2>3
<1>5. left = CHOOSE f : f = [i \in 0 .. n |-> IF i = 0 THEN units
                                              ELSE Rest(f[i - 1])]
  BY DEF Remaining
<1>6. left = [i \in 0 .. n |-> IF i = 0 THEN units ELSE Rest(left[i - 1])]
  <2>. HIDE DEF Rest, left, units, n
  <2>. QED
    BY <1>4, <1>5
<1>7. left[0] = units /\ \A i \in 1 .. n : left[i] = Rest(left[i - 1])
  <2>. HIDE DEF Rest, left, units, n
  <2>1. ASSUME NEW i \in 0 .. n
        PROVE  left[i] = IF i = 0 THEN units ELSE Rest(left[i - 1])
    BY <1>6
  <2>. QED
    BY <1>1, <2>1
<1>. QED
  BY <1>7

\* What is left later was left before, and what is no longer left has been
\* taken by a batch.
LEMMA RemainingSound ==
    ASSUME NEW m, NEW completed, NEW order, Len(order) \in Nat
    PROVE  LET units == MakeExecutionUnits(m, completed)
               n     == Cardinality(units)
               left  == Remaining(m, completed, order)
           IN  \A i \in 0 .. n :
                  /\ left[i] \subseteq units
                  /\ \A j \in 0 .. i : left[i] \subseteq left[j]
                  /\ \A u \in units \ left[i] : \E j \in 1 .. i :
                        u \in NextBatch(m, completed, order, left[j - 1])
<1>. DEFINE units == MakeExecutionUnits(m, completed)
            n     == Cardinality(units)
            left  == Remaining(m, completed, order)
            Next(w) == NextBatch(m, completed, order, w)
            Good(i) == /\ left[i] \subseteq units
                       /\ \A j \in 0 .. i : left[i] \subseteq left[j]
                       /\ \A u \in units \ left[i] :
                             \E j \in 1 .. i : u \in Next(left[j - 1])
            Bad   == {i \in 0 .. n : ~Good(i)}
<1>1. n \in Nat
  BY UnitsFinite
<1>2. /\ left[0] = units
      /\ \A i \in 1 .. n : left[i] = left[i - 1] \ Next(left[i - 1])
  BY RemainingStep
<1>. HIDE DEF units, n, left, Next
<1>3. Bad = {}
  <2>. SUFFICES ASSUME Bad # {} PROVE FALSE
    OBVIOUS
  <2>1. PICK k \in Bad : \A j \in Bad : k <= j
    <3>1. Bad \subseteq Nat
      BY <1>1
    <3>. HIDE DEF Bad
    <3>. QED
      BY <3>1, LeastIn
  <2>2. CASE k = 0
    <3>1. 0 .. 0 = {0}
      OBVIOUS
    <3>. QED
      BY <1>2, <2>1, <2>2, <3>1
  <2>3. CASE k # 0
    <3>1. k \in 1 .. n /\ k - 1 \in 0 .. n /\ ~(k <= k - 1)
      BY <1>1, <2>1, <2>3
    <3>2. Good(k - 1)
      BY <2>1, <3>1
    <3>3. left[k] = left[k - 1] \ Next(left[k - 1])
      BY <1>2, <3>1
    <3>4. ASSUME NEW j \in 0 .. k PROVE left[k] \subseteq left[j]
      <4>1. j = k \/ j \in 0 .. (k - 1)
        BY <1>1, <3>1
      <4>. QED
        BY <3>2, <3>3, <4>1
    <3>5. ASSUME NEW u \in units \ left[k]
          PROVE  \E j \in 1 .. k : u \in Next(left[j - 1])
      <4>1. CASE u \in Next(left[k - 1])
        <5>1. k \in 1 .. k
          BY <3>1
        <5>. QED
          BY <4>1, <5>1
      <4>2. CASE u \notin Next(left[k - 1])
        <5>1. u \in units \ left[k - 1]
          BY <3>3, <4>2
        <5>2. PICK j \in 1 .. (k - 1) : u \in Next(left[j - 1])
          BY <3>2, <5>1
        <5>3. j \in 1 .. k
          BY <3>1
        <5>. QED
          BY <5>2, <5>3
      <4>. QED
        BY <4>1, <4>2
    <3>. QED
      BY <2>1, <3>2, <3>3, <3>4, <3>5
  <2>. QED
    BY <2>2, <2>3
<1>4. \A i \in 0 .. n : Good(i)
  BY <1>3
<1>. QED
  BY <1>4 DEF units, n, left, Next

\* A batch that takes nothing is the end: nothing is taken any more.
LEMMA EmptyBatch ==
    ASSUME NEW m, NEW completed, NEW order, Len(order) \in Nat,
           NEW i \in 1 .. Cardinality(MakeExecutionUnits(m, completed)),
           NextBatch(m, completed, order,
                     Remaining(m, completed, order)[i - 1]) = {}
    PROVE  \A j \in i .. Cardinality(MakeExecutionUnits(m, completed)) :
               Remaining(m, completed, order)[j]
                   = Remaining(m, completed, order)[i - 1]
<1>. DEFINE n     == Cardinality(MakeExecutionUnits(m, completed))
            left  == Remaining(m, completed, order)
            Next(w) == NextBatch(m, completed, order, w)
            Bad   == {j \in i .. n : left[j] # left[i - 1]}
<1>1. n \in Nat
  BY UnitsFinite
<1>2. \A j \in 1 .. n : left[j] = left[j - 1] \ Next(left[j - 1])
  BY RemainingStep
<1>3. Next(left[i - 1]) = {} /\ i \in 1 .. n
  OBVIOUS
<1>. HIDE DEF n, left, Next
<1>4. SUFFICES ASSUME Bad # {} PROVE FALSE
  BY DEF n, left
<1>5. PICK k \in Bad : \A j \in Bad : k <= j
  <2>1. Bad \subseteq Nat
    BY <1>1, <1>3
  <2>. HIDE DEF Bad
  <2>. QED
    BY <1>4, <2>1, LeastIn
<1>6. left[k - 1] = left[i - 1]
  <2>1. k = i \/ (k - 1 \in i .. n /\ ~(k <= k - 1))
    BY <1>1, <1>3
  <2>. QED
    BY <1>5, <2>1
<1>7. k \in 1 .. n
  BY <1>1, <1>3
<1>8. left[k] = left[i - 1]
  BY <1>2, <1>3, <1>6, <1>7
<1>. QED
  BY <1>5, <1>8

-----------------------------------------------------------------------------
(***************************************************************************)
(* Plans.                                                                  *)
(***************************************************************************)

\* There are k batches, one for every round in which something was left.
HasRounds(m, completed, order, k) ==
    LET left    == Remaining(m, completed, order)
        batches == MakeBatches(m, completed, order).batches
    IN  /\ left[k] = {}
        /\ \A i \in 1 .. k : left[i - 1] # {}
        /\ batches \in [1 .. k -> SUBSET MakeExecutionUnits(m, completed)]
        /\ \A i \in 1 .. k :
              batches[i] = NextBatch(m, completed, order, left[i - 1])

\* A plan that has not been refused has batches for all that was left.
LEMMA Rounds ==
    ASSUME NEW m, NEW completed, NEW order, Len(order) \in Nat,
           Remaining(m, completed, order)
               [Cardinality(MakeExecutionUnits(m, completed))] = {}
    PROVE  \E k \in 0 .. Cardinality(MakeExecutionUnits(m, completed)) :
               HasRounds(m, completed, order, k)
<1>. DEFINE n      == Cardinality(MakeExecutionUnits(m, completed))
            left   == Remaining(m, completed, order)
            batch(i) == NextBatch(m, completed, order, left[i - 1])
            rounds == {i \in 1 .. n : left[i - 1] # {}}
            Ends   == {p \in 0 .. n : left[p] = {}}
<1>1. n \in Nat
  BY UnitsFinite
<1>2. /\ left[n] = {}
      /\ MakeBatches(m, completed, order).batches
             = [i \in 1 .. Cardinality(rounds) |-> batch(i)]
  BY DEF MakeBatches
<1>3. \A i \in 0 .. n : \A j \in 0 .. i : left[i] \subseteq left[j]
  BY RemainingSound
<1>. HIDE DEF n, left, batch
<1>4. PICK k \in Ends : \A j \in Ends : k <= j
  <2>1. Ends \subseteq Nat /\ n \in Ends
    BY <1>1, <1>2
  <2>. HIDE DEF Ends
  <2>. QED
    BY <2>1, LeastIn
<1>5. ASSUME NEW i \in 1 .. n PROVE left[i - 1] # {} <=> i <= k
  <2>1. i - 1 \in 0 .. n /\ k \in 0 .. n /\ i \in Int
    BY <1>1
  <2>2. CASE i <= k
    BY <1>4, <2>1, <2>2
  <2>3. CASE ~(i <= k)
    <3>1. k \in 0 .. (i - 1)
      BY <2>1, <2>3
    <3>. QED
      BY <1>3, <2>1, <2>3, <3>1
  <2>. QED
    BY <2>2, <2>3
<1>6. rounds = 1 .. k
  <2>1. k \in 0 .. n
    OBVIOUS
  <2>2. \A i \in 1 .. k : i \in 1 .. n /\ i <= k
    BY <1>1, <2>1
  <2>. QED
    BY <1>1, <1>5, <2>1, <2>2
<1>7. Cardinality(rounds) = k
  <2>1. k \in Nat
    BY <1>1
  <2>2. Cardinality(1 .. k) = IF 1 > k THEN 0 ELSE k - 1 + 1
    BY <2>1, FS_Interval
  <2>3. Cardinality(1 .. k) = k
    BY <2>1, <2>2
  <2>. HIDE DEF rounds
  <2>. QED
    BY <1>6, <2>3
<1>8. \A i \in 1 .. k : left[i - 1] # {}
  BY <1>6
<1>9. MakeBatches(m, completed, order).batches = [i \in 1 .. k |-> batch(i)]
  BY <1>2, <1>7
<1>10. ASSUME NEW i \in 1 .. k
       PROVE  batch(i) \subseteq MakeExecutionUnits(m, completed)
  <2>1. i - 1 \in 0 .. n
    BY <1>1
  <2>2. left[i - 1] \subseteq MakeExecutionUnits(m, completed)
    BY <2>1, RemainingSound DEF left, n
  <2>. HIDE DEF left
  <2>3. batch(i) \subseteq Ready(m, completed, left[i - 1])
    BY <2>2, BatchSound DEF batch
  <2>. QED
    BY <2>2, <2>3 DEF Ready
<1>. QED
  BY <1>8, <1>9, <1>10 DEF n, left, batch, HasRounds

\* Every plan that BuildSchedule returns passes the check that ExecuteSchedule
\* makes of it: every unit is in one batch, no two units of a batch share a
\* mutation key, and a unit comes after all those it depends on.  No batch is
\* empty.
THEOREM PlansAreValid ==
    ASSUME NEW m, NEW completed, NEW order, Len(order) \in Nat,
           BuildSchedule(m, completed, order).ok
    PROVE  LET batches == BuildSchedule(m, completed, order).batches
           IN  /\ ValidSchedule(m, completed, batches)
               /\ batches \in Seq(SUBSET MakeExecutionUnits(m, completed))
               /\ \A i \in DOMAIN batches : batches[i] # {}
               /\ ValidCells(m) /\ Schedulable(m, completed)
<1>. DEFINE units   == MakeExecutionUnits(m, completed)
            n       == Cardinality(units)
            left    == Remaining(m, completed, order)
            batch(i) == NextBatch(m, completed, order, left[i - 1])
            batches == BuildSchedule(m, completed, order).batches
            keys(u) == MutationKeys(m, completed, u)
            deps(u) == DependsOn(m, completed, u)
<1>1. /\ ValidCells(m) /\ Schedulable(m, completed)
      /\ left[n] = {}
      /\ batches = MakeBatches(m, completed, order).batches
  <2>1. /\ ValidCells(m) /\ Schedulable(m, completed)
        /\ MakeBatches(m, completed, order).ok
        /\ batches = MakeBatches(m, completed, order).batches
    BY DEF BuildSchedule
  <2>. QED
    BY <2>1 DEF MakeBatches
<1>2. n \in Nat
  BY UnitsFinite
<1>3. PICK k \in 0 .. n :
          /\ left[k] = {}
          /\ \A i \in 1 .. k : left[i - 1] # {}
          /\ batches \in [1 .. k -> SUBSET units]
          /\ \A i \in 1 .. k : batches[i] = batch(i)
  <2>1. PICK k \in 0 .. n : HasRounds(m, completed, order, k)
    BY <1>1, Rounds
  <2>. HIDE DEF batches
  <2>2. /\ left[k] = {}
        /\ \A i \in 1 .. k : left[i - 1] # {}
        /\ batches \in [1 .. k -> SUBSET units]
        /\ \A i \in 1 .. k : batches[i] = batch(i)
    BY <1>1, <2>1 DEF HasRounds
  <2>. QED
    BY <2>2
<1>4. \A i \in 0 .. n :
          /\ left[i] \subseteq units
          /\ \A j \in 0 .. i : left[i] \subseteq left[j]
          /\ \A u \in units \ left[i] : \E j \in 1 .. i : u \in batch(j)
  BY RemainingSound
<1>5. \A i \in 1 .. n : left[i] = left[i - 1] \ batch(i)
  BY RemainingStep
<1>6. ASSUME NEW i \in 1 .. n
      PROVE  /\ \A u \in batch(i) :
                   u \in left[i - 1] /\ u \in units
                   /\ deps(u) \cap left[i - 1] = {}
             /\ \A u, v \in batch(i) : u # v => keys(u) \cap keys(v) = {}
  <2>1. left[i - 1] \subseteq units
    BY <1>2, <1>4
  <2>. HIDE DEF left
  <2>2. /\ batch(i) \subseteq Ready(m, completed, left[i - 1])
        /\ \A u, v \in batch(i) : u # v => keys(u) \cap keys(v) = {}
    BY <2>1, BatchSound
  <2>. HIDE DEF batch
  <2>. QED
    BY <2>1, <2>2 DEF Ready
<1>7. ASSUME NEW i \in 1 .. n, batch(i) = {}, left[i - 1] # {}
      PROVE  left[n] # {}
  <2>1. n \in i .. n
    BY <1>2
  <2>. QED
    BY <1>7, <2>1, EmptyBatch
<1>8. \A u \in units : deps(u) \subseteq units
  BY DEF DependsOn
<1>. HIDE DEF units, n, left, batch, batches, keys, deps
<1>9. k \in Nat /\ \A i \in 1 .. k : i \in 1 .. n
  BY <1>2
<1>10. DOMAIN batches = 1 .. k /\ \A i \in 1 .. k : batches[i] = batch(i)
  BY <1>3
<1>11. batches \in Seq(SUBSET units)
  <2>1. \A i \in 1 .. k : batch(i) \in SUBSET units
    BY <1>6, <1>9
  <2>2. batches \in [1 .. k -> SUBSET units]
    BY <1>3, <2>1
  <2>. QED
    BY <1>9, <2>2
<1>12. ASSUME NEW i \in 1 .. k PROVE batch(i) # {}
  <2>1. left[n] \subseteq left[k]
    BY <1>2, <1>4, <1>9
  <2>. QED
    BY <1>3, <1>7, <1>9, <2>1
<1>13. UNION {batches[i] : i \in DOMAIN batches} = units
  <2>1. ASSUME NEW u \in units PROVE \E i \in 1 .. k : u \in batch(i)
    BY <1>3, <1>4
  <2>2. ASSUME NEW i \in 1 .. k, NEW u \in batch(i) PROVE u \in units
    BY <1>6, <1>9
  <2>. QED
    BY <1>10, <2>1, <2>2
<1>14. ASSUME NEW i \in 1 .. k, NEW j \in 1 .. k, i < j, NEW u \in batch(i),
             u \in batch(j)
      PROVE  FALSE
  <2>1. u \in left[j - 1]
    BY <1>6, <1>9, <1>14
  <2>2. i \in 0 .. (j - 1) /\ j - 1 \in 0 .. n
    BY <1>9, <1>14
  <2>3. u \in left[i]
    BY <1>4, <2>1, <2>2
  <2>. QED
    BY <1>5, <1>9, <2>3
<1>15. ASSUME NEW i \in 1 .. k, NEW j \in 1 .. k, NEW u \in batch(i),
             u \in batch(j)
      PROVE  i = j
  <2>1. i < j \/ j < i \/ i = j
    BY <1>9
  <2>. QED
    BY <1>14, <1>15, <2>1
<1>16. ASSUME NEW i \in 1 .. k, NEW u \in batch(i), NEW v \in deps(u)
      PROVE  \E j \in 1 .. (i - 1) : v \in batches[j]
  <2>1. u \in units /\ v \in units /\ v \notin left[i - 1]
    BY <1>6, <1>8, <1>9
  <2>2. i - 1 \in 0 .. n
    <3>1. i \in 1 .. n
      BY <1>9
    <3>. QED
      BY <1>2, <3>1
  <2>3. PICK j \in 1 .. (i - 1) : v \in batch(j)
    BY <1>4, <2>1, <2>2
  <2>4. j \in 1 .. k
    BY <1>9
  <2>. QED
    BY <1>10, <2>3, <2>4
<1>17. ValidSchedule(m, completed, batches)
  <2>1. \A i, j \in DOMAIN batches : \A u \in batches[i] :
            u \in batches[j] => i = j
    BY <1>10, <1>15
  <2>2. \A i \in DOMAIN batches : \A u, v \in batches[i] :
            u # v => keys(u) \cap keys(v) = {}
    BY <1>6, <1>9, <1>10
  <2>3. \A i \in DOMAIN batches : \A u \in batches[i] :
            \A v \in deps(u) : \E j \in 1 .. (i - 1) : v \in batches[j]
    BY <1>10, <1>16
  <2>. QED
    BY <1>13, <2>1, <2>2, <2>3 DEF ValidSchedule, units, keys, deps
<1>. QED
  BY <1>1, <1>10, <1>11, <1>12, <1>17 DEF units, batches
==============================================================================
