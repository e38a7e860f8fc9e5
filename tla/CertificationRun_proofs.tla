----------------------- MODULE CertificationRun_proofs -----------------------
(***************************************************************************)
(* Proofs about a certification run, for every matrix, every order of the  *)
(* units, any number of other clients and any number of attempts: what has *)
(* passed stays passed, the provider is called for a cell only after what  *)
(* it depends on has passed and never without a mark in the checkpoint     *)
(* file, the run never fails on its own plan, and local capacity is        *)
(* neither lost nor invented.                                              *)
(*                                                                         *)
(* The first half is about LocalCapacity alone: what each of its           *)
(* operations does to the clients that ask and to those that hold a lease. *)
(* The second half ties clients to the units of the run, and units to the  *)
(* plan they come from.                                                    *)
(***************************************************************************)
EXTENDS CertificationRun, Schedule_proofs

-----------------------------------------------------------------------------
(***************************************************************************)
(* The inductive invariant.                                                *)
(***************************************************************************)

\* Nobody is in the queue twice, or in the queue with a grant or a lease.
QueueOK ==
    /\ waiters \in Seq(Clients)
    /\ granted \in SUBSET Clients /\ leased \in SUBSET Clients
    /\ \A i, j \in DOMAIN waiters : waiters[i] = waiters[j] => i = j
    /\ \A i \in DOMAIN waiters : waiters[i] \notin granted \cup leased
    /\ granted \cap leased = {}

\* Clients that wait for capacity, or have not taken it yet.
Asking == granted \cup {waiters[i] : i \in DOMAIN waiters}

Waiting(c) ==
    \/ c \in DOMAIN unit /\ unit[c] = "queued"
    \/ c \in Others /\ ask[c] = "queued"
Holding(c) ==
    \/ /\ c \in DOMAIN unit
       /\ unit[c] \in {"leased", "marked", "executing", "passed", "failed"}
    \/ c \in Others /\ ask[c] = "leased"

\* What is left, and what a finite set of clients has out, is what there is.
Balanced(left, out) ==
    /\ left \in Amounts
    /\ IsFiniteSet(Slots(out, Cpu)) /\ IsFiniteSet(Slots(out, Memory))
    /\ left.cpu + Sum(out, Cpu) = Capacity.cpu
    /\ left.memory + Sum(out, Memory) = Capacity.memory

CapacityOK ==
    /\ QueueOK
    /\ HeadDoesNotFit
    /\ Balanced(available, granted \cup leased)

\* Capacity is asked for and held by those who think so.
Linked ==
    /\ \A c \in Asking : Waiting(c)
    /\ \A c \in leased : Holding(c)

Units == MakeExecutionUnits(matrix, completed)

\* Units that have not begun.
Later == UNION {batches[i] : i \in DOMAIN batches}

\* A unit is in one batch, or has begun, or has run.
Planned ==
    /\ batches \in Seq(SUBSET Units)
    /\ \A i \in DOMAIN batches : batches[i] # {}
    /\ \A i, j \in DOMAIN batches : i # j => batches[i] \cap batches[j] = {}
    /\ DOMAIN unit \subseteq Units
    /\ Later \cap DOMAIN unit = {}
    /\ phase # "idle" => Schedulable(matrix, completed)
    /\ phase = "idle" => batches = <<>>
    /\ phase = "batch" <=> DOMAIN unit # {}

\* Units that have run have passed; nothing of the others has.
Kept ==
    /\ completed \subseteq Passed
    /\ phase # "idle" =>
          \A u \in Units \ (Later \cup DOMAIN unit) : u \subseteq Passed
    /\ \A u \in Later : u \cap Passed = {}
    /\ \A u \in DOMAIN unit :
          IF unit[u] \in {"passed", "ok"} THEN u \subseteq Passed
          ELSE u \cap Passed = {}

\* Nothing has begun before what it depends on has run.
InOrder ==
    /\ \A i, j \in DOMAIN batches : \A u \in batches[i] :
          i <= j => DependsOn(matrix, completed, u) \cap batches[j] = {}
    /\ \A u \in DOMAIN unit :
          DependsOn(matrix, completed, u) \cap (Later \cup DOMAIN unit) = {}

\* The plan is as it was made, or some unit of it has passed.
Fresh ==
    phase = "running" =>
        \/ ValidSchedule(matrix, completed, batches)
        \/ \E u \in Units : u \subseteq Passed

Marked ==
    /\ NoSilentMutation
    /\ \A u \in Active : \A c \in u : checkpoint[c] # "none"

IInv ==
    /\ TypeOK
    /\ CapacityOK /\ Linked
    /\ Planned /\ Kept /\ InOrder /\ Fresh /\ Marked

-----------------------------------------------------------------------------
(***************************************************************************)
(* Sums.                                                                   *)
(***************************************************************************)

LEMMA AmountsTyped ==
    /\ Cpu \in [Clients -> Nat] /\ Memory \in [Clients -> Nat]
    /\ \A c \in Clients : /\ Request(c) \in Amounts
                          /\ Request(c).cpu = Cpu[c]
                          /\ Request(c).memory = Memory[c]
    /\ Capacity.cpu \in Nat /\ Capacity.memory \in Nat
BY CapacityAssumption DEF Cpu, Memory, Amounts

\* One more client takes as many slots as it asks for.
LEMMA SumAdd ==
    ASSUME NEW f \in [Clients -> Nat], NEW S \in SUBSET Clients,
           NEW c \in Clients \ S, IsFiniteSet(Slots(S, f))
    PROVE  /\ IsFiniteSet(Slots(S \cup {c}, f))
           /\ Sum(S, f) \in Nat
           /\ Sum(S \cup {c}, f) = Sum(S, f) + f[c]
<1>. DEFINE new == {c} \X (1 .. f[c])
<1>1. f[c] \in Nat
  OBVIOUS
<1>2. IsFiniteSet({c}) /\ Cardinality({c}) = 1
  BY FS_Singleton
<1>3. IsFiniteSet(1 .. f[c]) /\ Cardinality(1 .. f[c]) = f[c]
  <2>1. /\ IsFiniteSet(1 .. f[c])
        /\ Cardinality(1 .. f[c]) = IF 1 > f[c] THEN 0 ELSE f[c] - 1 + 1
    BY <1>1, FS_Interval
  <2>. QED
    BY <1>1, <2>1
<1>4. IsFiniteSet(new) /\ Cardinality(new) = f[c]
  <2>1. /\ IsFiniteSet(new)
        /\ Cardinality(new) = Cardinality({c}) * Cardinality(1 .. f[c])
    BY <1>2, <1>3, FS_Product
  <2>. HIDE DEF new
  <2>2. Cardinality(new) = 1 * f[c]
    BY <1>2, <1>3, <2>1
  <2>. QED
    BY <1>1, <2>1, <2>2
<1>5. Slots(S \cup {c}, f) = Slots(S, f) \cup new
  BY DEF Slots
<1>6. Slots(S, f) \cap new = {}
  BY DEF Slots
<1>. HIDE DEF new
<1>7. /\ IsFiniteSet(Slots(S, f) \cup new)
      /\ Cardinality(Slots(S, f) \cup new)
            = Cardinality(Slots(S, f)) + Cardinality(new)
              - Cardinality(Slots(S, f) \cap new)
  BY <1>4, FS_Union
<1>8. Cardinality(Slots(S, f) \cap new) = 0
  BY <1>6, FS_EmptySet
<1>9. Cardinality(Slots(S, f)) \in Nat
  BY FS_CardinalityType
<1>10. Cardinality(Slots(S, f) \cup new) = Cardinality(Slots(S, f)) + f[c]
  BY <1>1, <1>4, <1>7, <1>8, <1>9
<1>. QED
  BY <1>5, <1>7, <1>9, <1>10, Zenon DEF Sum

\* A client that takes what fits, and one that gives back what it has, keep
\* the balance.
LEMMA TakeBalanced ==
    ASSUME NEW left, NEW out \in SUBSET Clients, Balanced(left, out),
           NEW c \in Clients \ out, Fits(Request(c), left)
    PROVE  Balanced(Minus(left, Request(c)), out \cup {c})
<1>1. /\ Sum(out, Cpu) \in Nat
      /\ IsFiniteSet(Slots(out \cup {c}, Cpu))
      /\ Sum(out \cup {c}, Cpu) = Sum(out, Cpu) + Request(c).cpu
  BY AmountsTyped, SumAdd DEF Balanced
<1>2. /\ Sum(out, Memory) \in Nat
      /\ IsFiniteSet(Slots(out \cup {c}, Memory))
      /\ Sum(out \cup {c}, Memory) = Sum(out, Memory) + Request(c).memory
  BY AmountsTyped, SumAdd DEF Balanced
<1>3. /\ Request(c).cpu \in Nat /\ Request(c).memory \in Nat
      /\ left.cpu \in Nat /\ left.memory \in Nat
      /\ Capacity.cpu \in Nat /\ Capacity.memory \in Nat
  BY AmountsTyped DEF Balanced, Amounts
<1>4. /\ Minus(left, Request(c)) \in Amounts
      /\ Minus(left, Request(c)).cpu = left.cpu - Request(c).cpu
      /\ Minus(left, Request(c)).memory = left.memory - Request(c).memory
  BY <1>3 DEF Minus, Amounts, Fits
<1>. QED
  BY <1>1, <1>2, <1>3, <1>4 DEF Balanced

LEMMA GiveBalanced ==
    ASSUME NEW left, NEW out \in SUBSET Clients, Balanced(left, out),
           NEW c \in out
    PROVE  Balanced(Plus(left, Request(c)), out \ {c})
<1>. DEFINE rest == out \ {c}
<1>1. out = rest \cup {c} /\ rest \in SUBSET Clients /\ c \in Clients \ rest
  OBVIOUS
<1>2. IsFiniteSet(Slots(rest, Cpu)) /\ IsFiniteSet(Slots(rest, Memory))
  <2>1. /\ Slots(rest, Cpu) \subseteq Slots(out, Cpu)
        /\ Slots(rest, Memory) \subseteq Slots(out, Memory)
    BY DEF Slots
  <2>. QED
    BY <2>1, FS_Subset DEF Balanced
<1>. HIDE DEF rest
<1>3. /\ Sum(rest, Cpu) \in Nat
      /\ Sum(out, Cpu) = Sum(rest, Cpu) + Request(c).cpu
  BY <1>1, <1>2, AmountsTyped, SumAdd
<1>4. /\ Sum(rest, Memory) \in Nat
      /\ Sum(out, Memory) = Sum(rest, Memory) + Request(c).memory
  BY <1>1, <1>2, AmountsTyped, SumAdd
<1>5. /\ Request(c).cpu \in Nat /\ Request(c).memory \in Nat
      /\ left.cpu \in Nat /\ left.memory \in Nat
      /\ Capacity.cpu \in Nat /\ Capacity.memory \in Nat
  BY <1>1, AmountsTyped DEF Balanced, Amounts
<1>6. /\ Plus(left, Request(c)) \in Amounts
      /\ Plus(left, Request(c)).cpu = left.cpu + Request(c).cpu
      /\ Plus(left, Request(c)).memory = left.memory + Request(c).memory
  BY <1>5 DEF Plus, Amounts
<1>7. Balanced(Plus(left, Request(c)), rest)
  BY <1>2, <1>3, <1>4, <1>5, <1>6 DEF Balanced
<1>. QED
  BY <1>7 DEF rest

-----------------------------------------------------------------------------
(***************************************************************************)
(* Serving the queue.                                                      *)
(***************************************************************************)

LEMMA LeftStep ==
    ASSUME NEW have \in Amounts, NEW queue \in Seq(Clients)
    PROVE  LET left == LeftAfter(have, queue)
           IN  /\ left[0] = have
               /\ \A k \in 1 .. Len(queue) :
                     left[k] = Minus(left[k - 1], Request(queue[k]))
<1>. DEFINE n    == Len(queue)
            S    == [cpu : Int, memory : Int]
            Rest(w, k) == Minus(w, Request(queue[k]))
            g    == [x \in S \X (1 .. n) |-> Rest(x[1], x[2])]
            left == LeftAfter(have, queue)
<1>1. n \in Nat /\ have \in S
  BY DEF Amounts
<1>2. g \in [S \X (1 .. n) -> S]
  <2>1. ASSUME NEW w \in S, NEW k \in 1 .. n PROVE Rest(w, k) \in S
    <3>1. Request(queue[k]).cpu \in Nat /\ Request(queue[k]).memory \in Nat
      <4>1. queue[k] \in Clients
        OBVIOUS
      <4>2. Request(queue[k]) \in Amounts
        BY <4>1, CapacityAssumption
      <4>. QED
        BY <4>2 DEF Amounts
    <3>. QED
      BY <3>1 DEF Minus
  <2>. HIDE DEF S, n, Rest
  <2>. QED
    BY <2>1
<1>3. PICK h \in [0 .. n -> S] : Iterates(h, n, have, g)
  <2>. HIDE DEF g, S, n
  <2>. QED
    BY <1>1, <1>2, Iteration
<1>. HIDE DEF S, n, Rest
<1>4. h = [k \in 0 .. n |-> IF k = 0 THEN have ELSE Rest(h[k - 1], k)]
  <2>1. ASSUME NEW k \in 1 .. n PROVE h[k] = Rest(h[k - 1], k)
    <3>1. h[k - 1] \in S
      BY <1>1, <1>3
    <3>2. g[<<h[k - 1], k>>] = Rest(h[k - 1], k)
      BY <3>1
    <3>. QED
      BY <1>3, <3>2 DEF Iterates
  <2>2. \A k \in 0 .. n : h[k] = IF k = 0 THEN have ELSE Rest(h[k - 1], k)
    BY <1>1, <1>3, <2>1 DEF Iterates
  <2>3. h = [k \in 0 .. n |-> h[k]]
    BY <1>3
  <2>. QED
    BY <2>2, <2>3
<1>5. left = CHOOSE f : f = [k \in 0 .. n |-> IF k = 0 THEN have
                                              ELSE Rest(f[k - 1], k)]
  BY DEF LeftAfter, n, Rest
<1>. HIDE DEF left
<1>6. left = [k \in 0 .. n |-> IF k = 0 THEN have ELSE Rest(left[k - 1], k)]
  BY <1>4, <1>5
<1>7. left[0] = have /\ \A k \in 1 .. n : left[k] = Rest(left[k - 1], k)
  <2>1. ASSUME NEW k \in 0 .. n
        PROVE  left[k] = IF k = 0 THEN have ELSE Rest(left[k - 1], k)
    BY <1>6
  <2>. QED
    BY <1>1, <2>1
<1>. QED
  BY <1>7 DEF left, n, Rest

\* The head is served until it does not fit, or nobody is left.
LEMMA GrantCountSound ==
    ASSUME NEW have, NEW queue, Len(queue) \in Nat
    PROVE  LET n == GrantCount(have, queue)
           IN  /\ n \in 0 .. Len(queue)
               /\ Served(have, queue, n)
               /\ n = Len(queue) \/ ~Served(have, queue, n + 1)
<1>. DEFINE Good(k) == Served(have, queue, k)
            Stops(k) == Good(k) /\ (k = Len(queue) \/ ~Good(k + 1))
            Bad == {k \in 0 .. Len(queue) : ~Good(k)}
<1>1. Good(0)
  BY DEF Served
<1>. HIDE DEF Good
<1>2. \E k \in 0 .. Len(queue) : Stops(k)
  <2>1. CASE Bad = {}
    <3>1. Len(queue) \in 0 .. Len(queue)
      OBVIOUS
    <3>. QED
      BY <2>1, <3>1
  <2>2. CASE Bad # {}
    <3>1. PICK k \in Bad : \A j \in Bad : k <= j
      <4>1. Bad \subseteq Nat
        OBVIOUS
      <4>. HIDE DEF Bad
      <4>. QED
        BY <2>2, <4>1, LeastIn
    <3>2. k # 0
      BY <1>1
    <3>3. k - 1 \in 0 .. Len(queue) /\ ~(k <= k - 1) /\ (k - 1) + 1 = k
      BY <3>2
    <3>4. Good(k - 1) /\ ~Good(k)
      BY <3>1, <3>3
    <3>. QED
      BY <3>3, <3>4
  <2>. QED
    BY <2>1, <2>2
<1>3. GrantCount(have, queue) = CHOOSE k \in 0 .. Len(queue) : Stops(k)
  BY DEF GrantCount, Good
<1>. DEFINE n == GrantCount(have, queue)
<1>4. n \in 0 .. Len(queue) /\ Stops(n)
  <2>. HIDE DEF Stops
  <2>. QED
    BY <1>2, <1>3
<1>. QED
  BY <1>4 DEF Good

\* The clients that are served keep the balance, all of them together.
LEMMA GrantsBalanced ==
    ASSUME NEW have, NEW queue \in Seq(Clients), NEW base \in SUBSET Clients,
           Balanced(have, base),
           \A i, j \in DOMAIN queue : queue[i] = queue[j] => i = j,
           \A i \in DOMAIN queue : queue[i] \notin base
    PROVE  LET n == GrantCount(have, queue)
           IN  Balanced(LeftAfter(have, queue)[n],
                        base \cup {queue[j] : j \in 1 .. n})
<1>. DEFINE n    == GrantCount(have, queue)
            left == LeftAfter(have, queue)
            out(k) == base \cup {queue[j] : j \in 1 .. k}
            Good(k) == Balanced(left[k], out(k))
            Bad  == {k \in 0 .. n : ~Good(k)}
<1>1. Len(queue) \in Nat /\ DOMAIN queue = 1 .. Len(queue)
  OBVIOUS
<1>2. /\ left[0] = have
      /\ \A k \in 1 .. Len(queue) :
             left[k] = Minus(left[k - 1], Request(queue[k]))
  BY LeftStep DEF Balanced
<1>3. n \in 0 .. Len(queue) /\ Served(have, queue, n)
  BY <1>1, GrantCountSound
<1>4. \A k \in 1 .. n : Fits(Request(queue[k]), left[k - 1])
  BY <1>3 DEF Served
<1>. HIDE DEF n, left
<1>5. SUFFICES Bad = {}
  <2>1. n \in 0 .. n
    BY <1>1, <1>3
  <2>2. Good(n)
    BY <1>5, <2>1
  <2>. QED
    BY <2>2 DEF n, left
<1>6. SUFFICES ASSUME Bad # {} PROVE FALSE
  OBVIOUS
<1>7. PICK k \in Bad : \A j \in Bad : k <= j
  <2>1. Bad \subseteq Nat
    BY <1>1, <1>3
  <2>. HIDE DEF Bad
  <2>. QED
    BY <1>6, <2>1, LeastIn
<1>8. CASE k = 0
  <2>1. out(0) = base
    OBVIOUS
  <2>. QED
    BY <1>2, <1>7, <1>8, <2>1
<1>9. CASE k # 0
  <2>1. k \in 1 .. n /\ k \in 1 .. Len(queue) /\ k - 1 \in 0 .. n
        /\ ~(k <= k - 1)
    BY <1>1, <1>3, <1>9
  <2>2. Good(k - 1)
    BY <1>7, <2>1
  <2>3. queue[k] \in Clients \ out(k - 1)
    <3>1. queue[k] \in Clients /\ queue[k] \notin base
      BY <1>1, <2>1
    <3>2. ASSUME NEW j \in 1 .. (k - 1) PROVE queue[j] # queue[k]
      <4>1. j \in DOMAIN queue /\ k \in DOMAIN queue /\ j # k
        BY <1>1, <2>1
      <4>. QED
        BY <4>1
    <3>. QED
      BY <3>1, <3>2
  <2>4. out(k) = out(k - 1) \cup {queue[k]}
    <3>1. 1 .. k = 1 .. (k - 1) \cup {k}
      BY <1>1, <2>1
    <3>. QED
      BY <3>1
  <2>5. out(k - 1) \in SUBSET Clients
    <3>1. \A j \in 1 .. (k - 1) : j \in DOMAIN queue
      BY <1>1, <2>1
    <3>. QED
      BY <3>1
  <2>6. left[k] = Minus(left[k - 1], Request(queue[k]))
        /\ Fits(Request(queue[k]), left[k - 1])
    BY <1>2, <1>4, <2>1
  <2>. HIDE DEF out
  <2>7. Balanced(Minus(left[k - 1], Request(queue[k])),
                 out(k - 1) \cup {queue[k]})
    BY <2>2, <2>3, <2>5, <2>6, TakeBalanced
  <2>8. Good(k)
    BY <2>4, <2>6, <2>7
  <2>. QED
    BY <1>7, <2>8
<1>. QED
  BY <1>8, <1>9

\* The rest of a queue.
LEMMA RestOfQueue ==
    ASSUME NEW S, NEW q \in Seq(S), NEW n \in 0 .. Len(q),
           NEW r, r = SubSeq(q, n + 1, Len(q))
    PROVE  /\ r \in Seq(S)
           /\ DOMAIN r = 1 .. (Len(q) - n)
           /\ \A i \in DOMAIN r : r[i] = q[n + i] /\ n + i \in DOMAIN q
           /\ \A i, j \in DOMAIN r : n + i = n + j => i = j
           /\ \A i \in DOMAIN r : \A j \in 1 .. n : j \in DOMAIN q /\ j # n + i
           /\ r # <<>> => 1 \in DOMAIN r /\ n # Len(q)
<1>1. r \in Seq(S) /\ Len(r) = Len(q) - n
  OBVIOUS
<1>2. DOMAIN r = 1 .. (Len(q) - n)
  BY <1>1
<1>3. \A i \in 1 .. (Len(q) - n) : r[i] = q[n + i] /\ n + i \in DOMAIN q
  OBVIOUS
<1>4. r # <<>> => Len(r) # 0
  BY <1>1
<1>. QED
  BY <1>1, <1>2, <1>3, <1>4

\* Serving a queue leaves one whose head does not fit, and gives nothing to
\* anyone who does not ask.
LEMMA GrantsSound ==
    ASSUME NEW have, NEW queue \in Seq(Clients),
           NEW owing \in SUBSET Clients, NEW held \in SUBSET Clients,
           Balanced(have, owing \cup held), owing \cap held = {},
           \A i, j \in DOMAIN queue : queue[i] = queue[j] => i = j,
           \A i \in DOMAIN queue : queue[i] \notin owing \cup held,
           GrantWaiters(have, queue, owing), leased' = held
    PROVE  /\ CapacityOK'
           /\ Asking' \subseteq owing \cup {queue[i] : i \in DOMAIN queue}
<1>1. Len(queue) \in Nat /\ DOMAIN queue = 1 .. Len(queue)
  OBVIOUS
<1>2. PICK n \in 0 .. Len(queue) :
          /\ n = GrantCount(have, queue)
          /\ Served(have, queue, n)
          /\ n = Len(queue) \/ ~Served(have, queue, n + 1)
  BY <1>1, GrantCountSound
<1>3. n \in Nat /\ n <= Len(queue) /\ (n + 1) - 1 = n
  BY <1>1
<1>4. /\ available' = LeftAfter(have, queue)[n]
      /\ waiters' = SubSeq(queue, n + 1, Len(queue))
      /\ granted' = owing \cup {queue[j] : j \in 1 .. n}
  BY <1>2 DEF GrantWaiters
<1>5. Balanced(available', granted' \cup leased')
  <2>1. Balanced(LeftAfter(have, queue)[n],
                 (owing \cup held) \cup {queue[j] : j \in 1 .. n})
    BY <1>2, GrantsBalanced
  <2>2. granted' \cup leased'
            = (owing \cup held) \cup {queue[j] : j \in 1 .. n}
    BY <1>4
  <2>. QED
    BY <1>4, <2>1, <2>2, Zenon
<1>6. \A j \in 1 .. n : Fits(Request(queue[j]), LeftAfter(have, queue)[j - 1])
  BY <1>2 DEF Served
<1>7. ASSUME NEW j \in 1 .. (n + 1), j \notin 1 .. n PROVE j = n + 1
  BY <1>3, <1>7
<1>8. n # Len(queue) =>
          ~Fits(Request(queue[n + 1]), LeftAfter(have, queue)[n])
  <2>1. n # Len(queue) =>
            \E j \in 1 .. (n + 1) :
                ~Fits(Request(queue[j]), LeftAfter(have, queue)[j - 1])
    BY <1>2 DEF Served
  <2>. QED
    BY <1>3, <1>6, <1>7, <2>1
<1>9. /\ waiters' \in Seq(Clients)
      /\ DOMAIN waiters' = 1 .. (Len(queue) - n)
      /\ \A i \in DOMAIN waiters' :
            waiters'[i] = queue[n + i] /\ n + i \in DOMAIN queue
      /\ \A i, j \in DOMAIN waiters' : n + i = n + j => i = j
      /\ \A i \in DOMAIN waiters' : \A j \in 1 .. n :
            j \in DOMAIN queue /\ j # n + i
      /\ waiters' # <<>> => 1 \in DOMAIN waiters' /\ n # Len(queue)
  BY <1>4, RestOfQueue
<1>10. HeadDoesNotFit'
  BY <1>4, <1>8, <1>9 DEF HeadDoesNotFit
<1>11. ASSUME NEW i \in DOMAIN waiters', NEW j \in DOMAIN waiters',
             waiters'[i] = waiters'[j]
      PROVE  i = j
  <2>1. n + i = n + j
    BY <1>9, <1>11
  <2>. QED
    BY <1>9, <2>1
<1>12. ASSUME NEW i \in DOMAIN waiters'
       PROVE  waiters'[i] \notin granted' \cup leased'
  <2>2. \A j \in 1 .. n : queue[j] # queue[n + i]
    BY <1>9
  <2>. QED
    BY <1>4, <1>9, <2>2
<1>13. granted' \subseteq owing \cup {queue[i] : i \in DOMAIN queue}
  BY <1>3, <1>1, <1>4
<1>14. granted' \in SUBSET Clients /\ granted' \cap leased' = {}
  BY <1>13
<1>15. QueueOK'
  BY <1>9, <1>11, <1>12, <1>14 DEF QueueOK
<1>16. Asking' \subseteq owing \cup {queue[i] : i \in DOMAIN queue}
  BY <1>9, <1>13 DEF Asking
<1>. QED
  BY <1>5, <1>10, <1>15, <1>16 DEF CapacityOK

\* What the operations do to those who ask and those who hold a lease.
LEMMA AcquireAtOnceSound ==
    ASSUME CapacityOK, NEW c \in Clients \ (Asking \cup leased),
           AcquireAtOnce(c)
    PROVE  CapacityOK' /\ Asking' = Asking /\ leased' = leased \cup {c}
<1>1. /\ waiters = <<>> /\ Fits(Request(c), available)
      /\ available' = Minus(available, Request(c))
      /\ leased' = leased \cup {c}
      /\ waiters' = waiters /\ granted' = granted
  BY DEF AcquireAtOnce
<1>2. Balanced(Minus(available, Request(c)), (granted \cup leased) \cup {c})
  <2>1. c \notin granted \cup leased /\ granted \cup leased \in SUBSET Clients
    BY DEF Asking, CapacityOK, QueueOK
  <2>. QED
    BY <1>1, <2>1, TakeBalanced DEF CapacityOK
<1>3. Balanced(available', granted' \cup leased')
  <2>1. granted' \cup leased' = (granted \cup leased) \cup {c}
    BY <1>1
  <2>. QED
    BY <1>1, <1>2, <2>1, Zenon
<1>4. Asking' = Asking
  BY <1>1 DEF Asking
<1>5. QueueOK'
  BY <1>1 DEF CapacityOK, QueueOK, Asking
<1>6. HeadDoesNotFit'
  BY <1>1 DEF HeadDoesNotFit
<1>. QED
  BY <1>1, <1>3, <1>4, <1>5, <1>6 DEF CapacityOK

LEMMA EnqueueSound ==
    ASSUME CapacityOK, NEW c \in Clients \ (Asking \cup leased), Enqueue(c)
    PROVE  CapacityOK' /\ Asking' \subseteq Asking \cup {c} /\ leased' = leased
<1>. DEFINE queue == Append(waiters, c)
<1>1. GrantWaiters(available, queue, granted) /\ leased' = leased
  BY DEF Enqueue
<1>2. /\ waiters \in Seq(Clients)
      /\ granted \in SUBSET Clients /\ leased \in SUBSET Clients
      /\ granted \cap leased = {}
      /\ Balanced(available, granted \cup leased)
  BY DEF CapacityOK, QueueOK
<1>3. /\ queue \in Seq(Clients)
      /\ DOMAIN queue = 1 .. (Len(waiters) + 1) /\ Len(waiters) \in Nat
      /\ \A i \in 1 .. Len(waiters) :
            queue[i] = waiters[i] /\ i \in DOMAIN waiters
      /\ queue[Len(waiters) + 1] = c
  BY <1>2
<1>. HIDE DEF queue
<1>4. \A i \in DOMAIN queue :
         \/ i = Len(waiters) + 1 /\ queue[i] = c
         \/ i \in DOMAIN waiters /\ queue[i] = waiters[i]
  BY <1>3
<1>5. \A i \in DOMAIN waiters : waiters[i] # c
  BY DEF Asking
<1>6. \A i, j \in DOMAIN queue : queue[i] = queue[j] => i = j
  BY <1>4, <1>5 DEF CapacityOK, QueueOK
<1>7. \A i \in DOMAIN queue : queue[i] \notin granted \cup leased
  BY <1>4 DEF CapacityOK, QueueOK, Asking
<1>8. /\ CapacityOK'
      /\ Asking' \subseteq granted \cup {queue[i] : i \in DOMAIN queue}
  BY <1>1, <1>2, <1>3, <1>6, <1>7, GrantsSound
<1>9. granted \cup {queue[i] : i \in DOMAIN queue} \subseteq Asking \cup {c}
  BY <1>4 DEF Asking
<1>. QED
  BY <1>1, <1>8, <1>9

LEMMA TakeGrantSound ==
    ASSUME CapacityOK, NEW c, TakeGrant(c)
    PROVE  /\ CapacityOK'
           /\ Asking' \subseteq Asking \ {c} /\ leased' = leased \cup {c}
<1>1. /\ c \in granted /\ granted' = granted \ {c}
      /\ leased' = leased \cup {c}
      /\ available' = available /\ waiters' = waiters
  BY DEF TakeGrant
<1>2. Balanced(available', granted' \cup leased')
  <2>1. granted' \cup leased' = granted \cup leased
    BY <1>1
  <2>. QED
    BY <1>1, <2>1, Zenon DEF CapacityOK
<1>3. QueueOK'
  BY <1>1 DEF CapacityOK, QueueOK
<1>4. HeadDoesNotFit'
  BY <1>1 DEF CapacityOK, HeadDoesNotFit
<1>5. Asking' \subseteq Asking \ {c}
  BY <1>1 DEF Asking, CapacityOK, QueueOK
<1>. QED
  BY <1>1, <1>2, <1>3, <1>4, <1>5 DEF CapacityOK

\* A queue without one of its clients.
LEMMA WithoutSound ==
    ASSUME NEW S, NEW q \in Seq(S), NEW i \in DOMAIN q,
           \A j, k \in DOMAIN q : q[j] = q[k] => j = k
    PROVE  LET r == Without(q, i)
           IN  /\ r \in Seq(S)
               /\ \A j, k \in DOMAIN r : r[j] = r[k] => j = k
               /\ \A j \in DOMAIN r :
                     r[j] # q[i] /\ \E k \in DOMAIN q : r[j] = q[k]
<1>. DEFINE r == Without(q, i)
            n == Len(q)
            at(j) == IF j < i THEN j ELSE j + 1
<1>1. n \in Nat /\ DOMAIN q = 1 .. n /\ i \in 1 .. n
  OBVIOUS
<1>. DEFINE front == SubSeq(q, 1, i - 1)
            back  == SubSeq(q, i + 1, n)
<1>2. /\ front \in Seq(S) /\ Len(front) = i - 1
      /\ \A j \in 1 .. (i - 1) : front[j] = q[j]
  BY <1>1
<1>3. /\ back \in Seq(S) /\ Len(back) = n - i
      /\ \A j \in 1 .. (n - i) : back[j] = q[i + j]
  <2>1. i \in Nat /\ i <= n
    BY <1>1
  <2>2. back \in Seq(S) /\ Len(back) = n - i
    BY <1>1
  <2>3. \A j \in 1 .. (n - i) : back[j] = q[(i + 1) + j - 1]
    BY <1>1
  <2>4. \A j \in 1 .. (n - i) : (i + 1) + j - 1 = i + j
    BY <1>1
  <2>. QED
    BY <2>2, <2>3, <2>4
<1>4. r = front \o back
  BY DEF Without
<1>. HIDE DEF front, back, r, n
<1>5. r \in Seq(S) /\ Len(r) = n - 1
  <2>1. r \in Seq(S) /\ Len(r) = Len(front) + Len(back)
    <3>1. front \in Seq(S) /\ back \in Seq(S)
      BY <1>2, <1>3
    <3>2. front \o back \in Seq(S)
          /\ Len(front \o back) = Len(front) + Len(back)
      BY <3>1
    <3>. QED
      BY <1>4, <3>2
  <2>. QED
    BY <1>1, <1>2, <1>3, <2>1
<1>6. DOMAIN r = 1 .. (n - 1)
  BY <1>1, <1>5
<1>7. ASSUME NEW j \in 1 .. (n - 1) PROVE r[j] = q[at(j)]
  <2>1. CASE j < i
    <3>1. r[j] = front[j]
      BY <1>1, <1>2, <1>3, <1>4, <2>1
    <3>2. j \in 1 .. (i - 1)
      BY <1>1, <2>1
    <3>. QED
      BY <1>2, <2>1, <3>1, <3>2
  <2>2. CASE ~(j < i)
    <3>1. r[j] = back[j - (i - 1)]
      BY <1>1, <1>2, <1>3, <1>4, <2>2
    <3>2. j - (i - 1) \in 1 .. (n - i) /\ i + (j - (i - 1)) = j + 1
      BY <1>1, <2>2
    <3>3. back[j - (i - 1)] = q[i + (j - (i - 1))]
      BY <1>3, <3>2
    <3>4. at(j) = j + 1
      BY <2>2
    <3>. QED
      BY <3>1, <3>2, <3>3, <3>4
  <2>. QED
    BY <2>1, <2>2
<1>8. \A j \in 1 .. (n - 1) : at(j) \in 1 .. n /\ at(j) # i
  BY <1>1
<1>9. \A j, k \in 1 .. (n - 1) : at(j) = at(k) => j = k
  BY <1>1
<1>. HIDE DEF at
<1>10. ASSUME NEW j \in DOMAIN r, NEW k \in DOMAIN r, r[j] = r[k] PROVE j = k
  <2>1. at(j) = at(k)
    BY <1>1, <1>6, <1>7, <1>8, <1>10
  <2>. QED
    BY <1>6, <1>9, <2>1
<1>11. ASSUME NEW j \in DOMAIN r
      PROVE  r[j] # q[i] /\ \E k \in DOMAIN q : r[j] = q[k]
  <2>1. at(j) \in DOMAIN q /\ at(j) # i /\ r[j] = q[at(j)]
    BY <1>1, <1>6, <1>7, <1>8
  <2>. QED
    BY <2>1
<1>. QED
  BY <1>5, <1>10, <1>11 DEF r

LEMMA CancelWaitSound ==
    ASSUME CapacityOK, NEW c, CancelWait(c)
    PROVE  CapacityOK' /\ Asking' \subseteq Asking \ {c} /\ leased' = leased
<1>1. /\ waiters \in Seq(Clients)
      /\ granted \in SUBSET Clients /\ leased \in SUBSET Clients
      /\ granted \cap leased = {}
      /\ Balanced(available, granted \cup leased)
      /\ \A i, j \in DOMAIN waiters : waiters[i] = waiters[j] => i = j
      /\ \A i \in DOMAIN waiters : waiters[i] \notin granted \cup leased
  BY DEF CapacityOK, QueueOK
<1>2. leased' = leased
  BY DEF CancelWait
<1>3. CASE /\ c \in granted
           /\ GrantWaiters(Plus(available, Request(c)), waiters, granted \ {c})
  <2>1. Balanced(Plus(available, Request(c)), (granted \cup leased) \ {c})
    BY <1>1, <1>3, GiveBalanced
  <2>2. (granted \cup leased) \ {c} = (granted \ {c}) \cup leased
    BY <1>1, <1>3
  <2>. DEFINE have == Plus(available, Request(c))
              owing == granted \ {c}
  <2>3. Balanced(have, owing \cup leased)
    BY <2>1, <2>2, Zenon
  <2>4. /\ owing \in SUBSET Clients /\ owing \cap leased = {}
        /\ \A i \in DOMAIN waiters : waiters[i] \notin owing \cup leased
    BY <1>1
  <2>5. GrantWaiters(have, waiters, owing)
    BY <1>3
  <2>. HIDE DEF have, owing
  <2>6. /\ CapacityOK'
        /\ Asking' \subseteq owing \cup {waiters[i] : i \in DOMAIN waiters}
    BY <1>1, <1>2, <2>3, <2>4, <2>5, GrantsSound
  <2>. QED
    BY <1>1, <1>2, <1>3, <2>6 DEF Asking, owing
<1>4. ASSUME NEW i \in DOMAIN waiters, waiters[i] = c,
             GrantWaiters(available, Without(waiters, i), granted)
      PROVE  CapacityOK' /\ Asking' \subseteq Asking \ {c}
  <2>. DEFINE queue == Without(waiters, i)
  <2>1. /\ queue \in Seq(Clients)
        /\ \A j, k \in DOMAIN queue : queue[j] = queue[k] => j = k
        /\ \A j \in DOMAIN queue :
              queue[j] # c /\ \E k \in DOMAIN waiters : queue[j] = waiters[k]
    BY <1>1, <1>4, WithoutSound
  <2>. HIDE DEF queue
  <2>2. \A j \in DOMAIN queue : queue[j] \notin granted \cup leased
    BY <1>1, <2>1
  <2>3. GrantWaiters(available, queue, granted)
    BY <1>4 DEF queue
  <2>4. /\ CapacityOK'
        /\ Asking' \subseteq granted \cup {queue[j] : j \in DOMAIN queue}
    BY <1>1, <1>2, <2>1, <2>2, <2>3, GrantsSound
  <2>5. c \notin granted
    BY <1>1, <1>4
  <2>6. granted \cup {queue[j] : j \in DOMAIN queue} \subseteq Asking \ {c}
    BY <2>1, <2>5 DEF Asking
  <2>. QED
    BY <2>4, <2>6
<1>. QED
  BY <1>2, <1>3, <1>4 DEF CancelWait

LEMMA ReleaseSound ==
    ASSUME CapacityOK, NEW c, Release(c)
    PROVE  CapacityOK' /\ Asking' \subseteq Asking /\ leased' = leased \ {c}
<1>1. /\ waiters \in Seq(Clients)
      /\ granted \in SUBSET Clients /\ leased \in SUBSET Clients
      /\ granted \cap leased = {}
      /\ Balanced(available, granted \cup leased)
      /\ \A i, j \in DOMAIN waiters : waiters[i] = waiters[j] => i = j
      /\ \A i \in DOMAIN waiters : waiters[i] \notin granted \cup leased
  BY DEF CapacityOK, QueueOK
<1>. DEFINE have == Plus(available, Request(c))
            held == leased \ {c}
<1>2. c \in leased /\ leased' = held /\ GrantWaiters(have, waiters, granted)
  BY DEF Release
<1>3. Balanced(have, granted \cup held)
  <2>1. Balanced(have, (granted \cup leased) \ {c})
    BY <1>1, <1>2, GiveBalanced
  <2>2. (granted \cup leased) \ {c} = granted \cup held
    BY <1>1, <1>2
  <2>. HIDE DEF have, held
  <2>. QED
    BY <2>1, <2>2, Zenon
<1>4. /\ held \in SUBSET Clients /\ granted \cap held = {}
      /\ \A i \in DOMAIN waiters : waiters[i] \notin granted \cup held
  BY <1>1
<1>. HIDE DEF have, held
<1>5. /\ CapacityOK'
      /\ Asking' \subseteq granted \cup {waiters[i] : i \in DOMAIN waiters}
  BY <1>1, <1>2, <1>3, <1>4, GrantsSound
<1>. QED
  BY <1>2, <1>5 DEF Asking, held

-----------------------------------------------------------------------------
(***************************************************************************)
(* Clients.                                                                *)
(***************************************************************************)

\* Nobody has any capacity, and all of it is there.
LEMMA NobodyBalanced ==
    Balanced(Capacity, {})
<1>1. Slots({}, Cpu) = {} /\ Slots({}, Memory) = {}
  BY DEF Slots
<1>2. IsFiniteSet({}) /\ Cardinality({}) = 0
  BY FS_EmptySet
<1>. QED
  BY <1>1, <1>2, CapacityAssumption DEF Balanced, Sum, Amounts

LEMMA CapacityStarts ==
    ASSUME CapacityInit
    PROVE  CapacityOK /\ Asking = {} /\ leased = {}
<1>1. available = Capacity /\ waiters = <<>> /\ granted = {} /\ leased = {}
  BY DEF CapacityInit
<1>2. Balanced(available, granted \cup leased)
  <2>1. granted \cup leased = {}
    BY <1>1
  <2>. QED
    BY <1>1, <2>1, NobodyBalanced, Zenon
<1>3. QueueOK
  BY <1>1 DEF QueueOK
<1>4. HeadDoesNotFit
  BY <1>1 DEF HeadDoesNotFit
<1>. QED
  BY <1>1, <1>2, <1>3, <1>4 DEF CapacityOK, Asking

LEMMA ClientsApart ==
    /\ \A S \in SUBSET Cells : S \in Clients /\ S \notin Others
    /\ Others \subseteq Clients
BY RunAssumption

\* Whatever a unit does, capacity is asked for and held by those who think so.
LEMMA UnitLinked ==
    ASSUME TypeOK, CapacityOK, Linked, NEW u \in DOMAIN unit, UnitStep(u)
    PROVE  CapacityOK' /\ Linked'
<1>1. u \in SUBSET Cells /\ u \in Clients /\ u \notin Others
  BY ClientsApart DEF TypeOK
<1>2. ASSUME NEW from, NEW to, Moves(u, from, to)
      PROVE  /\ unit[u] = from /\ ask' = ask
             /\ DOMAIN unit' = DOMAIN unit /\ unit'[u] = to
             /\ \A v \in DOMAIN unit : v # u => unit'[v] = unit[v]
  BY <1>2 DEF Moves
<1>3. ASSUME NEW from, NEW to, Moves(u, from, to)
      PROVE  /\ \A c : c # u /\ Waiting(c) => Waiting(c)'
             /\ \A c : c # u /\ Holding(c) => Holding(c)'
             /\ to = "queued" => Waiting(u)'
             /\ to \in {"leased", "marked", "executing", "passed", "failed"} =>
                   Holding(u)'
             /\ Waiting(u) => from = "queued"
             /\ Holding(u) => from \in {"leased", "marked", "executing",
                                       "passed", "failed"}
  <2>1. /\ unit[u] = from /\ ask' = ask
        /\ DOMAIN unit' = DOMAIN unit /\ unit'[u] = to
        /\ \A v \in DOMAIN unit : v # u => unit'[v] = unit[v]
    BY <1>2, <1>3
  <2>. QED
    BY <1>1, <2>1 DEF Waiting, Holding
<1>4. CASE AcquireFails(u)
  <2>1. Moves(u, "new", "error") /\ UNCHANGED capacityVars
    BY <1>4 DEF AcquireFails
  <2>2. CapacityOK' /\ Asking' = Asking /\ leased' = leased
    BY <2>1 DEF capacityVars, CapacityOK, QueueOK, HeadDoesNotFit, Asking
  <2>. QED
    BY <1>3, <2>1, <2>2 DEF Linked
<1>5. CASE Acquire(u)
  <2>1. unit[u] = "new"
    BY <1>5 DEF Acquire, Moves
  <2>2. u \in Clients \ (Asking \cup leased)
    BY <1>1, <2>1 DEF Linked, Waiting, Holding
  <2>3. CASE Moves(u, "new", "leased") /\ AcquireAtOnce(u)
    <3>1. CapacityOK' /\ Asking' = Asking /\ leased' = leased \cup {u}
      BY <2>2, <2>3, AcquireAtOnceSound
    <3>. QED
      BY <1>3, <2>2, <2>3, <3>1 DEF Linked
  <2>4. CASE Moves(u, "new", "queued") /\ Enqueue(u)
    <3>1. CapacityOK' /\ Asking' \subseteq Asking \cup {u} /\ leased' = leased
      BY <2>2, <2>4, EnqueueSound
    <3>. QED
      BY <1>3, <2>2, <2>4, <3>1 DEF Linked
  <2>. QED
    BY <1>5, <2>3, <2>4 DEF Acquire
<1>6. CASE Granted(u)
  <2>1. Moves(u, "queued", "leased") /\ TakeGrant(u)
    BY <1>6 DEF Granted
  <2>2. /\ CapacityOK'
        /\ Asking' \subseteq Asking \ {u} /\ leased' = leased \cup {u}
    BY <2>1, TakeGrantSound
  <2>. QED
    BY <1>3, <2>1, <2>2 DEF Linked
<1>7. CASE WaitCancelled(u)
  <2>1. Moves(u, "queued", "error") /\ CancelWait(u)
    BY <1>7 DEF WaitCancelled
  <2>2. /\ CapacityOK'
        /\ Asking' \subseteq Asking \ {u} /\ leased' = leased
    BY <2>1, CancelWaitSound
  <2>3. u \notin leased
    BY <1>3, <2>1 DEF Linked
  <2>. QED
    BY <1>3, <2>1, <2>2, <2>3 DEF Linked
<1>8. ASSUME NEW from \in {"leased", "marked", "executing"},
             NEW to \in {"marked", "executing", "passed", "failed"},
             Moves(u, from, to), UNCHANGED capacityVars
      PROVE  CapacityOK' /\ Linked'
  <2>1. CapacityOK' /\ Asking' = Asking /\ leased' = leased
    BY <1>8 DEF capacityVars, CapacityOK, QueueOK, HeadDoesNotFit, Asking
  <2>2. u \notin Asking
    BY <1>3, <1>8 DEF Linked
  <2>. QED
    BY <1>3, <1>8, <2>1, <2>2 DEF Linked
<1>9. CASE MarkInProgress(u) \/ MarkFails(u) \/ Execute(u) \/ ExecuteEnds(u)
  BY <1>8, <1>9 DEF MarkInProgress, MarkFails, Execute, ExecuteEnds
<1>10. CASE ReturnUnit(u)
  <2>1. Release(u)
    BY <1>10 DEF ReturnUnit
  <2>2. /\ CapacityOK'
        /\ Asking' \subseteq Asking /\ leased' = leased \ {u}
    BY <2>1, ReleaseSound
  <2>3. ASSUME NEW from \in {"passed", "failed"}, NEW to \in {"ok", "error"},
               Moves(u, from, to)
        PROVE  Linked'
    <3>1. u \notin Asking
      BY <1>3, <2>3 DEF Linked
    <3>. QED
      BY <1>3, <2>2, <2>3, <3>1 DEF Linked
  <2>. QED
    BY <1>10, <2>2, <2>3 DEF ReturnUnit
<1>. QED
  BY <1>4, <1>5, <1>6, <1>7, <1>9, <1>10 DEF UnitStep

LEMMA OtherLinked ==
    ASSUME TypeOK, CapacityOK, Linked, NEW o \in Others,
           OtherAcquires(o) \/ OtherCancelled(o) \/ OtherEnds(o)
    PROVE  /\ CapacityOK' /\ Linked'
           /\ ask' \in [Others -> {"none", "queued", "leased"}]
<1>1. /\ o \in Clients /\ o \notin DOMAIN unit
      /\ ask \in [Others -> {"none", "queued", "leased"}]
  BY ClientsApart DEF TypeOK
<1>2. ASSUME NEW from, NEW to \in {"none", "queued", "leased"},
             OtherMoves(o, from, to)
      PROVE  /\ ask' \in [Others -> {"none", "queued", "leased"}]
             /\ \A c : c # o /\ Waiting(c) => Waiting(c)'
             /\ \A c : c # o /\ Holding(c) => Holding(c)'
             /\ to = "queued" => Waiting(o)'
             /\ to = "leased" => Holding(o)'
             /\ Waiting(o) => from = "queued"
             /\ Holding(o) => from = "leased"
  <2>1. /\ ask[o] = from /\ unit' = unit
        /\ ask' = [ask EXCEPT ![o] = to]
    BY <1>2 DEF OtherMoves, runVars
  <2>2. /\ ask' \in [Others -> {"none", "queued", "leased"}] /\ ask'[o] = to
        /\ \A p \in Others : p # o => ask'[p] = ask[p]
    BY <1>1, <2>1
  <2>. QED
    BY <1>1, <2>1, <2>2 DEF Waiting, Holding
<1>3. ASSUME NEW to \in {"none", "queued", "leased"},
             OtherMoves(o, "none", to)
      PROVE  o \in Clients \ (Asking \cup leased)
  BY <1>1, <1>2, <1>3 DEF Linked
<1>4. CASE OtherMoves(o, "none", "leased") /\ AcquireAtOnce(o)
  <2>1. o \in Clients \ (Asking \cup leased)
    BY <1>3, <1>4
  <2>2. CapacityOK' /\ Asking' = Asking /\ leased' = leased \cup {o}
    BY <1>4, <2>1, AcquireAtOnceSound
  <2>. QED
    BY <1>2, <1>4, <2>1, <2>2 DEF Linked
<1>5. CASE OtherMoves(o, "none", "queued") /\ Enqueue(o)
  <2>1. o \in Clients \ (Asking \cup leased)
    BY <1>3, <1>5
  <2>2. CapacityOK' /\ Asking' \subseteq Asking \cup {o} /\ leased' = leased
    BY <1>5, <2>1, EnqueueSound
  <2>. QED
    BY <1>2, <1>5, <2>1, <2>2 DEF Linked
<1>6. CASE OtherGranted(o)
  <2>1. OtherMoves(o, "queued", "leased") /\ TakeGrant(o)
    BY <1>6 DEF OtherGranted
  <2>2. /\ CapacityOK'
        /\ Asking' \subseteq Asking \ {o} /\ leased' = leased \cup {o}
    BY <2>1, TakeGrantSound
  <2>. QED
    BY <1>2, <2>1, <2>2 DEF Linked
<1>7. CASE OtherCancelled(o)
  <2>1. OtherMoves(o, "queued", "none") /\ CancelWait(o)
    BY <1>7 DEF OtherCancelled
  <2>2. /\ CapacityOK'
        /\ Asking' \subseteq Asking \ {o} /\ leased' = leased
    BY <2>1, CancelWaitSound
  <2>3. o \notin leased
    BY <1>2, <2>1 DEF Linked
  <2>. QED
    BY <1>2, <2>1, <2>2, <2>3 DEF Linked
<1>8. CASE OtherReleases(o)
  <2>1. OtherMoves(o, "leased", "none") /\ Release(o)
    BY <1>8 DEF OtherReleases
  <2>2. CapacityOK' /\ Asking' \subseteq Asking /\ leased' = leased \ {o}
    BY <2>1, ReleaseSound
  <2>3. o \notin Asking
    BY <1>2, <2>1 DEF Linked
  <2>. QED
    BY <1>2, <2>1, <2>2, <2>3 DEF Linked
<1>. QED
  BY <1>4, <1>5, <1>6, <1>7, <1>8 DEF OtherAcquires, OtherEnds

\* The run leaves the capacity alone when no unit is under way, and a dead
\* process leaves nothing behind.
LEMMA RunLinked ==
    ASSUME IInv,
           Plan \/ PlanRefused \/ Cancel \/ Crash \/ RunStep
    PROVE  CapacityOK' /\ Linked'
<1>1. CASE Crash
  <2>1. CapacityInit'
    BY <1>1 DEF Crash, CapacityInit
  <2>2. (CapacityOK /\ Asking = {} /\ leased = {})'
    BY <2>1, CapacityStarts, PTL
  <2>. QED
    BY <2>2 DEF Linked
<1>2. CASE Plan \/ PlanRefused \/ Cancel \/ RunStep
  <2>1. ask' = ask /\ UNCHANGED capacityVars
    BY <1>2 DEF Plan, PlanRefused, Cancel, RunStep, StartBatch, EndBatch,
                EndSchedule
  <2>2. CapacityOK' /\ Asking' = Asking /\ leased' = leased
    BY <2>1 DEF IInv, capacityVars, CapacityOK, QueueOK, HeadDoesNotFit, Asking
  <2>3. \/ unit' = unit
        \/ \A u \in DOMAIN unit : unit[u] \in {"ok", "error"}
    <3>1. CASE StartBatch
      BY <3>1 DEF StartBatch, IInv, Planned
    <3>. QED
      BY <1>2, <3>1 DEF Plan, PlanRefused, Cancel, RunStep, EndBatch,
                        EndSchedule
  <2>4. CASE unit' = unit
    <3>1. \A c : (Waiting(c)' <=> Waiting(c)) /\ (Holding(c)' <=> Holding(c))
      BY <2>1, <2>4 DEF Waiting, Holding
    <3>. QED
      BY <2>2, <3>1 DEF Linked, IInv
  <2>5. CASE \A u \in DOMAIN unit : unit[u] \in {"ok", "error"}
    <3>1. \A c : (Waiting(c) => Waiting(c)') /\ (Holding(c) => Holding(c)')
      BY <2>1, <2>5 DEF Waiting, Holding
    <3>. QED
      BY <2>2, <3>1 DEF Linked, IInv
  <2>. QED
    BY <2>2, <2>3, <2>4, <2>5
<1>. QED
  BY <1>1, <1>2

-----------------------------------------------------------------------------
(***************************************************************************)
(* Units and the plan.                                                     *)
(***************************************************************************)

RunOK == Planned /\ Kept /\ InOrder /\ Fresh

\* The first batch of a plan, and the rest of them.
LEMMA HeadAndTail ==
    ASSUME NEW S, NEW q \in Seq(S), q # <<>>
    PROVE  /\ 1 \in DOMAIN q /\ Head(q) = q[1]
           /\ Tail(q) \in Seq(S)
           /\ \A i \in DOMAIN Tail(q) :
                 i \in Nat /\ i + 1 \in DOMAIN q /\ Tail(q)[i] = q[i + 1]
           /\ \A i \in DOMAIN q :
                 i = 1 \/ (i - 1 \in DOMAIN Tail(q) /\ (i - 1) + 1 = i)
<1>1. Len(q) \in Nat \ {0} /\ DOMAIN q = 1 .. Len(q)
  OBVIOUS
<1>2. /\ Tail(q) \in Seq(S) /\ DOMAIN Tail(q) = 1 .. (Len(q) - 1)
      /\ \A i \in 1 .. (Len(q) - 1) : Tail(q)[i] = q[i + 1]
      /\ Head(q) = q[1]
  OBVIOUS
<1>. QED
  BY <1>1, <1>2

\* What the plan knows of its units.
LEMMA PlannedUnits ==
    ASSUME Planned
    PROVE  /\ Later \subseteq Units
           /\ \A u \in Units :
                 u # {} /\ u \subseteq Cells /\ u \cap completed = {}
           /\ \A u, v \in Units : u \cap v # {} => u = v
           /\ \A u : u \in Later <=> \E i \in DOMAIN batches : u \in batches[i]
<1>1. Later \subseteq Units
  BY DEF Planned, Later
<1>2. ASSUME NEW u \in Units
      PROVE  u # {} /\ u \subseteq Cells /\ u \cap completed = {}
  <2>1. u \subseteq Scheduled(matrix, completed) /\ u # {}
    BY UnitCells DEF Units
  <2>. QED
    BY <2>1 DEF Scheduled
<1>3. \A u, v \in Units : u \cap v # {} => u = v
  BY UnitsDisjoint DEF Units
<1>4. \A u : u \in Later <=> \E i \in DOMAIN batches : u \in batches[i]
  BY DEF Later
<1>. QED
  BY <1>1, <1>2, <1>3, <1>4

\* What has passed and what the plan is do not change: nor do the facts.
LEMMA RunUnchanged ==
    ASSUME RunOK,
           UNCHANGED <<matrix, checkpoint, phase, batches, unit, completed>>
    PROVE  RunOK'
BY DEF RunOK, Planned, Kept, InOrder, Fresh, Units, Later, Passed

\* A plan is made.
LEMMA PlanRun ==
    ASSUME TypeOK, RunOK, Plan
    PROVE  RunOK'
<1>1. PICK order \in Orders :
          /\ BuildSchedule(matrix, Passed, order).ok
          /\ batches' = BuildSchedule(matrix, Passed, order).batches
  BY DEF Plan
<1>2. /\ phase = "idle" /\ phase' = "running"
      /\ completed' = Passed
      /\ matrix' = matrix /\ checkpoint' = checkpoint /\ unit' = unit
  BY DEF Plan
<1>. DEFINE units == MakeExecutionUnits(matrix, Passed)
<1>3. /\ ValidSchedule(matrix, Passed, batches')
      /\ batches' \in Seq(SUBSET units)
      /\ \A i \in DOMAIN batches' : batches'[i] # {}
      /\ Schedulable(matrix, Passed)
  <2>1. Len(order) \in Nat
    BY RunAssumption
  <2>. QED
    BY <1>1, <2>1, PlansAreValid
<1>4. Passed' = Passed /\ Units' = units /\ DOMAIN unit' = {}
  BY <1>2 DEF Passed, Units, RunOK, Planned
<1>5. /\ UNION {batches'[i] : i \in DOMAIN batches'} = units
      /\ \A i, j \in DOMAIN batches' : \A u \in batches'[i] :
             u \in batches'[j] => i = j
      /\ \A i \in DOMAIN batches' : \A u \in batches'[i] :
             \A v \in DependsOn(matrix, Passed, u) :
                 \E j \in 1 .. (i - 1) : v \in batches'[j]
  BY <1>3 DEF ValidSchedule
<1>6. Later' = units
  BY <1>5 DEF Later
<1>7. \A u \in units : u \cap Passed = {}
  <2>1. \A u \in units : u \subseteq Scheduled(matrix, Passed)
    BY UnitCells
  <2>. QED
    BY <2>1 DEF Scheduled
<1>8. Planned'
  BY <1>2, <1>3, <1>4, <1>5 DEF Planned
<1>9. Kept'
  BY <1>2, <1>4, <1>6, <1>7 DEF Kept
<1>10. InOrder'
  <2>1. ASSUME NEW i \in DOMAIN batches', NEW j \in DOMAIN batches', i <= j,
               NEW u \in batches'[i], NEW v \in DependsOn(matrix, Passed, u),
               v \in batches'[j]
        PROVE  FALSE
    <3>1. DOMAIN batches' = 1 .. Len(batches') /\ Len(batches') \in Nat
      BY <1>3
    <3>2. PICK k \in 1 .. (i - 1) : v \in batches'[k]
      BY <1>5
    <3>3. k \in DOMAIN batches' /\ k # j
      BY <2>1, <3>1
    <3>. QED
      BY <1>5, <2>1, <3>2, <3>3
  <2>. QED
    BY <1>2, <1>4, <2>1 DEF InOrder
<1>11. Fresh'
  BY <1>2, <1>3 DEF Fresh
<1>. QED
  BY <1>8, <1>9, <1>10, <1>11 DEF RunOK

\* A batch begins.
LEMMA StartBatchRun ==
    ASSUME TypeOK, RunOK, StartBatch
    PROVE  RunOK'
<1>1. /\ phase = "running" /\ phase' = "batch" /\ batches # <<>>
      /\ batches' = Tail(batches)
      /\ DOMAIN unit' = Head(batches)
      /\ \A u \in DOMAIN unit' : unit'[u] = "new"
      /\ matrix' = matrix /\ checkpoint' = checkpoint /\ completed' = completed
  BY DEF StartBatch
<1>2. Units' = Units /\ Passed' = Passed /\ DOMAIN unit = {}
  BY <1>1 DEF Units, Passed, RunOK, Planned
<1>3. batches \in Seq(SUBSET Units) /\ Planned
  BY DEF RunOK, Planned
<1>4. /\ 1 \in DOMAIN batches /\ DOMAIN unit' = batches[1]
      /\ batches' \in Seq(SUBSET Units)
      /\ \A i \in DOMAIN batches' :
            /\ i \in Nat /\ i + 1 \in DOMAIN batches
            /\ batches'[i] = batches[i + 1]
      /\ \A i \in DOMAIN batches :
            i = 1 \/ (i - 1 \in DOMAIN batches' /\ (i - 1) + 1 = i)
  BY <1>1, <1>3, HeadAndTail
<1>5. /\ Later' \cup DOMAIN unit' = Later
      /\ Later' \cap DOMAIN unit' = {}
  <2>1. \A i \in DOMAIN batches' : i + 1 # 1
    BY <1>4
  <2>2. ASSUME NEW u \in Later PROVE u \in Later' \cup DOMAIN unit'
    <3>1. PICK i \in DOMAIN batches : u \in batches[i]
      BY DEF Later
    <3>2. CASE i = 1
      BY <1>4, <3>1, <3>2
    <3>3. CASE i # 1
      <4>1. i - 1 \in DOMAIN batches' /\ batches'[i - 1] = batches[i]
        BY <1>4, <3>3
      <4>. QED
        BY <3>1, <4>1 DEF Later
    <3>. QED
      BY <3>2, <3>3
  <2>3. Later' \subseteq Later /\ DOMAIN unit' \subseteq Later
    BY <1>4 DEF Later
  <2>4. Later' \cap DOMAIN unit' = {}
    BY <1>3, <1>4, <2>1 DEF Later, Planned
  <2>. QED
    BY <2>2, <2>3, <2>4
<1>6. Planned'
  <2>1. \A i, j \in DOMAIN batches' :
            i # j => batches'[i] \cap batches'[j] = {}
    <3>1. \A i, j \in DOMAIN batches' : i # j => i + 1 # j + 1
      BY <1>4
    <3>. QED
      BY <1>3, <1>4, <3>1 DEF Planned
  <2>2. batches' \in Seq(SUBSET Units')
    BY <1>2, <1>4
  <2>3. \A i \in DOMAIN batches' : batches'[i] # {}
    BY <1>3, <1>4 DEF Planned
  <2>4. DOMAIN unit' \subseteq Units' /\ DOMAIN unit' # {}
    BY <1>2, <1>3, <1>4 DEF Planned
  <2>5. Schedulable(matrix', completed')
    BY <1>1, <1>3 DEF Planned
  <2>. QED
    BY <1>1, <1>5, <2>1, <2>2, <2>3, <2>4, <2>5 DEF Planned
<1>7. Kept'
  <2>1. /\ completed \subseteq Passed
        /\ \A u \in Units \ Later : u \subseteq Passed
        /\ \A u \in Later : u \cap Passed = {}
    BY <1>1, <1>2 DEF RunOK, Kept
  <2>. QED
    BY <1>1, <1>2, <1>5, <2>1 DEF Kept
<1>8. InOrder'
  <2>1. \A i, j \in DOMAIN batches : \A u \in batches[i] :
            i <= j => DependsOn(matrix, completed, u) \cap batches[j] = {}
    BY DEF RunOK, InOrder
  <2>2. ASSUME NEW i \in DOMAIN batches', NEW j \in DOMAIN batches',
               NEW u \in batches'[i], i <= j
        PROVE  DependsOn(matrix, completed, u) \cap batches'[j] = {}
    <3>1. i + 1 <= j + 1
      BY <1>4, <2>2
    <3>. QED
      BY <1>4, <2>1, <3>1
  <2>3. ASSUME NEW u \in DOMAIN unit'
        PROVE  DependsOn(matrix, completed, u) \cap Later = {}
    <3>1. \A j \in DOMAIN batches : 1 <= j
      BY <1>3
    <3>. QED
      BY <1>4, <2>1, <3>1 DEF Later
  <2>. QED
    BY <1>1, <1>5, <2>2, <2>3 DEF InOrder
<1>9. Fresh'
  BY <1>1 DEF Fresh
<1>. QED
  BY <1>6, <1>7, <1>8, <1>9 DEF RunOK

\* A batch, an attempt or the process ends.
LEMMA EndBatchRun ==
    ASSUME TypeOK, RunOK, EndBatch
    PROVE  RunOK'
<1>1. /\ phase = "batch" /\ DOMAIN unit' = {}
      /\ matrix' = matrix /\ checkpoint' = checkpoint /\ completed' = completed
  BY DEF EndBatch, NoUnits
<1>2. Units' = Units /\ Passed' = Passed /\ DOMAIN unit # {}
  BY <1>1 DEF Units, Passed, RunOK, Planned
<1>3. CASE /\ \A u \in DOMAIN unit : unit[u] = "ok"
           /\ phase' = "running" /\ batches' = batches
  <2>1. Later' = Later
    BY <1>3 DEF Later
  <2>2. \A u \in DOMAIN unit : u \subseteq Passed /\ u \in Units
    BY <1>3 DEF RunOK, Kept, Planned
  <2>3. Planned'
    BY <1>1, <1>2, <1>3, <2>1 DEF RunOK, Planned
  <2>4. Kept'
    BY <1>1, <1>2, <1>3, <2>1, <2>2 DEF RunOK, Kept
  <2>5. InOrder'
    BY <1>1, <1>3 DEF RunOK, InOrder
  <2>6. Fresh'
    BY <1>2, <2>2 DEF Fresh
  <2>. QED
    BY <2>3, <2>4, <2>5, <2>6 DEF RunOK
<1>4. CASE phase' = "idle" /\ batches' = <<>>
  <2>1. Later' = {} /\ batches' \in Seq(SUBSET Units') /\ DOMAIN batches' = {}
    BY <1>4 DEF Later
  <2>. QED
    BY <1>1, <1>2, <1>4, <2>1 DEF RunOK, Planned, Kept, InOrder, Fresh
<1>. QED
  BY <1>3, <1>4 DEF EndBatch

LEMMA StopRun ==
    ASSUME TypeOK, RunOK, EndSchedule \/ Crash
    PROVE  RunOK'
<1>1. /\ phase' = "idle" /\ batches' = <<>> /\ DOMAIN unit' = {}
      /\ matrix' = matrix /\ checkpoint' = checkpoint /\ completed' = completed
  BY DEF EndSchedule, Crash, NoUnits, RunOK, Planned
<1>2. Units' = Units /\ Passed' = Passed
  BY <1>1 DEF Units, Passed
<1>3. Later' = {} /\ batches' \in Seq(SUBSET Units') /\ DOMAIN batches' = {}
  BY <1>1 DEF Later
<1>. QED
  BY <1>1, <1>2, <1>3 DEF RunOK, Planned, Kept, InOrder, Fresh

\* What a step of a unit does to its state and to the checkpoints: nothing to
\* what has passed, and nothing to other units.
UnitEffect(u, from, to) ==
    /\ unit[u] = from
    /\ unit' = [unit EXCEPT ![u] = to]
    /\ UNCHANGED <<matrix, phase, attempts, batches, cancelled, completed, ask>>
    /\ \/ /\ UNCHANGED <<checkpoint, touched>>
          /\ from \notin {"passed", "ok"} /\ to \notin {"passed", "ok"}
          /\ to \notin {"marked", "executing"}
       \/ /\ UNCHANGED <<checkpoint, touched>>
          /\ from = "passed" /\ to = "ok"
       \/ /\ Record(u, "IN_PROGRESS") /\ UNCHANGED touched
          /\ from = "leased" /\ to = "marked"
       \/ /\ touched' = touched \cup u /\ UNCHANGED checkpoint
          /\ from = "marked" /\ to = "executing"
       \/ /\ Record(u, "PASS") /\ UNCHANGED touched
          /\ from = "executing" /\ to = "passed"
       \/ /\ Record(u, "FAIL") /\ UNCHANGED touched
          /\ from = "executing" /\ to = "failed"

LEMMA UnitEffects ==
    ASSUME NEW u, UnitStep(u)
    PROVE  \E from \in UnitStates, to \in UnitStates : UnitEffect(u, from, to)
<1>. DEFINE Result == \E from \in UnitStates, to \in UnitStates :
                          UnitEffect(u, from, to)
<1>. USE DEF Moves, UnitEffect, UnitStates
<1>1. CASE AcquireFails(u)
  <2>1. UnitEffect(u, "new", "error")
    BY <1>1 DEF AcquireFails
  <2>. QED
    BY <2>1
<1>2. CASE Acquire(u)
  <2>1. UnitEffect(u, "new", "leased") \/ UnitEffect(u, "new", "queued")
    BY <1>2 DEF Acquire
  <2>. QED
    BY <2>1
<1>3. CASE Granted(u)
  <2>1. UnitEffect(u, "queued", "leased")
    BY <1>3 DEF Granted
  <2>. QED
    BY <2>1
<1>4. CASE WaitCancelled(u)
  <2>1. UnitEffect(u, "queued", "error")
    BY <1>4 DEF WaitCancelled
  <2>. QED
    BY <2>1
<1>5. CASE MarkInProgress(u)
  <2>1. UnitEffect(u, "leased", "marked")
    BY <1>5 DEF MarkInProgress
  <2>. QED
    BY <2>1
<1>6. CASE MarkFails(u)
  <2>1. UnitEffect(u, "leased", "failed")
    BY <1>6 DEF MarkFails
  <2>. QED
    BY <2>1
<1>7. CASE Execute(u)
  <2>1. UnitEffect(u, "marked", "executing")
    BY <1>7 DEF Execute
  <2>. QED
    BY <2>1
<1>8. CASE ExecuteEnds(u)
  <2>1. \/ UnitEffect(u, "executing", "passed")
        \/ UnitEffect(u, "executing", "failed")
    BY <1>8 DEF ExecuteEnds
  <2>. QED
    BY <2>1
<1>9. CASE ReturnUnit(u)
  <2>1. UnitEffect(u, "passed", "ok") \/ UnitEffect(u, "failed", "error")
    BY <1>9 DEF ReturnUnit
  <2>. QED
    BY <2>1
<1>. QED
  BY <1>1, <1>2, <1>3, <1>4, <1>5, <1>6, <1>7, <1>8, <1>9 DEF UnitStep

\* What is recorded for a unit that has not passed takes no pass back.
LEMMA PassesAfter ==
    ASSUME TypeOK, RunOK, NEW u \in DOMAIN unit, NEW from, NEW to,
           UnitEffect(u, from, to)
    PROVE  \/ /\ Passed' = Passed
              /\ from \in {"passed", "ok"} <=> to \in {"passed", "ok"}
           \/ Passed' = Passed \cup u /\ to = "passed"
<1>1. u \subseteq Cells
  BY DEF TypeOK
<1>2. from \notin {"passed", "ok"} => u \cap Passed = {}
  BY DEF RunOK, Kept, UnitEffect
<1>3. ASSUME NEW status, Record(u, status)
      PROVE  \A c \in Cells :
                checkpoint'[c] = IF c \in u THEN status ELSE checkpoint[c]
  BY <1>3 DEF Record
<1>4. CASE UNCHANGED checkpoint /\ (from \in {"passed", "ok"}
                                       <=> to \in {"passed", "ok"})
  BY <1>4 DEF Passed
<1>5. CASE Record(u, "IN_PROGRESS") /\ from = "leased" /\ to = "marked"
  BY <1>1, <1>2, <1>3, <1>5 DEF Passed
<1>6. CASE Record(u, "PASS") /\ from = "executing" /\ to = "passed"
  BY <1>1, <1>3, <1>6 DEF Passed
<1>7. CASE Record(u, "FAIL") /\ from = "executing" /\ to = "failed"
  BY <1>1, <1>2, <1>3, <1>7 DEF Passed
<1>. QED
  BY <1>4, <1>5, <1>6, <1>7 DEF UnitEffect

LEMMA UnitRun ==
    ASSUME TypeOK, RunOK, NEW u \in DOMAIN unit, UnitStep(u)
    PROVE  RunOK'
<1>1. PICK from \in UnitStates, to \in UnitStates : UnitEffect(u, from, to)
  BY UnitEffects
<1>2. /\ unit[u] = from /\ DOMAIN unit' = DOMAIN unit /\ unit'[u] = to
      /\ \A v \in DOMAIN unit : v # u => unit'[v] = unit[v]
      /\ matrix' = matrix /\ phase' = phase /\ batches' = batches
      /\ completed' = completed
  BY <1>1 DEF UnitEffect
<1>3. Units' = Units /\ Later' = Later
  BY <1>2 DEF Units, Later
<1>4. \/ /\ Passed' = Passed
         /\ from \in {"passed", "ok"} <=> to \in {"passed", "ok"}
      \/ Passed' = Passed \cup u /\ to = "passed"
  BY <1>1, PassesAfter
<1>5. Planned'
  BY <1>2, <1>3 DEF RunOK, Planned
<1>6. InOrder'
  BY <1>2, <1>3 DEF RunOK, InOrder
<1>7. Fresh'
  BY <1>2 DEF RunOK, Fresh, Planned
<1>8. Kept'
  <2>1. /\ Later \cup DOMAIN unit \subseteq Units
        /\ \A v \in Later : v # u
        /\ \A v, w \in Units : v \cap w # {} => v = w
    BY PlannedUnits DEF RunOK, Planned
  <2>2. \A v \in Later \cup DOMAIN unit : v # u => v \cap u = {}
    BY <2>1
  <2>3. Passed \subseteq Passed'
    BY <1>4
  <2>4. \A v \in Later : v \cap Passed' = {}
    BY <1>4, <2>1, <2>2 DEF RunOK, Kept
  <2>5. ASSUME NEW v \in DOMAIN unit
        PROVE  IF unit'[v] \in {"passed", "ok"} THEN v \subseteq Passed'
               ELSE v \cap Passed' = {}
    <3>1. IF unit[v] \in {"passed", "ok"} THEN v \subseteq Passed
          ELSE v \cap Passed = {}
      BY DEF RunOK, Kept
    <3>2. CASE v = u
      BY <1>2, <1>4, <3>1, <3>2
    <3>3. CASE v # u
      BY <1>2, <1>4, <2>2, <3>1, <3>3
    <3>. QED
      BY <3>2, <3>3
  <2>6. completed \subseteq Passed
        /\ (phase # "idle" =>
              \A v \in Units \ (Later \cup DOMAIN unit) : v \subseteq Passed)
    BY DEF RunOK, Kept
  <2>. QED
    BY <1>2, <1>3, <2>3, <2>4, <2>5, <2>6 DEF Kept
<1>. QED
  BY <1>5, <1>6, <1>7, <1>8 DEF RunOK

\* Marks stay, and come before the provider.
LEMMA MarkedStep ==
    ASSUME TypeOK, RunOK, Marked, [Next]_vars
    PROVE  Marked'
<1>1. CASE UNCHANGED <<checkpoint, touched>> /\
           (unit' = unit \/ \A u \in DOMAIN unit' : unit'[u] = "new")
  BY <1>1 DEF Marked, NoSilentMutation, Active
<1>2. ASSUME NEW u \in DOMAIN unit, UnitStep(u) PROVE Marked'
  <2>1. PICK from \in UnitStates, to \in UnitStates : UnitEffect(u, from, to)
    BY <1>2, UnitEffects
  <2>2. /\ unit[u] = from /\ DOMAIN unit' = DOMAIN unit /\ unit'[u] = to
        /\ \A v \in DOMAIN unit : v # u => unit'[v] = unit[v]
    BY <2>1 DEF UnitEffect
  <2>3. /\ DOMAIN unit \subseteq SUBSET Cells /\ touched \subseteq Cells
        /\ \A c \in touched : checkpoint[c] # "none"
        /\ \A v \in DOMAIN unit : unit[v] \in {"marked", "executing"} =>
              \A c \in v : checkpoint[c] # "none"
    BY DEF TypeOK, Marked, NoSilentMutation, Active
  <2>4. ASSUME NEW status, status # "none", Record(u, status)
        PROVE  /\ \A c \in u : checkpoint'[c] # "none"
               /\ \A c \in Cells :
                     checkpoint[c] # "none" => checkpoint'[c] # "none"
    <3>1. \A c \in Cells :
              checkpoint'[c] = IF c \in u THEN status ELSE checkpoint[c]
      BY <2>4 DEF Record
    <3>2. u \subseteq Cells
      BY <2>3
    <3>. QED
      BY <2>4, <3>1, <3>2
  <2>5. \A c \in Cells : checkpoint[c] # "none" => checkpoint'[c] # "none"
    BY <2>1, <2>4 DEF UnitEffect
  <2>6. to \in {"marked", "executing"} => \A c \in u : checkpoint'[c] # "none"
    <3>1. CASE Record(u, "IN_PROGRESS")
      BY <2>4, <3>1
    <3>2. CASE from = "marked" /\ UNCHANGED checkpoint
      BY <2>2, <2>3, <3>2
    <3>. QED
      BY <2>1, <3>1, <3>2 DEF UnitEffect
  <2>7. \A c \in touched' : checkpoint'[c] # "none"
    <3>1. CASE touched' = touched
      BY <2>3, <2>5, <3>1
    <3>2. CASE /\ touched' = touched \cup u
               /\ from = "marked" /\ UNCHANGED checkpoint
      BY <2>2, <2>3, <3>2
    <3>. QED
      BY <2>1, <3>1, <3>2 DEF UnitEffect
  <2>8. ASSUME NEW v \in DOMAIN unit', unit'[v] \in {"marked", "executing"},
               NEW c \in v
        PROVE  checkpoint'[c] # "none"
    <3>1. CASE v = u
      BY <2>2, <2>6, <2>8, <3>1
    <3>2. CASE v # u
      BY <2>2, <2>3, <2>5, <2>8, <3>2
    <3>. QED
      BY <3>1, <3>2
  <2>. QED
    BY <2>7, <2>8 DEF Marked, NoSilentMutation, Active
<1>3. CASE Plan \/ PlanRefused \/ Cancel \/ Crash \/ RunStep
  <2>1. /\ UNCHANGED <<checkpoint, touched>>
        /\ unit' = unit \/ \A u \in DOMAIN unit' : unit'[u] = "new"
    BY <1>3 DEF Plan, PlanRefused, Cancel, Crash, RunStep, StartBatch,
                EndBatch, EndSchedule, NoUnits
  <2>. QED
    BY <1>1, <2>1
<1>4. ASSUME NEW o \in Others,
             OtherAcquires(o) \/ OtherCancelled(o) \/ OtherEnds(o)
      PROVE  Marked'
  <2>1. UNCHANGED <<checkpoint, touched, unit>>
    BY <1>4 DEF OtherAcquires, OtherCancelled, OtherEnds, OtherGranted,
                OtherReleases, OtherMoves, runVars
  <2>. QED
    BY <1>1, <2>1
<1>5. CASE UNCHANGED vars
  BY <1>1, <1>5 DEF vars, runVars
<1>. QED
  BY <1>2, <1>3, <1>4, <1>5 DEF Next

LEMMA RunStepOK ==
    ASSUME TypeOK, RunOK, [Next]_vars
    PROVE  RunOK'
<1>1. CASE Plan
  BY <1>1, PlanRun
<1>2. CASE PlanRefused \/ Cancel
  BY <1>2, RunUnchanged DEF PlanRefused, Cancel
<1>3. CASE Crash
  BY <1>3, StopRun
<1>4. CASE RunStep
  BY <1>4, StartBatchRun, EndBatchRun, StopRun DEF RunStep
<1>5. CASE \E u \in DOMAIN unit : UnitStep(u)
  BY <1>5, UnitRun
<1>6. ASSUME NEW o \in Others,
             OtherAcquires(o) \/ OtherCancelled(o) \/ OtherEnds(o)
      PROVE  RunOK'
  <2>1. UNCHANGED <<matrix, checkpoint, phase, batches, unit, completed>>
    BY <1>6 DEF OtherAcquires, OtherCancelled, OtherEnds, OtherGranted,
                OtherReleases, OtherMoves, runVars
  <2>. QED
    BY <2>1, RunUnchanged
<1>7. CASE UNCHANGED vars
  BY <1>7, RunUnchanged DEF vars, runVars
<1>. QED
  BY <1>1, <1>2, <1>3, <1>4, <1>5, <1>6, <1>7 DEF Next

LEMMA CapacityStep ==
    ASSUME IInv, [Next]_vars
    PROVE  CapacityOK' /\ Linked'
<1>1. TypeOK /\ CapacityOK /\ Linked
  BY DEF IInv
<1>2. CASE UNCHANGED vars
  <2>1. CapacityOK'
    BY <1>1, <1>2 DEF vars, capacityVars, CapacityOK, QueueOK, HeadDoesNotFit
  <2>2. Asking' = Asking /\ leased' = leased /\ unit' = unit /\ ask' = ask
    BY <1>2 DEF vars, runVars, capacityVars, Asking
  <2>3. Linked'
    BY <1>1, <2>2 DEF Linked, Waiting, Holding
  <2>. QED
    BY <2>1, <2>3
<1>. QED
  BY <1>1, <1>2, UnitLinked, OtherLinked, RunLinked DEF Next

\* Types.
LEMMA TypeStep ==
    ASSUME IInv, [Next]_vars, RunOK', Linked'
    PROVE  TypeOK'
<1>1. /\ TypeOK /\ RunOK
  BY DEF IInv, RunOK
<1>2. granted' \cup leased' \subseteq DOMAIN unit' \cup Others
  BY DEF Linked, Asking, Waiting, Holding
<1>3. /\ DOMAIN unit' \subseteq SUBSET Cells
      /\ \A i \in DOMAIN batches' : batches'[i] \subseteq SUBSET Cells
  <2>1. \A u \in Units' : u \subseteq Cells
    <3>1. ASSUME NEW u \in MakeExecutionUnits(matrix', completed')
          PROVE  u \subseteq Cells
      BY UnitCells DEF Scheduled
    <3>. QED
      BY <3>1 DEF Units
  <2>. QED
    BY <2>1 DEF RunOK, Planned
<1>4. /\ checkpoint \in [Cells -> {"none", "IN_PROGRESS", "PASS", "FAIL"}]
      /\ DOMAIN matrix = Cells
      /\ phase \in {"idle", "running", "batch"}
      /\ attempts \in 0 .. MaxAttempts
      /\ \A u \in DOMAIN unit : u \subseteq Cells /\ unit[u] \in UnitStates
      /\ cancelled \in BOOLEAN
      /\ completed \subseteq Cells /\ touched \subseteq Cells
      /\ ask \in [Others -> {"none", "queued", "leased"}]
  BY <1>1 DEF TypeOK
<1>. DEFINE Rest ==
        /\ DOMAIN matrix' = Cells
        /\ checkpoint' \in [Cells -> {"none", "IN_PROGRESS", "PASS", "FAIL"}]
        /\ phase' \in {"idle", "running", "batch"}
        /\ attempts' \in 0 .. MaxAttempts
        /\ \A u \in DOMAIN unit' : unit'[u] \in UnitStates
        /\ cancelled' \in BOOLEAN
        /\ completed' \subseteq Cells
        /\ ask' \in [Others -> {"none", "queued", "leased"}]
        /\ touched' \subseteq Cells
<1>5. CASE Plan \/ PlanRefused
  <2>1. attempts' \in 0 .. MaxAttempts
    BY <1>4, <1>5, RunAssumption DEF Plan, PlanRefused
  <2>2. /\ matrix' = matrix /\ checkpoint' = checkpoint /\ unit' = unit
        /\ ask' = ask /\ touched' = touched
        /\ phase' \in {"running", phase} /\ cancelled' \in {FALSE, cancelled}
        /\ completed' \in {Passed, completed}
    BY <1>5 DEF Plan, PlanRefused
  <2>3. Rest
    BY <1>4, <2>1, <2>2 DEF Passed
  <2>. QED
    BY <1>2, <1>3, <2>3 DEF TypeOK
<1>6. CASE Cancel \/ Crash \/ RunStep
  <2>1. /\ matrix' = matrix /\ checkpoint' = checkpoint
        /\ touched' = touched /\ attempts' = attempts /\ completed' = completed
        /\ cancelled' \in {TRUE, cancelled}
        /\ phase' \in {"idle", "running", "batch"}
        /\ ask' = ask \/ ask' = [o \in Others |-> "none"]
        /\ unit' = unit \/ \A u \in DOMAIN unit' : unit'[u] = "new"
    BY <1>4, <1>6 DEF Cancel, Crash, RunStep, StartBatch, EndBatch,
                      EndSchedule, NoUnits
  <2>2. Rest
    BY <1>4, <2>1 DEF UnitStates
  <2>. QED
    BY <1>2, <1>3, <2>2 DEF TypeOK
<1>7. ASSUME NEW u \in DOMAIN unit, UnitStep(u) PROVE TypeOK'
  <2>1. PICK from \in UnitStates, to \in UnitStates : UnitEffect(u, from, to)
    BY <1>7, UnitEffects
  <2>2. /\ DOMAIN unit' = DOMAIN unit /\ unit'[u] = to
        /\ \A v \in DOMAIN unit : v # u => unit'[v] = unit[v]
        /\ matrix' = matrix /\ phase' = phase /\ attempts' = attempts
        /\ cancelled' = cancelled /\ completed' = completed /\ ask' = ask
    BY <2>1 DEF UnitEffect
  <2>3. checkpoint' \in [Cells -> {"none", "IN_PROGRESS", "PASS", "FAIL"}]
    BY <1>4, <2>1 DEF UnitEffect, Record
  <2>4. touched' \subseteq Cells
    BY <1>4, <2>1 DEF UnitEffect
  <2>5. Rest
    BY <1>4, <2>2, <2>3, <2>4
  <2>. QED
    BY <1>2, <1>3, <2>5 DEF TypeOK
<1>8. ASSUME NEW o \in Others,
             OtherAcquires(o) \/ OtherCancelled(o) \/ OtherEnds(o)
      PROVE  TypeOK'
  <2>1. UNCHANGED <<matrix, checkpoint, touched, runVars>>
    BY <1>8 DEF OtherAcquires, OtherCancelled, OtherEnds, OtherGranted,
                OtherReleases, OtherMoves
  <2>2. ask' \in [Others -> {"none", "queued", "leased"}]
    BY <1>8, OtherLinked DEF IInv
  <2>3. Rest
    BY <1>4, <2>1, <2>2 DEF runVars
  <2>. QED
    BY <1>2, <1>3, <2>3 DEF TypeOK
<1>9. CASE UNCHANGED vars
  <2>1. Rest
    BY <1>4, <1>9 DEF vars, runVars
  <2>. QED
    BY <1>2, <1>3, <2>1 DEF TypeOK
<1>. QED
  BY <1>5, <1>6, <1>7, <1>8, <1>9 DEF Next

LEMMA InitIInv ==
    ASSUME Init
    PROVE  IInv
<1>1. /\ matrix \in Matrices
      /\ phase = "idle" /\ attempts = 0
      /\ batches = <<>> /\ DOMAIN unit = {}
      /\ cancelled = FALSE /\ completed = {}
      /\ ask = [o \in Others |-> "none"]
      /\ CapacityInit
  BY DEF Init, NoUnits
<1>2. PICK S \in Certified(matrix) :
          /\ checkpoint = [c \in Cells |-> IF c \in S THEN "PASS" ELSE "none"]
          /\ touched = S
  BY DEF Init
<1>3. CapacityOK /\ Asking = {} /\ leased = {}
  BY <1>1, CapacityStarts
<1>4. S \subseteq Cells
  BY DEF Certified
<1>5. TypeOK
  <2>1. checkpoint \in [Cells -> {"none", "IN_PROGRESS", "PASS", "FAIL"}]
    BY <1>2
  <2>2. DOMAIN matrix = Cells /\ attempts \in 0 .. MaxAttempts
    BY <1>1, RunAssumption
  <2>3. granted \cup leased = {}
    BY <1>3 DEF Asking
  <2>4. DOMAIN batches = {} /\ ask \in [Others -> {"none", "queued", "leased"}]
    BY <1>1
  <2>. QED
    BY <1>1, <1>2, <1>4, <2>1, <2>2, <2>3, <2>4 DEF TypeOK
<1>6. Linked
  BY <1>3 DEF Linked
<1>7. Later = {} /\ batches \in Seq(SUBSET Units) /\ DOMAIN batches = {}
  BY <1>1 DEF Later
<1>8. Planned /\ Kept /\ InOrder /\ Fresh
  BY <1>1, <1>7 DEF Planned, Kept, InOrder, Fresh
<1>9. Marked
  BY <1>1, <1>2, <1>4 DEF Marked, NoSilentMutation, Active
<1>. QED
  BY <1>3, <1>5, <1>6, <1>8, <1>9 DEF IInv

\* Every state of a certification run satisfies the invariant: clients and
\* units agree on who has capacity, and units, plan and checkpoints on what
\* has run.
THEOREM RunInvariant == Spec => []IInv
<1>1. ASSUME IInv, [Next]_vars PROVE IInv'
  <2>1. RunOK' /\ Marked'
    BY <1>1, RunStepOK, MarkedStep DEF IInv, RunOK
  <2>2. CapacityOK' /\ Linked'
    BY <1>1, CapacityStep
  <2>3. TypeOK'
    BY <1>1, <2>1, <2>2, TypeStep
  <2>. QED
    BY <2>1, <2>2, <2>3 DEF IInv, RunOK
<1>. QED
  BY <1>1, InitIInv, PTL DEF Spec

-----------------------------------------------------------------------------
(***************************************************************************)
(* The properties.                                                         *)
(***************************************************************************)

\* The types of TypeOK hold in every state, and clients that have capacity
\* are units of the current batch or belong to other schedules.
THEOREM TypeCorrect == Spec => []TypeOK
<1>1. IInv => TypeOK
  BY DEF IInv
<1>. QED
  BY <1>1, RunInvariant, PTL

\* Capacity is neither lost nor invented by the reservation, whatever races
\* with a cancellation.
THEOREM CapacityIsConserved == Spec => []CapacityConserved
<1>1. IInv => CapacityConserved
  BY DEF IInv, CapacityOK, Balanced, CapacityConserved
<1>. QED
  BY <1>1, RunInvariant, PTL

\* No wake-up is lost: Acquire, its cancellation and Release leave no waiter
\* at the head of the queue that fits.
THEOREM NoWakeUpIsLost == Spec => []HeadDoesNotFit
<1>1. IInv => HeadDoesNotFit
  BY DEF IInv, CapacityOK
<1>. QED
  BY <1>1, RunInvariant, PTL

\* The checkpoint file tells of every cell ExecuteSchedule called the provider
\* for.
THEOREM MutationsAreMarked == Spec => []NoSilentMutation
<1>1. IInv => NoSilentMutation
  BY DEF IInv, Marked
<1>. QED
  BY <1>1, RunInvariant, PTL

\* ExecuteSchedule never fails on a plan of BuildSchedule.
THEOREM PlansPass == Spec => []PlanIsValid
<1>1. ASSUME IInv PROVE PlanIsValid
  <2>. SUFFICES ASSUME phase = "running", completed = Passed
                PROVE  ValidSchedule(matrix, completed, batches)
    BY DEF PlanIsValid
  <2>1. ASSUME NEW u \in Units, u \subseteq Passed PROVE FALSE
    <3>1. u # {} /\ u \cap completed = {}
      BY <1>1, PlannedUnits DEF IInv
    <3>. QED
      BY <2>1, <3>1
  <2>. QED
    BY <1>1, <2>1 DEF IInv, Fresh
<1>. QED
  BY <1>1, RunInvariant, PTL

\* The provider is called for a cell only after the cells it depends on and
\* the one it warms from have a recorded pass, or in one unit with them.
THEOREM DependenciesHavePassed == Spec => []DependenciesPassed
<1>1. ASSUME IInv PROVE DependenciesPassed
  <2>. DEFINE deps(c) == matrix[c].dependencies
                            \cup ({matrix[c].warmFrom} \ {None})
              scheduled == Scheduled(matrix, completed)
  <2>. SUFFICES ASSUME NEW u \in Active, NEW c \in u, NEW d \in deps(c)
                PROVE  d \in Passed \cup u
    BY DEF DependenciesPassed
  <2>1. u \in DOMAIN unit /\ u \in Units /\ phase # "idle"
    BY <1>1 DEF Active, IInv, Planned
  <2>2. c \in scheduled
    BY <2>1, UnitCells DEF Units
  <2>3. d \in completed \cup scheduled
    BY <1>1, <2>1, <2>2 DEF IInv, Planned, Schedulable
  <2>4. CASE d \in completed
    BY <1>1, <2>4 DEF IInv, Kept
  <2>5. CASE d \in scheduled
    <3>. DEFINE v == UnitOf(matrix, completed, d)
    <3>1. d \in v /\ v \in Units
      BY <2>5, UnitOfCell DEF Units
    <3>. HIDE DEF v
    <3>2. d \notin completed
      BY <2>5 DEF Scheduled
    <3>3. CASE v = u
      BY <3>1, <3>3
    <3>4. CASE v # u
      <4>1. \/ (matrix[c].dependencies \ completed) \cap v # {}
            \/ matrix[c].warmFrom \in v
        BY <3>1, <3>2
      <4>2. v \in DependsOn(matrix, completed, u)
        BY <3>1, <3>4, <4>1 DEF DependsOn, Units
      <4>3. v \notin Later \cup DOMAIN unit
        BY <1>1, <2>1, <4>2 DEF IInv, InOrder
      <4>4. v \subseteq Passed
        BY <1>1, <2>1, <3>1, <4>3 DEF IInv, Kept
      <4>. QED
        BY <3>1, <4>4
    <3>. QED
      BY <3>3, <3>4
  <2>. QED
    BY <2>3, <2>4, <2>5
<1>. QED
  BY <1>1, RunInvariant, PTL

\* No step takes a recorded pass back.
THEOREM PassesAreKept == Spec => PassIsKept
<1>1. ASSUME IInv, [Next]_vars
      PROVE  [\A c \in Passed : checkpoint'[c] = "PASS"]_vars
  <2>. SUFFICES ASSUME NEW c \in Passed PROVE checkpoint'[c] = "PASS"
    OBVIOUS
  <2>1. c \in Cells /\ checkpoint[c] = "PASS"
    BY DEF Passed
  <2>2. ASSUME NEW u \in DOMAIN unit, UnitStep(u)
        PROVE  checkpoint'[c] = "PASS"
    <3>1. PICK from \in UnitStates, to \in UnitStates : UnitEffect(u, from, to)
      BY <2>2, UnitEffects
    <3>2. Passed \subseteq Passed'
      BY <1>1, <3>1, PassesAfter DEF IInv, RunOK
    <3>. QED
      BY <3>2 DEF Passed
  <2>3. CASE UNCHANGED checkpoint
    BY <2>1, <2>3
  <2>4. CASE Plan \/ PlanRefused \/ Cancel \/ Crash \/ RunStep
    BY <2>3, <2>4 DEF Plan, PlanRefused, Cancel, Crash, RunStep, StartBatch,
                      EndBatch, EndSchedule
  <2>5. ASSUME NEW o \in Others,
               OtherAcquires(o) \/ OtherCancelled(o) \/ OtherEnds(o)
        PROVE  checkpoint'[c] = "PASS"
    BY <2>3, <2>5 DEF OtherAcquires, OtherCancelled, OtherEnds, OtherGranted,
                      OtherReleases, OtherMoves
  <2>. QED
    BY <1>1, <2>2, <2>3, <2>4, <2>5 DEF Next, vars
<1>. QED
  BY <1>1, RunInvariant, PTL DEF Spec, PassIsKept
==============================================================================
