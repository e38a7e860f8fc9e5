---------------------------- MODULE LocalCapacity ----------------------------
(***************************************************************************)
(* The reservation of local CPU and memory that the units of one process   *)
(* share (internal/certification/local_capacity.go).  Waiters are served   *)
(* in the order they came, and only from the head of the queue.  A waiter  *)
(* learns of its grant later than it is made: its context may be cancelled *)
(* in between.                                                             *)
(***************************************************************************)
EXTENDS Integers, Sequences, FiniteSets

CONSTANTS
    Clients,     \* who may ask for capacity
    Capacity,    \* what the host has: a record of cpu and memory
    Request(_)   \* what a client asks for

VARIABLES
    available, \* what is left
    waiters,   \* clients in the queue
    granted,   \* clients with capacity that they have not taken yet
    leased     \* clients that hold a lease

capacityVars == <<available, waiters, granted, leased>>

Amounts == [cpu : Nat, memory : Nat]

ASSUME CapacityAssumption ==
    /\ Capacity \in Amounts
    /\ \A c \in Clients : Request(c) \in Amounts

CapacityInit ==
    /\ available = Capacity
    /\ waiters = <<>>
    /\ granted = {} /\ leased = {}

Minus(have, take) ==
    [cpu |-> have.cpu - take.cpu, memory |-> have.memory - take.memory]
Plus(have, give) ==
    [cpu |-> have.cpu + give.cpu, memory |-> have.memory + give.memory]

Fits(request, have) == request.cpu <= have.cpu /\ request.memory <= have.memory

\* What is left after each client of a queue has been served.
LeftAfter(have, queue) ==
    LET left[k \in 0..Len(queue)] ==
            IF k = 0 THEN have ELSE Minus(left[k - 1], Request(queue[k]))
    IN  left

\* The first k clients of the queue fit, each into what those before it leave.
Served(have, queue, k) ==
    \A j \in 1..k : Fits(Request(queue[j]), LeftAfter(have, queue)[j - 1])

GrantCount(have, queue) ==
    CHOOSE k \in 0..Len(queue) :
        Served(have, queue, k) /\ (k = Len(queue) \/ ~Served(have, queue, k + 1))

\* Serves the queue from its head, as long as the head fits what is left;
\* the clients in owing have been granted before.
GrantWaiters(have, queue, owing) ==
    LET n == GrantCount(have, queue)
    IN  /\ available' = LeftAfter(have, queue)[n]
        /\ waiters' = SubSeq(queue, n + 1, Len(queue))
        /\ granted' = owing \cup {queue[j] : j \in 1..n}

\* Nobody waits and the request fits: the lease is given at once.
AcquireAtOnce(c) ==
    /\ waiters = <<>> /\ Fits(Request(c), available)
    /\ available' = Minus(available, Request(c))
    /\ leased' = leased \cup {c}
    /\ UNCHANGED <<waiters, granted>>

Enqueue(c) ==
    /\ Fits(Request(c), Capacity)
    /\ waiters # <<>> \/ ~Fits(Request(c), available)
    /\ GrantWaiters(available, Append(waiters, c), granted)
    /\ UNCHANGED leased

TakeGrant(c) ==
    /\ c \in granted
    /\ granted' = granted \ {c}
    /\ leased' = leased \cup {c}
    /\ UNCHANGED <<available, waiters>>

\* The queue without the client at position i.
Without(queue, i) ==
    SubSeq(queue, 1, i - 1) \o SubSeq(queue, i + 1, Len(queue))

\* A cancelled waiter gives back what it was granted, or leaves the queue,
\* and those behind it may fit now.
\* (Mutants: the queue is not served after the waiter has left it; or what it
\* was granted is not given back.)
LeaveQueue(c) ==
    /\ \/ /\ c \in granted
          /\ GrantWaiters(Plus(available, Request(c)), waiters, granted \ {c})
       \/ /\ c \notin granted
          /\ \E i \in DOMAIN waiters :
                 waiters[i] = c /\ waiters' = Without(waiters, i)
          /\ UNCHANGED <<available, granted>>
    /\ UNCHANGED leased
StrandGrant(c) ==
    /\ \/ /\ c \in granted
          /\ GrantWaiters(available, waiters, granted \ {c})
       \/ /\ c \notin granted
          /\ \E i \in DOMAIN waiters :
                 /\ waiters[i] = c
                 /\ GrantWaiters(available, Without(waiters, i), granted)
    /\ UNCHANGED leased
CancelWait(c) ==
    /\ \/ /\ c \in granted
          /\ GrantWaiters(Plus(available, Request(c)), waiters, granted \ {c})
       \/ /\ c \notin granted
          /\ \E i \in DOMAIN waiters :
                 /\ waiters[i] = c
                 /\ GrantWaiters(available, Without(waiters, i), granted)
    /\ UNCHANGED leased

\* Release is idempotent: only the first one gives the capacity back.
Release(c) ==
    /\ c \in leased
    /\ leased' = leased \ {c}
    /\ GrantWaiters(Plus(available, Request(c)), waiters, granted)

-----------------------------------------------------------------------------
\* The requests of a set of clients, added up: the number of slots they take.
Slots(clients, amount) == UNION {{c} \X (1..amount[c]) : c \in clients}
Sum(clients, amount) == Cardinality(Slots(clients, amount))

Cpu == [c \in Clients |-> Request(c).cpu]
Memory == [c \in Clients |-> Request(c).memory]

\* Capacity is neither lost nor invented, whatever races with a cancellation:
\* what is left and what clients have adds up to what the host has.
CapacityConserved ==
    LET out == granted \cup leased
    IN  /\ available \in Amounts
        /\ available.cpu + Sum(out, Cpu) = Capacity.cpu
        /\ available.memory + Sum(out, Memory) = Capacity.memory

\* No wake-up is lost: whoever heads the queue does not fit.
HeadDoesNotFit ==
    waiters # <<>> => ~Fits(Request(waiters[1]), available)
=============================================================================
