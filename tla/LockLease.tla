------------------------------ MODULE LockLease ------------------------------
(***************************************************************************)
(* What the deployment lock promises to the commands that take it, with no *)
(* object store, handles or requests: one run at a time is inside; a run   *)
(* that ends badly may leave the lock behind, and then nobody enters until *)
(* it is cleared; a run enters at most once.                               *)
(***************************************************************************)
CONSTANT Runs

VARIABLES
    inside,   \* runs that work on the environment
    left,     \* the lock is held by nobody who is still working
    used      \* runs that have asked for the lock

vars == <<inside, left, used>>

Init ==
    /\ inside = {}
    /\ left = FALSE
    /\ used = {}

Open == inside = {} /\ ~left

Enter(r) ==
    /\ Open
    /\ r \notin used
    /\ inside' = {r}
    /\ used' = used \cup {r}
    /\ UNCHANGED left

\* The run is turned away, or fails before it is inside; in the latter case
\* it may leave the lock behind.
GiveUp(r) ==
    /\ r \notin used
    /\ used' = used \cup {r}
    /\ UNCHANGED inside
    /\ \/ UNCHANGED left
       \/ Open /\ left' = TRUE

\* The run leaves; a crash or a failed release leaves the lock behind.
Leave(r) ==
    /\ inside = {r}
    /\ inside' = {}
    /\ left' \in BOOLEAN
    /\ UNCHANGED used

Clear ==
    /\ left
    /\ left' = FALSE
    /\ UNCHANGED <<inside, used>>

Next == Clear \/ \E r \in Runs : Enter(r) \/ GiveUp(r) \/ Leave(r)

Spec == Init /\ [][Next]_vars
==============================================================================
