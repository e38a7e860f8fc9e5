-------------------------- MODULE MCDeploymentLock --------------------------
(***************************************************************************)
(* Small instances of DeploymentLock.  Three deploys are needed for the    *)
(* longest interesting story (a run is evicted, a second takes the lock, a *)
(* third would if the first freed it); a and b have the same host name and *)
(* pid, as two CI containers may.                                          *)
(***************************************************************************)
EXTENDS DeploymentLock, TLC

CONSTANTS a, b, c, o1, o2

MCOwner == [r \in Runs |-> IF r = c THEN "laptop-9" ELSE "runner-7"]

\* A deploy, a destroy and a state backup.
MCCommand == [r \in Runs |->
    CASE r = a -> "deploy" [] r = b -> "destroy" [] r = c -> "state"]
=============================================================================
