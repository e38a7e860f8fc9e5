--------------------------- MODULE MCOrchestrator ---------------------------
(***************************************************************************)
(* Small instances of Orchestrator: a deploy and a second command that     *)
(* competes with it for the environment.                                   *)
(***************************************************************************)
EXTENDS Orchestrator

CONSTANTS a, b, o1

MCOwner == [r \in Runs |-> "runner-7"]

MCDeploys == [r \in Runs |-> "deploy"]

\* A deploy and a destroy.
MCMixed == [r \in Runs |-> IF r = a THEN "deploy" ELSE "destroy"]

Staging == [production |-> FALSE, approved |-> FALSE, signed |-> FALSE,
            rollback |-> FALSE, ackForwardOnly |-> FALSE, ackDrain |-> FALSE,
            protected |-> FALSE]

\* A staging deploy and a production deploy without approval.
MCRequests == {Staging, [Staging EXCEPT !.production = TRUE]}

MCStaging == {Staging}

MCNoHooks == {{}}

\* No hooks, or hooks that disable the migrations.
MCSkipped == {{}, {"migrate"}}

\* No hooks, or hooks that replace registration and migrations.
MCReplaced == {{}, {"register", "migrate"}}
=============================================================================
