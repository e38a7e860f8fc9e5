----------------------------- MODULE MCReleases -----------------------------
(* Three processes and two digests, the newer of which migrates the schema. *)
EXTENDS Releases, TLC

CONSTANTS a, b, c, old, new

MCCommands == (a :> {"deploy", "import"}) @@ (b :> {"rollback"})
              @@ (c :> Actions \ {"deploy", "rollback"})
MCEpoch == (old :> 1) @@ (new :> 2)

Promoted(d, e) == [action |-> "promote", digest |-> d, signed |-> TRUE, epoch |-> e]
Deployed(d, e) == [action |-> "deploy", digest |-> d, signed |-> TRUE, epoch |-> e]

\* A new environment that was given a dump, and one in production that runs
\* the old digest and whose import of a dump has failed.
MCHistories ==
    {[production |-> FALSE, journal |-> <<Promoted(old, 0)>>, served |-> None,
      via |-> "deploy", epoch |-> 0, content |-> "empty", status |-> "recorded"],
     [production |-> TRUE, journal |-> <<Promoted(old, 0), Deployed(old, 1)>>,
      served |-> old, via |-> "deploy", epoch |-> 1,
      content |-> "site", status |-> "failed"]}
==============================================================================
