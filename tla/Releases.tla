------------------------------- MODULE Releases -------------------------------
(***************************************************************************)
(* The release journal of one checkout and environment and the commands    *)
(* that write it: promote, deploy and rollback, with the import of the     *)
(* seed dump that a deployment runs after it has left the deployment lock, *)
(* and the commands that change what is served without a row: --infra-only *)
(* and destroy.  Every run is one process that executes one command.  The  *)
(* deployment lock is the one LockLease promises; the journal and the      *)
(* status file of the dump, which are files of the checkout, have lock     *)
(* files of their own, created exclusively and never taken over.  A        *)
(* process may also belong to another checkout of the same environment: it *)
(* shares the lock and the database and writes a journal of its own        *)
(* (Elsewhere).                                                            *)
(***************************************************************************)
EXTENDS Integers, Sequences, FiniteSetsExt

CONSTANTS
    Runs,       \* the processes
    Commands,   \* Commands[r]: what r may be asked to do
    Digests,    \* image digests
    Epoch,      \* Epoch[d]: the schema epoch the migrations of d lead to
    DumpEpoch,  \* the schema epoch of the seed dump
    Histories,  \* the states the environment and the checkout may be found in
    MaxCrashes, \* bound on the processes that are killed
    None

Actions == {"promote", "deploy", "rollback", "import", "infra", "destroy",
            "elsewhere"}

ASSUME ReleasesAssumption ==
    /\ Commands \in [Runs -> SUBSET Actions]
    /\ Epoch \in [Digests -> Nat \ {0}]
    /\ {DumpEpoch, MaxCrashes} \subseteq Nat
    /\ None \notin Runs \cup Digests \cup Actions

Row == [action : Actions, digest : Digests, signed : BOOLEAN, epoch : Nat]
Statuses == {"recorded", "importing", "imported", "failed"}
Contents == {"empty", "site", "partial", "mixed", "dump"}

\* The digest of the newest deploy row, and whether one was promoted.
DeployRows(list) == {i \in DOMAIN list : list[i].action = "deploy"}
LastDeployed(list) == IF DeployRows(list) = {} THEN None
                      ELSE list[Max(DeployRows(list))].digest
PromotedIn(list, d) ==
    \E i \in DOMAIN list : list[i].action = "promote" /\ list[i].digest = d

\* An environment is found new, as the commands of this checkout leave one when
\* they are not interrupted and its class has not changed, or as others left it.
ASSUME HistoriesAssumption ==
    \A h \in Histories :
        /\ h.production \in BOOLEAN
        /\ h.journal \in Seq(Row)
        /\ h.served \in Digests \cup {None} /\ h.via \in {"deploy", "other"}
        /\ h.via = "deploy" => h.served = LastDeployed(h.journal)
        /\ h.epoch \in Nat /\ h.content \in Contents /\ h.status \in Statuses
        /\ h.status = "imported" => h.content = "dump"
        /\ h.production /\ h.via = "deploy" /\ h.served # None
              => PromotedIn(h.journal, h.served)
        /\ \A i \in DOMAIN h.journal :
              h.journal[i].signed => PromotedIn(h.journal, h.journal[i].digest)

VARIABLES
    inside, left, used,  \* the deployment lock: LockLease
    production,  \* the class of the environment
    journal,     \* the rows of releases/<environment>.jsonl
    jlock,       \* the run whose lock file guards the journal
    status,      \* of the seed dump
    slock,       \* the run whose lock file guards the status
    epoch,       \* the schema epoch of the database
    content,     \* what the database holds
    served,      \* the digest served, and whether a deployment of this
                 \* checkout put it there
    pc,          \* the step of each process
    job,         \* its command and what it has found out
    row,         \* the row it is about to append
    rows,        \* the journal as it has read it
    \* history
    misled,      \* rollbacks that took the schema for another than the live
                 \* one: a count failed, or it changed after it was read
    unrecorded,  \* the served image has no deploy row, its run having failed
    spoilt       \* the database is not the work of one whole import: one ran
                 \* at the same time as another or as a migration, was cut
                 \* short unseen, was another checkout's, or it was destroyed

leaseVars == <<inside, left, used>>
journalVars == <<journal, jlock, row, rows>>
dataVars == <<status, slock, epoch, content, spoilt>>
vars == <<leaseVars, production, journalVars, dataVars, served, pc, job,
          misled, unrecorded>>

Lease == INSTANCE LockLease

Job == [act : Actions \cup {None}, digest : Digests \cup {None},
        target : Nat, live : Nat, yes : BOOLEAN, ok : BOOLEAN]

NoJob == [act |-> None, digest |-> None, target |-> 0, live |-> 0,
          yes |-> FALSE, ok |-> TRUE]

Importing == {"inspect", "replace", "load", "loading", "imported", "failed"}
Writing == {"append", "locked", "read", "written"}
Over == {"done", "crashed"}
Places == {"idle", "check", "acquire", "migrate", "update", "record", "leave",
           "destroying", "status", "mark"} \cup Writing \cup Importing \cup Over

TypeOK ==
    /\ production \in BOOLEAN
    /\ journal \in Seq(Row)
    /\ {jlock, slock} \subseteq Runs \cup {None}
    /\ status \in Statuses
    /\ epoch \in Nat
    /\ content \in Contents
    /\ served \in [digest : Digests \cup {None}, via : {"deploy", "other"}]
    /\ pc \in [Runs -> Places]
    /\ job \in [Runs -> Job]
    /\ row \in [Runs -> Row \cup {None}]
    /\ \A r \in Runs : pc[r] \in Writing => row[r] \in Row
    /\ rows \in [Runs -> Seq(Row)]
    /\ misled \subseteq Runs
    /\ {unrecorded, spoilt} \subseteq BOOLEAN

Init ==
    /\ Lease!Init
    /\ \E h \in Histories :
          /\ production = h.production
          /\ journal = h.journal /\ status = h.status
          /\ epoch = h.epoch /\ content = h.content
          /\ served = [digest |-> h.served, via |-> h.via]
    /\ jlock = None /\ slock = None
    /\ pc = [r \in Runs |-> "idle"]
    /\ job = [r \in Runs |-> NoJob]
    /\ row = [r \in Runs |-> None]
    /\ rows = [r \in Runs |-> <<>>]
    /\ misled = {} /\ unrecorded = FALSE /\ spoilt = FALSE

\* The process goes on at p with the job as j has it, which ends with it.
Goto(r, p, j) ==
    /\ pc' = [pc EXCEPT ![r] = p]
    /\ job' = [job EXCEPT ![r] = IF p \in Over THEN NoJob ELSE j]
Moves(r, p) == Goto(r, p, job[r])
Fails(r, p) == Goto(r, p, [job[r] EXCEPT !.ok = FALSE])

(***************************** what the journal says ***********************)

\* The latest row of the list with the property, if there is one.
Newest(list, Test(_)) ==
    LET I == {i \in DOMAIN list : Test(list[i])}
    IN  IF I = {} THEN {} ELSE {list[Max(I)]}

SignedRow(list, d) == Newest(list, LAMBDA e : e.digest = d /\ e.signed)

SchemaEpochForDigest(list, d) ==
    LET Found == Newest(list, LAMBDA e : e.digest = d /\ e.epoch >= 1)
    IN  IF Found = {} THEN 0 ELSE (CHOOSE e \in Found : TRUE).epoch

\* The epoch is the sum of two counts of the database, if a transport to it is
\* configured; a count whose query fails is taken for 0.
Observed == 0 .. epoch

\* (Mutant: an epoch that was not recorded is taken for compatible.)
OnlyOlderIsIncompatible(live, target) == target >= 1 /\ target < live
RefuseIncompatibleRollback(live, target) ==
    live < 1 \/ target < 1 \/ target < live

(********************************* promote *********************************)

\* The signature verifies; the row carries the epoch of the live database.
Promote(r) ==
    /\ pc[r] = "idle" /\ "promote" \in Commands[r]
    /\ \E d \in Digests, e \in Observed :
          /\ Goto(r, "append", [NoJob EXCEPT !.act = "promote"])
          /\ row' = [row EXCEPT ![r] = [action |-> "promote", digest |-> d,
                                        signed |-> TRUE, epoch |-> e]]
    /\ UNCHANGED <<leaseVars, production, journal, jlock, rows, dataVars,
                   served, misled, unrecorded>>

(****************************** Store.Append *******************************)

\* (Mutant: the lock file is created whether or not it exists.)
LockJournalAnyway(r) ==
    /\ pc[r] = "append"
    /\ jlock' = r
    /\ Moves(r, "locked")
    /\ UNCHANGED <<leaseVars, production, journal, row, rows, dataVars,
                   served, misled, unrecorded>>
LockJournal(r) ==
    /\ pc[r] = "append" /\ jlock = None
    /\ jlock' = r
    /\ Moves(r, "locked")
    /\ UNCHANGED <<leaseVars, production, journal, row, rows, dataVars,
                   served, misled, unrecorded>>

ReadJournal(r) ==
    /\ pc[r] = "locked"
    /\ rows' = [rows EXCEPT ![r] = journal]
    /\ Moves(r, "read")
    /\ UNCHANGED <<leaseVars, production, journal, jlock, row, dataVars,
                   served, misled, unrecorded>>

\* The whole file is replaced, by a rename.
WriteJournal(r) ==
    /\ pc[r] = "read"
    /\ journal' = Append(rows[r], row[r])
    /\ rows' = [rows EXCEPT ![r] = <<>>]
    /\ unrecorded' = IF row[r].action = "deploy" THEN FALSE ELSE unrecorded
    /\ Moves(r, "written")
    /\ UNCHANGED <<leaseVars, production, jlock, row, dataVars, served,
                   misled>>

\* Where the command goes on, recorded or not.
AfterAppend(r) == IF row[r].action = "deploy" THEN "leave" ELSE "done"

\* The journal cannot be read or the new file cannot be written.
AppendFails(r) ==
    /\ pc[r] \in {"locked", "read"}
    /\ Fails(r, AfterAppend(r))
    /\ jlock' = None
    /\ row' = [row EXCEPT ![r] = None]
    /\ rows' = [rows EXCEPT ![r] = <<>>]
    /\ UNCHANGED <<leaseVars, production, journal, dataVars, served,
                   misled, unrecorded>>

\* The command is cancelled while it waits for the lock file.
AppendCancelled(r) ==
    /\ pc[r] = "append"
    /\ Fails(r, AfterAppend(r))
    /\ row' = [row EXCEPT ![r] = None]
    /\ UNCHANGED <<leaseVars, production, journal, jlock, rows, dataVars,
                   served, misled, unrecorded>>

\* (Mutant: the lock file is closed and not removed.)
KeepLockFile(r) ==
    /\ pc[r] = "written"
    /\ row' = [row EXCEPT ![r] = None]
    /\ Moves(r, AfterAppend(r))
    /\ UNCHANGED <<leaseVars, production, journal, jlock, rows, dataVars,
                   served, misled, unrecorded>>
UnlockJournal(r) ==
    /\ pc[r] = "written"
    /\ jlock' = None
    /\ row' = [row EXCEPT ![r] = None]
    /\ Moves(r, AfterAppend(r))
    /\ UNCHANGED <<leaseVars, production, journal, rows, dataVars, served,
                   misled, unrecorded>>

(**************************** rollback and deploy **************************)

\* The newest row names the digest: the rollback is refused as done already.
AlreadyCurrent(d) == journal # <<>> /\ journal[Len(journal)].digest = d

\* The operator names a row; its signature and epoch, if it has none, are
\* those of the newest row of the digest that has them.
Rollback(r) ==
    /\ pc[r] = "idle" /\ "rollback" \in Commands[r]
    /\ \E n \in DOMAIN journal :
          LET d == journal[n].digest IN
          /\ journal[n].signed \/ SignedRow(journal, d) # {}
          /\ ~AlreadyCurrent(d)
          /\ Goto(r, "check", [NoJob EXCEPT !.act = "rollback", !.digest = d,
                        !.target = IF journal[n].epoch >= 1
                                   THEN journal[n].epoch
                                   ELSE SchemaEpochForDigest(journal, d)])
    /\ UNCHANGED <<leaseVars, production, journalVars, dataVars, served,
                   misled, unrecorded>>

\* The live epoch is read and compared before the deployment begins.
CheckSchema(r) ==
    /\ pc[r] = "check"
    /\ \E e \in Observed :
          /\ Goto(r, IF RefuseIncompatibleRollback(e, job[r].target)
                     THEN "done" ELSE "acquire",
                  [job[r] EXCEPT !.live = e])
          /\ misled' = IF 1 <= e /\ e < epoch THEN misled \cup {r} ELSE misled
    /\ UNCHANGED <<leaseVars, production, journalVars, dataVars, served,
                   unrecorded>>

Deploy(r) ==
    /\ pc[r] = "idle" /\ "deploy" \in Commands[r]
    /\ \E d \in Digests :
          Goto(r, "acquire", [NoJob EXCEPT !.act = "deploy", !.digest = d])
    /\ UNCHANGED <<leaseVars, production, journalVars, dataVars, served,
                   misled, unrecorded>>

\* A production digest has to have a signed row.  (The journal is read just
\* before the lock is asked for; its rows do not go away in between.)
\* (Mutant: the guard of the class is dropped.)
NothingRequired(r) == TRUE
RequireSignedRelease(r) ==
    production => SignedRow(journal, job[r].digest) # {}

Enter(r) ==
    /\ pc[r] = "acquire"
    /\ RequireSignedRelease(r)
    /\ Lease!Enter(r)
    /\ Moves(r, "migrate")
    /\ UNCHANGED <<production, journalVars, dataVars, served, misled,
                   unrecorded>>

\* Refused, unable to get the lock, or an earlier call failed.
Refused(r) ==
    /\ pc[r] = "acquire"
    /\ Lease!GiveUp(r)
    /\ Fails(r, "done")
    /\ UNCHANGED <<production, journalVars, dataVars, served, misled,
                   unrecorded>>

\* Runs that have read the schema and have not reached the cutover.
Stale(r) == {q \in Runs \ {r} : /\ job[q].act = "rollback"
                                /\ pc[q] \in {"acquire", "migrate", "update"}}

\* The migrations of d: the schema moves forward, never back.
Migrated(r, d) ==
    /\ epoch' = Max({epoch, Epoch[d]})
    /\ content' = CASE content = "empty" -> "site"
                    [] content = "partial" -> "mixed"
                    [] OTHER -> content
    /\ spoilt' = (spoilt \/ \E q \in Runs : pc[q] \in Importing)
    /\ misled' = misled \cup Stale(r)
    /\ UNCHANGED <<status, slock>>

Migrate(r) ==
    /\ pc[r] = "migrate"
    /\ Migrated(r, job[r].digest)
    /\ Moves(r, "update")
    /\ UNCHANGED <<leaseVars, production, journalVars, served, unrecorded>>

MigrateFails(r) ==
    /\ pc[r] = "migrate"
    /\ Migrated(r, job[r].digest) \/ UNCHANGED <<dataVars, misled>>
    /\ Fails(r, "leave")
    /\ UNCHANGED <<leaseVars, production, journalVars, served, unrecorded>>

\* The services are updated, stable and healthy.
CutOver(r) ==
    /\ served' = [digest |-> job[r].digest, via |-> "deploy"]
    /\ unrecorded' = TRUE

\* A stack without outputs gets its infrastructure, services included, when
\* the candidate is registered: before the migrations.
CreateInitial(r) ==
    /\ pc[r] = "migrate" /\ served.digest = None
    /\ CutOver(r)
    /\ UNCHANGED <<leaseVars, production, journalVars, dataVars, pc, job,
                   misled>>

Update(r) ==
    /\ pc[r] = "update"
    /\ CutOver(r)
    /\ Moves(r, "record")
    /\ UNCHANGED <<leaseVars, production, journalVars, dataVars, misled>>

\* The update or a later phase fails: the services may have changed.
UpdateFails(r) ==
    /\ pc[r] = "update"
    /\ CutOver(r) \/ UNCHANGED <<served, unrecorded>>
    /\ Fails(r, "leave")
    /\ UNCHANGED <<leaseVars, production, journalVars, dataVars, misled>>

\* recordRelease, still under the deployment lock.
\* (Mutant: the row is written after the lock has been released.)
RecordUnlocked(r) ==
    /\ pc[r] = "record"
    /\ row' = [row EXCEPT ![r] = [action |-> "deploy", digest |-> job[r].digest,
                                  signed |-> FALSE, epoch |-> 0]]
    /\ Lease!Leave(r)
    /\ Moves(r, "append")
    /\ UNCHANGED <<production, journal, jlock, rows, dataVars, served,
                   misled, unrecorded>>
Record(r) ==
    /\ pc[r] = "record"
    /\ LET d == job[r].digest IN
       \E e \in Observed :
          row' = [row EXCEPT ![r] =
                    [action |-> "deploy", digest |-> d,
                     signed |-> SignedRow(journal, d) # {},
                     epoch |-> IF e >= 1 THEN e
                               ELSE SchemaEpochForDigest(journal, d)]]
    /\ Moves(r, "append")
    /\ UNCHANGED <<leaseVars, production, journal, jlock, rows, dataVars,
                   served, misled, unrecorded>>

Leave(r) ==
    /\ pc[r] = "leave"
    /\ Lease!Leave(r)
    /\ IF job[r].ok /\ ~left' THEN Moves(r, "status") ELSE Moves(r, "done")
    /\ UNCHANGED <<production, journalVars, dataVars, served, misled,
                   unrecorded>>

\* deploy --infra-only: no lock, no signature, no row.
InfraOnly(r) ==
    /\ pc[r] = "idle" /\ "infra" \in Commands[r]
    /\ \E d \in Digests : served' = [digest |-> d, via |-> "other"]
    /\ Moves(r, "done")
    /\ UNCHANGED <<leaseVars, production, journalVars, dataVars, misled,
                   unrecorded>>

\* destroy, under the deployment lock or, with --skip-lock, without it.
Destroy(r) ==
    /\ pc[r] = "idle" /\ "destroy" \in Commands[r]
    /\ Lease!Enter(r) \/ UNCHANGED leaseVars
    /\ Goto(r, "destroying", [NoJob EXCEPT !.act = "destroy"])
    /\ UNCHANGED <<production, journalVars, dataVars, served, misled,
                   unrecorded>>

\* The services, the database or, if the update fails half way, one of them is
\* gone.  The journal and the status of the dump say what they said before.
DestroyStack(r) ==
    /\ pc[r] = "destroying"
    /\ UNCHANGED served \/ served' = [digest |-> None, via |-> "other"]
    /\ \/ UNCHANGED <<epoch, content, spoilt, misled>>
       \/ /\ epoch' = 0 /\ content' = "empty" /\ spoilt' = TRUE
          /\ misled' = misled \cup Stale(r)
    /\ IF r \in inside THEN Lease!Leave(r) ELSE UNCHANGED leaseVars
    /\ Moves(r, "done")
    /\ UNCHANGED <<production, journalVars, status, slock, unrecorded>>

(****************************** the seed dump ******************************)

Import(r) ==
    /\ pc[r] = "idle" /\ "import" \in Commands[r]
    /\ \E y \in BOOLEAN :
          Goto(r, "status", [NoJob EXCEPT !.act = "import", !.yes = y])
    /\ UNCHANGED <<leaseVars, production, journalVars, dataVars, served,
                   misled, unrecorded>>

\* After the import, or without one: a rollback appends its own row, with the
\* epoch it had read before it deployed.
Finish(r) ==
    IF job[r].act = "rollback"
    THEN /\ row' = [row EXCEPT ![r] =
                      [action |-> "rollback", digest |-> job[r].digest,
                       signed |-> TRUE, epoch |-> job[r].live]]
         /\ Moves(r, "append")
    ELSE Moves(r, "done") /\ UNCHANGED row

\* Read without the lock.  A deployment imports a dump that is "recorded" and
\* nothing else; "recorded" counts as the operator's consent.
ReadStatus(r) ==
    /\ pc[r] = "status"
    /\ IF job[r].act # "import" /\ status # "recorded"
       THEN Finish(r)
       ELSE /\ Goto(r, "mark", [job[r] EXCEPT !.yes = @ \/ status = "recorded"])
            /\ UNCHANGED row
    /\ UNCHANGED <<leaseVars, production, journal, jlock, rows, dataVars,
                   served, misled, unrecorded>>

\* The transitions of the status file, each under its lock file; those that
\* do not apply are errors and leave the status as it is.
CanMarkImporting == {"recorded", "importing", "failed"}

Transition(p) ==
    CASE p = "mark" /\ status \in CanMarkImporting -> "importing"
      [] p \in {"imported", "failed"} /\ status = "importing" -> p
      [] OTHER -> status

MarkImporting(r) ==
    /\ pc[r] = "mark" /\ slock = None
    /\ status' = Transition("mark")
    /\ IF status \in CanMarkImporting
       THEN /\ spoilt' = (spoilt \/ \E q \in Runs \ {r} :
                                           pc[q] \in Importing)
            /\ Moves(r, "inspect")
       ELSE Moves(r, "done") /\ UNCHANGED spoilt
    /\ UNCHANGED <<leaseVars, production, journalVars, slock, epoch, content,
                   served, misled, unrecorded>>

\* Import: a database with tables is replaced, with consent, or refused.
\* (Mutant: with consent, the dump is loaded over the tables.)
LoadOver(r) ==
    /\ pc[r] = "inspect"
    /\ Moves(r, IF content = "empty" \/ job[r].yes THEN "load" ELSE "failed")
    /\ UNCHANGED <<leaseVars, production, journalVars, dataVars, served,
                   misled, unrecorded>>
Inspect(r) ==
    /\ pc[r] = "inspect"
    /\ Moves(r, CASE content = "empty" -> "load"
                 [] content # "empty" /\ job[r].yes -> "replace"
                 [] OTHER -> "failed")
    /\ UNCHANGED <<leaseVars, production, journalVars, dataVars, served,
                   misled, unrecorded>>

\* What two loads, or a load and a replacement, leave behind.
Loading(r) == \E q \in Runs \ {r} : pc[q] = "loading"

SchemaReplace(r) ==
    /\ pc[r] = "replace"
    /\ content' = IF Loading(r) THEN "mixed" ELSE "empty"
    /\ epoch' = 0
    /\ misled' = misled \cup Stale(r)
    /\ Moves(r, "load")
    /\ UNCHANGED <<leaseVars, production, journalVars, status, slock,
                   spoilt, served, unrecorded>>

\* The load begins, and gets as far as any part of the schema if not further.
BeginLoad(r) ==
    /\ pc[r] = "load"
    /\ content' = IF content = "empty" THEN "partial" ELSE "mixed"
    /\ epoch' \in epoch .. Max({epoch, DumpEpoch})
    /\ misled' = misled \cup Stale(r)
    /\ Moves(r, "loading")
    /\ UNCHANGED <<leaseVars, production, journalVars, status, slock,
                   spoilt, served, unrecorded>>

EndLoad(r) ==
    /\ pc[r] = "loading"
    /\ content' = IF content = "partial" THEN "dump" ELSE "mixed"
    /\ epoch' = Max({epoch, DumpEpoch})
    /\ misled' = misled \cup Stale(r)
    /\ Moves(r, "imported")
    /\ UNCHANGED <<leaseVars, production, journalVars, status, slock,
                   spoilt, served, unrecorded>>

\* gunzip fails half way, which mysql takes for the end of the dump: nobody
\* looks at the exit status of gunzip.
LoadTruncated(r) ==
    /\ pc[r] = "loading"
    /\ spoilt' = TRUE
    /\ Moves(r, "imported")
    /\ UNCHANGED <<leaseVars, production, journalVars, status, slock, epoch,
                   content, served, misled, unrecorded>>

\* A query, the replacement or mysql fails.
LoadFails(r) ==
    /\ pc[r] \in {"inspect", "replace", "load", "loading"}
    /\ Moves(r, "failed")
    /\ UNCHANGED <<leaseVars, production, journalVars, dataVars, served,
                   misled, unrecorded>>

MarkImported(r) ==
    /\ pc[r] = "imported" /\ slock = None
    /\ status' = Transition("imported")
    /\ IF status = "importing"
       THEN Finish(r)
       ELSE Moves(r, "done") /\ UNCHANGED row
    /\ UNCHANGED <<leaseVars, production, journal, jlock, rows, slock, epoch,
                   content, spoilt, served, misled, unrecorded>>

MarkFailed(r) ==
    /\ pc[r] = "failed" /\ slock = None
    /\ status' = Transition("failed")
    /\ Moves(r, "done")
    /\ UNCHANGED <<leaseVars, production, journalVars, slock, epoch, content,
                   spoilt, served, misled, unrecorded>>

\* The command is cancelled while it waits for the lock file of the status.
MarkCancelled(r) ==
    /\ pc[r] \in {"mark", "imported", "failed"}
    /\ Moves(r, "done")
    /\ UNCHANGED <<leaseVars, production, journalVars, dataVars, served,
                   misled, unrecorded>>

(******************************* the processes *****************************)

\* The process is killed; its lock files, and the deployment lock, stay.
Crash(r) ==
    /\ pc[r] \notin {"idle"} \cup Over
    /\ Cardinality({q \in Runs : pc[q] = "crashed"}) < MaxCrashes
    /\ Moves(r, "crashed")
    /\ IF r \in inside THEN Lease!Leave(r) /\ left' ELSE UNCHANGED leaseVars
    /\ \/ UNCHANGED <<slock, status>>
       \/ /\ pc[r] \in {"mark", "imported", "failed"} /\ slock = None
          /\ slock' = r
          /\ status' \in {status, Transition(pc[r])}
    /\ row' = [row EXCEPT ![r] = None]
    /\ rows' = [rows EXCEPT ![r] = <<>>]
    /\ UNCHANGED <<production, journal, jlock, epoch, content,
                   spoilt, served, misled, unrecorded>>

(****************************** other checkouts ****************************)

\* A deployment from another checkout, under the deployment lock, which may
\* fail after its migrations.
DeployElsewhere(r) ==
    /\ pc[r] = "idle" /\ "elsewhere" \in Commands[r]
    /\ Lease!Open
    /\ \E d \in Digests :
          /\ Migrated(r, d)
          /\ UNCHANGED served \/ served' = [digest |-> d, via |-> "other"]
    /\ Moves(r, "done")
    /\ UNCHANGED <<leaseVars, production, journalVars, unrecorded>>

\* An import of the dump from another checkout, with a status of its own: it
\* replaces the database and may fail.
ImportElsewhere(r) ==
    /\ pc[r] = "idle" /\ "elsewhere" \in Commands[r]
    /\ content' \in {"empty", "mixed"} /\ epoch' \in 0 .. DumpEpoch
    /\ spoilt' = TRUE
    /\ misled' = misled \cup Stale(r)
    /\ Moves(r, "done")
    /\ UNCHANGED <<leaseVars, production, journalVars, status, slock, served,
                   unrecorded>>

Elsewhere(r) == DeployElsewhere(r) \/ ImportElsewhere(r)

\* magelift state unlock --yes, by an operator who clears a stale lock.
Unlock ==
    /\ Lease!Clear
    /\ UNCHANGED <<production, journalVars, dataVars, served, pc, job,
                   misled, unrecorded>>

Start(r) ==
    \/ Promote(r) \/ Rollback(r) \/ Deploy(r) \/ InfraOnly(r) \/ Destroy(r)
    \/ Import(r) \/ Elsewhere(r)

Step(r) ==
    \/ LockJournal(r) \/ ReadJournal(r) \/ WriteJournal(r)
    \/ UnlockJournal(r) \/ AppendFails(r)
    \/ CheckSchema(r) \/ Enter(r) \/ Refused(r)
    \/ CreateInitial(r) \/ Migrate(r) \/ MigrateFails(r)
    \/ Update(r) \/ UpdateFails(r) \/ Record(r) \/ Leave(r) \/ DestroyStack(r)
    \/ ReadStatus(r) \/ MarkImporting(r) \/ Inspect(r) \/ SchemaReplace(r)
    \/ BeginLoad(r) \/ EndLoad(r) \/ LoadTruncated(r) \/ LoadFails(r)
    \/ MarkImported(r) \/ MarkFailed(r)

Mishap(r) == AppendCancelled(r) \/ MarkCancelled(r) \/ Crash(r)

Next == Unlock \/ \E r \in Runs : Start(r) \/ Step(r) \/ Mishap(r)

Spec == Init /\ [][Next]_vars

\* A process that lives takes its next step.
FairSpec == Spec /\ \A r \in Runs : WF_vars(Step(r))

(******************************** properties *******************************)

\* Whoever writes the journal, it grows by one row at a time and loses none,
\* although every append replaces the whole file (store.go: Append).
JournalGrows ==
    [][journal' # journal => /\ Len(journal') = Len(journal) + 1
                             /\ SubSeq(journal', 1, Len(journal)) = journal]_vars

\* The newest deploy row of the checkout names the digest that is served,
\* unless the run that put it there failed or was killed before it could
\* record it, or --infra-only, a destroy or a deployment from another checkout
\* came after it (root.go: recordRelease runs under the lock).
DeployRowIsServed ==
    served.via = "deploy" /\ ~unrecorded => LastDeployed(journal) = served.digest

\* What a production deployment or rollback serves has been promoted in the
\* journal of the checkout it was deployed from, also if its signature was
\* found in a later deploy row (lifecycle.go: requireSignedRelease).
ServedWasPromoted ==
    production /\ served.via = "deploy" /\ served.digest # None =>
        PromotedIn(journal, served.digest)

\* A row was written for the digest when the schema was already past it: by
\* promoting or deploying it again.
Mislabelled(d) ==
    \E i \in DOMAIN journal : journal[i].digest = d /\ journal[i].epoch > Epoch[d]

\* A rollback about to cut over leads to an image that can run on the live
\* schema, unless one of the two counts of the schema failed or the schema
\* changed after it was read (misled), or the journal credits the digest with
\* a schema that is not its own (schema.go: RefuseIncompatibleRollback).
RollbackFits ==
    \A r \in Runs :
        pc[r] = "update" /\ job[r].act = "rollback" /\ r \notin misled =>
            epoch <= Epoch[job[r].digest] \/ Mislabelled(job[r].digest)

\* A dump said to be imported is in the database, whole, however often the
\* import failed, was killed and was tried again, unless it ran at the same
\* time as another or as a migration, gunzip failed, or the database was
\* destroyed or imported into from elsewhere (env.go: runSeedDumpImport).
ImportedMeansLoaded == status = "imported" /\ ~spoilt => content = "dump"

\* A lock file whose process is gone: nothing removes it.
Abandoned ==
    \E r \in Runs : pc[r] = "crashed" /\ (jlock = r \/ slock = r)

\* Every command comes to an end, unless a killed process left a lock file
\* (store.go: acquireLock waits for ever).
CommandEnds ==
    \A r \in Runs : pc[r] # "idle" ~> pc[r] \in Over \/ Abandoned
==============================================================================
