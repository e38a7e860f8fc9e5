--------------------------- MODULE Releases_proofs ---------------------------
(***************************************************************************)
(* Proofs about the release journal, rollback and the import of the seed   *)
(* dump, for any number of processes and digests and whatever is killed.   *)
(*                                                                         *)
(* The argument: a process between its lock file and the rename owns the   *)
(* lock file, so what it has read is the journal (JournalHeld); a          *)
(* deployment is inside the deployment lock until its row is written       *)
(* (LeaseHeld), so nobody cuts over between its cutover and its row        *)
(* (Recorded).  Signatures come from promote rows, and rows never go away  *)
(* (Signed).  A rollback that was not misled still finds the schema it     *)
(* compared (Fits).  Unless something spoilt it, one process owns the      *)
(* content from its mark to the end of the load (Loads).                   *)
(***************************************************************************)
EXTENDS Releases, SequenceTheorems, WellFoundedInduction, TLAPS

\* A deployment works on one digest.
Tasks ==
    \A r \in Runs :
        /\ pc[r] \in {"check", "acquire", "migrate", "update", "record"}
               => job[r].act \in {"deploy", "rollback"}
        /\ job[r].act \in {"deploy", "rollback"} => job[r].digest \in Digests

\* Whoever has read the journal has its lock file, and has read what is there.
JournalHeld ==
    \A r \in Runs :
        /\ pc[r] \in {"locked", "read", "written"} => jlock = r
        /\ pc[r] = "read" => rows[r] = journal

DeployRow(r) == pc[r] \in Writing /\ row[r].action = "deploy"

\* A deployment stays inside the deployment lock until its row is written.
LeaseHeld ==
    \A r \in Runs :
        pc[r] \in {"migrate", "update", "record", "leave"} \/ DeployRow(r)
            => inside = {r}

\* A deployment is about to record the digest that it put in service.
Recorded ==
    \A r \in Runs : served.via = "deploy" =>
        /\ pc[r] = "record" => served.digest = job[r].digest
        /\ DeployRow(r) => served.digest = row[r].digest

\* Every signature, in the journal, on its way there or relied upon, goes
\* back to a promote row.
Signed ==
    /\ \A i \in DOMAIN journal :
          journal[i].signed => PromotedIn(journal, journal[i].digest)
    /\ \A r \in Runs :
          /\ job[r].act = "rollback" => PromotedIn(journal, job[r].digest)
          /\ pc[r] \in Writing /\ row[r].signed /\ row[r].action # "promote"
                 => PromotedIn(journal, row[r].digest)
          /\ production /\ pc[r] \in {"migrate", "update"}
                 => PromotedIn(journal, job[r].digest)

\* The target of a rollback was recorded for its digest, and the schema that
\* was compared with it is still the live one.
Fits ==
    \A r \in Runs : job[r].act = "rollback" =>
        /\ pc[r] = "check" /\ job[r].target # 0
               => \/ job[r].target <= Epoch[job[r].digest]
                  \/ Mislabelled(job[r].digest)
        /\ pc[r] \in {"acquire", "migrate", "update"} /\ r \notin misled
               => \/ epoch <= Epoch[job[r].digest]
                  \/ Mislabelled(job[r].digest)

\* Unless the content is spoilt, one process imports, under the status
\* "importing", and the content is what it has made of it.
Loads ==
    ~spoilt =>
        /\ \A p, q \in Runs : pc[p] \in Importing /\ pc[q] \in Importing => p = q
        /\ \A r \in Runs :
              /\ pc[r] \in Importing => status = "importing"
              /\ pc[r] = "load" => content = "empty"
              /\ pc[r] = "loading" => content = "partial"
              /\ pc[r] = "imported" => content = "dump"

IInv ==
    /\ TypeOK /\ Tasks /\ JournalHeld /\ LeaseHeld /\ Recorded /\ Signed
    /\ Fits /\ Loads
    /\ DeployRowIsServed /\ ServedWasPromoted /\ ImportedMeansLoaded
-----------------------------------------------------------------------------
\* The maximum of a set of positions is one of them.
LEMMA MaxIn ==
    ASSUME NEW n \in Nat, NEW S, S \subseteq 1 .. n, S # {}
    PROVE  Max(S) \in S /\ \A y \in S : Max(S) >= y
<1>. DEFINE T == {n - x : x \in S}
<1>1. T \subseteq Nat /\ T # {}
  <2>1. PICK x \in S : TRUE
    OBVIOUS
  <2>2. n - x \in T
    BY <2>1
  <2>3. \A y \in S : n - y \in Nat
    OBVIOUS
  <2>. QED
    BY <2>2, <2>3
<1>2. PICK t \in T : \A u \in T : ~(<<u, t>> \in OpToRel(<, Nat))
  BY <1>1, NatLessThanWellFounded, WFMin, Zenon
<1>3. \A u \in T : ~(u < t)
  BY <1>1, <1>2 DEF OpToRel
<1>4. PICK m \in S : t = n - m
  OBVIOUS
<1>5. \A y \in S : m >= y
  BY <1>3, <1>4
<1>. QED
  BY <1>5 DEF Max

\* The maximum of two numbers.
LEMMA MaxPair ==
    ASSUME NEW a \in Nat, NEW b \in Nat
    PROVE  Max({a, b}) \in {a, b} /\ Max({a, b}) >= a /\ Max({a, b}) >= b
<1>1. CASE a >= b
  BY <1>1 DEF Max
<1>2. CASE b >= a
  BY <1>2 DEF Max
<1>. QED
  BY <1>1, <1>2

\* A signature that is found belongs to a row of the digest.
LEMMA SignedRowIn ==
    ASSUME NEW list, NEW d, SignedRow(list, d) # {}
    PROVE  \E i \in DOMAIN list : list[i].digest = d /\ list[i].signed
BY DEF SignedRow, Newest

\* An epoch that is found was recorded in a row of the digest.
LEMMA EpochIn ==
    ASSUME NEW list \in Seq(Row), NEW d
    PROVE  /\ SchemaEpochForDigest(list, d) \in Nat
           /\ SchemaEpochForDigest(list, d) # 0 =>
                 \E i \in DOMAIN list : /\ list[i].digest = d
                      /\ list[i].epoch = SchemaEpochForDigest(list, d)
<1>. DEFINE I == {i \in DOMAIN list : list[i].digest = d /\ list[i].epoch >= 1}
<1>1. CASE I = {}
  BY <1>1 DEF SchemaEpochForDigest, Newest
<1>2. CASE I # {}
  <2>1. Max(I) \in I
    <3>1. Len(list) \in Nat /\ I \subseteq 1 .. Len(list)
      OBVIOUS
    <3>. QED
      BY <1>2, <3>1, MaxIn
  <2>2. SchemaEpochForDigest(list, d) = list[Max(I)].epoch
    BY <1>2 DEF SchemaEpochForDigest, Newest
  <2>3. list[Max(I)] \in Row
    BY <2>1
  <2>. QED
    BY <2>1, <2>2, <2>3 DEF Row
<1>. QED
  BY <1>1, <1>2
-----------------------------------------------------------------------------
(***************************************************************************)
(* What the steps after the lock do.                                       *)
(***************************************************************************)
\* The variables as functions.
LEMMA TypeParts ==
    ASSUME TypeOK
    PROVE  /\ pc \in [Runs -> Places] /\ job \in [Runs -> Job]
           /\ row \in [Runs -> Row \cup {None}] /\ rows \in [Runs -> Seq(Row)]
           /\ journal \in Seq(Row)
BY DEF TypeOK

\* What a step of one process leaves alone of the others.
Others(r) == \A q \in Runs \ {r} :
                pc'[q] = pc[q] /\ job'[q] = job[q] /\ row'[q] = row[q]
Ends(r) == pc'[r] = "done" /\ job'[r] = NoJob /\ row'[r] = row[r]
RollbackRow(r) == [action |-> "rollback", digest |-> job[r].digest,
                   signed |-> TRUE, epoch |-> job[r].live]

\* A process that ends forgets its job; any other keeps or changes it.
LEMMA GotoEffect ==
    ASSUME TypeOK, NEW r \in Runs, NEW p, NEW j
    PROVE  Goto(r, p, j) =>
             /\ pc'[r] = p /\ job'[r] = IF p \in Over THEN NoJob ELSE j
             /\ \A q \in Runs \ {r} : pc'[q] = pc[q] /\ job'[q] = job[q]
<1>1. pc \in [Runs -> Places] /\ job \in [Runs -> Job]
  BY TypeParts
<1>. QED
  BY <1>1 DEF Goto

\* What finishing a command does (Finish): a rollback goes on to its row.
LEMMA FinishEffect ==
    ASSUME TypeOK, NEW r \in Runs, Finish(r)
    PROVE  /\ Others(r)
           /\ \/ Ends(r)
              \/ /\ job[r].act = "rollback"
                 /\ pc'[r] = "append" /\ job'[r] = job[r]
                 /\ row'[r] = RollbackRow(r)
<1>1. row \in [Runs -> Row \cup {None}]
  BY TypeParts
<1>2. CASE job[r].act = "rollback"
  <2>1. /\ Goto(r, "append", job[r])
        /\ row' = [row EXCEPT ![r] = RollbackRow(r)]
    BY <1>2 DEF Finish, Moves, RollbackRow
  <2>2. /\ pc'[r] = "append" /\ job'[r] = job[r]
        /\ \A q \in Runs \ {r} : pc'[q] = pc[q] /\ job'[q] = job[q]
    BY <2>1, GotoEffect DEF Over
  <2>. QED
    BY <1>1, <1>2, <2>1, <2>2 DEF Others
<1>3. CASE job[r].act # "rollback"
  <2>1. Goto(r, "done", job[r]) /\ row' = row
    BY <1>3 DEF Finish, Moves
  <2>. QED
    BY <2>1, GotoEffect DEF Over, Others, Ends
<1>. QED
  BY <1>2, <1>3

\* What reading the status of the dump does (ReadStatus).
LEMMA ReadStatusEffect ==
    ASSUME TypeOK, NEW r \in Runs, ReadStatus(r)
    PROVE  /\ Others(r) /\ pc[r] = "status"
           /\ inside' = inside /\ journal' = journal /\ served' = served
           /\ production' = production /\ jlock' = jlock /\ rows' = rows
           /\ epoch' = epoch /\ content' = content /\ misled' = misled
           /\ unrecorded' = unrecorded
           /\ status' = status /\ spoilt' = spoilt
           /\ \/ Ends(r)
              \/ /\ job[r].act = "rollback"
                 /\ pc'[r] = "append" /\ job'[r] = job[r]
                 /\ row'[r] = RollbackRow(r)
              \/ /\ pc'[r] = "mark" /\ row'[r] = row[r]
                 /\ job'[r] = [job[r] EXCEPT !.yes = @ \/ status = "recorded"]
<1>0. /\ pc[r] = "status"
      /\ inside' = inside /\ journal' = journal /\ served' = served
      /\ production' = production /\ jlock' = jlock /\ rows' = rows
      /\ epoch' = epoch /\ content' = content /\ misled' = misled
      /\ unrecorded' = unrecorded
      /\ status' = status /\ spoilt' = spoilt
  BY DEF ReadStatus, leaseVars, dataVars
<1>1. CASE Finish(r)
  BY <1>0, <1>1, FinishEffect
<1>2. CASE /\ row' = row
           /\ Goto(r, "mark", [job[r] EXCEPT !.yes = @ \/ status = "recorded"])
  BY <1>0, <1>2, GotoEffect DEF Over, Others
<1>. QED
  BY <1>1, <1>2, <1>0 DEF ReadStatus

\* What a finished import does (MarkImported).
LEMMA MarkImportedEffect ==
    ASSUME TypeOK, NEW r \in Runs, MarkImported(r)
    PROVE  /\ Others(r) /\ pc[r] = "imported"
           /\ inside' = inside /\ journal' = journal /\ served' = served
           /\ production' = production /\ jlock' = jlock /\ rows' = rows
           /\ epoch' = epoch /\ content' = content /\ misled' = misled
           /\ unrecorded' = unrecorded
           /\ status' = Transition("imported") /\ spoilt' = spoilt
           /\ \/ Ends(r)
              \/ /\ job[r].act = "rollback"
                 /\ pc'[r] = "append" /\ job'[r] = job[r]
                 /\ row'[r] = RollbackRow(r)
<1>0. /\ pc[r] = "imported"
      /\ inside' = inside /\ journal' = journal /\ served' = served
      /\ production' = production /\ jlock' = jlock /\ rows' = rows
      /\ epoch' = epoch /\ content' = content /\ misled' = misled
      /\ unrecorded' = unrecorded
      /\ status' = Transition("imported") /\ spoilt' = spoilt
  BY DEF MarkImported, leaseVars
<1>1. CASE Finish(r)
  BY <1>0, <1>1, FinishEffect
<1>2. CASE row' = row /\ Goto(r, "done", job[r])
  BY <1>0, <1>2, GotoEffect DEF Over, Others, Ends
<1>. QED
  BY <1>1, <1>2, <1>0 DEF MarkImported, Moves

\* What marking the dump does (MarkImporting).
LEMMA MarkImportingEffect ==
    ASSUME TypeOK, NEW r \in Runs, MarkImporting(r)
    PROVE  /\ Others(r) /\ pc[r] = "mark"
           /\ inside' = inside /\ journal' = journal /\ served' = served
           /\ production' = production /\ jlock' = jlock /\ rows' = rows
           /\ epoch' = epoch /\ content' = content /\ misled' = misled
           /\ unrecorded' = unrecorded
           /\ status' = Transition("mark")
           /\ \/ Ends(r)
              \/ pc'[r] = "inspect" /\ job'[r] = job[r] /\ row'[r] = row[r]
<1>0. /\ pc[r] = "mark"
      /\ inside' = inside /\ journal' = journal /\ served' = served
      /\ production' = production /\ jlock' = jlock /\ rows' = rows
      /\ epoch' = epoch /\ content' = content /\ misled' = misled
      /\ unrecorded' = unrecorded
      /\ status' = Transition("mark")
  BY DEF MarkImporting, leaseVars, journalVars
<1>1. CASE Goto(r, "inspect", job[r]) /\ row' = row
  BY <1>0, <1>1, GotoEffect DEF Over, Others
<1>2. CASE Goto(r, "done", job[r]) /\ row' = row
  <2>1. /\ pc'[r] = "done" /\ job'[r] = NoJob
        /\ \A q \in Runs \ {r} : pc'[q] = pc[q] /\ job'[q] = job[q]
    BY <1>2, GotoEffect DEF Over
  <2>. QED
    BY <1>0, <1>2, <2>1 DEF Others, Ends
<1>. QED
  BY <1>1, <1>2, <1>0 DEF MarkImporting, Moves, journalVars

\* What leaving the lock does (Leave).
LEMMA LeaveEffect ==
    ASSUME TypeOK, NEW r \in Runs, Leave(r)
    PROVE  /\ Others(r) /\ pc[r] = "leave"
           /\ inside = {r} /\ inside' = {}
           /\ journal' = journal /\ served' = served
           /\ production' = production /\ jlock' = jlock /\ rows' = rows
           /\ epoch' = epoch /\ content' = content /\ misled' = misled
           /\ unrecorded' = unrecorded
           /\ status' = status /\ spoilt' = spoilt
           /\ \/ Ends(r)
              \/ pc'[r] = "status" /\ job'[r] = job[r] /\ row'[r] = row[r]
<1>0. /\ pc[r] = "leave"
      /\ inside = {r} /\ inside' = {}
      /\ journal' = journal /\ served' = served
      /\ production' = production /\ jlock' = jlock /\ rows' = rows
      /\ epoch' = epoch /\ content' = content /\ misled' = misled
      /\ unrecorded' = unrecorded
      /\ status' = status /\ spoilt' = spoilt
  BY DEF Leave, Lease!Leave, journalVars, dataVars
<1>1. CASE Goto(r, "status", job[r]) /\ row' = row
  BY <1>0, <1>1, GotoEffect DEF Over, Others
<1>2. CASE Goto(r, "done", job[r]) /\ row' = row
  <2>1. /\ pc'[r] = "done" /\ job'[r] = NoJob
        /\ \A q \in Runs \ {r} : pc'[q] = pc[q] /\ job'[q] = job[q]
    BY <1>2, GotoEffect DEF Over
  <2>. QED
    BY <1>0, <1>2, <2>1 DEF Others, Ends
<1>. QED
  BY <1>1, <1>2, <1>0 DEF Leave, Moves, journalVars

\* The steps from the end of a deployment to the end of its command.
AfterLock(r) == Leave(r) \/ ReadStatus(r) \/ MarkImporting(r) \/ MarkImported(r)

\* Such a step ends the command, goes on towards the import, or goes on to
\* the row of a rollback.
Onward(r) ==
    /\ pc[r] \in {"leave", "status", "mark", "imported"}
    /\ Others(r)
    /\ \/ Ends(r)
       \/ /\ pc'[r] \in {"status", "mark", "inspect"} /\ row'[r] = row[r]
          /\ job'[r].act = job[r].act /\ job'[r].digest = job[r].digest
       \/ /\ job[r].act = "rollback"
          /\ pc'[r] = "append" /\ job'[r] = job[r] /\ row'[r] = RollbackRow(r)

\* After the lock a command changes nothing but itself and the status.
LEMMA AfterLockEffect ==
    ASSUME TypeOK, NEW r \in Runs, AfterLock(r)
    PROVE  /\ Onward(r)
           /\ inside' = inside \/ (inside = {r} /\ inside' = {})
           /\ journal' = journal /\ served' = served
           /\ production' = production /\ jlock' = jlock /\ rows' = rows
           /\ epoch' = epoch /\ content' = content /\ misled' = misled
           /\ unrecorded' = unrecorded
<1>1. CASE Leave(r)
  BY <1>1, LeaveEffect DEF Onward
<1>2. CASE ReadStatus(r)
  <2>1. job[r] \in Job
    BY TypeParts
  <2>2. /\ [job[r] EXCEPT !.yes = @ \/ status = "recorded"].act = job[r].act
        /\ [job[r] EXCEPT !.yes = @ \/ status = "recorded"].digest
               = job[r].digest
    BY <2>1 DEF Job
  <2>3. Onward(r)
    BY <1>2, <2>2, ReadStatusEffect DEF Onward
  <2>4. /\ inside' = inside /\ journal' = journal /\ served' = served
        /\ production' = production /\ jlock' = jlock /\ rows' = rows
        /\ epoch' = epoch /\ content' = content /\ misled' = misled
        /\ unrecorded' = unrecorded
    BY <1>2, ReadStatusEffect
  <2>. QED
    BY <2>3, <2>4
<1>3. CASE MarkImporting(r)
  <2>1. Onward(r)
    BY <1>3, MarkImportingEffect DEF Onward
  <2>2. /\ inside' = inside /\ journal' = journal /\ served' = served
        /\ production' = production /\ jlock' = jlock /\ rows' = rows
        /\ epoch' = epoch /\ content' = content /\ misled' = misled
        /\ unrecorded' = unrecorded
    BY <1>3, MarkImportingEffect
  <2>. QED
    BY <2>1, <2>2
<1>4. CASE MarkImported(r)
  <2>1. Onward(r)
    BY <1>4, MarkImportedEffect DEF Onward
  <2>2. /\ inside' = inside /\ journal' = journal /\ served' = served
        /\ production' = production /\ jlock' = jlock /\ rows' = rows
        /\ epoch' = epoch /\ content' = content /\ misled' = misled
        /\ unrecorded' = unrecorded
    BY <1>4, MarkImportedEffect
  <2>. QED
    BY <2>1, <2>2
<1>. QED
  BY <1>1, <1>2, <1>3, <1>4 DEF AfterLock
-----------------------------------------------------------------------------
(***************************************************************************)
(* The two locks.                                                          *)
(***************************************************************************)
\* A deployment keeps its digest.
LEMMA TasksStep == TypeOK /\ Tasks /\ [Next]_vars => Tasks'
<1>. SUFFICES ASSUME TypeOK, Tasks, [Next]_vars PROVE Tasks'
  OBVIOUS
<1>1. ASSUME NEW r \in Runs, AfterLock(r) PROVE Tasks'
  <2>1. Onward(r)
    BY <1>1, AfterLockEffect
  <2>. QED
    BY <2>1, ReleasesAssumption
       DEF Onward, Others, Ends, NoJob, Actions, Tasks
<1>. USE ReleasesAssumption, TypeParts DEF Tasks, Job, NoJob, Actions, Places,
     Writing, Importing, Over
<1>2. ASSUME NEW r \in Runs, Promote(r) PROVE Tasks'
  BY <1>2 DEF Promote, Goto, NoJob, Observed, leaseVars, dataVars
<1>3. ASSUME NEW r \in Runs, Rollback(r) PROVE Tasks'
  <2>1. PICK n \in DOMAIN journal :
            \E t : Goto(r, "check", [NoJob EXCEPT !.act = "rollback",
                                   !.digest = journal[n].digest, !.target = t])
    BY <1>3 DEF Rollback
  <2>2. journal[n] \in Row
    BY <2>1
  <2>3. journal[n].digest \in Digests
    BY <2>2 DEF Row
  <2>. QED
    BY <2>1, <2>3 DEF Goto
<1>4. ASSUME NEW r \in Runs, Deploy(r) PROVE Tasks'
  BY <1>4 DEF Deploy, Goto, NoJob, leaseVars, journalVars, dataVars
<1>5. ASSUME NEW r \in Runs, InfraOnly(r) PROVE Tasks'
  BY <1>5 DEF InfraOnly, Moves, Goto, NoJob, leaseVars, journalVars, dataVars
<1>6. ASSUME NEW r \in Runs, Import(r) PROVE Tasks'
  BY <1>6 DEF Import, Goto, NoJob, leaseVars, journalVars, dataVars
<1>7. ASSUME NEW r \in Runs, LockJournal(r) PROVE Tasks'
  BY <1>7 DEF LockJournal, Moves, Goto, leaseVars, dataVars
<1>8. ASSUME NEW r \in Runs, ReadJournal(r) PROVE Tasks'
  BY <1>8 DEF ReadJournal, Moves, Goto, leaseVars, dataVars
<1>9. ASSUME NEW r \in Runs, WriteJournal(r) PROVE Tasks'
  BY <1>9 DEF WriteJournal, Moves, Goto, leaseVars, dataVars
<1>10. ASSUME NEW r \in Runs, UnlockJournal(r) PROVE Tasks'
  BY <1>10 DEF UnlockJournal, Moves, Goto, AfterAppend, NoJob, leaseVars,
     dataVars
<1>11. ASSUME NEW r \in Runs, AppendFails(r) PROVE Tasks'
  BY <1>11 DEF AppendFails, Fails, Goto, AfterAppend, NoJob, leaseVars,
     dataVars
<1>12. ASSUME NEW r \in Runs, CheckSchema(r) PROVE Tasks'
  BY <1>12 DEF CheckSchema, Goto, NoJob, Observed, RefuseIncompatibleRollback,
     leaseVars, journalVars, dataVars
<1>13. ASSUME NEW r \in Runs, Enter(r) PROVE Tasks'
  BY <1>13 DEF Enter, Moves, Goto, RequireSignedRelease, Lease!Enter,
     Lease!Open, journalVars, dataVars
<1>14. ASSUME NEW r \in Runs, Refused(r) PROVE Tasks'
  BY <1>14 DEF Refused, Fails, Goto, NoJob, Lease!GiveUp, journalVars, dataVars
<1>15. ASSUME NEW r \in Runs, Migrate(r) PROVE Tasks'
  BY <1>15 DEF Migrate, Moves, Goto, Migrated, Stale, leaseVars, journalVars
<1>16. ASSUME NEW r \in Runs, MigrateFails(r) PROVE Tasks'
  BY <1>16 DEF MigrateFails, Fails, Goto, Migrated, Stale, leaseVars,
     journalVars, dataVars
<1>17. ASSUME NEW r \in Runs, Update(r) PROVE Tasks'
  BY <1>17 DEF Update, Moves, Goto, CutOver, leaseVars, journalVars, dataVars
<1>18. ASSUME NEW r \in Runs, UpdateFails(r) PROVE Tasks'
  BY <1>18 DEF UpdateFails, Fails, Goto, CutOver, leaseVars, journalVars,
     dataVars
<1>19. ASSUME NEW r \in Runs, Record(r) PROVE Tasks'
  BY <1>19 DEF Record, Moves, Goto, Observed, leaseVars, dataVars
<1>20. ASSUME NEW r \in Runs, Inspect(r) PROVE Tasks'
  BY <1>20 DEF Inspect, Moves, Goto, leaseVars, journalVars, dataVars
<1>21. ASSUME NEW r \in Runs, SchemaReplace(r) PROVE Tasks'
  BY <1>21 DEF SchemaReplace, Moves, Goto, Stale, Loading, leaseVars,
     journalVars
<1>22. ASSUME NEW r \in Runs, BeginLoad(r) PROVE Tasks'
  BY <1>22 DEF BeginLoad, Moves, Goto, leaseVars, journalVars
<1>23. ASSUME NEW r \in Runs, EndLoad(r) PROVE Tasks'
  BY <1>23 DEF EndLoad, Moves, Goto, Stale, leaseVars, journalVars
<1>24. ASSUME NEW r \in Runs, LoadFails(r) PROVE Tasks'
  BY <1>24 DEF LoadFails, Moves, Goto, leaseVars, journalVars, dataVars
<1>25. ASSUME NEW r \in Runs, MarkFailed(r) PROVE Tasks'
  BY <1>25 DEF MarkFailed, Moves, Goto, NoJob, Transition, leaseVars,
     journalVars
<1>26. ASSUME NEW r \in Runs, AppendCancelled(r) PROVE Tasks'
  BY <1>26 DEF AppendCancelled, Fails, Goto, NoJob, AfterAppend, leaseVars,
     dataVars
<1>27. ASSUME NEW r \in Runs, MarkCancelled(r) PROVE Tasks'
  BY <1>27 DEF MarkCancelled, Moves, Goto, NoJob, leaseVars, journalVars,
     dataVars
<1>28. ASSUME NEW r \in Runs, Crash(r) PROVE Tasks'
  BY <1>28 DEF Crash, Moves, Goto, NoJob, Transition, CanMarkImporting,
     Lease!Leave, leaseVars
<1>29. CASE Unlock
  BY <1>29 DEF Unlock, Lease!Clear, journalVars, dataVars
<1>30. CASE UNCHANGED vars
  BY <1>30 DEF vars, leaseVars, journalVars, dataVars
<1>31. ASSUME NEW r \in Runs, Destroy(r) PROVE Tasks'
  BY <1>31 DEF Destroy, Goto, NoJob, Lease!Enter, Lease!Open, leaseVars,
     journalVars, dataVars
<1>32. ASSUME NEW r \in Runs, DestroyStack(r) PROVE Tasks'
  BY <1>32 DEF DestroyStack, Moves, Goto, NoJob, Stale, Lease!Leave, leaseVars,
     journalVars
<1>33. ASSUME NEW r \in Runs, CreateInitial(r) PROVE Tasks'
  BY <1>33 DEF CreateInitial, CutOver, leaseVars, journalVars, dataVars
<1>34. ASSUME NEW r \in Runs, LoadTruncated(r) PROVE Tasks'
  BY <1>34 DEF LoadTruncated, Moves, Goto, leaseVars, journalVars
<1>35. ASSUME NEW r \in Runs, DeployElsewhere(r) PROVE Tasks'
  BY <1>35 DEF DeployElsewhere, Moves, Goto, NoJob, Migrated, Stale, leaseVars,
     journalVars
<1>36. ASSUME NEW r \in Runs, ImportElsewhere(r) PROVE Tasks'
  BY <1>36 DEF ImportElsewhere, Moves, Goto, NoJob, Stale, leaseVars,
     journalVars
<1>. QED
  BY <1>1, <1>2, <1>3, <1>4, <1>5, <1>6, <1>7, <1>8, <1>9, <1>10, <1>11, <1>12,
     <1>13, <1>14, <1>15, <1>16, <1>17, <1>18, <1>19, <1>20, <1>21, <1>22,
     <1>23, <1>24, <1>25, <1>26, <1>27, <1>28, <1>29, <1>30, <1>31, <1>32,
     <1>33, <1>34, <1>35, <1>36 DEF Next, Start, Elsewhere, Step, Mishap,
     AfterLock

\* A deployment enters an open lock and leaves it after its row
\* (runDeployment).
LEMMA LeaseHeldStep == TypeOK /\ LeaseHeld /\ [Next]_vars => LeaseHeld'
<1>. SUFFICES ASSUME TypeOK, LeaseHeld, [Next]_vars PROVE LeaseHeld'
  OBVIOUS
<1>1. ASSUME NEW r \in Runs, AfterLock(r) PROVE LeaseHeld'
  <2>1. Onward(r) /\ (inside' = inside \/ (inside = {r} /\ inside' = {}))
    BY <1>1, AfterLockEffect
  <2>2. /\ pc'[r] \notin {"migrate", "update", "record", "leave"}
        /\ ~DeployRow(r)'
    BY <2>1 DEF Onward, Ends, DeployRow, Writing, RollbackRow
  <2>3. \A q \in Runs \ {r} : pc'[q] = pc[q] /\ (DeployRow(q)' <=> DeployRow(q))
    BY <2>1 DEF Onward, Others, DeployRow
  <2>. QED
    BY <2>1, <2>2, <2>3 DEF LeaseHeld
<1>. USE ReleasesAssumption, TypeParts DEF LeaseHeld, DeployRow, Places,
     Writing, Importing, Over
<1>2. ASSUME NEW r \in Runs, Promote(r) PROVE LeaseHeld'
  BY <1>2 DEF Promote, Goto, NoJob, Observed, leaseVars, dataVars
<1>3. ASSUME NEW r \in Runs, Rollback(r) PROVE LeaseHeld'
  BY <1>3 DEF Rollback, Goto, NoJob, leaseVars, journalVars, dataVars
<1>4. ASSUME NEW r \in Runs, Deploy(r) PROVE LeaseHeld'
  BY <1>4 DEF Deploy, Goto, NoJob, leaseVars, journalVars, dataVars
<1>5. ASSUME NEW r \in Runs, InfraOnly(r) PROVE LeaseHeld'
  BY <1>5 DEF InfraOnly, Moves, Goto, NoJob, leaseVars, journalVars, dataVars
<1>6. ASSUME NEW r \in Runs, Import(r) PROVE LeaseHeld'
  BY <1>6 DEF Import, Goto, NoJob, leaseVars, journalVars, dataVars
<1>7. ASSUME NEW r \in Runs, LockJournal(r) PROVE LeaseHeld'
  BY <1>7 DEF LockJournal, Moves, Goto, leaseVars, dataVars
<1>8. ASSUME NEW r \in Runs, ReadJournal(r) PROVE LeaseHeld'
  BY <1>8 DEF ReadJournal, Moves, Goto, leaseVars, dataVars
<1>9. ASSUME NEW r \in Runs, WriteJournal(r) PROVE LeaseHeld'
  BY <1>9 DEF WriteJournal, Moves, Goto, leaseVars, dataVars
<1>10. ASSUME NEW r \in Runs, UnlockJournal(r) PROVE LeaseHeld'
  BY <1>10 DEF UnlockJournal, Moves, Goto, AfterAppend, NoJob, leaseVars,
     dataVars
<1>11. ASSUME NEW r \in Runs, AppendFails(r) PROVE LeaseHeld'
  BY <1>11 DEF AppendFails, Fails, Goto, AfterAppend, NoJob, leaseVars,
     dataVars
<1>12. ASSUME NEW r \in Runs, CheckSchema(r) PROVE LeaseHeld'
  BY <1>12 DEF CheckSchema, Goto, NoJob, Observed, RefuseIncompatibleRollback,
     leaseVars, journalVars, dataVars
<1>13. ASSUME NEW r \in Runs, Enter(r) PROVE LeaseHeld'
  BY <1>13 DEF Enter, Moves, Goto, RequireSignedRelease, Lease!Enter,
     Lease!Open, journalVars, dataVars
<1>14. ASSUME NEW r \in Runs, Refused(r) PROVE LeaseHeld'
  BY <1>14 DEF Refused, Fails, Goto, NoJob, Lease!GiveUp, journalVars, dataVars
<1>15. ASSUME NEW r \in Runs, Migrate(r) PROVE LeaseHeld'
  BY <1>15 DEF Migrate, Moves, Goto, Migrated, Stale, leaseVars, journalVars
<1>16. ASSUME NEW r \in Runs, MigrateFails(r) PROVE LeaseHeld'
  BY <1>16 DEF MigrateFails, Fails, Goto, Migrated, Stale, leaseVars,
     journalVars, dataVars
<1>17. ASSUME NEW r \in Runs, Update(r) PROVE LeaseHeld'
  BY <1>17 DEF Update, Moves, Goto, CutOver, leaseVars, journalVars, dataVars
<1>18. ASSUME NEW r \in Runs, UpdateFails(r) PROVE LeaseHeld'
  BY <1>18 DEF UpdateFails, Fails, Goto, CutOver, leaseVars, journalVars,
     dataVars
<1>19. ASSUME NEW r \in Runs, Record(r) PROVE LeaseHeld'
  BY <1>19 DEF Record, Moves, Goto, Observed, leaseVars, dataVars
<1>20. ASSUME NEW r \in Runs, Inspect(r) PROVE LeaseHeld'
  BY <1>20 DEF Inspect, Moves, Goto, leaseVars, journalVars, dataVars
<1>21. ASSUME NEW r \in Runs, SchemaReplace(r) PROVE LeaseHeld'
  BY <1>21 DEF SchemaReplace, Moves, Goto, Stale, Loading, leaseVars,
     journalVars
<1>22. ASSUME NEW r \in Runs, BeginLoad(r) PROVE LeaseHeld'
  BY <1>22 DEF BeginLoad, Moves, Goto, leaseVars, journalVars
<1>23. ASSUME NEW r \in Runs, EndLoad(r) PROVE LeaseHeld'
  BY <1>23 DEF EndLoad, Moves, Goto, Stale, leaseVars, journalVars
<1>24. ASSUME NEW r \in Runs, LoadFails(r) PROVE LeaseHeld'
  BY <1>24 DEF LoadFails, Moves, Goto, leaseVars, journalVars, dataVars
<1>25. ASSUME NEW r \in Runs, MarkFailed(r) PROVE LeaseHeld'
  BY <1>25 DEF MarkFailed, Moves, Goto, NoJob, Transition, leaseVars,
     journalVars
<1>26. ASSUME NEW r \in Runs, AppendCancelled(r) PROVE LeaseHeld'
  BY <1>26 DEF AppendCancelled, Fails, Goto, NoJob, AfterAppend, leaseVars,
     dataVars
<1>27. ASSUME NEW r \in Runs, MarkCancelled(r) PROVE LeaseHeld'
  BY <1>27 DEF MarkCancelled, Moves, Goto, NoJob, leaseVars, journalVars,
     dataVars
<1>28. ASSUME NEW r \in Runs, Crash(r) PROVE LeaseHeld'
  BY <1>28 DEF Crash, Moves, Goto, NoJob, Transition, CanMarkImporting,
     Lease!Leave, leaseVars
<1>29. CASE Unlock
  BY <1>29 DEF Unlock, Lease!Clear, journalVars, dataVars
<1>30. CASE UNCHANGED vars
  BY <1>30 DEF vars, leaseVars, journalVars, dataVars
<1>31. ASSUME NEW r \in Runs, Destroy(r) PROVE LeaseHeld'
  BY <1>31 DEF Destroy, Goto, NoJob, Lease!Enter, Lease!Open, leaseVars,
     journalVars, dataVars
<1>32. ASSUME NEW r \in Runs, DestroyStack(r) PROVE LeaseHeld'
  BY <1>32 DEF DestroyStack, Moves, Goto, NoJob, Stale, Lease!Leave, leaseVars,
     journalVars
<1>33. ASSUME NEW r \in Runs, CreateInitial(r) PROVE LeaseHeld'
  BY <1>33 DEF CreateInitial, CutOver, leaseVars, journalVars, dataVars
<1>34. ASSUME NEW r \in Runs, LoadTruncated(r) PROVE LeaseHeld'
  BY <1>34 DEF LoadTruncated, Moves, Goto, leaseVars, journalVars
<1>35. ASSUME NEW r \in Runs, DeployElsewhere(r) PROVE LeaseHeld'
  BY <1>35 DEF DeployElsewhere, Moves, Goto, NoJob, Migrated, Stale, leaseVars,
     journalVars
<1>36. ASSUME NEW r \in Runs, ImportElsewhere(r) PROVE LeaseHeld'
  BY <1>36 DEF ImportElsewhere, Moves, Goto, NoJob, Stale, leaseVars,
     journalVars
<1>. QED
  BY <1>1, <1>2, <1>3, <1>4, <1>5, <1>6, <1>7, <1>8, <1>9, <1>10, <1>11, <1>12,
     <1>13, <1>14, <1>15, <1>16, <1>17, <1>18, <1>19, <1>20, <1>21, <1>22,
     <1>23, <1>24, <1>25, <1>26, <1>27, <1>28, <1>29, <1>30, <1>31, <1>32,
     <1>33, <1>34, <1>35, <1>36 DEF Next, Start, Elsewhere, Step, Mishap,
     AfterLock

\* Nobody cuts over while another deployment is inside the lock.
LEMMA RecordedStep ==
    TypeOK /\ LeaseHeld /\ Recorded /\ [Next]_vars => Recorded'
<1>. SUFFICES ASSUME TypeOK, LeaseHeld, Recorded, [Next]_vars PROVE Recorded'
  OBVIOUS
<1>1. ASSUME NEW r \in Runs, AfterLock(r) PROVE Recorded'
  <2>1. Onward(r) /\ served' = served
    BY <1>1, AfterLockEffect
  <2>2. pc'[r] # "record" /\ ~DeployRow(r)'
    BY <2>1 DEF Onward, Ends, DeployRow, Writing, RollbackRow
  <2>3. \A q \in Runs \ {r} :
            /\ pc'[q] = pc[q] /\ job'[q] = job[q] /\ row'[q] = row[q]
            /\ DeployRow(q)' <=> DeployRow(q)
    BY <2>1 DEF Onward, Others, DeployRow
  <2>. QED
    BY <2>1, <2>2, <2>3 DEF Recorded
<1>. USE ReleasesAssumption, TypeParts DEF LeaseHeld, Recorded, DeployRow,
     Places, Writing, Importing, Over
<1>2. ASSUME NEW r \in Runs, Promote(r) PROVE Recorded'
  BY <1>2 DEF Promote, Goto, NoJob, Observed, leaseVars, dataVars
<1>3. ASSUME NEW r \in Runs, Rollback(r) PROVE Recorded'
  BY <1>3 DEF Rollback, Goto, NoJob, leaseVars, journalVars, dataVars
<1>4. ASSUME NEW r \in Runs, Deploy(r) PROVE Recorded'
  BY <1>4 DEF Deploy, Goto, NoJob, leaseVars, journalVars, dataVars
<1>5. ASSUME NEW r \in Runs, InfraOnly(r) PROVE Recorded'
  BY <1>5 DEF InfraOnly, Moves, Goto, NoJob, leaseVars, journalVars, dataVars
<1>6. ASSUME NEW r \in Runs, Import(r) PROVE Recorded'
  BY <1>6 DEF Import, Goto, NoJob, leaseVars, journalVars, dataVars
<1>7. ASSUME NEW r \in Runs, LockJournal(r) PROVE Recorded'
  BY <1>7 DEF LockJournal, Moves, Goto, leaseVars, dataVars
<1>8. ASSUME NEW r \in Runs, ReadJournal(r) PROVE Recorded'
  BY <1>8 DEF ReadJournal, Moves, Goto, leaseVars, dataVars
<1>9. ASSUME NEW r \in Runs, WriteJournal(r) PROVE Recorded'
  BY <1>9 DEF WriteJournal, Moves, Goto, leaseVars, dataVars
<1>10. ASSUME NEW r \in Runs, UnlockJournal(r) PROVE Recorded'
  BY <1>10 DEF UnlockJournal, Moves, Goto, AfterAppend, NoJob, leaseVars,
     dataVars
<1>11. ASSUME NEW r \in Runs, AppendFails(r) PROVE Recorded'
  BY <1>11 DEF AppendFails, Fails, Goto, AfterAppend, NoJob, leaseVars,
     dataVars
<1>12. ASSUME NEW r \in Runs, CheckSchema(r) PROVE Recorded'
  BY <1>12 DEF CheckSchema, Goto, NoJob, Observed, RefuseIncompatibleRollback,
     leaseVars, journalVars, dataVars
<1>13. ASSUME NEW r \in Runs, Enter(r) PROVE Recorded'
  BY <1>13 DEF Enter, Moves, Goto, RequireSignedRelease, Lease!Enter,
     Lease!Open, journalVars, dataVars
<1>14. ASSUME NEW r \in Runs, Refused(r) PROVE Recorded'
  BY <1>14 DEF Refused, Fails, Goto, NoJob, Lease!GiveUp, journalVars, dataVars
<1>15. ASSUME NEW r \in Runs, Migrate(r) PROVE Recorded'
  BY <1>15 DEF Migrate, Moves, Goto, Migrated, Stale, leaseVars, journalVars
<1>16. ASSUME NEW r \in Runs, MigrateFails(r) PROVE Recorded'
  BY <1>16 DEF MigrateFails, Fails, Goto, Migrated, Stale, leaseVars,
     journalVars, dataVars
<1>17. ASSUME NEW r \in Runs, Update(r) PROVE Recorded'
  BY <1>17 DEF Update, Moves, Goto, CutOver, leaseVars, journalVars, dataVars
<1>18. ASSUME NEW r \in Runs, UpdateFails(r) PROVE Recorded'
  BY <1>18 DEF UpdateFails, Fails, Goto, CutOver, leaseVars, journalVars,
     dataVars
<1>19. ASSUME NEW r \in Runs, Record(r) PROVE Recorded'
  BY <1>19 DEF Record, Moves, Goto, Observed, leaseVars, dataVars
<1>20. ASSUME NEW r \in Runs, Inspect(r) PROVE Recorded'
  BY <1>20 DEF Inspect, Moves, Goto, leaseVars, journalVars, dataVars
<1>21. ASSUME NEW r \in Runs, SchemaReplace(r) PROVE Recorded'
  BY <1>21 DEF SchemaReplace, Moves, Goto, Stale, Loading, leaseVars,
     journalVars
<1>22. ASSUME NEW r \in Runs, BeginLoad(r) PROVE Recorded'
  BY <1>22 DEF BeginLoad, Moves, Goto, leaseVars, journalVars
<1>23. ASSUME NEW r \in Runs, EndLoad(r) PROVE Recorded'
  BY <1>23 DEF EndLoad, Moves, Goto, Stale, leaseVars, journalVars
<1>24. ASSUME NEW r \in Runs, LoadFails(r) PROVE Recorded'
  BY <1>24 DEF LoadFails, Moves, Goto, leaseVars, journalVars, dataVars
<1>25. ASSUME NEW r \in Runs, MarkFailed(r) PROVE Recorded'
  BY <1>25 DEF MarkFailed, Moves, Goto, NoJob, Transition, leaseVars,
     journalVars
<1>26. ASSUME NEW r \in Runs, AppendCancelled(r) PROVE Recorded'
  BY <1>26 DEF AppendCancelled, Fails, Goto, NoJob, AfterAppend, leaseVars,
     dataVars
<1>27. ASSUME NEW r \in Runs, MarkCancelled(r) PROVE Recorded'
  BY <1>27 DEF MarkCancelled, Moves, Goto, NoJob, leaseVars, journalVars,
     dataVars
<1>28. ASSUME NEW r \in Runs, Crash(r) PROVE Recorded'
  BY <1>28 DEF Crash, Moves, Goto, NoJob, Transition, CanMarkImporting,
     Lease!Leave, leaseVars
<1>29. CASE Unlock
  BY <1>29 DEF Unlock, Lease!Clear, journalVars, dataVars
<1>30. CASE UNCHANGED vars
  BY <1>30 DEF vars, leaseVars, journalVars, dataVars
<1>31. ASSUME NEW r \in Runs, Destroy(r) PROVE Recorded'
  BY <1>31 DEF Destroy, Goto, NoJob, Lease!Enter, Lease!Open, leaseVars,
     journalVars, dataVars
<1>32. ASSUME NEW r \in Runs, DestroyStack(r) PROVE Recorded'
  BY <1>32 DEF DestroyStack, Moves, Goto, NoJob, Stale, Lease!Leave, leaseVars,
     journalVars
<1>33. ASSUME NEW r \in Runs, CreateInitial(r) PROVE Recorded'
  BY <1>33 DEF CreateInitial, CutOver, leaseVars, journalVars, dataVars
<1>34. ASSUME NEW r \in Runs, LoadTruncated(r) PROVE Recorded'
  BY <1>34 DEF LoadTruncated, Moves, Goto, leaseVars, journalVars
<1>35. ASSUME NEW r \in Runs, DeployElsewhere(r) PROVE Recorded'
  BY <1>35 DEF DeployElsewhere, Moves, Goto, NoJob, Migrated, Stale, leaseVars,
     journalVars
<1>36. ASSUME NEW r \in Runs, ImportElsewhere(r) PROVE Recorded'
  BY <1>36 DEF ImportElsewhere, Moves, Goto, NoJob, Stale, leaseVars,
     journalVars
<1>. QED
  BY <1>1, <1>2, <1>3, <1>4, <1>5, <1>6, <1>7, <1>8, <1>9, <1>10, <1>11, <1>12,
     <1>13, <1>14, <1>15, <1>16, <1>17, <1>18, <1>19, <1>20, <1>21, <1>22,
     <1>23, <1>24, <1>25, <1>26, <1>27, <1>28, <1>29, <1>30, <1>31, <1>32,
     <1>33, <1>34, <1>35, <1>36 DEF Next, Start, Elsewhere, Step, Mishap,
     AfterLock

\* The lock file is created exclusively and removed by its owner (Append).
LEMMA JournalHeldStep == TypeOK /\ JournalHeld /\ [Next]_vars => JournalHeld'
<1>. SUFFICES ASSUME TypeOK, JournalHeld, [Next]_vars PROVE JournalHeld'
  OBVIOUS
<1>1. ASSUME NEW r \in Runs, AfterLock(r) PROVE JournalHeld'
  <2>1. Onward(r) /\ journal' = journal /\ jlock' = jlock /\ rows' = rows
    BY <1>1, AfterLockEffect
  <2>2. pc'[r] \notin {"locked", "read", "written"}
    BY <2>1 DEF Onward, Ends
  <2>. QED
    BY <2>1, <2>2 DEF Onward, Others, JournalHeld
<1>. USE ReleasesAssumption, TypeParts DEF JournalHeld, Places, Writing,
     Importing, Over
<1>2. ASSUME NEW r \in Runs, Promote(r) PROVE JournalHeld'
  BY <1>2 DEF Promote, Goto, NoJob, Observed, leaseVars, dataVars
<1>3. ASSUME NEW r \in Runs, Rollback(r) PROVE JournalHeld'
  BY <1>3 DEF Rollback, Goto, NoJob, leaseVars, journalVars, dataVars
<1>4. ASSUME NEW r \in Runs, Deploy(r) PROVE JournalHeld'
  BY <1>4 DEF Deploy, Goto, NoJob, leaseVars, journalVars, dataVars
<1>5. ASSUME NEW r \in Runs, InfraOnly(r) PROVE JournalHeld'
  BY <1>5 DEF InfraOnly, Moves, Goto, NoJob, leaseVars, journalVars, dataVars
<1>6. ASSUME NEW r \in Runs, Import(r) PROVE JournalHeld'
  BY <1>6 DEF Import, Goto, NoJob, leaseVars, journalVars, dataVars
<1>7. ASSUME NEW r \in Runs, LockJournal(r) PROVE JournalHeld'
  BY <1>7 DEF LockJournal, Moves, Goto, leaseVars, dataVars
<1>8. ASSUME NEW r \in Runs, ReadJournal(r) PROVE JournalHeld'
  BY <1>8 DEF ReadJournal, Moves, Goto, leaseVars, dataVars
<1>9. ASSUME NEW r \in Runs, WriteJournal(r) PROVE JournalHeld'
  BY <1>9 DEF WriteJournal, Moves, Goto, leaseVars, dataVars
<1>10. ASSUME NEW r \in Runs, UnlockJournal(r) PROVE JournalHeld'
  BY <1>10 DEF UnlockJournal, Moves, Goto, AfterAppend, NoJob, leaseVars,
     dataVars
<1>11. ASSUME NEW r \in Runs, AppendFails(r) PROVE JournalHeld'
  BY <1>11 DEF AppendFails, Fails, Goto, AfterAppend, NoJob, leaseVars,
     dataVars
<1>12. ASSUME NEW r \in Runs, CheckSchema(r) PROVE JournalHeld'
  BY <1>12 DEF CheckSchema, Goto, NoJob, Observed, RefuseIncompatibleRollback,
     leaseVars, journalVars, dataVars
<1>13. ASSUME NEW r \in Runs, Enter(r) PROVE JournalHeld'
  BY <1>13 DEF Enter, Moves, Goto, RequireSignedRelease, Lease!Enter,
     Lease!Open, journalVars, dataVars
<1>14. ASSUME NEW r \in Runs, Refused(r) PROVE JournalHeld'
  BY <1>14 DEF Refused, Fails, Goto, NoJob, Lease!GiveUp, journalVars, dataVars
<1>15. ASSUME NEW r \in Runs, Migrate(r) PROVE JournalHeld'
  BY <1>15 DEF Migrate, Moves, Goto, Migrated, Stale, leaseVars, journalVars
<1>16. ASSUME NEW r \in Runs, MigrateFails(r) PROVE JournalHeld'
  BY <1>16 DEF MigrateFails, Fails, Goto, Migrated, Stale, leaseVars,
     journalVars, dataVars
<1>17. ASSUME NEW r \in Runs, Update(r) PROVE JournalHeld'
  BY <1>17 DEF Update, Moves, Goto, CutOver, leaseVars, journalVars, dataVars
<1>18. ASSUME NEW r \in Runs, UpdateFails(r) PROVE JournalHeld'
  BY <1>18 DEF UpdateFails, Fails, Goto, CutOver, leaseVars, journalVars,
     dataVars
<1>19. ASSUME NEW r \in Runs, Record(r) PROVE JournalHeld'
  BY <1>19 DEF Record, Moves, Goto, Observed, leaseVars, dataVars
<1>20. ASSUME NEW r \in Runs, Inspect(r) PROVE JournalHeld'
  BY <1>20 DEF Inspect, Moves, Goto, leaseVars, journalVars, dataVars
<1>21. ASSUME NEW r \in Runs, SchemaReplace(r) PROVE JournalHeld'
  BY <1>21 DEF SchemaReplace, Moves, Goto, Stale, Loading, leaseVars,
     journalVars
<1>22. ASSUME NEW r \in Runs, BeginLoad(r) PROVE JournalHeld'
  BY <1>22 DEF BeginLoad, Moves, Goto, leaseVars, journalVars
<1>23. ASSUME NEW r \in Runs, EndLoad(r) PROVE JournalHeld'
  BY <1>23 DEF EndLoad, Moves, Goto, Stale, leaseVars, journalVars
<1>24. ASSUME NEW r \in Runs, LoadFails(r) PROVE JournalHeld'
  BY <1>24 DEF LoadFails, Moves, Goto, leaseVars, journalVars, dataVars
<1>25. ASSUME NEW r \in Runs, MarkFailed(r) PROVE JournalHeld'
  BY <1>25 DEF MarkFailed, Moves, Goto, NoJob, Transition, leaseVars,
     journalVars
<1>26. ASSUME NEW r \in Runs, AppendCancelled(r) PROVE JournalHeld'
  BY <1>26 DEF AppendCancelled, Fails, Goto, NoJob, AfterAppend, leaseVars,
     dataVars
<1>27. ASSUME NEW r \in Runs, MarkCancelled(r) PROVE JournalHeld'
  BY <1>27 DEF MarkCancelled, Moves, Goto, NoJob, leaseVars, journalVars,
     dataVars
<1>28. ASSUME NEW r \in Runs, Crash(r) PROVE JournalHeld'
  BY <1>28 DEF Crash, Moves, Goto, NoJob, Transition, CanMarkImporting,
     Lease!Leave, leaseVars
<1>29. CASE Unlock
  BY <1>29 DEF Unlock, Lease!Clear, journalVars, dataVars
<1>30. CASE UNCHANGED vars
  BY <1>30 DEF vars, leaseVars, journalVars, dataVars
<1>31. ASSUME NEW r \in Runs, Destroy(r) PROVE JournalHeld'
  BY <1>31 DEF Destroy, Goto, NoJob, Lease!Enter, Lease!Open, leaseVars,
     journalVars, dataVars
<1>32. ASSUME NEW r \in Runs, DestroyStack(r) PROVE JournalHeld'
  BY <1>32 DEF DestroyStack, Moves, Goto, NoJob, Stale, Lease!Leave, leaseVars,
     journalVars
<1>33. ASSUME NEW r \in Runs, CreateInitial(r) PROVE JournalHeld'
  BY <1>33 DEF CreateInitial, CutOver, leaseVars, journalVars, dataVars
<1>34. ASSUME NEW r \in Runs, LoadTruncated(r) PROVE JournalHeld'
  BY <1>34 DEF LoadTruncated, Moves, Goto, leaseVars, journalVars
<1>35. ASSUME NEW r \in Runs, DeployElsewhere(r) PROVE JournalHeld'
  BY <1>35 DEF DeployElsewhere, Moves, Goto, NoJob, Migrated, Stale, leaseVars,
     journalVars
<1>36. ASSUME NEW r \in Runs, ImportElsewhere(r) PROVE JournalHeld'
  BY <1>36 DEF ImportElsewhere, Moves, Goto, NoJob, Stale, leaseVars,
     journalVars
<1>. QED
  BY <1>1, <1>2, <1>3, <1>4, <1>5, <1>6, <1>7, <1>8, <1>9, <1>10, <1>11, <1>12,
     <1>13, <1>14, <1>15, <1>16, <1>17, <1>18, <1>19, <1>20, <1>21, <1>22,
     <1>23, <1>24, <1>25, <1>26, <1>27, <1>28, <1>29, <1>30, <1>31, <1>32,
     <1>33, <1>34, <1>35, <1>36 DEF Next, Start, Elsewhere, Step, Mishap,
     AfterLock
-----------------------------------------------------------------------------
(***************************************************************************)
(* The journal only grows.                                                 *)
(***************************************************************************)
\* The journal changes by one row at its end, and by nothing else (Append).
LEMMA JournalStep ==
    ASSUME TypeOK, JournalHeld, [Next]_vars
    PROVE  \/ journal' = journal
           \/ \E r \in Runs : /\ WriteJournal(r) /\ row[r] \in Row
                              /\ journal' = Append(journal, row[r])
<1>1. ASSUME NEW r \in Runs, WriteJournal(r)
      PROVE  row[r] \in Row /\ journal' = Append(journal, row[r])
  BY <1>1 DEF WriteJournal, JournalHeld, TypeOK, Writing
<1>2. ASSUME NEW r \in Runs, AfterLock(r) PROVE journal' = journal
  BY <1>2, AfterLockEffect
<1>3. ASSUME NEW r \in Runs, Start(r) PROVE journal' = journal
  BY <1>3 DEF Start, Promote, Rollback, Deploy, InfraOnly, Destroy,
     Import, Elsewhere, DeployElsewhere, ImportElsewhere, journalVars
<1>4. ASSUME NEW r \in Runs, Step(r) PROVE journal' = journal \/ WriteJournal(r)
  BY <1>2, <1>4
     DEF Step, AfterLock, LockJournal, ReadJournal, UnlockJournal, AppendFails,
         CheckSchema, Enter, Refused, Migrate, MigrateFails, Update,
         UpdateFails, Record, Inspect, SchemaReplace, BeginLoad, EndLoad,
         CreateInitial, DestroyStack, LoadTruncated, LoadFails, MarkFailed, journalVars
<1>5. ASSUME NEW r \in Runs, Mishap(r) PROVE journal' = journal
  BY <1>5 DEF Mishap, AppendCancelled, MarkCancelled, Crash, journalVars
<1>6. CASE Unlock \/ UNCHANGED vars
  BY <1>6 DEF Unlock, vars, journalVars
<1>. QED
  BY <1>1, <1>3, <1>4, <1>5, <1>6 DEF Next

\* What an appended row adds to a journal.
LEMMA AppendedRow ==
    ASSUME NEW list \in Seq(Row), NEW e \in Row
    PROVE  /\ Append(list, e) \in Seq(Row)
           /\ Len(list) \in Nat
           /\ DOMAIN Append(list, e) = DOMAIN list \cup {Len(list) + 1}
           /\ DOMAIN list = 1 .. Len(list)
           /\ \A i \in DOMAIN list : Append(list, e)[i] = list[i]
           /\ Append(list, e)[Len(list) + 1] = e
OBVIOUS

\* A promotion, once recorded, stays recorded.
LEMMA PromotedStays ==
    ASSUME TypeOK, JournalHeld, [Next]_vars, NEW d, PromotedIn(journal, d)
    PROVE  PromotedIn(journal', d)
<1>1. journal \in Seq(Row)
  BY TypeParts
<1>2. PICK i \in DOMAIN journal :
          journal[i].action = "promote" /\ journal[i].digest = d
  BY DEF PromotedIn
<1>3. i \in DOMAIN journal' /\ journal'[i] = journal[i]
  BY <1>1, <1>2, JournalStep, AppendedRow
<1>. QED
  BY <1>2, <1>3 DEF PromotedIn

\* So does a row that credits a digest with a schema that is not its own.
LEMMA MislabelledStays ==
    ASSUME TypeOK, JournalHeld, [Next]_vars, NEW d, Mislabelled(d)
    PROVE  Mislabelled(d)'
<1>1. journal \in Seq(Row)
  BY TypeParts
<1>2. PICK i \in DOMAIN journal :
          journal[i].digest = d /\ journal[i].epoch > Epoch[d]
  BY DEF Mislabelled
<1>3. i \in DOMAIN journal' /\ journal'[i] = journal[i]
  BY <1>1, <1>2, JournalStep, AppendedRow
<1>. QED
  BY <1>2, <1>3 DEF Mislabelled

\* The type invariant in three parts: the processes, the journal, the rest.
ControlOK == pc \in [Runs -> Places] /\ job \in [Runs -> Job]
JournalOK ==
    /\ journal \in Seq(Row) /\ jlock \in Runs \cup {None}
    /\ row \in [Runs -> Row \cup {None}] /\ rows \in [Runs -> Seq(Row)]
    /\ \A r \in Runs : pc[r] \in Writing => row[r] \in Row
DataOK ==
    /\ production \in BOOLEAN /\ slock \in Runs \cup {None}
    /\ status \in Statuses /\ epoch \in Nat /\ content \in Contents
    /\ served \in [digest : Digests \cup {None}, via : {"deploy", "other"}]
    /\ misled \subseteq Runs /\ unrecorded \in BOOLEAN /\ spoilt \in BOOLEAN

\* Going on to a place of the program with a job keeps the types.
LEMMA GotoType ==
    ASSUME TypeOK, NEW r \in Runs, NEW p \in Places, NEW j \in Job,
           Goto(r, p, j)
    PROVE  ControlOK'
<1>1. NoJob \in Job
  BY ReleasesAssumption DEF NoJob, Job, Actions
<1>. QED
  BY <1>1, TypeParts DEF Goto, ControlOK

\* So does going on with the job as it is, or with its failure noted.
LEMMA MovesType ==
    ASSUME TypeOK, NEW r \in Runs, NEW p \in Places
    PROVE  /\ Moves(r, p) => ControlOK'
           /\ Fails(r, p) => ControlOK'
<1>1. job[r] \in Job /\ [job[r] EXCEPT !.ok = FALSE] \in Job
  BY TypeParts DEF Job
<1>. QED
  BY <1>1, GotoType DEF Moves, Fails

\* Every step leaves each process at a place of the program, with a job.
LEMMA ControlStep == TypeOK /\ Tasks /\ [Next]_vars => ControlOK'
<1>. SUFFICES ASSUME TypeOK, Tasks, [Next]_vars PROVE ControlOK'
  OBVIOUS
<1>1. ASSUME NEW r \in Runs, Promote(r) PROVE ControlOK'
  <2>1. [NoJob EXCEPT !.act = "promote"] \in Job
    BY ReleasesAssumption DEF NoJob, Job, Actions
  <2>. QED
    BY <1>1, <2>1, GotoType DEF Promote, Places, Writing, Importing, Over
<1>2. ASSUME NEW r \in Runs, Rollback(r) PROVE ControlOK'
  <2>1. \A d \in Digests, t \in Nat :
            [NoJob EXCEPT !.act = "rollback", !.digest = d, !.target = t] \in Job
    BY ReleasesAssumption DEF NoJob, Job, Actions
  <2>2. PICK n \in DOMAIN journal :
            Goto(r, "check", [NoJob EXCEPT !.act = "rollback",
                        !.digest = journal[n].digest,
                        !.target = IF journal[n].epoch >= 1
                                   THEN journal[n].epoch
                                   ELSE SchemaEpochForDigest(journal,
                                                        journal[n].digest)])
    BY <1>2 DEF Rollback
  <2>3. /\ journal \in Seq(Row) /\ journal[n] \in Row
        /\ SchemaEpochForDigest(journal, journal[n].digest) \in Nat
    BY TypeParts, EpochIn
  <2>4. journal[n].digest \in Digests /\ journal[n].epoch \in Nat
    BY <2>3 DEF Row
  <2>. QED
    BY <2>1, <2>2, <2>3, <2>4, GotoType DEF Places
<1>3. ASSUME NEW r \in Runs, Deploy(r) PROVE ControlOK'
  <2>1. \A d \in Digests :
            [NoJob EXCEPT !.act = "deploy", !.digest = d] \in Job
    BY ReleasesAssumption DEF NoJob, Job, Actions
  <2>. QED
    BY <1>3, <2>1, GotoType DEF Deploy, Places, Writing, Importing, Over
<1>4. ASSUME NEW r \in Runs, InfraOnly(r) PROVE ControlOK'
  BY <1>4, MovesType DEF InfraOnly, Places, Writing, Importing, Over
<1>5. ASSUME NEW r \in Runs, Import(r) PROVE ControlOK'
  <2>1. \A y \in BOOLEAN :
            [NoJob EXCEPT !.act = "import", !.yes = y] \in Job
    BY ReleasesAssumption DEF NoJob, Job, Actions
  <2>. QED
    BY <1>5, <2>1, GotoType DEF Import, Places, Writing, Importing, Over
<1>6. ASSUME NEW r \in Runs, LockJournal(r) PROVE ControlOK'
  BY <1>6, MovesType DEF LockJournal, Places, Writing, Importing, Over
<1>7. ASSUME NEW r \in Runs, ReadJournal(r) PROVE ControlOK'
  BY <1>7, MovesType DEF ReadJournal, Places, Writing, Importing, Over
<1>8. ASSUME NEW r \in Runs, WriteJournal(r) PROVE ControlOK'
  BY <1>8, MovesType DEF WriteJournal, Places, Writing, Importing, Over
<1>9. ASSUME NEW r \in Runs, UnlockJournal(r) PROVE ControlOK'
  BY <1>9, MovesType DEF UnlockJournal, Places, Writing, Importing, Over,
     AfterAppend
<1>10. ASSUME NEW r \in Runs, AppendFails(r) PROVE ControlOK'
  BY <1>10, MovesType DEF AppendFails, Places, Writing, Importing, Over,
     AfterAppend
<1>11. ASSUME NEW r \in Runs, CheckSchema(r) PROVE ControlOK'
  <2>0. epoch \in Nat /\ job[r] \in Job
    BY TypeParts DEF TypeOK
  <2>1. \A e \in Observed : [job[r] EXCEPT !.live = e] \in Job
    BY <2>0 DEF Job, Observed
  <2>. QED
    BY <1>11, <2>1, GotoType DEF CheckSchema, Places, Over
<1>12. ASSUME NEW r \in Runs, Enter(r) PROVE ControlOK'
  BY <1>12, MovesType DEF Enter, Places, Writing, Importing, Over
<1>13. ASSUME NEW r \in Runs, Refused(r) PROVE ControlOK'
  BY <1>13, MovesType DEF Refused, Places, Writing, Importing, Over
<1>14. ASSUME NEW r \in Runs, Migrate(r) PROVE ControlOK'
  BY <1>14, MovesType DEF Migrate, Places, Writing, Importing, Over
<1>15. ASSUME NEW r \in Runs, MigrateFails(r) PROVE ControlOK'
  BY <1>15, MovesType DEF MigrateFails, Places, Writing, Importing, Over
<1>16. ASSUME NEW r \in Runs, Update(r) PROVE ControlOK'
  BY <1>16, MovesType DEF Update, Places, Writing, Importing, Over
<1>17. ASSUME NEW r \in Runs, UpdateFails(r) PROVE ControlOK'
  BY <1>17, MovesType DEF UpdateFails, Places, Writing, Importing, Over
<1>18. ASSUME NEW r \in Runs, Record(r) PROVE ControlOK'
  BY <1>18, MovesType DEF Record, Places, Writing, Importing, Over
<1>19. ASSUME NEW r \in Runs, Leave(r) PROVE ControlOK'
  BY <1>19, MovesType DEF Leave, Places, Writing, Importing, Over
<1>20. ASSUME NEW r \in Runs, ReadStatus(r) PROVE ControlOK'
  <2>1. [job[r] EXCEPT !.yes = @ \/ status = "recorded"] \in Job
    BY TypeParts DEF Job
  <2>2. CASE Finish(r)
    BY <2>2, MovesType DEF Finish, Places, Writing, Over
  <2>3. CASE /\ row' = row
             /\ Goto(r, "mark", [job[r] EXCEPT !.yes = @ \/ status = "recorded"])
    BY <2>1, <2>3, GotoType DEF Places
  <2>. QED
    BY <1>20, <2>2, <2>3 DEF ReadStatus
<1>21. ASSUME NEW r \in Runs, MarkImporting(r) PROVE ControlOK'
  BY <1>21, MovesType DEF MarkImporting, Places, Writing, Importing, Over
<1>22. ASSUME NEW r \in Runs, Inspect(r) PROVE ControlOK'
  BY <1>22, MovesType DEF Inspect, Places, Writing, Importing, Over
<1>23. ASSUME NEW r \in Runs, SchemaReplace(r) PROVE ControlOK'
  BY <1>23, MovesType DEF SchemaReplace, Places, Writing, Importing, Over
<1>24. ASSUME NEW r \in Runs, BeginLoad(r) PROVE ControlOK'
  BY <1>24, MovesType DEF BeginLoad, Places, Writing, Importing, Over
<1>25. ASSUME NEW r \in Runs, EndLoad(r) PROVE ControlOK'
  BY <1>25, MovesType DEF EndLoad, Places, Writing, Importing, Over
<1>26. ASSUME NEW r \in Runs, LoadFails(r) PROVE ControlOK'
  BY <1>26, MovesType DEF LoadFails, Places, Writing, Importing, Over
<1>27. ASSUME NEW r \in Runs, MarkImported(r) PROVE ControlOK'
  <2>1. CASE Finish(r)
    BY <2>1, MovesType DEF Finish, Places, Writing, Over
  <2>2. CASE Moves(r, "done")
    BY <2>2, MovesType DEF Places, Over
  <2>. QED
    BY <1>27, <2>1, <2>2 DEF MarkImported
<1>28. ASSUME NEW r \in Runs, MarkFailed(r) PROVE ControlOK'
  BY <1>28, MovesType DEF MarkFailed, Places, Writing, Importing, Over
<1>29. ASSUME NEW r \in Runs, AppendCancelled(r) PROVE ControlOK'
  BY <1>29, MovesType DEF AppendCancelled, Places, Writing, Importing, Over,
     AfterAppend
<1>30. ASSUME NEW r \in Runs, MarkCancelled(r) PROVE ControlOK'
  BY <1>30, MovesType DEF MarkCancelled, Places, Writing, Importing, Over
<1>31. ASSUME NEW r \in Runs, Crash(r) PROVE ControlOK'
  BY <1>31, MovesType DEF Crash, Places, Writing, Importing, Over
<1>32. CASE Unlock
  BY <1>32, TypeParts DEF Unlock, ControlOK
<1>33. CASE UNCHANGED vars
  BY <1>33, TypeParts DEF vars, ControlOK
<1>34. ASSUME NEW r \in Runs, Destroy(r) PROVE ControlOK'
  BY <1>34, GotoType DEF Destroy, NoJob, Job, Actions, Places
<1>35. ASSUME NEW r \in Runs, DestroyStack(r) PROVE ControlOK'
  BY <1>35, MovesType DEF DestroyStack, Places, Importing, Over
<1>36. ASSUME NEW r \in Runs, CreateInitial(r) PROVE ControlOK'
  BY <1>36, TypeParts DEF CreateInitial, ControlOK
<1>37. ASSUME NEW r \in Runs, LoadTruncated(r) PROVE ControlOK'
  BY <1>37, MovesType DEF LoadTruncated, Places, Importing, Over
<1>38. ASSUME NEW r \in Runs, DeployElsewhere(r) PROVE ControlOK'
  BY <1>38, MovesType DEF DeployElsewhere, Places, Importing, Over
<1>39. ASSUME NEW r \in Runs, ImportElsewhere(r) PROVE ControlOK'
  BY <1>39, MovesType DEF ImportElsewhere, Places, Importing, Over
<1>. QED
  BY <1>1, <1>2, <1>3, <1>4, <1>5, <1>6, <1>7, <1>8, <1>9, <1>10, <1>11, <1>12,
     <1>13, <1>14, <1>15, <1>16, <1>17, <1>18, <1>19, <1>20, <1>21, <1>22,
     <1>23, <1>24, <1>25, <1>26, <1>27, <1>28, <1>29, <1>30, <1>31, <1>32,
     <1>33, <1>34, <1>35, <1>36, <1>37, <1>38, <1>39 DEF Next, Start,
     Elsewhere, Step, Mishap

\* Every step writes rows, and a process about to append has one.
LEMMA JournalStepType == TypeOK /\ Tasks /\ [Next]_vars => JournalOK'
<1>. SUFFICES ASSUME TypeOK, Tasks, [Next]_vars PROVE JournalOK'
  OBVIOUS
<1>1. ASSUME NEW r \in Runs, AfterLock(r) PROVE JournalOK'
  <2>1. Onward(r) /\ journal' = journal /\ jlock' = jlock /\ rows' = rows
    BY <1>1, AfterLockEffect
  <2>2. RollbackRow(r) \in Row \/ job[r].act # "rollback"
    <3>1. job[r] \in Job
      BY TypeParts
    <3>2. job[r].act = "rollback" => job[r].digest \in Digests
      BY DEF Tasks
    <3>. QED
      BY <3>1, <3>2 DEF RollbackRow, Row, Actions, Job
  <2>3. row' = row \/ row' = [row EXCEPT ![r] = RollbackRow(r)]
    <3>1. Finish(r) => row' = row \/ row' = [row EXCEPT ![r] = RollbackRow(r)]
      BY DEF Finish, RollbackRow
    <3>. QED
      BY <1>1, <3>1
         DEF AfterLock, Leave, ReadStatus, MarkImporting, MarkImported,
             journalVars
  <2>4. row'[r] \in Row \cup {None} /\ (pc'[r] \in Writing => row'[r] \in Row)
    BY <2>1, <2>2, TypeParts DEF Onward, Ends, Writing
  <2>5. row' \in [Runs -> Row \cup {None}]
    BY <2>3, <2>4, TypeParts
  <2>6. \A q \in Runs \ {r} : pc'[q] = pc[q] /\ row'[q] = row[q]
    BY <2>1 DEF Onward, Others
  <2>. QED
    BY <2>1, <2>4, <2>5, <2>6 DEF JournalOK, TypeOK
<1>. USE ReleasesAssumption, TypeParts DEF JournalOK, Places, Writing,
     Importing, Over
<1>2. ASSUME NEW r \in Runs, Promote(r) PROVE JournalOK'
  <2>1. epoch \in Nat
    BY DEF TypeOK
  <2>2. PICK d \in Digests, e \in Observed :
          row' = [row EXCEPT ![r] = [action |-> "promote", digest |-> d,
                                     signed |-> TRUE, epoch |-> e]]
    BY <1>2 DEF Promote
  <2>3. row'[r] \in Row /\ \A q \in Runs \ {r} : row'[q] = row[q]
    BY <2>1, <2>2 DEF Observed, Row, Actions
  <2>. QED
    BY <1>2, <2>2, <2>3 DEF Promote, Goto, TypeOK
<1>3. ASSUME NEW r \in Runs, Rollback(r) PROVE JournalOK'
  BY <1>3 DEF Rollback, Goto, NoJob, leaseVars, journalVars, dataVars, TypeOK
<1>4. ASSUME NEW r \in Runs, Deploy(r) PROVE JournalOK'
  BY <1>4 DEF Deploy, Goto, NoJob, leaseVars, journalVars, dataVars, TypeOK
<1>5. ASSUME NEW r \in Runs, InfraOnly(r) PROVE JournalOK'
  BY <1>5 DEF InfraOnly, Moves, Goto, NoJob, leaseVars, journalVars, dataVars,
     TypeOK
<1>6. ASSUME NEW r \in Runs, Import(r) PROVE JournalOK'
  BY <1>6 DEF Import, Goto, NoJob, leaseVars, journalVars, dataVars, TypeOK
<1>7. ASSUME NEW r \in Runs, LockJournal(r) PROVE JournalOK'
  BY <1>7 DEF LockJournal, Moves, Goto, leaseVars, dataVars, TypeOK
<1>8. ASSUME NEW r \in Runs, ReadJournal(r) PROVE JournalOK'
  BY <1>8 DEF ReadJournal, Moves, Goto, leaseVars, dataVars, TypeOK
<1>9. ASSUME NEW r \in Runs, WriteJournal(r) PROVE JournalOK'
  <2>1. row[r] \in Row /\ rows[r] \in Seq(Row)
    BY <1>9 DEF WriteJournal, TypeOK, Writing
  <2>2. Append(rows[r], row[r]) \in Seq(Row)
    BY <2>1
  <2>. QED
    BY <1>9, <2>1, <2>2 DEF WriteJournal, Moves, Goto, TypeOK
<1>10. ASSUME NEW r \in Runs, UnlockJournal(r) PROVE JournalOK'
  BY <1>10 DEF UnlockJournal, Moves, Goto, AfterAppend, NoJob, leaseVars,
     dataVars, TypeOK
<1>11. ASSUME NEW r \in Runs, AppendFails(r) PROVE JournalOK'
  BY <1>11 DEF AppendFails, Fails, Goto, AfterAppend, NoJob, leaseVars,
     dataVars, TypeOK
<1>12. ASSUME NEW r \in Runs, CheckSchema(r) PROVE JournalOK'
  BY <1>12 DEF CheckSchema, Goto, NoJob, Observed, RefuseIncompatibleRollback,
     leaseVars, journalVars, dataVars, TypeOK
<1>13. ASSUME NEW r \in Runs, Enter(r) PROVE JournalOK'
  BY <1>13 DEF Enter, Moves, Goto, RequireSignedRelease, Lease!Enter,
     Lease!Open, journalVars, dataVars, TypeOK
<1>14. ASSUME NEW r \in Runs, Refused(r) PROVE JournalOK'
  BY <1>14 DEF Refused, Fails, Goto, NoJob, Lease!GiveUp, journalVars,
     dataVars, TypeOK
<1>15. ASSUME NEW r \in Runs, Migrate(r) PROVE JournalOK'
  BY <1>15 DEF Migrate, Moves, Goto, Migrated, Stale, leaseVars, journalVars,
     TypeOK
<1>16. ASSUME NEW r \in Runs, MigrateFails(r) PROVE JournalOK'
  BY <1>16 DEF MigrateFails, Fails, Goto, Migrated, Stale, leaseVars,
     journalVars, dataVars, TypeOK
<1>17. ASSUME NEW r \in Runs, Update(r) PROVE JournalOK'
  BY <1>17 DEF Update, Moves, Goto, CutOver, leaseVars, journalVars, dataVars,
     TypeOK
<1>18. ASSUME NEW r \in Runs, UpdateFails(r) PROVE JournalOK'
  BY <1>18 DEF UpdateFails, Fails, Goto, CutOver, leaseVars, journalVars,
     dataVars, TypeOK
<1>19. ASSUME NEW r \in Runs, Record(r) PROVE JournalOK'
  <2>1. job[r].digest \in Digests /\ epoch \in Nat
    BY <1>19 DEF Record, Tasks, TypeOK
  <2>2. SchemaEpochForDigest(journal, job[r].digest) \in Nat
    BY EpochIn
  <2>3. PICK e \in Observed :
          row' = [row EXCEPT ![r] =
                    [action |-> "deploy", digest |-> job[r].digest,
                     signed |-> SignedRow(journal, job[r].digest) # {},
                     epoch |-> IF e >= 1 THEN e
                               ELSE SchemaEpochForDigest(journal, job[r].digest)]]
    BY <1>19 DEF Record
  <2>4. row'[r] \in Row /\ \A q \in Runs \ {r} : row'[q] = row[q]
    BY <2>1, <2>2, <2>3 DEF Observed, Row, Actions
  <2>. QED
    BY <1>19, <2>3, <2>4 DEF Record, Moves, Goto, TypeOK
<1>20. ASSUME NEW r \in Runs, Inspect(r) PROVE JournalOK'
  BY <1>20 DEF Inspect, Moves, Goto, leaseVars, journalVars, dataVars, TypeOK
<1>21. ASSUME NEW r \in Runs, SchemaReplace(r) PROVE JournalOK'
  BY <1>21 DEF SchemaReplace, Moves, Goto, Stale, Loading, leaseVars,
     journalVars, TypeOK
<1>22. ASSUME NEW r \in Runs, BeginLoad(r) PROVE JournalOK'
  BY <1>22 DEF BeginLoad, Moves, Goto, leaseVars, journalVars, TypeOK
<1>23. ASSUME NEW r \in Runs, EndLoad(r) PROVE JournalOK'
  BY <1>23 DEF EndLoad, Moves, Goto, Stale, leaseVars, journalVars, TypeOK
<1>24. ASSUME NEW r \in Runs, LoadFails(r) PROVE JournalOK'
  BY <1>24 DEF LoadFails, Moves, Goto, leaseVars, journalVars, dataVars, TypeOK
<1>25. ASSUME NEW r \in Runs, MarkFailed(r) PROVE JournalOK'
  BY <1>25 DEF MarkFailed, Moves, Goto, NoJob, Transition, leaseVars,
     journalVars, TypeOK
<1>26. ASSUME NEW r \in Runs, AppendCancelled(r) PROVE JournalOK'
  BY <1>26 DEF AppendCancelled, Fails, Goto, NoJob, AfterAppend, leaseVars,
     dataVars, TypeOK
<1>27. ASSUME NEW r \in Runs, MarkCancelled(r) PROVE JournalOK'
  BY <1>27 DEF MarkCancelled, Moves, Goto, NoJob, leaseVars, journalVars,
     dataVars, TypeOK
<1>28. ASSUME NEW r \in Runs, Crash(r) PROVE JournalOK'
  BY <1>28 DEF Crash, Moves, Goto, NoJob, Transition, CanMarkImporting,
     Lease!Leave, leaseVars, TypeOK
<1>29. CASE Unlock
  BY <1>29 DEF Unlock, Lease!Clear, journalVars, dataVars, TypeOK
<1>30. CASE UNCHANGED vars
  BY <1>30 DEF TypeOK, vars, leaseVars, journalVars, dataVars
<1>31. ASSUME NEW r \in Runs, Destroy(r) PROVE JournalOK'
  BY <1>31 DEF Destroy, Goto, NoJob, Lease!Enter, Lease!Open, leaseVars,
     journalVars, dataVars, TypeOK
<1>32. ASSUME NEW r \in Runs, DestroyStack(r) PROVE JournalOK'
  BY <1>32 DEF DestroyStack, Moves, Goto, NoJob, Stale, Lease!Leave, leaseVars,
     journalVars, TypeOK
<1>33. ASSUME NEW r \in Runs, CreateInitial(r) PROVE JournalOK'
  BY <1>33 DEF CreateInitial, CutOver, leaseVars, journalVars, dataVars, TypeOK
<1>34. ASSUME NEW r \in Runs, LoadTruncated(r) PROVE JournalOK'
  BY <1>34 DEF LoadTruncated, Moves, Goto, leaseVars, journalVars, TypeOK
<1>35. ASSUME NEW r \in Runs, DeployElsewhere(r) PROVE JournalOK'
  BY <1>35 DEF DeployElsewhere, Moves, Goto, NoJob, Migrated, Stale, leaseVars,
     journalVars, TypeOK
<1>36. ASSUME NEW r \in Runs, ImportElsewhere(r) PROVE JournalOK'
  BY <1>36 DEF ImportElsewhere, Moves, Goto, NoJob, Stale, leaseVars,
     journalVars, TypeOK
<1>. QED
  BY <1>1, <1>2, <1>3, <1>4, <1>5, <1>6, <1>7, <1>8, <1>9, <1>10, <1>11, <1>12,
     <1>13, <1>14, <1>15, <1>16, <1>17, <1>18, <1>19, <1>20, <1>21, <1>22,
     <1>23, <1>24, <1>25, <1>26, <1>27, <1>28, <1>29, <1>30, <1>31, <1>32,
     <1>33, <1>34, <1>35, <1>36 DEF Next, Start, Elsewhere, Step, Mishap,
     AfterLock

\* Every step keeps the database, the status and what is served in their types.
LEMMA DataStep == TypeOK /\ Tasks /\ [Next]_vars => DataOK'
<1>. SUFFICES ASSUME TypeOK, Tasks, [Next]_vars PROVE DataOK'
  OBVIOUS
<1>. USE ReleasesAssumption DEF DataOK, Statuses, Contents
<1>1. ASSUME NEW r \in Runs, Promote(r) PROVE DataOK'
  BY <1>1 DEF Promote, dataVars, TypeOK
<1>2. ASSUME NEW r \in Runs, Rollback(r) PROVE DataOK'
  BY <1>2 DEF Rollback, dataVars, TypeOK
<1>3. ASSUME NEW r \in Runs, Deploy(r) PROVE DataOK'
  BY <1>3 DEF Deploy, dataVars, TypeOK
<1>4. ASSUME NEW r \in Runs, InfraOnly(r) PROVE DataOK'
  BY <1>4 DEF InfraOnly, dataVars, TypeOK
<1>5. ASSUME NEW r \in Runs, Import(r) PROVE DataOK'
  BY <1>5 DEF Import, dataVars, TypeOK
<1>6. ASSUME NEW r \in Runs, LockJournal(r) PROVE DataOK'
  BY <1>6 DEF LockJournal, dataVars, TypeOK
<1>7. ASSUME NEW r \in Runs, ReadJournal(r) PROVE DataOK'
  BY <1>7 DEF ReadJournal, dataVars, TypeOK
<1>8. ASSUME NEW r \in Runs, WriteJournal(r) PROVE DataOK'
  BY <1>8 DEF WriteJournal, dataVars, TypeOK
<1>9. ASSUME NEW r \in Runs, UnlockJournal(r) PROVE DataOK'
  BY <1>9 DEF UnlockJournal, dataVars, TypeOK
<1>10. ASSUME NEW r \in Runs, AppendFails(r) PROVE DataOK'
  BY <1>10 DEF AppendFails, dataVars, TypeOK
<1>11. ASSUME NEW r \in Runs, CheckSchema(r) PROVE DataOK'
  BY <1>11 DEF CheckSchema, dataVars, TypeOK
<1>12. ASSUME NEW r \in Runs, Enter(r) PROVE DataOK'
  BY <1>12 DEF Enter, dataVars, TypeOK
<1>13. ASSUME NEW r \in Runs, Refused(r) PROVE DataOK'
  BY <1>13 DEF Refused, dataVars, TypeOK
<1>14. ASSUME NEW r \in Runs, Migrate(r) PROVE DataOK'
  <2>1. job[r].digest \in Digests /\ epoch \in Nat
    BY <1>14 DEF Migrate, Tasks, TypeOK
  <2>2. Max({epoch, Epoch[job[r].digest]}) \in Nat
    BY <2>1, MaxPair, ReleasesAssumption
  <2>. QED
    BY <1>14, <2>2 DEF Migrate, Migrated, Stale, TypeOK
<1>15. ASSUME NEW r \in Runs, MigrateFails(r) PROVE DataOK'
  <2>1. job[r].digest \in Digests /\ epoch \in Nat
    BY <1>15 DEF MigrateFails, Tasks, TypeOK
  <2>2. Max({epoch, Epoch[job[r].digest]}) \in Nat
    BY <2>1, MaxPair, ReleasesAssumption
  <2>. QED
    BY <1>15, <2>2 DEF MigrateFails, dataVars, Migrated, Stale, TypeOK
<1>16. ASSUME NEW r \in Runs, Update(r) PROVE DataOK'
  <2>1. job[r].digest \in Digests
    BY <1>16 DEF Update, Tasks
  <2>. QED
    BY <1>16, <2>1 DEF Update, CutOver, TypeOK, dataVars
<1>17. ASSUME NEW r \in Runs, UpdateFails(r) PROVE DataOK'
  <2>1. job[r].digest \in Digests
    BY <1>17 DEF UpdateFails, Tasks
  <2>2. CASE CutOver(r)
    BY <1>17, <2>1, <2>2 DEF UpdateFails, CutOver, TypeOK, dataVars
  <2>3. CASE UNCHANGED <<served, unrecorded>>
    BY <1>17, <2>3 DEF UpdateFails, TypeOK, dataVars
  <2>. QED
    BY <1>17, <2>2, <2>3 DEF UpdateFails
<1>18. ASSUME NEW r \in Runs, Record(r) PROVE DataOK'
  BY <1>18 DEF Record, dataVars, TypeOK
<1>19. ASSUME NEW r \in Runs, Leave(r) PROVE DataOK'
  BY <1>19 DEF Leave, dataVars, TypeOK
<1>20. ASSUME NEW r \in Runs, ReadStatus(r) PROVE DataOK'
  BY <1>20 DEF ReadStatus, dataVars, TypeOK
<1>21. ASSUME NEW r \in Runs, MarkImporting(r) PROVE DataOK'
  BY <1>21 DEF MarkImporting, Transition, CanMarkImporting, TypeOK
<1>22. ASSUME NEW r \in Runs, Inspect(r) PROVE DataOK'
  BY <1>22 DEF Inspect, dataVars, TypeOK
<1>23. ASSUME NEW r \in Runs, SchemaReplace(r) PROVE DataOK'
  BY <1>23 DEF SchemaReplace, Stale, Loading, TypeOK
<1>24. ASSUME NEW r \in Runs, BeginLoad(r) PROVE DataOK'
  <2>1. Max({epoch, DumpEpoch}) \in Nat
    BY MaxPair, ReleasesAssumption DEF TypeOK
  <2>. QED
    BY <1>24, <2>1 DEF BeginLoad, Stale, TypeOK
<1>25. ASSUME NEW r \in Runs, EndLoad(r) PROVE DataOK'
  <2>1. Max({epoch, DumpEpoch}) \in Nat
    BY MaxPair, ReleasesAssumption DEF TypeOK
  <2>. QED
    BY <1>25, <2>1 DEF EndLoad, Stale, TypeOK
<1>26. ASSUME NEW r \in Runs, LoadFails(r) PROVE DataOK'
  BY <1>26 DEF LoadFails, dataVars, TypeOK
<1>27. ASSUME NEW r \in Runs, MarkImported(r) PROVE DataOK'
  BY <1>27 DEF MarkImported, Transition, TypeOK
<1>28. ASSUME NEW r \in Runs, MarkFailed(r) PROVE DataOK'
  BY <1>28 DEF MarkFailed, Transition, TypeOK
<1>29. ASSUME NEW r \in Runs, AppendCancelled(r) PROVE DataOK'
  BY <1>29 DEF AppendCancelled, dataVars, TypeOK
<1>30. ASSUME NEW r \in Runs, MarkCancelled(r) PROVE DataOK'
  BY <1>30 DEF MarkCancelled, dataVars, TypeOK
<1>31. ASSUME NEW r \in Runs, Crash(r) PROVE DataOK'
  BY <1>31 DEF Crash, Transition, CanMarkImporting, TypeOK
<1>32. CASE Unlock
  BY <1>32 DEF Unlock, dataVars, TypeOK
<1>33. CASE UNCHANGED vars
  BY <1>33 DEF vars, dataVars, TypeOK
<1>34. ASSUME NEW r \in Runs, Destroy(r) PROVE DataOK'
  BY <1>34 DEF Destroy, dataVars, TypeOK
<1>35. ASSUME NEW r \in Runs, DestroyStack(r) PROVE DataOK'
  <2>1. served' \in [digest : Digests \cup {None}, via : {"deploy", "other"}]
    BY <1>35 DEF DestroyStack, TypeOK
  <2>2. epoch' \in Nat /\ content' \in Contents /\ misled' \subseteq Runs
    BY <1>35 DEF DestroyStack, Stale, TypeOK
  <2>3. spoilt' \in BOOLEAN
    BY <1>35 DEF DestroyStack, TypeOK
  <2>. QED
    BY <1>35, <2>1, <2>2, <2>3 DEF DestroyStack, TypeOK
<1>36. ASSUME NEW r \in Runs, CreateInitial(r) PROVE DataOK'
  <2>1. job[r].digest \in Digests
    BY <1>36 DEF CreateInitial, Tasks
  <2>. QED
    BY <1>36, <2>1 DEF CreateInitial, CutOver, TypeOK, dataVars
<1>37. ASSUME NEW r \in Runs, LoadTruncated(r) PROVE DataOK'
  BY <1>37 DEF LoadTruncated, TypeOK
<1>38. ASSUME NEW r \in Runs, DeployElsewhere(r) PROVE DataOK'
  <2>1. PICK d \in Digests :
            /\ Migrated(r, d)
            /\ UNCHANGED served \/ served' = [digest |-> d, via |-> "other"]
    BY <1>38 DEF DeployElsewhere
  <2>2. epoch \in Nat /\ Epoch[d] \in Nat
    BY <2>1, ReleasesAssumption DEF TypeOK
  <2>3. Max({epoch, Epoch[d]}) \in Nat
    BY <2>2, MaxPair
  <2>. QED
    BY <1>38, <2>1, <2>3 DEF DeployElsewhere, Migrated, Stale, TypeOK
<1>39. ASSUME NEW r \in Runs, ImportElsewhere(r) PROVE DataOK'
  BY <1>39 DEF ImportElsewhere, Stale, TypeOK
<1>. QED
  BY <1>1, <1>2, <1>3, <1>4, <1>5, <1>6, <1>7, <1>8, <1>9, <1>10, <1>11, <1>12,
     <1>13, <1>14, <1>15, <1>16, <1>17, <1>18, <1>19, <1>20, <1>21, <1>22,
     <1>23, <1>24, <1>25, <1>26, <1>27, <1>28, <1>29, <1>30, <1>31, <1>32,
     <1>33, <1>34, <1>35, <1>36, <1>37, <1>38, <1>39 DEF Next, Start,
     Elsewhere, Step, Mishap

\* Every step keeps the variables in their types.
LEMMA TypeStep == TypeOK /\ Tasks /\ [Next]_vars => TypeOK'
<1>1. TypeOK <=> ControlOK /\ JournalOK /\ DataOK
  BY DEF TypeOK, ControlOK, JournalOK, DataOK
<1>2. TypeOK' <=> ControlOK' /\ JournalOK' /\ DataOK'
  BY DEF TypeOK, ControlOK, JournalOK, DataOK
<1>. QED
  BY <1>2, ControlStep, JournalStepType, DataStep

\* A signature that is found in the journal goes back to a promotion.
LEMMA SignedIsPromoted ==
    ASSUME Signed, NEW d, SignedRow(journal, d) # {}
    PROVE  PromotedIn(journal, d)
BY SignedRowIn DEF Signed

\* A signed row is appended by a promotion, or for a digest that was promoted
\* (Promote, Record, Finish); rows stay.
LEMMA SignedStep == TypeOK /\ JournalHeld /\ Signed /\ [Next]_vars => Signed'
<1>. SUFFICES ASSUME TypeOK, JournalHeld, Signed, [Next]_vars PROVE Signed'
  OBVIOUS
<1>1. ASSUME NEW r \in Runs, AfterLock(r) PROVE Signed'
  <2>1. Onward(r) /\ journal' = journal /\ production' = production
    BY <1>1, AfterLockEffect
  <2>2. /\ job'[r].act = "rollback" => PromotedIn(journal, job'[r].digest)
        /\ pc'[r] \in Writing => PromotedIn(journal, row'[r].digest)
        /\ pc'[r] \notin {"migrate", "update"}
    BY <2>1, ReleasesAssumption
       DEF Onward, Ends, NoJob, Actions, RollbackRow, Signed, Writing
  <2>. QED
    BY <2>1, <2>2 DEF Onward, Others, Signed
<1>. USE ReleasesAssumption, TypeParts DEF Signed, Job, NoJob, Actions, Places,
     Writing, Importing, Over
<1>2. ASSUME NEW r \in Runs, Promote(r) PROVE Signed'
  BY <1>2 DEF Promote, Goto, NoJob, Observed, leaseVars, dataVars
<1>3. ASSUME NEW r \in Runs, Rollback(r) PROVE Signed'
  <2>1. PICK n \in DOMAIN journal :
          /\ journal[n].signed \/ SignedRow(journal, journal[n].digest) # {}
          /\ \E t : Goto(r, "check", [NoJob EXCEPT !.act = "rollback",
                                   !.digest = journal[n].digest, !.target = t])
    BY <1>3 DEF Rollback
  <2>2. PromotedIn(journal, journal[n].digest)
    BY <2>1, SignedIsPromoted DEF Signed
  <2>3. /\ job'[r].digest = journal[n].digest /\ pc'[r] = "check"
        /\ \A q \in Runs \ {r} : pc'[q] = pc[q] /\ job'[q] = job[q]
    BY <2>1 DEF Goto
  <2>4. UNCHANGED <<journal, row, production>>
    BY <1>3 DEF Rollback, journalVars
  <2>. QED
    BY <2>2, <2>3, <2>4
<1>4. ASSUME NEW r \in Runs, Deploy(r) PROVE Signed'
  BY <1>4 DEF Deploy, Goto, NoJob, leaseVars, journalVars, dataVars
<1>5. ASSUME NEW r \in Runs, InfraOnly(r) PROVE Signed'
  BY <1>5 DEF InfraOnly, Moves, Goto, NoJob, leaseVars, journalVars, dataVars
<1>6. ASSUME NEW r \in Runs, Import(r) PROVE Signed'
  BY <1>6 DEF Import, Goto, NoJob, leaseVars, journalVars, dataVars
<1>7. ASSUME NEW r \in Runs, LockJournal(r) PROVE Signed'
  BY <1>7 DEF LockJournal, Moves, Goto, leaseVars, dataVars
<1>8. ASSUME NEW r \in Runs, ReadJournal(r) PROVE Signed'
  BY <1>8 DEF ReadJournal, Moves, Goto, leaseVars, dataVars
<1>9. ASSUME NEW r \in Runs, WriteJournal(r) PROVE Signed'
  <2>1. /\ journal \in Seq(Row) /\ row[r] \in Row
        /\ journal' = Append(journal, row[r])
        /\ pc[r] = "read" /\ row' = row /\ production' = production
    BY <1>9 DEF WriteJournal, JournalHeld, TypeOK, Writing
  <2>2. \A d : PromotedIn(journal, d) => PromotedIn(journal', d)
    BY PromotedStays
  <2>3. row[r].signed => PromotedIn(journal', row[r].digest)
    <3>1. CASE row[r].action = "promote"
      BY <2>1, <3>1, AppendedRow DEF PromotedIn
    <3>2. CASE row[r].action # "promote"
      BY <2>1, <2>2, <3>2 DEF Signed, Writing
    <3>. QED
      BY <3>1, <3>2
  <2>4. ASSUME NEW i \in DOMAIN journal', journal'[i].signed
        PROVE  PromotedIn(journal', journal'[i].digest)
    BY <2>1, <2>2, <2>3, <2>4, AppendedRow DEF Signed
  <2>5. /\ pc'[r] = "written" /\ job'[r] = job[r]
        /\ \A q \in Runs \ {r} : pc'[q] = pc[q] /\ job'[q] = job[q]
    BY <1>9, TypeParts DEF WriteJournal, Moves, Goto, Over
  <2>. QED
    BY <2>1, <2>2, <2>4, <2>5 DEF Signed, Writing
<1>10. ASSUME NEW r \in Runs, UnlockJournal(r) PROVE Signed'
  BY <1>10 DEF UnlockJournal, Moves, Goto, AfterAppend, NoJob, leaseVars,
     dataVars
<1>11. ASSUME NEW r \in Runs, AppendFails(r) PROVE Signed'
  BY <1>11 DEF AppendFails, Fails, Goto, AfterAppend, NoJob, leaseVars,
     dataVars
<1>12. ASSUME NEW r \in Runs, CheckSchema(r) PROVE Signed'
  BY <1>12 DEF CheckSchema, Goto, NoJob, Observed, RefuseIncompatibleRollback,
     leaseVars, journalVars, dataVars
<1>13. ASSUME NEW r \in Runs, Enter(r) PROVE Signed'
  <2>1. production => PromotedIn(journal, job[r].digest)
    BY <1>13, SignedIsPromoted DEF Enter, RequireSignedRelease
  <2>. QED
    BY <1>13, <2>1 DEF Enter, Moves, Goto, journalVars
<1>14. ASSUME NEW r \in Runs, Refused(r) PROVE Signed'
  BY <1>14 DEF Refused, Fails, Goto, NoJob, Lease!GiveUp, journalVars, dataVars
<1>15. ASSUME NEW r \in Runs, Migrate(r) PROVE Signed'
  BY <1>15 DEF Migrate, Moves, Goto, Migrated, Stale, leaseVars, journalVars
<1>16. ASSUME NEW r \in Runs, MigrateFails(r) PROVE Signed'
  BY <1>16 DEF MigrateFails, Fails, Goto, Migrated, Stale, leaseVars,
     journalVars, dataVars
<1>17. ASSUME NEW r \in Runs, Update(r) PROVE Signed'
  BY <1>17 DEF Update, Moves, Goto, CutOver, leaseVars, journalVars, dataVars
<1>18. ASSUME NEW r \in Runs, UpdateFails(r) PROVE Signed'
  BY <1>18 DEF UpdateFails, Fails, Goto, CutOver, leaseVars, journalVars,
     dataVars
<1>19. ASSUME NEW r \in Runs, Record(r) PROVE Signed'
  <2>1. SignedRow(journal, job[r].digest) # {} =>
            PromotedIn(journal, job[r].digest)
    BY SignedIsPromoted
  <2>2. /\ row'[r].digest = job[r].digest
        /\ row'[r].signed = (SignedRow(journal, job[r].digest) # {})
        /\ \A q \in Runs \ {r} : row'[q] = row[q]
    BY <1>19 DEF Record
  <2>. QED
    BY <1>19, <2>1, <2>2 DEF Record, Moves, Goto
<1>20. ASSUME NEW r \in Runs, Inspect(r) PROVE Signed'
  BY <1>20 DEF Inspect, Moves, Goto, leaseVars, journalVars, dataVars
<1>21. ASSUME NEW r \in Runs, SchemaReplace(r) PROVE Signed'
  BY <1>21 DEF SchemaReplace, Moves, Goto, Stale, Loading, leaseVars,
     journalVars
<1>22. ASSUME NEW r \in Runs, BeginLoad(r) PROVE Signed'
  BY <1>22 DEF BeginLoad, Moves, Goto, leaseVars, journalVars
<1>23. ASSUME NEW r \in Runs, EndLoad(r) PROVE Signed'
  BY <1>23 DEF EndLoad, Moves, Goto, Stale, leaseVars, journalVars
<1>24. ASSUME NEW r \in Runs, LoadFails(r) PROVE Signed'
  BY <1>24 DEF LoadFails, Moves, Goto, leaseVars, journalVars, dataVars
<1>25. ASSUME NEW r \in Runs, MarkFailed(r) PROVE Signed'
  BY <1>25 DEF MarkFailed, Moves, Goto, NoJob, Transition, leaseVars,
     journalVars
<1>26. ASSUME NEW r \in Runs, AppendCancelled(r) PROVE Signed'
  BY <1>26 DEF AppendCancelled, Fails, Goto, NoJob, AfterAppend, leaseVars,
     dataVars
<1>27. ASSUME NEW r \in Runs, MarkCancelled(r) PROVE Signed'
  BY <1>27 DEF MarkCancelled, Moves, Goto, NoJob, leaseVars, journalVars,
     dataVars
<1>28. ASSUME NEW r \in Runs, Crash(r) PROVE Signed'
  BY <1>28 DEF Crash, Moves, Goto, NoJob, Transition, CanMarkImporting,
     Lease!Leave, leaseVars
<1>29. CASE Unlock
  BY <1>29 DEF Unlock, Lease!Clear, journalVars, dataVars
<1>30. CASE UNCHANGED vars
  BY <1>30 DEF vars, leaseVars, journalVars, dataVars
<1>31. ASSUME NEW r \in Runs, Destroy(r) PROVE Signed'
  BY <1>31 DEF Destroy, Goto, NoJob, Lease!Enter, Lease!Open, leaseVars,
     journalVars, dataVars
<1>32. ASSUME NEW r \in Runs, DestroyStack(r) PROVE Signed'
  BY <1>32 DEF DestroyStack, Moves, Goto, NoJob, Stale, Lease!Leave, leaseVars,
     journalVars
<1>33. ASSUME NEW r \in Runs, CreateInitial(r) PROVE Signed'
  BY <1>33 DEF CreateInitial, CutOver, leaseVars, journalVars, dataVars
<1>34. ASSUME NEW r \in Runs, LoadTruncated(r) PROVE Signed'
  BY <1>34 DEF LoadTruncated, Moves, Goto, leaseVars, journalVars
<1>35. ASSUME NEW r \in Runs, DeployElsewhere(r) PROVE Signed'
  BY <1>35 DEF DeployElsewhere, Moves, Goto, NoJob, Migrated, Stale, leaseVars,
     journalVars
<1>36. ASSUME NEW r \in Runs, ImportElsewhere(r) PROVE Signed'
  BY <1>36 DEF ImportElsewhere, Moves, Goto, NoJob, Stale, leaseVars,
     journalVars
<1>. QED
  BY <1>1, <1>2, <1>3, <1>4, <1>5, <1>6, <1>7, <1>8, <1>9, <1>10, <1>11, <1>12,
     <1>13, <1>14, <1>15, <1>16, <1>17, <1>18, <1>19, <1>20, <1>21, <1>22,
     <1>23, <1>24, <1>25, <1>26, <1>27, <1>28, <1>29, <1>30, <1>31, <1>32,
     <1>33, <1>34, <1>35, <1>36 DEF Next, Start, Elsewhere, Step, Mishap,
     AfterLock

\* A production deployment cuts over to a digest that was promoted
\* (requireSignedRelease).
LEMMA ServedStep ==
    TypeOK /\ JournalHeld /\ Signed /\ ServedWasPromoted /\ [Next]_vars
        => ServedWasPromoted'
<1>. SUFFICES ASSUME TypeOK, JournalHeld, Signed, ServedWasPromoted, [Next]_vars
              PROVE  ServedWasPromoted'
  OBVIOUS
<1>1. ASSUME NEW r \in Runs, AfterLock(r) PROVE ServedWasPromoted'
  <2>1. journal' = journal /\ production' = production /\ served' = served
    BY <1>1, AfterLockEffect
  <2>. QED
    BY <2>1 DEF ServedWasPromoted
<1>. USE ReleasesAssumption DEF ServedWasPromoted
<1>2. ASSUME NEW r \in Runs, Promote(r) PROVE ServedWasPromoted'
  BY <1>2 DEF Promote
<1>3. ASSUME NEW r \in Runs, Rollback(r) PROVE ServedWasPromoted'
  BY <1>3 DEF Rollback, journalVars
<1>4. ASSUME NEW r \in Runs, Deploy(r) PROVE ServedWasPromoted'
  BY <1>4 DEF Deploy, journalVars
<1>5. ASSUME NEW r \in Runs, InfraOnly(r) PROVE ServedWasPromoted'
  BY <1>5 DEF InfraOnly, journalVars
<1>6. ASSUME NEW r \in Runs, Import(r) PROVE ServedWasPromoted'
  BY <1>6 DEF Import, journalVars
<1>7. ASSUME NEW r \in Runs, LockJournal(r) PROVE ServedWasPromoted'
  BY <1>7 DEF LockJournal
<1>8. ASSUME NEW r \in Runs, ReadJournal(r) PROVE ServedWasPromoted'
  BY <1>8 DEF ReadJournal
<1>9. ASSUME NEW r \in Runs, WriteJournal(r) PROVE ServedWasPromoted'
  <2>1. \A d : PromotedIn(journal, d) => PromotedIn(journal', d)
    BY PromotedStays
  <2>. QED
    BY <1>9, <2>1 DEF WriteJournal
<1>10. ASSUME NEW r \in Runs, UnlockJournal(r) PROVE ServedWasPromoted'
  BY <1>10 DEF UnlockJournal
<1>11. ASSUME NEW r \in Runs, AppendFails(r) PROVE ServedWasPromoted'
  BY <1>11 DEF AppendFails
<1>12. ASSUME NEW r \in Runs, CheckSchema(r) PROVE ServedWasPromoted'
  BY <1>12 DEF CheckSchema, journalVars
<1>13. ASSUME NEW r \in Runs, Enter(r) PROVE ServedWasPromoted'
  BY <1>13 DEF Enter, journalVars
<1>14. ASSUME NEW r \in Runs, Refused(r) PROVE ServedWasPromoted'
  BY <1>14 DEF Refused, journalVars
<1>15. ASSUME NEW r \in Runs, Migrate(r) PROVE ServedWasPromoted'
  BY <1>15 DEF Migrate, journalVars
<1>16. ASSUME NEW r \in Runs, MigrateFails(r) PROVE ServedWasPromoted'
  BY <1>16 DEF MigrateFails, journalVars
<1>17. ASSUME NEW r \in Runs, Update(r) PROVE ServedWasPromoted'
  BY <1>17 DEF Update, CutOver, Signed, journalVars
<1>18. ASSUME NEW r \in Runs, UpdateFails(r) PROVE ServedWasPromoted'
  BY <1>18 DEF UpdateFails, CutOver, Signed, journalVars
<1>19. ASSUME NEW r \in Runs, Record(r) PROVE ServedWasPromoted'
  BY <1>19 DEF Record
<1>20. ASSUME NEW r \in Runs, Inspect(r) PROVE ServedWasPromoted'
  BY <1>20 DEF Inspect, journalVars
<1>21. ASSUME NEW r \in Runs, SchemaReplace(r) PROVE ServedWasPromoted'
  BY <1>21 DEF SchemaReplace, journalVars
<1>22. ASSUME NEW r \in Runs, BeginLoad(r) PROVE ServedWasPromoted'
  BY <1>22 DEF BeginLoad, journalVars
<1>23. ASSUME NEW r \in Runs, EndLoad(r) PROVE ServedWasPromoted'
  BY <1>23 DEF EndLoad, journalVars
<1>24. ASSUME NEW r \in Runs, LoadFails(r) PROVE ServedWasPromoted'
  BY <1>24 DEF LoadFails, journalVars
<1>25. ASSUME NEW r \in Runs, MarkFailed(r) PROVE ServedWasPromoted'
  BY <1>25 DEF MarkFailed, journalVars
<1>26. ASSUME NEW r \in Runs, AppendCancelled(r) PROVE ServedWasPromoted'
  BY <1>26 DEF AppendCancelled
<1>27. ASSUME NEW r \in Runs, MarkCancelled(r) PROVE ServedWasPromoted'
  BY <1>27 DEF MarkCancelled, journalVars
<1>28. ASSUME NEW r \in Runs, Crash(r) PROVE ServedWasPromoted'
  BY <1>28 DEF Crash
<1>29. CASE Unlock
  BY <1>29 DEF Unlock, journalVars
<1>30. CASE UNCHANGED vars
  BY <1>30 DEF vars, leaseVars, journalVars, dataVars
<1>31. ASSUME NEW r \in Runs, Destroy(r) PROVE ServedWasPromoted'
  BY <1>31 DEF Destroy, journalVars
<1>32. ASSUME NEW r \in Runs, DestroyStack(r) PROVE ServedWasPromoted'
  BY <1>32 DEF DestroyStack, journalVars
<1>33. ASSUME NEW r \in Runs, CreateInitial(r) PROVE ServedWasPromoted'
  BY <1>33 DEF CreateInitial, CutOver, Signed, journalVars
<1>34. ASSUME NEW r \in Runs, LoadTruncated(r) PROVE ServedWasPromoted'
  BY <1>34 DEF LoadTruncated, journalVars
<1>35. ASSUME NEW r \in Runs, DeployElsewhere(r) PROVE ServedWasPromoted'
  BY <1>35 DEF DeployElsewhere, journalVars
<1>36. ASSUME NEW r \in Runs, ImportElsewhere(r) PROVE ServedWasPromoted'
  BY <1>36 DEF ImportElsewhere, journalVars
<1>. QED
  BY <1>1, <1>2, <1>3, <1>4, <1>5, <1>6, <1>7, <1>8, <1>9, <1>10, <1>11, <1>12,
     <1>13, <1>14, <1>15, <1>16, <1>17, <1>18, <1>19, <1>20, <1>21, <1>22,
     <1>23, <1>24, <1>25, <1>26, <1>27, <1>28, <1>29, <1>30, <1>31, <1>32,
     <1>33, <1>34, <1>35, <1>36 DEF Next, Start, Elsewhere, Step, Mishap,
     AfterLock

\* The newest deploy row after an append: the new one, if it is one.
LEMMA LastAppended ==
    ASSUME NEW list \in Seq(Row), NEW e \in Row
    PROVE  LastDeployed(Append(list, e)) =
             IF e.action = "deploy" THEN e.digest ELSE LastDeployed(list)
<1>. DEFINE new == Append(list, e)
            n == Len(list) + 1
<1>1. /\ n \in Nat /\ DOMAIN new = DOMAIN list \cup {n}
      /\ DOMAIN list = 1 .. Len(list) /\ Len(list) \in Nat
      /\ \A i \in DOMAIN list : new[i] = list[i]
      /\ new[n] = e
  BY AppendedRow
<1>. HIDE DEF new
<1>2. CASE e.action = "deploy"
  <2>1. DeployRows(new) = DeployRows(list) \cup {n}
    BY <1>1, <1>2 DEF DeployRows
  <2>2. DeployRows(new) \subseteq 1 .. n /\ n \in DeployRows(new)
    BY <1>1, <2>1 DEF DeployRows
  <2>3. /\ Max(DeployRows(new)) \in DeployRows(new)
        /\ \A y \in DeployRows(new) : Max(DeployRows(new)) >= y
    BY <1>1, <2>2, MaxIn
  <2>4. Max(DeployRows(new)) = n
    BY <1>1, <2>2, <2>3
  <2>. QED
    BY <1>1, <1>2, <2>2, <2>4 DEF LastDeployed, new
<1>3. CASE e.action # "deploy"
  <2>1. DeployRows(new) = DeployRows(list)
    BY <1>1, <1>3 DEF DeployRows
  <2>2. CASE DeployRows(list) = {}
    BY <1>3, <2>1, <2>2 DEF LastDeployed, new
  <2>3. CASE DeployRows(list) # {}
    <3>1. DeployRows(list) \subseteq 1 .. Len(list)
      BY <1>1 DEF DeployRows
    <3>2. Max(DeployRows(list)) \in DOMAIN list
      BY <1>1, <2>3, <3>1, MaxIn
    <3>3. new[Max(DeployRows(new))] = list[Max(DeployRows(list))]
      BY <1>1, <2>1, <3>2
    <3>. QED
      BY <1>3, <2>1, <2>3, <3>3 DEF LastDeployed, new
  <2>. QED
    BY <2>2, <2>3
<1>. QED
  BY <1>2, <1>3

\* A deployment records what it put in service, before anybody else can cut
\* over (recordRelease).
LEMMA DeployRowStep ==
    TypeOK /\ JournalHeld /\ Recorded /\ DeployRowIsServed /\ [Next]_vars
        => DeployRowIsServed'
<1>. SUFFICES ASSUME TypeOK, JournalHeld, Recorded, DeployRowIsServed,
                     [Next]_vars
              PROVE  DeployRowIsServed'
  OBVIOUS
<1>1. ASSUME NEW r \in Runs, AfterLock(r) PROVE DeployRowIsServed'
  <2>1. journal' = journal /\ served' = served /\ unrecorded' = unrecorded
    BY <1>1, AfterLockEffect
  <2>. QED
    BY <2>1 DEF DeployRowIsServed
<1>. USE ReleasesAssumption DEF DeployRowIsServed
<1>2. ASSUME NEW r \in Runs, Promote(r) PROVE DeployRowIsServed'
  BY <1>2 DEF Promote
<1>3. ASSUME NEW r \in Runs, Rollback(r) PROVE DeployRowIsServed'
  BY <1>3 DEF Rollback, journalVars
<1>4. ASSUME NEW r \in Runs, Deploy(r) PROVE DeployRowIsServed'
  BY <1>4 DEF Deploy, journalVars
<1>5. ASSUME NEW r \in Runs, InfraOnly(r) PROVE DeployRowIsServed'
  BY <1>5 DEF InfraOnly, journalVars
<1>6. ASSUME NEW r \in Runs, Import(r) PROVE DeployRowIsServed'
  BY <1>6 DEF Import, journalVars
<1>7. ASSUME NEW r \in Runs, LockJournal(r) PROVE DeployRowIsServed'
  BY <1>7 DEF LockJournal
<1>8. ASSUME NEW r \in Runs, ReadJournal(r) PROVE DeployRowIsServed'
  BY <1>8 DEF ReadJournal
<1>9. ASSUME NEW r \in Runs, WriteJournal(r) PROVE DeployRowIsServed'
  <2>1. /\ journal \in Seq(Row) /\ row[r] \in Row /\ pc[r] = "read"
        /\ journal' = Append(journal, row[r]) /\ served' = served
        /\ row[r].action # "deploy" => unrecorded' = unrecorded
    BY <1>9 DEF WriteJournal, JournalHeld, TypeOK, Writing
  <2>2. CASE row[r].action = "deploy"
    <3>1. served.via = "deploy" => served.digest = row[r].digest
      BY <2>1, <2>2 DEF Recorded, DeployRow, Writing
    <3>. QED
      BY <2>1, <2>2, <3>1, LastAppended
  <2>3. CASE row[r].action # "deploy"
    BY <2>1, <2>3, LastAppended
  <2>. QED
    BY <2>2, <2>3
<1>10. ASSUME NEW r \in Runs, UnlockJournal(r) PROVE DeployRowIsServed'
  BY <1>10 DEF UnlockJournal
<1>11. ASSUME NEW r \in Runs, AppendFails(r) PROVE DeployRowIsServed'
  BY <1>11 DEF AppendFails
<1>12. ASSUME NEW r \in Runs, CheckSchema(r) PROVE DeployRowIsServed'
  BY <1>12 DEF CheckSchema, journalVars
<1>13. ASSUME NEW r \in Runs, Enter(r) PROVE DeployRowIsServed'
  BY <1>13 DEF Enter, journalVars
<1>14. ASSUME NEW r \in Runs, Refused(r) PROVE DeployRowIsServed'
  BY <1>14 DEF Refused, journalVars
<1>15. ASSUME NEW r \in Runs, Migrate(r) PROVE DeployRowIsServed'
  BY <1>15 DEF Migrate, journalVars
<1>16. ASSUME NEW r \in Runs, MigrateFails(r) PROVE DeployRowIsServed'
  BY <1>16 DEF MigrateFails, journalVars
<1>17. ASSUME NEW r \in Runs, Update(r) PROVE DeployRowIsServed'
  BY <1>17 DEF Update, CutOver, journalVars
<1>18. ASSUME NEW r \in Runs, UpdateFails(r) PROVE DeployRowIsServed'
  BY <1>18 DEF UpdateFails, CutOver, journalVars
<1>19. ASSUME NEW r \in Runs, Record(r) PROVE DeployRowIsServed'
  BY <1>19 DEF Record
<1>20. ASSUME NEW r \in Runs, Inspect(r) PROVE DeployRowIsServed'
  BY <1>20 DEF Inspect, journalVars
<1>21. ASSUME NEW r \in Runs, SchemaReplace(r) PROVE DeployRowIsServed'
  BY <1>21 DEF SchemaReplace, journalVars
<1>22. ASSUME NEW r \in Runs, BeginLoad(r) PROVE DeployRowIsServed'
  BY <1>22 DEF BeginLoad, journalVars
<1>23. ASSUME NEW r \in Runs, EndLoad(r) PROVE DeployRowIsServed'
  BY <1>23 DEF EndLoad, journalVars
<1>24. ASSUME NEW r \in Runs, LoadFails(r) PROVE DeployRowIsServed'
  BY <1>24 DEF LoadFails, journalVars
<1>25. ASSUME NEW r \in Runs, MarkFailed(r) PROVE DeployRowIsServed'
  BY <1>25 DEF MarkFailed, journalVars
<1>26. ASSUME NEW r \in Runs, AppendCancelled(r) PROVE DeployRowIsServed'
  BY <1>26 DEF AppendCancelled
<1>27. ASSUME NEW r \in Runs, MarkCancelled(r) PROVE DeployRowIsServed'
  BY <1>27 DEF MarkCancelled, journalVars
<1>28. ASSUME NEW r \in Runs, Crash(r) PROVE DeployRowIsServed'
  BY <1>28 DEF Crash
<1>29. CASE Unlock
  BY <1>29 DEF Unlock, journalVars
<1>30. CASE UNCHANGED vars
  BY <1>30 DEF vars, leaseVars, journalVars, dataVars
<1>31. ASSUME NEW r \in Runs, Destroy(r) PROVE DeployRowIsServed'
  BY <1>31 DEF Destroy, journalVars
<1>32. ASSUME NEW r \in Runs, DestroyStack(r) PROVE DeployRowIsServed'
  BY <1>32 DEF DestroyStack, journalVars
<1>33. ASSUME NEW r \in Runs, CreateInitial(r) PROVE DeployRowIsServed'
  BY <1>33 DEF CreateInitial, CutOver, journalVars
<1>34. ASSUME NEW r \in Runs, LoadTruncated(r) PROVE DeployRowIsServed'
  BY <1>34 DEF LoadTruncated, journalVars
<1>35. ASSUME NEW r \in Runs, DeployElsewhere(r) PROVE DeployRowIsServed'
  BY <1>35 DEF DeployElsewhere, journalVars
<1>36. ASSUME NEW r \in Runs, ImportElsewhere(r) PROVE DeployRowIsServed'
  BY <1>36 DEF ImportElsewhere, journalVars
<1>. QED
  BY <1>1, <1>2, <1>3, <1>4, <1>5, <1>6, <1>7, <1>8, <1>9, <1>10, <1>11, <1>12,
     <1>13, <1>14, <1>15, <1>16, <1>17, <1>18, <1>19, <1>20, <1>21, <1>22,
     <1>23, <1>24, <1>25, <1>26, <1>27, <1>28, <1>29, <1>30, <1>31, <1>32,
     <1>33, <1>34, <1>35, <1>36 DEF Next, Start, Elsewhere, Step, Mishap,
     AfterLock

\* Unless it is spoilt, the content is what the one importing process has made
\* of it (runSeedDumpImport).
LEMMA LoadsStep == TypeOK /\ Loads /\ [Next]_vars => Loads'
<1>. SUFFICES ASSUME TypeOK, Loads, [Next]_vars PROVE Loads'
  OBVIOUS
<1>. USE TypeParts DEF Loads, Importing, Statuses, Contents, Writing, Over
<1>1. ASSUME NEW r \in Runs, Promote(r) PROVE Loads'
  BY <1>1 DEF Promote, Goto, NoJob, Observed, leaseVars, dataVars
<1>2. ASSUME NEW r \in Runs, Rollback(r) PROVE Loads'
  BY <1>2 DEF Rollback, Goto, NoJob, leaseVars, journalVars, dataVars
<1>3. ASSUME NEW r \in Runs, Deploy(r) PROVE Loads'
  BY <1>3 DEF Deploy, Goto, NoJob, leaseVars, journalVars, dataVars
<1>4. ASSUME NEW r \in Runs, InfraOnly(r) PROVE Loads'
  BY <1>4 DEF InfraOnly, Moves, Goto, NoJob, leaseVars, journalVars, dataVars
<1>5. ASSUME NEW r \in Runs, Import(r) PROVE Loads'
  BY <1>5 DEF Import, Goto, NoJob, leaseVars, journalVars, dataVars
<1>6. ASSUME NEW r \in Runs, LockJournal(r) PROVE Loads'
  BY <1>6 DEF LockJournal, Moves, Goto, leaseVars, dataVars
<1>7. ASSUME NEW r \in Runs, ReadJournal(r) PROVE Loads'
  BY <1>7 DEF ReadJournal, Moves, Goto, leaseVars, dataVars
<1>8. ASSUME NEW r \in Runs, WriteJournal(r) PROVE Loads'
  BY <1>8 DEF WriteJournal, Moves, Goto, leaseVars, dataVars
<1>9. ASSUME NEW r \in Runs, UnlockJournal(r) PROVE Loads'
  BY <1>9 DEF UnlockJournal, Moves, Goto, AfterAppend, NoJob, leaseVars,
     dataVars
<1>10. ASSUME NEW r \in Runs, AppendFails(r) PROVE Loads'
  BY <1>10 DEF AppendFails, Fails, Goto, AfterAppend, NoJob, leaseVars,
     dataVars
<1>11. ASSUME NEW r \in Runs, CheckSchema(r) PROVE Loads'
  BY <1>11 DEF CheckSchema, Goto, NoJob, Observed, RefuseIncompatibleRollback,
     leaseVars, journalVars, dataVars
<1>12. ASSUME NEW r \in Runs, Enter(r) PROVE Loads'
  BY <1>12 DEF Enter, Moves, Goto, RequireSignedRelease, Lease!Enter,
     Lease!Open, journalVars, dataVars
<1>13. ASSUME NEW r \in Runs, Refused(r) PROVE Loads'
  BY <1>13 DEF Refused, Fails, Goto, NoJob, Lease!GiveUp, journalVars, dataVars
<1>14. ASSUME NEW r \in Runs, Migrate(r) PROVE Loads'
  BY <1>14 DEF Migrate, Moves, Goto, Migrated, Stale, leaseVars, journalVars
<1>15. ASSUME NEW r \in Runs, MigrateFails(r) PROVE Loads'
  BY <1>15 DEF MigrateFails, Fails, Goto, Migrated, Stale, leaseVars,
     journalVars, dataVars
<1>16. ASSUME NEW r \in Runs, Update(r) PROVE Loads'
  BY <1>16 DEF Update, Moves, Goto, CutOver, leaseVars, journalVars, dataVars
<1>17. ASSUME NEW r \in Runs, UpdateFails(r) PROVE Loads'
  BY <1>17 DEF UpdateFails, Fails, Goto, CutOver, leaseVars, journalVars,
     dataVars
<1>18. ASSUME NEW r \in Runs, Record(r) PROVE Loads'
  BY <1>18 DEF Record, Moves, Goto, Observed, leaseVars, dataVars
<1>19. ASSUME NEW r \in Runs, Leave(r) PROVE Loads'
  BY <1>19 DEF Leave, Moves, Goto, NoJob, Lease!Leave, journalVars, dataVars
<1>20. ASSUME NEW r \in Runs, ReadStatus(r) PROVE Loads'
  BY <1>20 DEF ReadStatus, Moves, Goto, NoJob, Finish, leaseVars, dataVars
<1>21. ASSUME NEW r \in Runs, MarkImporting(r) PROVE Loads'
  <2>1. CASE status \in CanMarkImporting
    <3>1. /\ pc'[r] = "inspect" /\ status' = "importing" /\ content' = content
          /\ ~spoilt' => \A q \in Runs \ {r} : pc[q] \notin Importing
          /\ \A q \in Runs \ {r} : pc'[q] = pc[q]
      BY <1>21, <2>1, MarkImportingEffect
         DEF MarkImporting, Moves, Goto, Transition
    <3>. QED
      BY <3>1
  <2>2. CASE status \notin CanMarkImporting
    <3>1. /\ pc'[r] = "done" /\ status' = status /\ content' = content
          /\ spoilt' = spoilt /\ \A q \in Runs \ {r} : pc'[q] = pc[q]
      BY <1>21, <2>2 DEF MarkImporting, Moves, Goto, Transition
    <3>. QED
      BY <3>1
  <2>. QED
    BY <2>1, <2>2
<1>22. ASSUME NEW r \in Runs, Inspect(r) PROVE Loads'
  BY <1>22 DEF Inspect, Moves, Goto, leaseVars, journalVars, dataVars
<1>23. ASSUME NEW r \in Runs, SchemaReplace(r) PROVE Loads'
  BY <1>23 DEF SchemaReplace, Moves, Goto, Stale, Loading, leaseVars,
     journalVars
<1>24. ASSUME NEW r \in Runs, BeginLoad(r) PROVE Loads'
  BY <1>24 DEF BeginLoad, Moves, Goto, leaseVars, journalVars
<1>25. ASSUME NEW r \in Runs, EndLoad(r) PROVE Loads'
  BY <1>25 DEF EndLoad, Moves, Goto, Stale, leaseVars, journalVars
<1>26. ASSUME NEW r \in Runs, LoadFails(r) PROVE Loads'
  BY <1>26 DEF LoadFails, Moves, Goto, leaseVars, journalVars, dataVars
<1>27. ASSUME NEW r \in Runs, MarkImported(r) PROVE Loads'
  BY <1>27 DEF MarkImported, Moves, Goto, NoJob, Finish, Transition, leaseVars
<1>28. ASSUME NEW r \in Runs, MarkFailed(r) PROVE Loads'
  BY <1>28 DEF MarkFailed, Moves, Goto, NoJob, Transition, leaseVars,
     journalVars
<1>29. ASSUME NEW r \in Runs, AppendCancelled(r) PROVE Loads'
  BY <1>29 DEF AppendCancelled, Fails, Goto, NoJob, AfterAppend, leaseVars,
     dataVars
<1>30. ASSUME NEW r \in Runs, MarkCancelled(r) PROVE Loads'
  BY <1>30 DEF MarkCancelled, Moves, Goto, NoJob, leaseVars, journalVars,
     dataVars
<1>31. ASSUME NEW r \in Runs, Crash(r) PROVE Loads'
  BY <1>31 DEF Crash, Moves, Goto, NoJob, Transition, CanMarkImporting,
     Lease!Leave, leaseVars
<1>32. CASE Unlock
  BY <1>32 DEF Unlock, Lease!Clear, journalVars, dataVars
<1>33. CASE UNCHANGED vars
  BY <1>33 DEF vars, leaseVars, journalVars, dataVars
<1>34. ASSUME NEW r \in Runs, Destroy(r) PROVE Loads'
  BY <1>34 DEF Destroy, Goto, NoJob, Lease!Enter, Lease!Open, leaseVars,
     journalVars, dataVars
<1>35. ASSUME NEW r \in Runs, DestroyStack(r) PROVE Loads'
  BY <1>35 DEF DestroyStack, Moves, Goto, NoJob, Stale, Lease!Leave, leaseVars,
     journalVars
<1>36. ASSUME NEW r \in Runs, CreateInitial(r) PROVE Loads'
  BY <1>36 DEF CreateInitial, CutOver, leaseVars, journalVars, dataVars
<1>37. ASSUME NEW r \in Runs, LoadTruncated(r) PROVE Loads'
  BY <1>37 DEF LoadTruncated, Moves, Goto, leaseVars, journalVars
<1>38. ASSUME NEW r \in Runs, DeployElsewhere(r) PROVE Loads'
  BY <1>38 DEF DeployElsewhere, Moves, Goto, NoJob, Migrated, Stale, leaseVars,
     journalVars
<1>39. ASSUME NEW r \in Runs, ImportElsewhere(r) PROVE Loads'
  BY <1>39 DEF ImportElsewhere, Moves, Goto, NoJob, Stale, leaseVars,
     journalVars
<1>. QED
  BY <1>1, <1>2, <1>3, <1>4, <1>5, <1>6, <1>7, <1>8, <1>9, <1>10, <1>11, <1>12,
     <1>13, <1>14, <1>15, <1>16, <1>17, <1>18, <1>19, <1>20, <1>21, <1>22,
     <1>23, <1>24, <1>25, <1>26, <1>27, <1>28, <1>29, <1>30, <1>31, <1>32,
     <1>33, <1>34, <1>35, <1>36, <1>37, <1>38, <1>39 DEF Next, Start,
     Elsewhere, Step, Mishap

\* The status becomes "imported" only after the load, and nobody imports again.
LEMMA ImportedStep ==
    TypeOK /\ Loads /\ ImportedMeansLoaded /\ [Next]_vars
        => ImportedMeansLoaded'
<1>. SUFFICES ASSUME TypeOK, Loads, ImportedMeansLoaded, [Next]_vars
              PROVE  ImportedMeansLoaded'
  OBVIOUS
<1>. USE TypeParts DEF Loads, Importing, Statuses, Contents, Writing, Over,
     ImportedMeansLoaded
<1>1. ASSUME NEW r \in Runs, Promote(r) PROVE ImportedMeansLoaded'
  BY <1>1 DEF Promote, dataVars
<1>2. ASSUME NEW r \in Runs, Rollback(r) PROVE ImportedMeansLoaded'
  BY <1>2 DEF Rollback, dataVars
<1>3. ASSUME NEW r \in Runs, Deploy(r) PROVE ImportedMeansLoaded'
  BY <1>3 DEF Deploy, dataVars
<1>4. ASSUME NEW r \in Runs, InfraOnly(r) PROVE ImportedMeansLoaded'
  BY <1>4 DEF InfraOnly, dataVars
<1>5. ASSUME NEW r \in Runs, Import(r) PROVE ImportedMeansLoaded'
  BY <1>5 DEF Import, dataVars
<1>6. ASSUME NEW r \in Runs, LockJournal(r) PROVE ImportedMeansLoaded'
  BY <1>6 DEF LockJournal, dataVars
<1>7. ASSUME NEW r \in Runs, ReadJournal(r) PROVE ImportedMeansLoaded'
  BY <1>7 DEF ReadJournal, dataVars
<1>8. ASSUME NEW r \in Runs, WriteJournal(r) PROVE ImportedMeansLoaded'
  BY <1>8 DEF WriteJournal, dataVars
<1>9. ASSUME NEW r \in Runs, UnlockJournal(r) PROVE ImportedMeansLoaded'
  BY <1>9 DEF UnlockJournal, dataVars
<1>10. ASSUME NEW r \in Runs, AppendFails(r) PROVE ImportedMeansLoaded'
  BY <1>10 DEF AppendFails, dataVars
<1>11. ASSUME NEW r \in Runs, CheckSchema(r) PROVE ImportedMeansLoaded'
  BY <1>11 DEF CheckSchema, dataVars
<1>12. ASSUME NEW r \in Runs, Enter(r) PROVE ImportedMeansLoaded'
  BY <1>12 DEF Enter, dataVars
<1>13. ASSUME NEW r \in Runs, Refused(r) PROVE ImportedMeansLoaded'
  BY <1>13 DEF Refused, dataVars
<1>14. ASSUME NEW r \in Runs, Migrate(r) PROVE ImportedMeansLoaded'
  BY <1>14 DEF Migrate, Migrated
<1>15. ASSUME NEW r \in Runs, MigrateFails(r) PROVE ImportedMeansLoaded'
  <2>1. CASE Migrated(r, job[r].digest)
    BY <1>15, <2>1 DEF MigrateFails, Migrated
  <2>2. CASE UNCHANGED <<dataVars, misled>>
    BY <2>2 DEF dataVars
  <2>. QED
    BY <1>15, <2>1, <2>2 DEF MigrateFails
<1>16. ASSUME NEW r \in Runs, Update(r) PROVE ImportedMeansLoaded'
  BY <1>16 DEF Update, CutOver, dataVars
<1>17. ASSUME NEW r \in Runs, UpdateFails(r) PROVE ImportedMeansLoaded'
  BY <1>17 DEF UpdateFails, CutOver, dataVars
<1>18. ASSUME NEW r \in Runs, Record(r) PROVE ImportedMeansLoaded'
  BY <1>18 DEF Record, dataVars
<1>19. ASSUME NEW r \in Runs, Leave(r) PROVE ImportedMeansLoaded'
  BY <1>19 DEF Leave, dataVars
<1>20. ASSUME NEW r \in Runs, ReadStatus(r) PROVE ImportedMeansLoaded'
  BY <1>20 DEF ReadStatus, dataVars
<1>21. ASSUME NEW r \in Runs, MarkImporting(r) PROVE ImportedMeansLoaded'
  BY <1>21 DEF MarkImporting, Transition, CanMarkImporting
<1>22. ASSUME NEW r \in Runs, Inspect(r) PROVE ImportedMeansLoaded'
  BY <1>22 DEF Inspect, dataVars
<1>23. ASSUME NEW r \in Runs, SchemaReplace(r) PROVE ImportedMeansLoaded'
  BY <1>23 DEF SchemaReplace, Loading
<1>24. ASSUME NEW r \in Runs, BeginLoad(r) PROVE ImportedMeansLoaded'
  BY <1>24 DEF BeginLoad
<1>25. ASSUME NEW r \in Runs, EndLoad(r) PROVE ImportedMeansLoaded'
  BY <1>25 DEF EndLoad
<1>26. ASSUME NEW r \in Runs, LoadFails(r) PROVE ImportedMeansLoaded'
  BY <1>26 DEF LoadFails, dataVars
<1>27. ASSUME NEW r \in Runs, MarkImported(r) PROVE ImportedMeansLoaded'
  BY <1>27 DEF MarkImported, Transition
<1>28. ASSUME NEW r \in Runs, MarkFailed(r) PROVE ImportedMeansLoaded'
  BY <1>28 DEF MarkFailed, Transition
<1>29. ASSUME NEW r \in Runs, AppendCancelled(r) PROVE ImportedMeansLoaded'
  BY <1>29 DEF AppendCancelled, dataVars
<1>30. ASSUME NEW r \in Runs, MarkCancelled(r) PROVE ImportedMeansLoaded'
  BY <1>30 DEF MarkCancelled, dataVars
<1>31. ASSUME NEW r \in Runs, Crash(r) PROVE ImportedMeansLoaded'
  BY <1>31 DEF Crash, Transition, CanMarkImporting
<1>32. CASE Unlock
  BY <1>32 DEF Unlock, dataVars
<1>33. CASE UNCHANGED vars
  BY <1>33 DEF vars, leaseVars, journalVars, dataVars
<1>34. ASSUME NEW r \in Runs, Destroy(r) PROVE ImportedMeansLoaded'
  BY <1>34 DEF Destroy, dataVars
<1>35. ASSUME NEW r \in Runs, DestroyStack(r) PROVE ImportedMeansLoaded'
  BY <1>35 DEF DestroyStack
<1>36. ASSUME NEW r \in Runs, CreateInitial(r) PROVE ImportedMeansLoaded'
  BY <1>36 DEF CreateInitial, dataVars
<1>37. ASSUME NEW r \in Runs, LoadTruncated(r) PROVE ImportedMeansLoaded'
  BY <1>37 DEF LoadTruncated
<1>38. ASSUME NEW r \in Runs, DeployElsewhere(r) PROVE ImportedMeansLoaded'
  BY <1>38 DEF DeployElsewhere, Migrated
<1>39. ASSUME NEW r \in Runs, ImportElsewhere(r) PROVE ImportedMeansLoaded'
  BY <1>39 DEF ImportElsewhere
<1>. QED
  BY <1>1, <1>2, <1>3, <1>4, <1>5, <1>6, <1>7, <1>8, <1>9, <1>10, <1>11, <1>12,
     <1>13, <1>14, <1>15, <1>16, <1>17, <1>18, <1>19, <1>20, <1>21, <1>22,
     <1>23, <1>24, <1>25, <1>26, <1>27, <1>28, <1>29, <1>30, <1>31, <1>32,
     <1>33, <1>34, <1>35, <1>36, <1>37, <1>38, <1>39 DEF Next, Start,
     Elsewhere, Step, Mishap

\* The target of a rollback was recorded for its digest.
LEMMA TargetFits ==
    ASSUME TypeOK, NEW n \in DOMAIN journal,
           NEW t, t = IF journal[n].epoch >= 1 THEN journal[n].epoch
                      ELSE SchemaEpochForDigest(journal, journal[n].digest)
    PROVE  /\ t \in Nat
           /\ t # 0 => \/ t <= Epoch[journal[n].digest]
                       \/ Mislabelled(journal[n].digest)
<1>1. journal \in Seq(Row) /\ journal[n] \in Row
  BY TypeParts
<1>2. /\ SchemaEpochForDigest(journal, journal[n].digest) \in Nat
      /\ SchemaEpochForDigest(journal, journal[n].digest) # 0 =>
            \E i \in DOMAIN journal :
               /\ journal[i].digest = journal[n].digest
               /\ journal[i].epoch
                     = SchemaEpochForDigest(journal, journal[n].digest)
  BY <1>1, EpochIn
<1>3. journal[n].epoch \in Nat /\ Epoch[journal[n].digest] \in Nat
  BY <1>1, ReleasesAssumption DEF Row
<1>4. t \in Nat
  BY <1>2, <1>3
<1>5. ASSUME t # 0
      PROVE  \E i \in DOMAIN journal :
                journal[i].digest = journal[n].digest /\ journal[i].epoch = t
  <2>1. CASE journal[n].epoch >= 1
    BY <2>1
  <2>2. CASE ~(journal[n].epoch >= 1)
    BY <1>2, <1>5, <2>2
  <2>. QED
    BY <2>1, <2>2
<1>6. ASSUME t # 0, ~(t <= Epoch[journal[n].digest])
      PROVE  Mislabelled(journal[n].digest)
  <2>1. t > Epoch[journal[n].digest]
    BY <1>3, <1>4, <1>6
  <2>. QED
    BY <1>5, <1>6, <2>1 DEF Mislabelled
<1>. QED
  BY <1>4, <1>6

\* A rollback compares the schema with what was recorded for its digest;
\* whoever changes the schema afterwards misleads it (CheckSchema, Migrate,
\* Import).
LEMMA FitsStep ==
    TypeOK /\ Tasks /\ JournalHeld /\ Fits /\ [Next]_vars => Fits'
<1>. SUFFICES ASSUME TypeOK, Tasks, JournalHeld, Fits, [Next]_vars PROVE Fits'
  OBVIOUS
<1>0. \A d : Mislabelled(d) => Mislabelled(d)'
  BY MislabelledStays
<1>1. ASSUME NEW r \in Runs, AfterLock(r) PROVE Fits'
  <2>1. Onward(r) /\ epoch' = epoch /\ misled' = misled
    BY <1>1, AfterLockEffect
  <2>2. pc'[r] \notin {"check", "acquire", "migrate", "update"}
    BY <2>1 DEF Onward, Ends
  <2>. QED
    BY <1>0, <2>1, <2>2 DEF Onward, Others, Fits
<1>. USE ReleasesAssumption, TypeParts DEF Fits, Job, NoJob, Actions, Places,
     Writing, Importing, Over
<1>2. ASSUME NEW r \in Runs, Promote(r) PROVE Fits'
  BY <1>2, <1>0 DEF Promote, Goto, NoJob, Observed, leaseVars, dataVars
<1>3. ASSUME NEW r \in Runs, Rollback(r) PROVE Fits'
  <2>1. PICK n \in DOMAIN journal :
            Goto(r, "check", [NoJob EXCEPT !.act = "rollback",
                        !.digest = journal[n].digest,
                        !.target = IF journal[n].epoch >= 1
                                   THEN journal[n].epoch
                                   ELSE SchemaEpochForDigest(journal,
                                                        journal[n].digest)])
    BY <1>3 DEF Rollback
  <2>2. /\ pc'[r] = "check" /\ job'[r].digest = journal[n].digest
        /\ job'[r].target = IF journal[n].epoch >= 1 THEN journal[n].epoch
                            ELSE SchemaEpochForDigest(journal, journal[n].digest)
        /\ \A q \in Runs \ {r} : pc'[q] = pc[q] /\ job'[q] = job[q]
    BY <2>1 DEF Goto
  <2>3. job'[r].target # 0 => \/ job'[r].target <= Epoch[journal[n].digest]
                              \/ Mislabelled(journal[n].digest)
    BY <2>2, TargetFits
  <2>4. epoch' = epoch /\ misled' = misled
    BY <1>3 DEF Rollback, dataVars
  <2>. QED
    BY <1>0, <2>2, <2>3, <2>4
<1>4. ASSUME NEW r \in Runs, Deploy(r) PROVE Fits'
  BY <1>4, <1>0 DEF Deploy, Goto, NoJob, leaseVars, journalVars, dataVars
<1>5. ASSUME NEW r \in Runs, InfraOnly(r) PROVE Fits'
  BY <1>5, <1>0 DEF InfraOnly, Moves, Goto, NoJob, leaseVars, journalVars,
     dataVars
<1>6. ASSUME NEW r \in Runs, Import(r) PROVE Fits'
  BY <1>6, <1>0 DEF Import, Goto, NoJob, leaseVars, journalVars, dataVars
<1>7. ASSUME NEW r \in Runs, LockJournal(r) PROVE Fits'
  BY <1>7, <1>0 DEF LockJournal, Moves, Goto, leaseVars, dataVars
<1>8. ASSUME NEW r \in Runs, ReadJournal(r) PROVE Fits'
  BY <1>8, <1>0 DEF ReadJournal, Moves, Goto, leaseVars, dataVars
<1>9. ASSUME NEW r \in Runs, WriteJournal(r) PROVE Fits'
  BY <1>9, <1>0 DEF WriteJournal, Moves, Goto, leaseVars, dataVars
<1>10. ASSUME NEW r \in Runs, UnlockJournal(r) PROVE Fits'
  BY <1>10, <1>0 DEF UnlockJournal, Moves, Goto, AfterAppend, NoJob, leaseVars,
     dataVars
<1>11. ASSUME NEW r \in Runs, AppendFails(r) PROVE Fits'
  BY <1>11, <1>0 DEF AppendFails, Fails, Goto, AfterAppend, NoJob, leaseVars,
     dataVars
<1>12. ASSUME NEW r \in Runs, CheckSchema(r) PROVE Fits'
  <2>1. PICK e \in Observed :
            /\ Goto(r, IF RefuseIncompatibleRollback(e, job[r].target)
                       THEN "done" ELSE "acquire", [job[r] EXCEPT !.live = e])
            /\ misled' = IF 1 <= e /\ e < epoch THEN misled \cup {r} ELSE misled
    BY <1>12 DEF CheckSchema
  <2>2. epoch' = epoch /\ misled \subseteq misled'
    BY <1>12, <2>1 DEF CheckSchema, dataVars
  <2>3. \A q \in Runs \ {r} : pc'[q] = pc[q] /\ job'[q] = job[q]
    BY <2>1 DEF Goto
  <2>4. CASE RefuseIncompatibleRollback(e, job[r].target)
    <3>1. pc'[r] = "done"
      BY <2>1, <2>4 DEF Goto
    <3>. QED
      BY <1>0, <2>2, <2>3, <3>1
  <2>5. CASE ~RefuseIncompatibleRollback(e, job[r].target)
    <3>1. /\ pc'[r] = "acquire" /\ job'[r].act = job[r].act
          /\ job'[r].digest = job[r].digest
      BY <2>1, <2>5 DEF Goto
    <3>2. /\ epoch \in Nat /\ job[r].target \in Nat /\ pc[r] = "check"
          /\ job[r].digest \in Digests
      BY <1>12 DEF CheckSchema, TypeOK, Tasks
    <3>3. r \notin misled' => epoch <= job[r].target /\ job[r].target # 0
      BY <2>1, <2>5, <3>2 DEF RefuseIncompatibleRollback, Observed
    <3>4. Epoch[job[r].digest] \in Nat
      BY <3>2
    <3>5. job[r].act = "rollback" /\ r \notin misled' =>
             epoch <= Epoch[job[r].digest] \/ Mislabelled(job[r].digest)
      BY <3>2, <3>3, <3>4
    <3>. QED
      BY <1>0, <2>2, <2>3, <3>1, <3>5
  <2>. QED
    BY <2>4, <2>5
<1>13. ASSUME NEW r \in Runs, Enter(r) PROVE Fits'
  BY <1>13, <1>0 DEF Enter, Moves, Goto, RequireSignedRelease, Lease!Enter,
     Lease!Open, journalVars, dataVars
<1>14. ASSUME NEW r \in Runs, Refused(r) PROVE Fits'
  BY <1>14, <1>0 DEF Refused, Fails, Goto, NoJob, Lease!GiveUp, journalVars,
     dataVars
<1>15. ASSUME NEW r \in Runs, Migrate(r) PROVE Fits'
  <2>1. /\ epoch \in Nat /\ job[r].digest \in Digests
        /\ Epoch[job[r].digest] \in Nat
    BY <1>15 DEF Migrate, TypeOK, Tasks
  <2>2. /\ pc[r] = "migrate" /\ pc'[r] = "update" /\ job'[r] = job[r]
        /\ \A q \in Runs \ {r} : pc'[q] = pc[q] /\ job'[q] = job[q]
        /\ epoch' = Max({epoch, Epoch[job[r].digest]})
        /\ misled' = misled \cup Stale(r)
    BY <1>15 DEF Migrate, Moves, Goto, Migrated
  <2>3. Max({epoch, Epoch[job[r].digest]}) \in {epoch, Epoch[job[r].digest]}
    BY <2>1, MaxPair
  <2>4. epoch <= Epoch[job[r].digest] => epoch' <= Epoch[job[r].digest]
    BY <2>1, <2>2, <2>3
  <2>. QED
    BY <1>0, <2>2, <2>4 DEF Stale
<1>16. ASSUME NEW r \in Runs, MigrateFails(r) PROVE Fits'
  <2>1. /\ pc'[r] \notin {"check", "acquire", "migrate", "update"}
        /\ \A q \in Runs \ {r} : pc'[q] = pc[q] /\ job'[q] = job[q]
    BY <1>16 DEF MigrateFails, Fails, Goto
  <2>2. \/ misled' = misled \cup Stale(r)
        \/ epoch' = epoch /\ misled' = misled
    BY <1>16 DEF MigrateFails, Migrated, dataVars
  <2>. QED
    BY <1>0, <2>1, <2>2 DEF Stale
<1>17. ASSUME NEW r \in Runs, Update(r) PROVE Fits'
  BY <1>17, <1>0 DEF Update, Moves, Goto, CutOver, leaseVars, journalVars,
     dataVars
<1>18. ASSUME NEW r \in Runs, UpdateFails(r) PROVE Fits'
  BY <1>18, <1>0 DEF UpdateFails, Fails, Goto, CutOver, leaseVars, journalVars,
     dataVars
<1>19. ASSUME NEW r \in Runs, Record(r) PROVE Fits'
  BY <1>19, <1>0 DEF Record, Moves, Goto, Observed, leaseVars, dataVars
<1>20. ASSUME NEW r \in Runs, Inspect(r) PROVE Fits'
  BY <1>20, <1>0 DEF Inspect, Moves, Goto, leaseVars, journalVars, dataVars
<1>21. ASSUME NEW r \in Runs, SchemaReplace(r) PROVE Fits'
  <2>1. /\ pc'[r] \notin {"check", "acquire", "migrate", "update"}
        /\ \A q \in Runs \ {r} : pc'[q] = pc[q] /\ job'[q] = job[q]
    BY <1>21 DEF SchemaReplace, Moves, Goto
  <2>2. \/ misled' = misled \cup Stale(r)
        \/ epoch' = epoch /\ misled' = misled
    BY <1>21 DEF SchemaReplace
  <2>. QED
    BY <1>0, <2>1, <2>2 DEF Stale
<1>22. ASSUME NEW r \in Runs, BeginLoad(r) PROVE Fits'
  <2>1. /\ pc'[r] \notin {"check", "acquire", "migrate", "update"}
        /\ \A q \in Runs \ {r} : pc'[q] = pc[q] /\ job'[q] = job[q]
        /\ misled' = misled \cup Stale(r)
    BY <1>22 DEF BeginLoad, Moves, Goto
  <2>. QED
    BY <1>0, <2>1 DEF Stale
<1>23. ASSUME NEW r \in Runs, EndLoad(r) PROVE Fits'
  <2>1. /\ pc'[r] \notin {"check", "acquire", "migrate", "update"}
        /\ \A q \in Runs \ {r} : pc'[q] = pc[q] /\ job'[q] = job[q]
    BY <1>23 DEF EndLoad, Moves, Goto
  <2>2. \/ misled' = misled \cup Stale(r)
        \/ epoch' = epoch /\ misled' = misled
    BY <1>23 DEF EndLoad
  <2>. QED
    BY <1>0, <2>1, <2>2 DEF Stale
<1>24. ASSUME NEW r \in Runs, LoadFails(r) PROVE Fits'
  BY <1>24, <1>0 DEF LoadFails, Moves, Goto, leaseVars, journalVars, dataVars
<1>25. ASSUME NEW r \in Runs, MarkFailed(r) PROVE Fits'
  BY <1>25, <1>0 DEF MarkFailed, Moves, Goto, NoJob, Transition, leaseVars,
     journalVars
<1>26. ASSUME NEW r \in Runs, AppendCancelled(r) PROVE Fits'
  BY <1>26, <1>0 DEF AppendCancelled, Fails, Goto, NoJob, AfterAppend,
     leaseVars, dataVars
<1>27. ASSUME NEW r \in Runs, MarkCancelled(r) PROVE Fits'
  BY <1>27, <1>0 DEF MarkCancelled, Moves, Goto, NoJob, leaseVars, journalVars,
     dataVars
<1>28. ASSUME NEW r \in Runs, Crash(r) PROVE Fits'
  BY <1>28, <1>0 DEF Crash, Moves, Goto, NoJob, Transition, CanMarkImporting,
     Lease!Leave, leaseVars
<1>29. CASE Unlock
  BY <1>29, <1>0 DEF Unlock, Lease!Clear, journalVars, dataVars
<1>30. CASE UNCHANGED vars
  BY <1>0, <1>30 DEF vars, dataVars
<1>31. ASSUME NEW r \in Runs, Destroy(r) PROVE Fits'
  BY <1>31, <1>0 DEF Destroy, Goto, NoJob, Lease!Enter, Lease!Open, leaseVars,
     journalVars, dataVars
<1>32. ASSUME NEW r \in Runs, DestroyStack(r) PROVE Fits'
  <2>1. /\ pc'[r] \notin {"check", "acquire", "migrate", "update"}
        /\ \A q \in Runs \ {r} : pc'[q] = pc[q] /\ job'[q] = job[q]
    BY <1>32 DEF DestroyStack, Moves, Goto
  <2>2. \/ misled' = misled \cup Stale(r)
        \/ epoch' = epoch /\ misled' = misled
    BY <1>32 DEF DestroyStack, Migrated
  <2>. QED
    BY <1>0, <2>1, <2>2 DEF Stale
<1>33. ASSUME NEW r \in Runs, CreateInitial(r) PROVE Fits'
  BY <1>33, <1>0 DEF CreateInitial, CutOver, leaseVars, journalVars, dataVars
<1>34. ASSUME NEW r \in Runs, LoadTruncated(r) PROVE Fits'
  BY <1>34, <1>0 DEF LoadTruncated, Moves, Goto, leaseVars, journalVars
<1>35. ASSUME NEW r \in Runs, DeployElsewhere(r) PROVE Fits'
  <2>1. /\ pc'[r] \notin {"check", "acquire", "migrate", "update"}
        /\ \A q \in Runs \ {r} : pc'[q] = pc[q] /\ job'[q] = job[q]
    BY <1>35 DEF DeployElsewhere, Moves, Goto
  <2>2. \/ misled' = misled \cup Stale(r)
        \/ epoch' = epoch /\ misled' = misled
    BY <1>35 DEF DeployElsewhere, Migrated
  <2>. QED
    BY <1>0, <2>1, <2>2 DEF Stale
<1>36. ASSUME NEW r \in Runs, ImportElsewhere(r) PROVE Fits'
  <2>1. /\ pc'[r] \notin {"check", "acquire", "migrate", "update"}
        /\ \A q \in Runs \ {r} : pc'[q] = pc[q] /\ job'[q] = job[q]
    BY <1>36 DEF ImportElsewhere, Moves, Goto
  <2>2. \/ misled' = misled \cup Stale(r)
        \/ epoch' = epoch /\ misled' = misled
    BY <1>36 DEF ImportElsewhere, Migrated
  <2>. QED
    BY <1>0, <2>1, <2>2 DEF Stale
<1>. QED
  BY <1>1, <1>2, <1>3, <1>4, <1>5, <1>6, <1>7, <1>8, <1>9, <1>10, <1>11, <1>12,
     <1>13, <1>14, <1>15, <1>16, <1>17, <1>18, <1>19, <1>20, <1>21, <1>22,
     <1>23, <1>24, <1>25, <1>26, <1>27, <1>28, <1>29, <1>30, <1>31, <1>32,
     <1>33, <1>34, <1>35, <1>36 DEF Next, Start, Elsewhere, Step, Mishap,
     AfterLock

-----------------------------------------------------------------------------
(***************************************************************************)
(* The theorems.                                                           *)
(***************************************************************************)
\* The histories an environment starts from satisfy the invariant.
LEMMA InitHolds == Init => IInv
<1>. SUFFICES ASSUME Init PROVE IInv
  OBVIOUS
<1>1. PICK h \in Histories :
          /\ production = h.production /\ journal = h.journal
          /\ status = h.status /\ epoch = h.epoch /\ content = h.content
          /\ served = [digest |-> h.served, via |-> h.via]
  BY DEF Init
<1>2. /\ pc = [r \in Runs |-> "idle"] /\ job = [r \in Runs |-> NoJob]
      /\ row = [r \in Runs |-> None] /\ rows = [r \in Runs |-> <<>>]
      /\ jlock = None /\ slock = None
      /\ misled = {} /\ unrecorded = FALSE /\ spoilt = FALSE
  BY DEF Init
<1>3. NoJob \in Job /\ NoJob.act = None
  BY ReleasesAssumption DEF NoJob, Job
<1>4. None # "rollback" /\ None # "deploy"
  BY ReleasesAssumption DEF Actions
<1>5. TypeOK
  <2>1. production \in BOOLEAN /\ journal \in Seq(Row) /\ status \in Statuses
    BY <1>1, HistoriesAssumption
  <2>2. epoch \in Nat /\ content \in Contents
    BY <1>1, HistoriesAssumption
  <2>3. served \in [digest : Digests \cup {None}, via : {"deploy", "other"}]
    BY <1>1, HistoriesAssumption
  <2>4. pc \in [Runs -> Places] /\ \A r \in Runs : pc[r] \notin Writing
    BY <1>2 DEF Places, Writing
  <2>5. job \in [Runs -> Job] /\ row \in [Runs -> Row \cup {None}]
    BY <1>2, <1>3
  <2>6. rows \in [Runs -> Seq(Row)]
    <3>1. <<>> \in Seq(Row)
      OBVIOUS
    <3>. QED
      BY <1>2, <3>1
  <2>7. /\ {jlock, slock} \subseteq Runs \cup {None} /\ misled \subseteq Runs
        /\ {unrecorded, spoilt} \subseteq BOOLEAN
    BY <1>2
  <2>. QED
    BY <2>1, <2>2, <2>3, <2>4, <2>5, <2>6, <2>7 DEF TypeOK
<1>6. \A r \in Runs : pc[r] = "idle" /\ job[r] = NoJob
  BY <1>2
<1>7. Tasks /\ JournalHeld /\ LeaseHeld /\ Recorded /\ Fits /\ Loads
  BY <1>3, <1>4, <1>6
     DEF Tasks, JournalHeld, LeaseHeld, Recorded, Fits, Loads, DeployRow,
         Writing, Importing
<1>8. Signed
  BY <1>1, <1>3, <1>4, <1>6, HistoriesAssumption DEF Signed, Writing
<1>9. DeployRowIsServed /\ ServedWasPromoted /\ ImportedMeansLoaded
  BY <1>1, HistoriesAssumption
     DEF DeployRowIsServed, ServedWasPromoted, ImportedMeansLoaded
<1>. QED
  BY <1>5, <1>7, <1>8, <1>9 DEF IInv

\* The inductive invariant of the journal, the rollback and the import.
THEOREM ReleasesInvariant == Spec => []IInv
<1>1. IInv /\ [Next]_vars => IInv'
  <2>1. ASSUME IInv, [Next]_vars PROVE TypeOK' /\ Tasks' /\ JournalHeld'
    BY <2>1, TypeStep, TasksStep, JournalHeldStep DEF IInv
  <2>2. ASSUME IInv, [Next]_vars PROVE LeaseHeld' /\ Recorded' /\ Signed'
    BY <2>2, LeaseHeldStep, RecordedStep, SignedStep DEF IInv
  <2>3. ASSUME IInv, [Next]_vars PROVE Fits' /\ Loads'
    BY <2>3, FitsStep, LoadsStep DEF IInv
  <2>4. ASSUME IInv, [Next]_vars
        PROVE  DeployRowIsServed' /\ ServedWasPromoted' /\ ImportedMeansLoaded'
    BY <2>4, DeployRowStep, ServedStep, ImportedStep DEF IInv
  <2>. QED
    BY <2>1, <2>2, <2>3, <2>4 DEF IInv
<1>. QED
  BY InitHolds, <1>1, PTL DEF Spec

\* Every variable keeps its type: whatever is interrupted, a process at the
\* journal has a complete row to write, and the journal is a list of rows.
THEOREM TypeCorrect == Spec => []TypeOK
<1>1. IInv => TypeOK
  BY DEF IInv
<1>. QED
  BY ReleasesInvariant, <1>1, PTL

\* Whoever writes the journal, it grows by one row at a time and loses none
\* (store.go: Append replaces the whole file under its lock file).
THEOREM RowsAreKept == Spec => JournalGrows
<1>1. ASSUME IInv, [Next]_vars, journal' # journal
      PROVE  /\ Len(journal') = Len(journal) + 1
             /\ SubSeq(journal', 1, Len(journal)) = journal
  <2>1. PICK r \in Runs : row[r] \in Row /\ journal' = Append(journal, row[r])
    BY <1>1, JournalStep DEF IInv
  <2>2. journal \in Seq(Row)
    BY <1>1, TypeParts DEF IInv
  <2>. QED
    BY <2>1, <2>2, AppendProperties
<1>2. IInv /\ [Next]_vars =>
        [journal' # journal =>
            /\ Len(journal') = Len(journal) + 1
            /\ SubSeq(journal', 1, Len(journal)) = journal]_vars
  BY <1>1
<1>. QED
  BY ReleasesInvariant, <1>2, PTL DEF JournalGrows, Spec

\* The newest deploy row of the checkout names the digest that is served,
\* unless its run failed or was killed first, or --infra-only, a destroy or a
\* deployment from another checkout came after it (root.go: recordRelease runs
\* under the deployment lock).
THEOREM ServedIsRecorded == Spec => []DeployRowIsServed
<1>1. IInv => DeployRowIsServed
  BY DEF IInv
<1>. QED
  BY ReleasesInvariant, <1>1, PTL

\* What a production deployment or rollback serves has been promoted in the
\* journal of its checkout (lifecycle.go: requireSignedRelease).
THEOREM ProductionWasPromoted == Spec => []ServedWasPromoted
<1>1. IInv => ServedWasPromoted
  BY DEF IInv
<1>. QED
  BY ReleasesInvariant, <1>1, PTL

\* A rollback about to cut over leads to an image that can run on the live
\* schema, unless a count of the schema failed, it changed behind the
\* rollback's back or the journal credits the digest with another one
\* (RefuseIncompatibleRollback).
THEOREM RollbacksFit == Spec => []RollbackFits
<1>1. IInv => RollbackFits
  BY DEF IInv, Fits, RollbackFits
<1>. QED
  BY ReleasesInvariant, <1>1, PTL

\* A dump said to be imported is in the database, whole, unless it ran at the
\* same time as another or as a migration, gunzip failed, or the database was
\* destroyed or imported into from elsewhere (env.go: runSeedDumpImport).
THEOREM ImportsAreWhole == Spec => []ImportedMeansLoaded
<1>1. IInv => ImportedMeansLoaded
  BY DEF IInv
<1>. QED
  BY ReleasesInvariant, <1>1, PTL
=============================================================================
