------------------------ MODULE CleanupLedger_proofs ------------------------
(***************************************************************************)
(* The cleanup ledger, for any resources, makers and cleanup processes,    *)
(* any number of claims and any mishaps.                                   *)
(*                                                                         *)
(* The three safety properties lean on each other: that a pass deletes the *)
(* backups of an instance first rests on its rows telling the truth about  *)
(* them, and a row does so only as long as nothing it owns is stranded.    *)
(* The invariant says what a pass knows: of a resource that is live and    *)
(* neither exposed nor clobbered, its inventory and its rows are right,    *)
(* and it has deleted the ones it has gone past.                           *)
(***************************************************************************)
EXTENDS CleanupLedger, WellFoundedInduction, TLAPS

\* Resources that no exception of the properties is about.
Regular(n) == n \notin exposed \cup clobbered

\* A row that no pass looks at again, and one that says that there was a
\* resource.
Closed == {"gone", "tombstone"}
Made == {"claimed", "deleting", "gone", "tombstone"}

\* Somebody else's resource stays, and a row is refused for no other reason.
Refusals ==
    \A n \in Names :
        \/ cloud[n] = "foreign"
        \/ /\ file[n] # "refused"
           /\ \A m \in Makers : draft[m][n] # "refused"
           /\ \A r \in Runs : mem[r][n] # "refused" /\ seen[r][n] # "foreign"

\* Only what protection was asked for is seen protected.
Protection ==
    /\ protected \subseteq Protected
    /\ \A r \in Runs, n \in Names : seen[r][n] = "protected" => n \in Protected

\* Whatever is created while a pass is running is exposed.
Exposing ==
    \A m \in Makers, r \in Runs :
        maker[m] = "claimed" /\ pc[r] \in Active => item[m] \in exposed

\* What a maker is about to create has an open row.
Opened ==
    \A m \in Makers :
        maker[m] = "claimed" /\ Regular(item[m]) => file[item[m]] \notin Closed

\* The inventory of a pass has the live resources.
Sighted ==
    \A r \in Runs, n \in Names :
        pc[r] \in Active /\ cloud[n] = "live" /\ Regular(n) =>
            seen[r][n] \in {"live", "protected"}

\* The rows of a pass do not close what is live.
Truthful ==
    \A r \in Runs, n \in Names :
        pc[r] \in Active /\ cloud[n] = "live" /\ Regular(n) =>
            mem[r][n] \notin Closed

\* A pass has deleted what it has gone past.
Passed ==
    \A r \in Runs, n \in Names :
        /\ pc[r] \in Active /\ ~dry[r]
        /\ n \notin todo[r] /\ seen[r][n] = "live"
        /\ pc[r] = "delete" => n # current[r]
        => cloud[n] # "live" \/ ~Regular(n)

\* A pass deletes in the order of rank, and only "reconcile" deletes.
Ranked ==
    \A r \in Runs :
        pc[r] \in {"delete", "deleted"} =>
            /\ ~dry[r] /\ current[r] \notin todo[r] /\ seen[r][current[r]] = "live"
            /\ \A k \in todo[r] : Rank(current[r]) < Rank(k)

\* A closed row of a live resource has an excuse.
Excused == \A n \in Names : Buried(n) => ~Regular(n)

\* What a pass has found has a row that says so.
Merged ==
    \A r \in Runs, n \in Names :
        pc[r] \in Active /\ seen[r][n] \in {"live", "protected", "delayed"} =>
            mem[r][n] \notin {"none", "intended"}

\* Names that were claimed at most once and are owned directly.
Single(n) == claims[n] <= 1 /\ Source[n] = None

\* Before the first claim nobody makes it, and then one maker does.
Alone ==
    \A n \in Names :
        /\ claims[n] = 0 => \A m \in Makers : item[m] # n
        /\ claims[n] <= 1 =>
              \A m1, m2 \in Makers : item[m1] = n /\ item[m2] = n => m1 = m2

\* It has not been created yet.
Before(n) ==
    \/ claims[n] = 0
    \/ /\ Single(n)
       /\ \E m \in Makers : item[m] = n /\ maker[m] \in {"claim", "claimed"}

\* Until then no ledger and no inventory says that it was.
NotYet ==
    \A n \in Names : Before(n) =>
        /\ cloud[n] \in {"none", "foreign"} /\ file[n] \notin Made
        /\ \A m \in Makers : draft[m][n] \notin Made
        /\ \A r \in Runs : /\ mem[r][n] \notin Made
                           /\ seen[r][n] \in {"absent", "foreign"}
                           /\ current[r] # n

\* While it is there no ledger says that it is gone.
Once ==
    \A n \in Names : Single(n) /\ cloud[n] = "live" =>
        /\ file[n] \notin Closed
        /\ \A m \in Makers : draft[m][n] \notin Closed
        /\ \A r \in Runs :
              /\ mem[r][n] \notin Closed
              /\ pc[r] \in Active /\ mem[r][n] \in Made =>
                    seen[r][n] \in {"live", "protected"}
              /\ pc[r] = "deleted" => current[r] # n

IInv ==
    /\ TypeOK /\ Refusals /\ Protection /\ Merged
    /\ Exposing /\ Opened /\ Sighted /\ Truthful /\ Passed /\ Ranked
    /\ Excused /\ NoneStranded
    /\ Alone /\ NotYet /\ Once

-----------------------------------------------------------------------------
(***************************************************************************)
(* Rank.                                                                   *)
(***************************************************************************)

\* A set of numbers has a least one.
LEMMA LeastIn ==
    ASSUME NEW S, S \subseteq Nat, S # {}
    PROVE  \E k \in S : \A j \in S : k <= j
<1>1. PICK k \in S : \A j \in S : ~(<<j, k>> \in OpToRel(<, Nat))
  BY NatLessThanWellFounded, WFMin, Zenon
<1>2. \A j \in S : ~(j < k)
  BY <1>1 DEF OpToRel
<1>. QED
  BY <1>2

\* Every name has one rank, and names of the same rank are the same.
LEMMA RankType ==
    /\ \A n \in Names : Rank(n) \in Nat
    /\ \A n, k \in Names : Rank(n) = Rank(k) => n = k
<1>1. \A n \in Names : Rank(n) \in DOMAIN Order /\ Order[Rank(n)] = n
  <2>. SUFFICES ASSUME NEW n \in Names
                PROVE  Rank(n) \in DOMAIN Order /\ Order[Rank(n)] = n
    OBVIOUS
  <2>1. \E i \in DOMAIN Order : Order[i] = n
    BY DEF Names
  <2>. QED
    BY <2>1 DEF Rank
<1>2. DOMAIN Order \subseteq Nat
  BY CleanupAssumption
<1>. QED
  BY <1>1, <1>2

\* The walk takes a name of least rank.
LEMMA FirstIs ==
    ASSUME NEW S \in SUBSET Names, S # {}
    PROVE  /\ FirstOf(S) \in S
           /\ \A k \in S \ {FirstOf(S)} : Rank(FirstOf(S)) < Rank(k)
<1>. DEFINE Ranks == {Rank(n) : n \in S}
<1>1. Ranks \subseteq Nat /\ Ranks # {}
  BY RankType
<1>2. PICK i \in Ranks : \A j \in Ranks : i <= j
  BY <1>1, LeastIn
<1>3. PICK n \in S : i = Rank(n)
  BY <1>2
<1>4. \A k \in S : Rank(n) <= Rank(k)
  BY <1>2, <1>3
<1>5. FirstOf(S) \in S /\ \A k \in S : Rank(FirstOf(S)) <= Rank(k)
  BY <1>4 DEF FirstOf
<1>6. ASSUME NEW k \in S \ {FirstOf(S)} PROVE Rank(FirstOf(S)) < Rank(k)
  BY <1>5, RankType
<1>. QED
  BY <1>5, <1>6

-----------------------------------------------------------------------------
(***************************************************************************)
(* Type correctness.                                                       *)
(***************************************************************************)

LEMMA TypeInit == Init => TypeOK
<1>. SUFFICES ASSUME Init PROVE TypeOK
  OBVIOUS
<1>1. Blank \in Ledgers /\ Unseen \in [Names -> {"absent", "foreign", "protected",
                                                "live", "delayed"}]
  BY DEF Blank, Unseen, Ledgers
<1>2. cloud \in [Names -> {"none", "live", "delayed", "foreign"}]
  BY DEF Init
<1>. QED
  BY <1>1, <1>2, CleanupAssumption DEF Init, TypeOK, MakerSteps, Active

LEMMA InventoryType ==
    ASSUME TypeOK
    PROVE  Inventory \in [Names -> {"absent", "foreign", "protected", "live",
                                    "delayed"}]
BY DEF TypeOK, Inventory

LEMMA MergeType ==
    ASSUME NEW l \in Ledgers, NEW i
    PROVE  MergeInventory(l, i) \in Ledgers
BY DEF Ledgers, Statuses, MergeInventory

LEMMA SaveType ==
    ASSUME TypeOK, NEW old, NEW new \in Ledgers, Save(old, new)
    PROVE  file' \in Ledgers /\ clobbered' \subseteq Names
BY DEF TypeOK, Save

LEMMA BlankType ==
    /\ Blank \in Ledgers
    /\ Unseen \in [Names -> {"absent", "foreign", "protected", "live", "delayed"}]
BY DEF Blank, Unseen, Ledgers

LEMMA RowType ==
    ASSUME NEW l \in Ledgers, NEW n \in Names, NEW s \in Statuses \cup {"none"}
    PROVE  [l EXCEPT ![n] = s] \in Ledgers
BY DEF Ledgers

\* A deletion takes one resource away, if it is there.
LEMMA Vanished ==
    ASSUME TypeOK, NEW n \in Names, Vanishes(n)
    PROVE  /\ cloud' \in [Names -> {"none", "live", "delayed", "foreign"}]
           /\ cloud'[n] # "live"
           /\ \A k \in Names :
                 \/ cloud'[k] = cloud[k]
                 \/ k = n /\ cloud[k] = "live" /\ cloud'[k] \in {"none", "delayed"}
BY DEF TypeOK, Vanishes

LEMMA TypeStep == TypeOK /\ [Next]_vars => TypeOK'
<1>. SUFFICES ASSUME TypeOK, [Next]_vars PROVE TypeOK'
  OBVIOUS
<1>. USE CleanupAssumption DEF TypeOK, makerVars, runVars
<1>1. ASSUME NEW m \in Makers, NEW n \in Names, BeginClaim(m, n) PROVE TypeOK'
  BY <1>1 DEF BeginClaim, MakerSteps
<1>2. ASSUME NEW m \in Makers, Claim(m) PROVE TypeOK'
  <2>. DEFINE l == [draft[m] EXCEPT ![item[m]] = ClaimedRow(@)]
  <2>1. item[m] \in Names /\ draft[m] \in Ledgers
    BY <1>2 DEF Claim
  <2>2. ClaimedRow(draft[m][item[m]]) \in Statuses
    BY DEF ClaimedRow, Statuses
  <2>3. l \in Ledgers
    BY <2>1, <2>2, RowType
  <2>4. file' \in Ledgers /\ clobbered' \subseteq Names
    BY <1>2, <2>3, SaveType DEF Claim
  <2>. QED
    BY <1>2, <2>1, <2>4, BlankType DEF Claim, MakerSteps
<1>3. ASSUME NEW m \in Makers, Create(m) PROVE TypeOK'
  BY <1>3 DEF Create, MakerSteps
<1>4. ASSUME NEW m \in Makers, BeginRecord(m) PROVE TypeOK'
  BY <1>4 DEF BeginRecord, MakerSteps
<1>5. ASSUME NEW m \in Makers, RecordIdentity(m) PROVE TypeOK'
  <2>. DEFINE l == [draft[m] EXCEPT ![item[m]] =
                      IF @ = "intended" THEN "claimed" ELSE @]
  <2>1. item[m] \in Names /\ draft[m] \in Ledgers
    BY <1>5 DEF RecordIdentity
  <2>2. (IF draft[m][item[m]] = "intended" THEN "claimed" ELSE draft[m][item[m]])
            \in Statuses \cup {"none"}
    BY <2>1 DEF Ledgers, Statuses
  <2>3. l \in Ledgers
    BY <2>1, <2>2, RowType
  <2>4. file' \in Ledgers /\ clobbered' \subseteq Names
    <3>1. CASE UNCHANGED <<file, clobbered>>
      BY <3>1
    <3>2. CASE Save(draft[m], l)
      BY <2>3, <3>2, SaveType
    <3>. QED
      BY <1>5, <3>1, <3>2 DEF RecordIdentity
  <2>. QED
    BY <1>5, <2>4, BlankType DEF RecordIdentity, MakerEnds, MakerSteps
<1>6. ASSUME NEW m \in Makers, MakerStops(m) PROVE TypeOK'
  BY <1>6, BlankType DEF MakerStops, MakerEnds, MakerSteps
<1>7. ASSUME NEW n \in Names, Purge(n) \/ Unprotect(n) PROVE TypeOK'
  BY <1>7 DEF Purge, Unprotect
<1>8. ASSUME NEW r \in Runs, NEW d \in BOOLEAN, Load(r, d) PROVE TypeOK'
  BY <1>8 DEF Load, Goto, Active
<1>9. ASSUME NEW r \in Runs, Merge(r) PROVE TypeOK'
  <2>1. MergeInventory(mem[r], Inventory) \in Ledgers
    BY MergeType
  <2>2. mem' \in [Runs -> Ledgers] /\ mem'[r] \in Ledgers
    BY <1>9, <2>1 DEF Merge
  <2>3. file' \in Ledgers /\ clobbered' \subseteq Names
    BY <1>9, <2>2, SaveType DEF Merge
  <2>4. exposed' \subseteq Names
    BY <1>9 DEF Merge
  <2>5. seen' \in [Runs -> [Names -> {"absent", "foreign", "protected", "live",
                                    "delayed"}]]
    BY <1>9, InventoryType DEF Merge
  <2>. QED
    BY <1>9, <2>2, <2>3, <2>4, <2>5 DEF Merge, Goto, Active
<1>10. ASSUME NEW r \in Runs, Walk(r) PROVE TypeOK'
  <2>. DEFINE n == FirstOf(todo[r])
              d == ToDelete(r, n)
              s == IF d THEN "deleting" ELSE Settled(mem[r][n], seen[r][n])
  <2>1. n \in Names
    BY <1>10, FirstIs DEF Walk
  <2>2. s \in Statuses \cup {"none"}
    BY <2>1 DEF Settled, Ledgers, Statuses
  <2>3. mem' = [mem EXCEPT ![r] = [mem[r] EXCEPT ![n] = s]]
    BY <1>10 DEF Walk
  <2>4. [mem[r] EXCEPT ![n] = s] \in Ledgers
    BY <2>1, <2>2, RowType
  <2>. HIDE DEF s
  <2>5. mem' \in [Runs -> Ledgers] /\ mem'[r] \in Ledgers
    BY <2>3, <2>4
  <2>6. file' \in Ledgers /\ clobbered' \subseteq Names
    <3>1. CASE UNCHANGED <<file, clobbered>>
      BY <3>1
    <3>2. CASE Save(mem[r], mem'[r])
      BY <2>5, <3>2, SaveType
    <3>. QED
      BY <1>10, <3>1, <3>2 DEF Walk
  <2>7. /\ todo' = [todo EXCEPT ![r] = @ \ {n}]
        /\ current' = [current EXCEPT ![r] = IF d THEN n ELSE None]
        /\ pc' = [pc EXCEPT ![r] = IF d THEN "delete" ELSE "walk"]
        /\ pc[r] = "walk"
        /\ UNCHANGED <<cloud, protected, makerVars, dry, seen, verdict, mishaps,
                       exposed>>
    BY <1>10 DEF Walk, Goto
  <2>. QED
    BY <2>1, <2>5, <2>6, <2>7 DEF Active
<1>11. ASSUME NEW r \in Runs, Delete(r) PROVE TypeOK'
  BY <1>11 DEF Delete, Goto, Active, Vanishes
<1>12. ASSUME NEW r \in Runs, DeleteFails(r) PROVE TypeOK'
  <2>1. file' \in Ledgers /\ clobbered' \subseteq Names
    BY <1>12, SaveType DEF DeleteFails
  <2>2. cloud' \in [Names -> {"none", "live", "delayed", "foreign"}]
    <3>1. Vanishes(current[r]) \/ UNCHANGED cloud
      BY <1>12 DEF DeleteFails
    <3>2. current[r] \in Names
      BY <1>12 DEF DeleteFails
    <3>. QED
      BY <3>1, <3>2, Vanished
  <2>3. mishaps' \in 0 .. MaxMishaps
    BY <1>12 DEF DeleteFails
  <2>. QED
    BY <1>12, <2>1, <2>2, <2>3, BlankType DEF DeleteFails, Ends, Goto, Active
<1>13. ASSUME NEW r \in Runs, Confirm(r) PROVE TypeOK'
  BY <1>13 DEF Confirm, Goto, Active, Save, Ledgers, Statuses
<1>14. ASSUME NEW r \in Runs, Report(r) PROVE TypeOK'
  BY <1>14, BlankType DEF Report, Ends, Goto, Active, Verdict
<1>15. ASSUME NEW r \in Runs, Crash(r) PROVE TypeOK'
  BY <1>15, BlankType DEF Crash, Ends, Goto, Active
<1>16. CASE UNCHANGED vars
  BY <1>16 DEF vars
<1>. QED
  BY <1>1, <1>2, <1>3, <1>4, <1>5, <1>6, <1>7, <1>8, <1>9, <1>10, <1>11, <1>12,
     <1>13, <1>14, <1>15, <1>16 DEF Next, MakerStep, RunStep

-----------------------------------------------------------------------------
(***************************************************************************)
(* What the steps do, name by name.                                        *)
(***************************************************************************)

\* A row that a save overwrites without having seen it is clobbered.
LEMMA Saved ==
    ASSUME TypeOK, NEW old, NEW new, Save(old, new)
    PROVE  \A n \in Names :
              /\ file'[n] = new[n]
              /\ n \notin clobbered' =>
                    n \notin clobbered /\ file[n] \in {old[n], new[n]}
BY DEF TypeOK, Save

LEMMA ClaimEffect ==
    ASSUME TypeOK, NEW m \in Makers, Claim(m)
    PROVE  /\ item[m] \in Names
           /\ file'[item[m]] = ClaimedRow(draft[m][item[m]])
           /\ \A n \in Names \ {item[m]} : file'[n] = draft[m][n]
           /\ \A n \in Names \ clobbered' :
                 n \notin clobbered /\ (file'[n] = file[n] \/ n = item[m])
<1>. DEFINE l == [draft[m] EXCEPT ![item[m]] = ClaimedRow(@)]
<1>1. item[m] \in Names /\ draft[m] \in Ledgers
  BY DEF TypeOK, Claim
<1>2. \A n \in Names :
          l[n] = IF n = item[m] THEN ClaimedRow(draft[m][n]) ELSE draft[m][n]
  BY <1>1 DEF Ledgers
<1>3. Save(draft[m], l)
  BY DEF Claim
<1>. HIDE DEF l
<1>. QED
  BY <1>1, <1>2, <1>3, Saved

LEMMA RecordEffect ==
    ASSUME TypeOK, NEW m \in Makers, RecordIdentity(m)
    PROVE  /\ item[m] \in Names
           /\ \/ file' = file
              \/ \A n \in Names :
                    \/ file'[n] = draft[m][n]
                    \/ /\ n = item[m] /\ draft[m][n] = "intended"
                       /\ file'[n] = "claimed"
           /\ \A n \in Names \ clobbered' :
                 n \notin clobbered /\ (file'[n] = file[n] \/ file'[n] = "claimed")
<1>. DEFINE l == [draft[m] EXCEPT ![item[m]] =
                    IF @ = "intended" THEN "claimed" ELSE @]
<1>1. item[m] \in Names /\ draft[m] \in Ledgers
  BY DEF TypeOK, RecordIdentity
<1>2. \A n \in Names : l[n] = IF n = item[m] /\ draft[m][n] = "intended"
                              THEN "claimed" ELSE draft[m][n]
  BY <1>1 DEF Ledgers
<1>3. Save(draft[m], l) \/ UNCHANGED <<file, clobbered>>
  BY DEF RecordIdentity
<1>. HIDE DEF l
<1>4. CASE Save(draft[m], l)
  BY <1>1, <1>2, <1>4, Saved
<1>5. CASE UNCHANGED <<file, clobbered>>
  BY <1>1, <1>5
<1>. QED
  BY <1>3, <1>4, <1>5

LEMMA MergeEffect ==
    ASSUME TypeOK, NEW r \in Runs, Merge(r)
    PROVE  /\ pc[r] = "loaded" /\ pc' = [pc EXCEPT ![r] = "walk"]
           /\ seen' = [seen EXCEPT ![r] = Inventory]
           /\ \A q \in Runs \ {r} : mem'[q] = mem[q] /\ todo'[q] = todo[q]
           /\ todo'[r] = {n \in Names : mem'[r][n] # "none"}
           /\ \A n \in Names :
                 /\ file'[n] = mem'[r][n]
                 /\ \/ mem'[r][n] = mem[r][n] /\ n \notin Listed(Inventory)
                    \/ mem'[r][n] = mem[r][n] /\ mem[r][n] \notin {"none", "intended"}
                    \/ n \in Listed(Inventory) /\ mem'[r][n] = "claimed"
                    \/ Inventory[n] = "delayed" /\ mem'[r][n] = "tombstone"
           /\ \A n \in Names \ clobbered' :
                 n \notin clobbered /\ file[n] \in {mem[r][n], mem'[r][n]}
<1>1. mem' = [mem EXCEPT ![r] = MergeInventory(mem[r], Inventory)]
  BY DEF Merge
<1>2. mem'[r] = MergeInventory(mem[r], Inventory)
  BY <1>1 DEF TypeOK
<1>3. \A n \in Names :
         \/ mem'[r][n] = mem[r][n] /\ n \notin Listed(Inventory)
         \/ mem'[r][n] = mem[r][n] /\ mem[r][n] \notin {"none", "intended"}
         \/ n \in Listed(Inventory) /\ mem'[r][n] = "claimed"
         \/ Inventory[n] = "delayed" /\ mem'[r][n] = "tombstone"
  BY <1>2 DEF MergeInventory
<1>4. Save(mem[r], mem'[r])
  BY DEF Merge
<1>. QED
  BY <1>1, <1>3, <1>4, Saved DEF TypeOK, Merge, Goto

\* The row that the walk comes to.
Settles(r, n, s) ==
    /\ n \in todo[r] /\ \A k \in todo[r] \ {n} : Rank(n) < Rank(k)
    /\ s = IF ToDelete(r, n) THEN "deleting" ELSE Settled(mem[r][n], seen[r][n])

LEMMA WalkEffect ==
    ASSUME TypeOK, NEW r \in Runs, Walk(r)
    PROVE  \E n \in Names, s \in Statuses \cup {"none"} :
              /\ Settles(r, n, s)
              /\ pc[r] = "walk"
              /\ mem' = [mem EXCEPT ![r] = [mem[r] EXCEPT ![n] = s]]
              /\ todo' = [todo EXCEPT ![r] = @ \ {n}]
              /\ \/ /\ ToDelete(r, n)
                    /\ pc' = [pc EXCEPT ![r] = "delete"]
                    /\ current' = [current EXCEPT ![r] = n]
                 \/ /\ ~ToDelete(r, n)
                    /\ pc' = pc /\ current' = current
              /\ file' = file \/ \A k \in Names : file'[k] = mem'[r][k]
              /\ \A k \in Names \ clobbered' :
                    k \notin clobbered /\ (file'[k] = file[k] \/ (k = n /\ file'[k] = s))
<1>. DEFINE n == FirstOf(todo[r])
            s == IF ToDelete(r, n) THEN "deleting" ELSE Settled(mem[r][n], seen[r][n])
<1>1. /\ n \in todo[r] /\ n \in Names
      /\ \A k \in todo[r] \ {n} : Rank(n) < Rank(k)
  BY FirstIs DEF TypeOK, Walk
<1>2. s \in Statuses \cup {"none"}
  BY <1>1 DEF TypeOK, Settled, Ledgers, Statuses
<1>3. Settles(r, n, s)
  BY <1>1 DEF Settles
<1>4. mem' = [mem EXCEPT ![r] = [mem[r] EXCEPT ![n] = s]]
  BY DEF Walk
<1>5. /\ todo' = [todo EXCEPT ![r] = @ \ {n}] /\ pc[r] = "walk"
      /\ Save(mem[r], mem'[r]) \/ UNCHANGED <<file, clobbered>>
      /\ current' = [current EXCEPT ![r] = IF ToDelete(r, n) THEN n ELSE None]
      /\ pc' = [pc EXCEPT ![r] = IF ToDelete(r, n) THEN "delete" ELSE "walk"]
  BY DEF Walk, Goto
<1>. HIDE DEF n, s
<1>6. \/ /\ ToDelete(r, n)
         /\ pc' = [pc EXCEPT ![r] = "delete"]
         /\ current' = [current EXCEPT ![r] = n]
      \/ /\ ~ToDelete(r, n)
         /\ pc' = pc /\ current' = current
  <2>1. CASE ToDelete(r, n)
    BY <1>5, <2>1
  <2>2. CASE ~ToDelete(r, n)
    BY <1>5, <2>2 DEF TypeOK
  <2>. QED
    BY <2>1, <2>2
<1>7. \A k \in Names : mem'[r][k] = IF k = n THEN s ELSE mem[r][k]
  BY <1>4 DEF TypeOK, Ledgers
<1>8. /\ file' = file \/ \A k \in Names : file'[k] = mem'[r][k]
      /\ \A k \in Names \ clobbered' :
            k \notin clobbered /\ (file'[k] = file[k] \/ (k = n /\ file'[k] = s))
  <2>1. CASE UNCHANGED <<file, clobbered>>
    BY <2>1
  <2>2. CASE Save(mem[r], mem'[r])
    BY <1>7, <2>2, Saved
  <2>. QED
    BY <1>5, <2>1, <2>2
<1>. QED
  BY <1>1, <1>2, <1>3, <1>4, <1>5, <1>6, <1>8

LEMMA ConfirmEffect ==
    ASSUME TypeOK, NEW r \in Runs, Confirm(r)
    PROVE  /\ current[r] \in Names /\ pc[r] = "deleted"
           /\ pc' = [pc EXCEPT ![r] = "walk"]
           /\ mem' = [mem EXCEPT ![r] = [mem[r] EXCEPT ![current[r]] = "gone"]]
           /\ \A n \in Names :
                 /\ file'[n] = mem'[r][n]
                 /\ mem'[r][n] = IF n = current[r] THEN "gone" ELSE mem[r][n]
           /\ \A n \in Names \ clobbered' :
                 /\ n \notin clobbered
                 /\ file'[n] = file[n] \/ (n = current[r] /\ file'[n] = "gone")
<1>1. /\ current[r] \in Names /\ pc[r] = "deleted"
      /\ pc' = [pc EXCEPT ![r] = "walk"]
      /\ mem' = [mem EXCEPT ![r] = [mem[r] EXCEPT ![current[r]] = "gone"]]
      /\ Save(mem[r], mem'[r])
  BY DEF TypeOK, Confirm, Goto
<1>2. \A n \in Names : mem'[r][n] = IF n = current[r] THEN "gone" ELSE mem[r][n]
  BY <1>1 DEF TypeOK, Ledgers
<1>3. \A n \in Names :
         /\ file'[n] = mem'[r][n]
         /\ n \notin clobbered' =>
               n \notin clobbered /\ file[n] \in {mem[r][n], mem'[r][n]}
  BY <1>1, Saved
<1>4. \A n \in Names \ clobbered' :
         /\ n \notin clobbered
         /\ file'[n] = file[n] \/ (n = current[r] /\ file'[n] = "gone")
  BY <1>2, <1>3
<1>. QED
  BY <1>1, <1>2, <1>3, <1>4

\* A failed deletion changes the cloud or not; the rows are those of the pass.
LEMMA FailEffect ==
    ASSUME TypeOK, NEW r \in Runs, DeleteFails(r)
    PROVE  /\ current[r] \in Names
           /\ cloud' = cloud \/ Vanishes(current[r])
           /\ \A n \in Names : file'[n] = mem[r][n]
           /\ \A n \in Names \ clobbered' :
                 n \notin clobbered /\ file'[n] = file[n]
<1>1. /\ current[r] \in Names /\ Save(mem[r], mem[r])
      /\ cloud' = cloud \/ Vanishes(current[r])
  BY DEF TypeOK, DeleteFails
<1>. QED
  BY <1>1, Saved

\* How a resource changes.
LEMMA CloudStep ==
    ASSUME TypeOK, [Next]_vars, NEW n \in Names, cloud'[n] # cloud[n]
    PROVE  \/ /\ cloud[n] = "none" /\ cloud'[n] = "live"
              /\ \E m \in Makers : Create(m) /\ item[m] = n
           \/ /\ cloud[n] = "live" /\ cloud'[n] \in {"none", "delayed"}
              /\ \E r \in Runs : /\ Delete(r) \/ DeleteFails(r)
                                 /\ pc[r] = "delete" /\ current[r] = n
           \/ cloud[n] = "delayed" /\ cloud'[n] = "none"
<1>1. ASSUME NEW m \in Makers, MakerStep(m)
      PROVE  Create(m) /\ item[m] = n /\ cloud[n] = "none" /\ cloud'[n] = "live"
  BY <1>1 DEF MakerStep, BeginClaim, Claim, Create, BeginRecord, RecordIdentity,
     MakerStops, TypeOK
<1>2. ASSUME NEW k \in Names, Purge(k) \/ Unprotect(k)
      PROVE  cloud[n] = "delayed" /\ cloud'[n] = "none"
  BY <1>2 DEF Purge, Unprotect, TypeOK
<1>3. ASSUME NEW r \in Runs, RunStep(r) \/ Crash(r)
      PROVE  /\ cloud[n] = "live" /\ cloud'[n] \in {"none", "delayed"}
             /\ Delete(r) \/ DeleteFails(r)
             /\ pc[r] = "delete" /\ current[r] = n
  <2>1. /\ Delete(r) \/ DeleteFails(r)
        /\ pc[r] = "delete" /\ current[r] \in Names /\ Vanishes(current[r])
    BY <1>3 DEF RunStep, Load, Merge, Walk, Delete, DeleteFails, Confirm, Report,
       Crash, TypeOK
  <2>. QED
    BY <2>1, Vanished DEF TypeOK
<1>. QED
  BY <1>1, <1>2, <1>3 DEF Next, vars

\* How a resource becomes one that the exceptions are not about.
LEMMA RegularStep ==
    ASSUME TypeOK, [Next]_vars, NEW n \in Names, Regular(n)'
    PROVE  /\ n \notin clobbered
           /\ \/ Regular(n)
              \/ /\ \E m \in Makers : Claim(m) /\ item[m] = n
                 /\ \A r \in Runs : pc[r] \notin Active
                 /\ ~Stranded(n)
<1>. USE DEF Regular
<1>1. ASSUME NEW m \in Makers, MakerStep(m)
      PROVE  /\ n \notin clobbered
             /\ \/ Regular(n)
                \/ /\ Claim(m) /\ item[m] = n
                   /\ \A r \in Runs : pc[r] \notin Active
                   /\ ~Stranded(n)
  <2>1. CASE Claim(m)
    <3>1. n \notin clobbered
      BY <2>1, ClaimEffect
    <3>. QED
      BY <2>1, <3>1 DEF Claim
  <2>2. CASE RecordIdentity(m)
    BY <2>2, RecordEffect DEF RecordIdentity
  <2>3. CASE ~Claim(m) /\ ~RecordIdentity(m)
    BY <1>1, <2>3 DEF MakerStep, BeginClaim, Create, BeginRecord, MakerStops
  <2>. QED
    BY <2>1, <2>2, <2>3
<1>2. ASSUME NEW k \in Names, Purge(k) \/ Unprotect(k) PROVE Regular(n)
  BY <1>2 DEF Purge, Unprotect
<1>3. ASSUME NEW r \in Runs, RunStep(r) \/ Crash(r) PROVE Regular(n)
  BY <1>3, Saved DEF RunStep, Load, Merge, Walk, Delete, DeleteFails, Confirm, Report,
     Crash
<1>. QED
  BY <1>1, <1>2, <1>3 DEF Next, vars

\* What is left of a pass while it is running.
Keeps(r) ==
    /\ pc'[r] = pc[r] /\ dry'[r] = dry[r] /\ mem'[r] = mem[r]
    /\ seen'[r] = seen[r] /\ todo'[r] = todo[r] /\ current'[r] = current[r]

LEMMA PassStep ==
    ASSUME TypeOK, [Next]_vars, NEW r \in Runs, pc'[r] \in Active
    PROVE  \/ Merge(r)
           \/ /\ pc[r] \in Active /\ dry'[r] = dry[r] /\ seen'[r] = seen[r]
              /\ Walk(r) \/ Delete(r) \/ Confirm(r) \/ Keeps(r)
<1>. USE DEF Keeps
<1>1. ASSUME NEW m \in Makers, MakerStep(m) PROVE pc[r] \in Active /\ Keeps(r)
  BY <1>1 DEF MakerStep, BeginClaim, Claim, Create, BeginRecord, RecordIdentity,
     MakerStops, runVars
<1>2. ASSUME NEW k \in Names, Purge(k) \/ Unprotect(k)
      PROVE  pc[r] \in Active /\ Keeps(r)
  BY <1>2 DEF Purge, Unprotect, runVars
<1>3. ASSUME NEW q \in Runs, RunStep(q) \/ Crash(q), q # r
      PROVE  pc[r] \in Active /\ Keeps(r)
  BY <1>3 DEF RunStep, Load, Merge, Walk, Delete, DeleteFails, Confirm, Report,
     Crash, Ends, Goto, TypeOK
<1>4. ASSUME RunStep(r) \/ Crash(r)
      PROVE  \/ Merge(r)
             \/ /\ pc[r] \in Active /\ dry'[r] = dry[r] /\ seen'[r] = seen[r]
                /\ Walk(r) \/ Delete(r) \/ Confirm(r)
  <2>1. CASE Walk(r) \/ Delete(r) \/ Confirm(r)
    BY <2>1 DEF Walk, Delete, Confirm, Active
  <2>2. CASE ~Merge(r) /\ ~Walk(r) /\ ~Delete(r) /\ ~Confirm(r)
    BY <1>4, <2>2 DEF RunStep, Load, DeleteFails, Report, Crash, Ends, Goto, TypeOK,
       Active
  <2>. QED
    BY <2>1, <2>2
<1>5. CASE UNCHANGED vars
  BY <1>5 DEF vars, runVars
<1>. QED
  BY <1>1, <1>2, <1>3, <1>4, <1>5 DEF Next

\* A regular resource that is live while a pass is running was live already.
LEMMA StillLive ==
    ASSUME TypeOK, Exposing, [Next]_vars, NEW r \in Runs, pc[r] \in Active,
           NEW n \in Names, cloud'[n] = "live", Regular(n)'
    PROVE  cloud[n] = "live" /\ Regular(n)
<1>1. Regular(n)
  BY RegularStep
<1>2. ASSUME cloud[n] # "live" PROVE FALSE
  <2>1. PICK m \in Makers : Create(m) /\ item[m] = n
    BY <1>2, CloudStep
  <2>. QED
    BY <1>1, <2>1 DEF Create, Exposing, Regular
<1>. QED
  BY <1>1, <1>2

-----------------------------------------------------------------------------
(***************************************************************************)
(* What is refused or protected.                                           *)
(***************************************************************************)

\* What an inventory says.
LEMMA InventorySays ==
    ASSUME TypeOK, NEW n \in Names
    PROVE  /\ Inventory[n] = "foreign" <=> cloud[n] = "foreign"
           /\ Inventory[n] = "protected" => n \in protected
           /\ Inventory[n] = "delayed" => cloud[n] = "delayed"
           /\ Inventory[n] \in {"live", "protected"} => cloud[n] = "live"
           /\ cloud[n] = "live" =>
                 Inventory[n] \in {"live", "protected"} \/ Stranded(n)
BY DEF TypeOK, Inventory, Owned, Stranded

LEMMA RefusalsStep == IInv /\ [Next]_vars => Refusals'
<1>. SUFFICES ASSUME IInv, [Next]_vars, NEW n \in Names, cloud'[n] # "foreign"
              PROVE  /\ file'[n] # "refused"
                     /\ \A m \in Makers : draft'[m][n] # "refused"
                     /\ \A r \in Runs : /\ mem'[r][n] # "refused"
                                        /\ seen'[r][n] # "foreign"
  BY DEF Refusals
<1>1. TypeOK
  BY DEF IInv
<1>2. cloud[n] # "foreign"
  BY <1>1, CloudStep
<1>3. /\ file[n] # "refused"
      /\ \A m \in Makers : draft[m][n] # "refused"
      /\ \A r \in Runs : mem[r][n] # "refused" /\ seen[r][n] # "foreign"
  BY <1>2 DEF IInv, Refusals
<1>. USE <1>1
<1>4. Blank[n] # "refused" /\ Unseen[n] # "foreign"
  BY DEF Blank, Unseen
<1>5. ASSUME NEW m \in Makers, MakerStep(m)
      PROVE  /\ file'[n] # "refused"
             /\ \A x \in Makers : draft'[x][n] # "refused"
             /\ UNCHANGED runVars
  <2>1. CASE Claim(m)
    <3>1. file'[n] # "refused"
      BY <2>1, <1>3, ClaimEffect DEF ClaimedRow
    <3>. QED
      BY <2>1, <1>3, <1>4, <3>1 DEF Claim, TypeOK
  <2>2. CASE RecordIdentity(m)
    <3>1. file'[n] # "refused"
      BY <2>2, <1>3, RecordEffect
    <3>. QED
      BY <2>2, <1>3, <1>4, <3>1 DEF RecordIdentity, MakerEnds, TypeOK
  <2>3. CASE (\E k \in Names : BeginClaim(m, k)) \/ BeginRecord(m)
    <3>1. draft' = [draft EXCEPT ![m] = file] /\ UNCHANGED <<file, runVars>>
      BY <2>3 DEF BeginClaim, BeginRecord
    <3>. QED
      BY <3>1, <1>3 DEF TypeOK
  <2>4. CASE Create(m)
    BY <2>4, <1>3 DEF Create
  <2>5. CASE MakerStops(m)
    BY <2>5, <1>3, <1>4 DEF MakerStops, MakerEnds, TypeOK
  <2>. QED
    BY <1>5, <2>1, <2>2, <2>3, <2>4, <2>5 DEF MakerStep
<1>6. ASSUME NEW k \in Names, Purge(k) \/ Unprotect(k)
      PROVE  UNCHANGED <<file, makerVars, runVars>>
  BY <1>6 DEF Purge, Unprotect
<1>7. ASSUME NEW r \in Runs, RunStep(r) \/ Crash(r)
      PROVE  /\ file'[n] # "refused" /\ UNCHANGED makerVars
             /\ \A q \in Runs : mem'[q][n] # "refused" /\ seen'[q][n] # "foreign"
  <2>1. CASE Merge(r)
    <3>1. mem'[r][n] # "refused" /\ file'[n] = mem'[r][n]
      BY <2>1, <1>3, MergeEffect
    <3>2. seen'[r][n] # "foreign"
      BY <2>1, <1>2, InventorySays, MergeEffect DEF TypeOK
    <3>. QED
      BY <2>1, <1>3, <3>1, <3>2, MergeEffect DEF Merge, TypeOK
  <2>2. CASE Walk(r)
    <3>1. PICK k \in Names, s \in Statuses \cup {"none"} :
             /\ Settles(r, k, s)
             /\ mem' = [mem EXCEPT ![r] = [mem[r] EXCEPT ![k] = s]]
             /\ file' = file \/ \A x \in Names : file'[x] = mem'[r][x]
      BY <2>2, WalkEffect
    <3>2. k = n => s # "refused"
      BY <3>1, <1>3 DEF Settles, Settled
    <3>3. \A q \in Runs : mem'[q][n] # "refused"
      BY <3>1, <3>2, <1>3 DEF TypeOK, Ledgers
    <3>. QED
      BY <2>2, <1>3, <3>1, <3>3 DEF Walk
  <2>3. CASE Confirm(r)
    <3>1. file'[n] = mem'[r][n] /\ mem'[r][n] # "refused"
      BY <2>3, <1>3, ConfirmEffect
    <3>2. \A q \in Runs \ {r} : mem'[q] = mem[q]
      BY <2>3, ConfirmEffect DEF TypeOK
    <3>3. \A q \in Runs : mem'[q][n] # "refused"
      BY <1>3, <3>1, <3>2
    <3>. QED
      BY <2>3, <1>3, <3>1, <3>3 DEF Confirm
  <2>4. CASE DeleteFails(r)
    BY <2>4, <1>3, <1>4, FailEffect DEF DeleteFails, Ends, TypeOK
  <2>5. CASE ~Merge(r) /\ ~Walk(r) /\ ~Confirm(r) /\ ~DeleteFails(r)
    BY <1>7, <2>5, <1>3, <1>4 DEF RunStep, Load, Delete, Report, Crash, Ends, TypeOK
  <2>. QED
    BY <2>1, <2>2, <2>3, <2>4, <2>5
<1>8. CASE UNCHANGED vars
  BY <1>3, <1>8 DEF vars, makerVars, runVars
<1>. QED
  BY <1>3, <1>5, <1>6, <1>7, <1>8 DEF Next, makerVars, runVars

LEMMA ProtectionStep == IInv /\ [Next]_vars => Protection'
<1>. SUFFICES ASSUME IInv, [Next]_vars PROVE Protection'
  OBVIOUS
<1>1. TypeOK /\ Protection
  BY DEF IInv
<1>. USE <1>1 DEF Protection
<1>2. \A n \in Names : Unseen[n] # "protected"
  BY DEF Unseen
<1>3. ASSUME NEW m \in Makers, MakerStep(m) PROVE Protection'
  BY <1>3 DEF MakerStep, BeginClaim, Claim, Create, BeginRecord, RecordIdentity,
     MakerStops, runVars
<1>4. ASSUME NEW n \in Names, Purge(n) \/ Unprotect(n) PROVE Protection'
  BY <1>4 DEF Purge, Unprotect, runVars
<1>5. ASSUME NEW r \in Runs, RunStep(r) \/ Crash(r) PROVE Protection'
  <2>1. CASE Merge(r)
    BY <2>1, InventorySays DEF Merge, TypeOK
  <2>2. CASE ~Merge(r)
    BY <1>5, <2>2, <1>2 DEF RunStep, Load, Walk, Delete, DeleteFails, Confirm, Report,
       Crash, Ends, TypeOK
  <2>. QED
    BY <2>1, <2>2
<1>6. CASE UNCHANGED vars
  BY <1>6 DEF vars, runVars
<1>. QED
  BY <1>3, <1>4, <1>5, <1>6 DEF Next

-----------------------------------------------------------------------------
(***************************************************************************)
(* What a pass knows.                                                      *)
(***************************************************************************)

LEMMA MergedStep == IInv /\ [Next]_vars => Merged'
<1>. SUFFICES ASSUME IInv, [Next]_vars, NEW r \in Runs, NEW n \in Names,
                     pc'[r] \in Active,
                     seen'[r][n] \in {"live", "protected", "delayed"}
              PROVE  mem'[r][n] \notin {"none", "intended"}
  BY DEF Merged
<1>1. TypeOK /\ Merged
  BY DEF IInv
<1>2. CASE Merge(r)
  <2>1. seen'[r] = Inventory
    BY <1>1, <1>2, MergeEffect DEF TypeOK
  <2>2. n \in Listed(Inventory)
    BY <2>1 DEF Listed
  <2>. QED
    BY <1>1, <1>2, <2>2, MergeEffect
<1>3. CASE pc[r] \in Active /\ seen'[r] = seen[r] /\ Keeps(r)
  BY <1>1, <1>3 DEF Keeps, Merged
<1>4. CASE pc[r] \in Active /\ seen'[r] = seen[r] /\ Delete(r)
  BY <1>1, <1>4 DEF Delete, Merged
<1>5. CASE pc[r] \in Active /\ seen'[r] = seen[r] /\ Confirm(r)
  <2>1. mem[r][n] \notin {"none", "intended"}
    BY <1>1, <1>5 DEF Merged
  <2>2. mem'[r][n] = "gone" \/ mem'[r][n] = mem[r][n]
    BY <1>1, <1>5, ConfirmEffect
  <2>. QED
    BY <2>1, <2>2
<1>6. CASE pc[r] \in Active /\ seen'[r] = seen[r] /\ Walk(r)
  <2>1. mem[r][n] \notin {"none", "intended"}
    BY <1>1, <1>6 DEF Merged
  <2>2. PICK k \in Names, s \in Statuses \cup {"none"} :
           /\ Settles(r, k, s)
           /\ mem' = [mem EXCEPT ![r] = [mem[r] EXCEPT ![k] = s]]
    BY <1>1, <1>6, WalkEffect
  <2>3. mem'[r][n] = IF n = k THEN s ELSE mem[r][n]
    BY <1>1, <2>2 DEF TypeOK, Ledgers
  <2>4. n = k => s \notin {"none", "intended"}
    BY <2>1, <2>2 DEF Settles, Settled
  <2>. QED
    BY <2>1, <2>3, <2>4
<1>. QED
  BY <1>1, <1>2, <1>3, <1>4, <1>5, <1>6, PassStep

LEMMA ExposingStep == IInv /\ [Next]_vars => Exposing'
<1>. SUFFICES ASSUME IInv, [Next]_vars, NEW m \in Makers, NEW r \in Runs,
                     maker'[m] = "claimed", pc'[r] \in Active
              PROVE  item'[m] \in exposed'
  BY DEF Exposing
<1>1. TypeOK /\ Exposing
  BY DEF IInv
<1>2. CASE Claim(m)
  <2>1. item'[m] = item[m] /\ pc[r] \in Active
    BY <1>2 DEF Claim, runVars
  <2>. QED
    BY <1>2, <2>1 DEF Claim
<1>3. CASE ~Claim(m)
  <2>1. maker[m] = "claimed" /\ item'[m] = item[m] /\ item[m] \in Names
    <3>1. ASSUME NEW x \in Makers, MakerStep(x)
          PROVE  maker[m] = "claimed" /\ item'[m] = item[m]
      BY <1>1, <1>3, <3>1
      DEF MakerStep, BeginClaim, Claim, Create, BeginRecord, RecordIdentity,
          MakerStops, MakerEnds, TypeOK
    <3>2. ASSUME NEW k \in Names, Purge(k) \/ Unprotect(k) PROVE UNCHANGED makerVars
      BY <3>2 DEF Purge, Unprotect
    <3>3. ASSUME NEW q \in Runs, RunStep(q) \/ Crash(q) PROVE UNCHANGED makerVars
      BY <3>3 DEF RunStep, Load, Merge, Walk, Delete, DeleteFails, Confirm, Report,
         Crash
    <3>. QED
      BY <1>1, <3>1, <3>2, <3>3 DEF Next, vars, makerVars, TypeOK
  <2>2. CASE Merge(r)
    BY <2>1, <2>2 DEF Merge
  <2>3. CASE pc[r] \in Active
    <3>1. item[m] \in exposed
      BY <1>1, <2>1, <2>3 DEF Exposing
    <3>2. exposed \subseteq exposed'
      <4>1. ASSUME NEW x \in Makers, MakerStep(x) PROVE exposed \subseteq exposed'
        BY <2>3, <4>1
        DEF MakerStep, BeginClaim, Claim, Create, BeginRecord, RecordIdentity,
            MakerStops
      <4>2. ASSUME NEW k \in Names, Purge(k) \/ Unprotect(k) PROVE exposed' = exposed
        BY <4>2 DEF Purge, Unprotect
      <4>3. ASSUME NEW q \in Runs, RunStep(q) \/ Crash(q)
            PROVE  exposed \subseteq exposed'
        BY <4>3 DEF RunStep, Load, Merge, Walk, Delete, DeleteFails, Confirm, Report,
           Crash
      <4>. QED
        BY <4>1, <4>2, <4>3 DEF Next, vars
    <3>. QED
      BY <2>1, <3>1, <3>2
  <2>. QED
    BY <1>1, <2>2, <2>3, PassStep
<1>. QED
  BY <1>2, <1>3

LEMMA SightedStep == IInv /\ [Next]_vars => Sighted'
<1>. SUFFICES ASSUME IInv, [Next]_vars, NEW r \in Runs, NEW n \in Names,
                     pc'[r] \in Active, cloud'[n] = "live", Regular(n)'
              PROVE  seen'[r][n] \in {"live", "protected"}
  BY DEF Sighted
<1>1. TypeOK /\ Exposing /\ Sighted /\ NoneStranded
  BY DEF IInv
<1>2. CASE Merge(r)
  <2>1. seen'[r] = Inventory
    BY <1>1, <1>2 DEF TypeOK, Merge
  <2>2. cloud[n] = "live" /\ Regular(n)
    BY <1>1, <1>2, MergeEffect DEF Merge, Regular
  <2>3. ~Stranded(n)
    BY <1>1, <2>2 DEF NoneStranded, Regular
  <2>. QED
    BY <1>1, <2>1, <2>2, <2>3, InventorySays
<1>3. CASE pc[r] \in Active /\ seen'[r] = seen[r]
  BY <1>1, <1>3, StillLive DEF Sighted
<1>. QED
  BY <1>1, <1>2, <1>3, PassStep

LEMMA TruthfulStep == IInv /\ [Next]_vars => Truthful'
<1>. SUFFICES ASSUME IInv, [Next]_vars, NEW r \in Runs, NEW n \in Names,
                     pc'[r] \in Active, cloud'[n] = "live", Regular(n)'
              PROVE  mem'[r][n] \notin Closed
  BY DEF Truthful
<1>1. /\ TypeOK /\ Exposing /\ Sighted /\ Truthful /\ Passed /\ Ranked
      /\ Excused /\ NoneStranded
  BY DEF IInv
<1>2. CASE Merge(r)
  <2>1. cloud[n] = "live" /\ Regular(n) /\ n \notin clobbered'
    BY <1>1, <1>2, MergeEffect DEF Merge, Regular
  <2>2. file[n] \notin Closed
    BY <1>1, <2>1 DEF Excused, Buried, Closed
  <2>3. n \in Listed(Inventory) /\ Inventory[n] # "delayed"
    BY <1>1, <2>1, InventorySays DEF NoneStranded, Regular, Listed
  <2>4. /\ file[n] \in {mem[r][n], mem'[r][n]}
        /\ mem'[r][n] = mem[r][n] \/ mem'[r][n] = "claimed"
    BY <1>1, <1>2, <2>1, <2>3, MergeEffect
  <2>. QED
    BY <2>2, <2>4 DEF Closed
<1>3. ASSUME pc[r] \in Active
      PROVE  /\ cloud[n] = "live" /\ Regular(n)
             /\ mem[r][n] \notin Closed /\ seen[r][n] \in {"live", "protected"}
  BY <1>1, <1>3, StillLive DEF Truthful, Sighted
<1>4. CASE pc[r] \in Active /\ Keeps(r)
  BY <1>3, <1>4 DEF Keeps
<1>5. CASE pc[r] \in Active /\ Delete(r)
  BY <1>3, <1>5 DEF Delete
<1>6. CASE pc[r] \in Active /\ Confirm(r)
  <2>1. n # current[r]
    BY <1>1, <1>3, <1>6, ConfirmEffect DEF Passed, Ranked
  <2>2. mem'[r][n] = mem[r][n]
    BY <1>1, <1>6, <2>1, ConfirmEffect
  <2>. QED
    BY <1>3, <1>6, <2>2
<1>7. CASE pc[r] \in Active /\ Walk(r)
  <2>1. PICK k \in Names, s \in Statuses \cup {"none"} :
           /\ Settles(r, k, s)
           /\ mem' = [mem EXCEPT ![r] = [mem[r] EXCEPT ![k] = s]]
    BY <1>1, <1>7, WalkEffect
  <2>2. mem'[r][n] = IF n = k THEN s ELSE mem[r][n]
    BY <1>1, <2>1 DEF TypeOK, Ledgers
  <2>3. n = k => s \notin Closed
    BY <1>3, <1>7, <2>1 DEF Settles, Settled, Closed
  <2>. QED
    BY <1>3, <1>7, <2>2, <2>3
<1>. QED
  BY <1>1, <1>2, <1>4, <1>5, <1>6, <1>7, PassStep

LEMMA PassedStep == IInv /\ [Next]_vars => Passed'
<1>. SUFFICES ASSUME IInv, [Next]_vars, NEW r \in Runs, NEW n \in Names,
                     pc'[r] \in Active, ~dry'[r], n \notin todo'[r],
                     seen'[r][n] = "live", pc'[r] = "delete" => n # current'[r],
                     cloud'[n] = "live", Regular(n)'
              PROVE  FALSE
  BY DEF Passed
<1>1. /\ TypeOK /\ Refusals /\ Exposing /\ Truthful /\ Passed
  BY DEF IInv
<1>2. CASE Merge(r)
  <2>1. seen'[r] = Inventory /\ todo'[r] = {k \in Names : mem'[r][k] # "none"}
    BY <1>1, <1>2, MergeEffect DEF TypeOK
  <2>2. n \in Listed(Inventory) /\ mem'[r][n] = "none"
    BY <2>1 DEF Listed
  <2>. QED
    BY <1>1, <1>2, <2>2, MergeEffect
<1>3. ASSUME pc[r] \in Active, dry'[r] = dry[r], seen'[r] = seen[r]
      PROVE  /\ cloud[n] = "live" /\ Regular(n) /\ ~dry[r]
             /\ mem[r][n] \notin Closed \cup {"refused"} /\ seen[r][n] = "live"
             /\ n \notin todo[r] => pc[r] = "delete" /\ n = current[r]
  <2>1. cloud[n] = "live" /\ Regular(n)
    BY <1>1, <1>3, StillLive
  <2>2. mem[r][n] \notin Closed /\ mem[r][n] # "refused"
    BY <1>1, <1>3, <2>1 DEF Truthful, Refusals
  <2>. QED
    BY <1>1, <1>3, <2>1, <2>2 DEF Passed
<1>4. CASE pc[r] \in Active /\ dry'[r] = dry[r] /\ seen'[r] = seen[r] /\ Keeps(r)
  BY <1>3, <1>4 DEF Keeps
<1>5. CASE pc[r] \in Active /\ dry'[r] = dry[r] /\ seen'[r] = seen[r] /\ Delete(r)
  <2>1. current[r] \in Names /\ Vanishes(current[r]) /\ UNCHANGED todo
    BY <1>1, <1>5 DEF Delete, TypeOK
  <2>2. cloud'[current[r]] # "live"
    BY <1>1, <2>1, Vanished
  <2>. QED
    BY <1>3, <1>5, <2>1, <2>2
<1>6. CASE pc[r] \in Active /\ dry'[r] = dry[r] /\ seen'[r] = seen[r] /\ Confirm(r)
  BY <1>3, <1>6 DEF Confirm
<1>7. CASE pc[r] \in Active /\ dry'[r] = dry[r] /\ seen'[r] = seen[r] /\ Walk(r)
  <2>1. PICK k \in Names, s \in Statuses \cup {"none"} :
           /\ pc[r] = "walk"
           /\ todo' = [todo EXCEPT ![r] = @ \ {k}]
           /\ \/ /\ ToDelete(r, k)
                 /\ pc' = [pc EXCEPT ![r] = "delete"]
                 /\ current' = [current EXCEPT ![r] = k]
              \/ ~ToDelete(r, k)
    BY <1>1, <1>7, WalkEffect
  <2>2. n = k
    BY <1>1, <1>3, <1>7, <2>1 DEF TypeOK
  <2>3. ToDelete(r, n)
    BY <1>3, <1>7 DEF ToDelete, Closed
  <2>. QED
    BY <1>1, <2>1, <2>2, <2>3 DEF TypeOK
<1>. QED
  BY <1>1, <1>2, <1>4, <1>5, <1>6, <1>7, PassStep

LEMMA RankedStep == IInv /\ [Next]_vars => Ranked'
<1>. SUFFICES ASSUME IInv, [Next]_vars, NEW r \in Runs,
                     pc'[r] \in {"delete", "deleted"}
              PROVE  /\ ~dry'[r] /\ current'[r] \notin todo'[r]
                     /\ seen'[r][current'[r]] = "live"
                     /\ \A k \in todo'[r] : Rank(current'[r]) < Rank(k)
  BY DEF Ranked
<1>1. TypeOK /\ Ranked
  BY DEF IInv
<1>2. ~Merge(r)
  BY <1>1, MergeEffect DEF TypeOK
<1>3. ~Confirm(r)
  BY <1>1, ConfirmEffect DEF TypeOK
<1>4. CASE Keeps(r)
  BY <1>1, <1>4 DEF Keeps, Ranked
<1>5. CASE Delete(r)
  BY <1>1, <1>5 DEF Delete, Ranked
<1>6. CASE Walk(r) /\ dry'[r] = dry[r] /\ seen'[r] = seen[r]
  <2>1. PICK k \in Names, s \in Statuses \cup {"none"} :
           /\ Settles(r, k, s) /\ pc[r] = "walk"
           /\ todo' = [todo EXCEPT ![r] = @ \ {k}]
           /\ \/ /\ ToDelete(r, k)
                 /\ pc' = [pc EXCEPT ![r] = "delete"]
                 /\ current' = [current EXCEPT ![r] = k]
              \/ ~ToDelete(r, k) /\ pc' = pc
    BY <1>1, <1>6, WalkEffect
  <2>2. ToDelete(r, k) /\ current'[r] = k /\ todo'[r] = todo[r] \ {k}
    BY <1>1, <2>1 DEF TypeOK
  <2>. QED
    BY <1>6, <2>1, <2>2 DEF ToDelete, Settles
<1>. QED
  BY <1>1, <1>2, <1>3, <1>4, <1>5, <1>6, PassStep DEF Active

-----------------------------------------------------------------------------
(***************************************************************************)
(* What the saved rows and the cloud say of each other.                    *)
(***************************************************************************)

LEMMA OpenedStep == IInv /\ [Next]_vars => Opened'
<1>. SUFFICES ASSUME IInv, [Next]_vars, NEW m \in Makers, maker'[m] = "claimed",
                     item'[m] \notin exposed' \cup clobbered'
              PROVE  file'[item'[m]] \notin Closed
  BY DEF Opened, Regular
<1>1. TypeOK /\ Exposing /\ Opened
  BY DEF IInv
<1>2. \A x \in Makers : Claim(x) => file'[item[x]] \notin Closed
  BY <1>1, ClaimEffect DEF ClaimedRow, Closed
<1>3. CASE Claim(m)
  BY <1>2, <1>3 DEF Claim
<1>4. CASE ~Claim(m)
  <2>1. maker[m] = "claimed" /\ item'[m] = item[m] /\ item[m] \in Names
    <3>1. ASSUME NEW x \in Makers, MakerStep(x)
          PROVE  maker[m] = "claimed" /\ item'[m] = item[m]
      BY <1>1, <1>4, <3>1
      DEF MakerStep, BeginClaim, Claim, Create, BeginRecord, RecordIdentity,
          MakerStops, MakerEnds, TypeOK
    <3>2. ASSUME NEW k \in Names, Purge(k) \/ Unprotect(k) PROVE UNCHANGED makerVars
      BY <3>2 DEF Purge, Unprotect
    <3>3. ASSUME NEW q \in Runs, RunStep(q) \/ Crash(q) PROVE UNCHANGED makerVars
      BY <3>3 DEF RunStep, Load, Merge, Walk, Delete, DeleteFails, Confirm, Report,
         Crash
    <3>. QED
      BY <1>1, <3>1, <3>2, <3>3 DEF Next, vars, makerVars, TypeOK
  <2>a. PICK n \in Names : n = item[m]
    BY <2>1
  <2>2. n \notin clobbered' /\ n \notin exposed'
    BY <2>1, <2>a
  <2>3. ASSUME Regular(n), file'[n] = file[n] \/ file'[n] = "claimed"
        PROVE  file'[n] \notin Closed
    BY <1>1, <2>1, <2>a, <2>3 DEF Opened, Closed
  <2>4. CASE \E x \in Makers : Claim(x) /\ item[x] = n
    BY <1>2, <2>1, <2>a, <2>4
  <2>5. CASE ~\E x \in Makers : Claim(x) /\ item[x] = n
    <3>1. Regular(n)
      BY <1>1, <2>2, <2>5, RegularStep DEF Regular
    <3>2. \A r \in Runs : pc[r] \notin Active
      BY <1>1, <2>1, <2>a, <3>1 DEF Exposing, Regular
    <3>3. ASSUME NEW x \in Makers, MakerStep(x)
          PROVE  file'[n] = file[n] \/ file'[n] = "claimed"
      <4>1. CASE Claim(x)
        BY <1>1, <2>2, <2>5, <4>1, ClaimEffect
      <4>2. CASE RecordIdentity(x)
        BY <1>1, <2>2, <4>2, RecordEffect
      <4>3. CASE ~Claim(x) /\ ~RecordIdentity(x)
        BY <3>3, <4>3 DEF MakerStep, BeginClaim, Create, BeginRecord, MakerStops
      <4>. QED
        BY <4>1, <4>2, <4>3
    <3>4. ASSUME NEW k \in Names, Purge(k) \/ Unprotect(k) PROVE file' = file
      BY <3>4 DEF Purge, Unprotect
    <3>5. ASSUME NEW r \in Runs, RunStep(r) \/ Crash(r) PROVE file' = file
      <4>1. ~Merge(r)
        BY <2>1, <2>a, <2>2 DEF Merge
      <4>2. pc[r] \notin Active
        BY <3>2
      <4>. QED
        BY <3>5, <4>1, <4>2 DEF RunStep, Load, Walk, Delete, DeleteFails, Confirm,
           Report, Crash, Active
    <3>. QED
      BY <2>1, <2>a, <2>3, <3>1, <3>3, <3>4, <3>5 DEF Next, vars
  <2>. QED
    BY <2>1, <2>a, <2>4, <2>5
<1>. QED
  BY <1>3, <1>4

LEMMA ExcusedStep == IInv /\ [Next]_vars => Excused'
<1>. SUFFICES ASSUME IInv, [Next]_vars, NEW n \in Names, cloud'[n] = "live",
                     file'[n] \in Closed, Regular(n)'
              PROVE  FALSE
  BY DEF Excused, Buried, Closed
<1>1. TypeOK /\ Opened /\ Excused /\ Truthful'
  BY TruthfulStep DEF IInv
<1>2. n \notin clobbered'
  BY DEF Regular
<1>3. ~\E m \in Makers : Claim(m) /\ item[m] = n
  BY <1>1, ClaimEffect DEF ClaimedRow, Closed
<1>4. Regular(n)
  BY <1>1, <1>3, RegularStep
<1>5. cloud[n] = "live" \/ file[n] \notin Closed
  <2>1. ASSUME cloud[n] # "live" PROVE file[n] \notin Closed
    <3>1. PICK m \in Makers : Create(m) /\ item[m] = n
      BY <1>1, <2>1, CloudStep
    <3>. QED
      BY <1>1, <1>4, <3>1 DEF Create, Opened
  <2>. QED
    BY <2>1
<1>6. file[n] \notin Closed
  BY <1>1, <1>4, <1>5 DEF Excused, Buried, Closed
<1>7. ASSUME NEW r \in Runs, pc'[r] \in Active, file'[n] = mem'[r][n] PROVE FALSE
  BY <1>1, <1>7 DEF Truthful
<1>8. ASSUME NEW m \in Makers, MakerStep(m) PROVE FALSE
  <2>1. CASE Claim(m)
    BY <1>1, <1>2, <1>3, <1>6, <2>1, ClaimEffect
  <2>2. CASE RecordIdentity(m)
    BY <1>1, <1>2, <1>6, <2>2, RecordEffect DEF Closed
  <2>3. CASE ~Claim(m) /\ ~RecordIdentity(m)
    BY <1>8, <1>6, <2>3 DEF MakerStep, BeginClaim, Create, BeginRecord, MakerStops
  <2>. QED
    BY <2>1, <2>2, <2>3
<1>9. ASSUME NEW k \in Names, Purge(k) \/ Unprotect(k) PROVE FALSE
  BY <1>6, <1>9 DEF Purge, Unprotect
<1>10. ASSUME NEW r \in Runs, RunStep(r) \/ Crash(r) PROVE FALSE
  <2>1. CASE Merge(r)
    <3>1. pc'[r] \in Active /\ file'[n] = mem'[r][n]
      BY <1>1, <2>1, MergeEffect DEF TypeOK, Active
    <3>. QED
      BY <1>7, <3>1
  <2>2. CASE Walk(r)
    <3>1. file' = file \/ file'[n] = mem'[r][n]
      BY <1>1, <2>2, WalkEffect
    <3>2. pc'[r] \in Active
      BY <1>1, <2>2 DEF Walk, Goto, TypeOK, Active
    <3>. QED
      BY <1>6, <1>7, <3>1, <3>2
  <2>3. CASE Confirm(r)
    <3>1. pc'[r] \in Active /\ file'[n] = mem'[r][n]
      BY <1>1, <2>3, ConfirmEffect DEF TypeOK, Active
    <3>. QED
      BY <1>7, <3>1
  <2>4. CASE DeleteFails(r)
    BY <1>1, <1>2, <1>6, <2>4, FailEffect
  <2>5. CASE ~Merge(r) /\ ~Walk(r) /\ ~Confirm(r) /\ ~DeleteFails(r)
    BY <1>6, <1>10, <2>5 DEF RunStep, Load, Delete, Report, Crash
  <2>. QED
    BY <2>1, <2>2, <2>3, <2>4, <2>5
<1>. QED
  BY <1>6, <1>8, <1>9, <1>10 DEF Next, vars

LEMMA StrandedStep == IInv /\ [Next]_vars => NoneStranded'
<1>. SUFFICES ASSUME IInv, [Next]_vars, NEW n \in Names, Stranded(n)', Regular(n)'
              PROVE  FALSE
  BY DEF NoneStranded, Regular
<1>. DEFINE s == Source[n]
<1>1. /\ TypeOK /\ Protection /\ Sighted /\ Passed /\ Ranked /\ NoneStranded
      /\ Exposing
  BY DEF IInv
<1>2. /\ cloud'[n] = "live" /\ cloud'[s] # "live" /\ s \in Names
      /\ s # None /\ Rank(n) < Rank(s) /\ n \notin Protected
  BY CleanupAssumption DEF Stranded
<1>3. s # n
  BY <1>2, RankType
<1>4. ASSUME Stranded(n) PROVE FALSE
  BY <1>1, <1>4, RegularStep DEF NoneStranded, Regular
<1>5. CASE cloud[n] = "live"
  <2>1. cloud[s] = "live"
    BY <1>2, <1>4, <1>5 DEF Stranded
  <2>2. PICK r \in Runs : pc[r] = "delete" /\ current[r] = s
    BY <1>1, <1>2, <2>1, CloudStep
  <2>3. pc[r] \in Active /\ Regular(n)
    <3>1. pc[r] \in Active
      BY <2>2 DEF Active
    <3>. QED
      BY <1>1, <3>1, RegularStep
  <2>4. seen[r][n] = "live"
    BY <1>1, <1>2, <1>5, <2>3 DEF Sighted, Protection
  <2>5. ~dry[r] /\ n \notin todo[r]
    <3>1. n \in todo[r] => Rank(s) < Rank(n)
      BY <1>1, <2>2 DEF Ranked
    <3>2. Rank(s) \in Nat /\ Rank(n) \in Nat
      BY <1>2, RankType
    <3>. QED
      BY <1>1, <1>2, <2>2, <3>1, <3>2 DEF Ranked
  <2>. QED
    BY <1>1, <1>3, <1>5, <2>2, <2>3, <2>4, <2>5 DEF Passed
<1>6. CASE cloud[n] # "live"
  <2>1. PICK m \in Makers : Create(m) /\ item[m] = n
    BY <1>1, <1>2, <1>6, CloudStep
  <2>2. cloud[s] = "live" /\ cloud' = [cloud EXCEPT ![n] = "live"]
    BY <1>2, <2>1 DEF Create
  <2>. QED
    BY <1>1, <1>2, <1>3, <2>2 DEF TypeOK
<1>. QED
  BY <1>5, <1>6

-----------------------------------------------------------------------------
(***************************************************************************)
(* Names that are claimed once.                                            *)
(***************************************************************************)

\* A claim counts when it begins; nothing else does.
LEMMA ClaimsStep ==
    ASSUME TypeOK, [Next]_vars
    PROVE  \/ claims' = claims
           \/ \E m \in Makers, n \in Names :
                 BeginClaim(m, n) /\ claims' = [claims EXCEPT ![n] = @ + 1]
<1>1. ASSUME NEW m \in Makers, MakerStep(m)
      PROVE  \/ claims' = claims
             \/ \E n \in Names :
                   BeginClaim(m, n) /\ claims' = [claims EXCEPT ![n] = @ + 1]
  BY <1>1 DEF MakerStep, BeginClaim, Claim, Create, BeginRecord, RecordIdentity,
     MakerStops
<1>2. ASSUME NEW k \in Names, Purge(k) \/ Unprotect(k) PROVE claims' = claims
  BY <1>2 DEF Purge, Unprotect, makerVars
<1>3. ASSUME NEW r \in Runs, RunStep(r) \/ Crash(r) PROVE claims' = claims
  BY <1>3 DEF RunStep, Load, Merge, Walk, Delete, DeleteFails, Confirm, Report,
     Crash, makerVars
<1>. QED
  BY <1>1, <1>2, <1>3 DEF Next, vars, makerVars

LEMMA FewerClaims ==
    ASSUME TypeOK, [Next]_vars, NEW n \in Names
    PROVE  /\ claims[n] \in Nat /\ claims'[n] \in Nat /\ claims[n] <= claims'[n]
           /\ \A m \in Makers :
                 BeginClaim(m, n) => claims'[n] = claims[n] + 1
<1>1. claims[n] \in Nat
  BY DEF TypeOK
<1>2. claims'[n] = claims[n] \/ claims'[n] = claims[n] + 1
  BY ClaimsStep DEF TypeOK
<1>3. \A m \in Makers : BeginClaim(m, n) => claims'[n] = claims[n] + 1
  BY DEF BeginClaim, TypeOK
<1>. QED
  BY <1>1, <1>2, <1>3

\* How a maker comes to its name and to its next step.
LEMMA ItemStep ==
    ASSUME TypeOK, [Next]_vars, NEW m \in Makers, NEW n \in Names, item'[m] = n
    PROVE  \/ BeginClaim(m, n) /\ maker'[m] = "claim"
           \/ /\ item[m] = n
              /\ maker'[m] = "claim" => maker[m] = "claim"
              /\ maker'[m] = "claimed" => maker[m] \in {"claim", "claimed"}
<1>1. ASSUME NEW x \in Makers, MakerStep(x), x # m
      PROVE  item'[m] = item[m] /\ maker'[m] = maker[m]
  BY <1>1 DEF MakerStep, BeginClaim, Claim, Create, BeginRecord, RecordIdentity,
     MakerStops, MakerEnds, TypeOK
<1>2. CASE \E k \in Names : BeginClaim(m, k)
  BY <1>2 DEF BeginClaim, TypeOK
<1>3. CASE Claim(m) \/ Create(m) \/ BeginRecord(m)
  BY <1>3 DEF Claim, Create, BeginRecord, TypeOK
<1>4. CASE RecordIdentity(m) \/ MakerStops(m)
  BY <1>4, CleanupAssumption DEF RecordIdentity, MakerStops, MakerEnds, TypeOK
<1>5. ASSUME NEW k \in Names, Purge(k) \/ Unprotect(k) PROVE UNCHANGED makerVars
  BY <1>5 DEF Purge, Unprotect
<1>6. ASSUME NEW r \in Runs, RunStep(r) \/ Crash(r) PROVE UNCHANGED makerVars
  BY <1>6 DEF RunStep, Load, Merge, Walk, Delete, DeleteFails, Confirm, Report,
     Crash
<1>. QED
  BY <1>1, <1>2, <1>3, <1>4, <1>5, <1>6 DEF Next, MakerStep, vars, makerVars

LEMMA AloneStep == IInv /\ [Next]_vars => Alone'
<1>. SUFFICES ASSUME IInv, [Next]_vars, NEW n \in Names
              PROVE  /\ claims'[n] = 0 => \A m \in Makers : item'[m] # n
                     /\ claims'[n] <= 1 =>
                           \A m1, m2 \in Makers :
                               item'[m1] = n /\ item'[m2] = n => m1 = m2
  BY DEF Alone
<1>1. TypeOK /\ Alone
  BY DEF IInv
<1>2. /\ claims[n] \in Nat /\ claims'[n] \in Nat /\ claims[n] <= claims'[n]
      /\ \A m \in Makers : BeginClaim(m, n) => claims'[n] = claims[n] + 1
  BY <1>1, FewerClaims
<1>3. ASSUME claims'[n] = 0, NEW m \in Makers, item'[m] = n PROVE FALSE
  <2>1. claims[n] = 0 /\ ~BeginClaim(m, n)
    BY <1>2, <1>3
  <2>. QED
    BY <1>1, <1>3, <2>1, ItemStep DEF Alone
<1>4. ASSUME claims'[n] <= 1, NEW m1 \in Makers, NEW m2 \in Makers,
             item'[m1] = n, item'[m2] = n
      PROVE  m1 = m2
  <2>1. CASE BeginClaim(m1, n) \/ BeginClaim(m2, n)
    <3>1. claims[n] = 0
      BY <1>2, <1>4, <2>1
    <3>2. item[m1] # n /\ item[m2] # n
      BY <1>1, <3>1 DEF Alone
    <3>3. BeginClaim(m1, n) /\ BeginClaim(m2, n)
      BY <1>1, <1>4, <3>2, ItemStep
    <3>. QED
      BY <1>1, <1>4, <3>2, <3>3 DEF BeginClaim, TypeOK
  <2>2. CASE ~BeginClaim(m1, n) /\ ~BeginClaim(m2, n)
    <3>1. item[m1] = n /\ item[m2] = n
      BY <1>1, <1>4, <2>2, ItemStep
    <3>2. claims[n] <= 1
      BY <1>2, <1>4
    <3>. QED
      BY <1>1, <3>1, <3>2 DEF Alone
  <2>. QED
    BY <2>1, <2>2
<1>. QED
  BY <1>3, <1>4

\* A name that is not there yet was not there before.
LEMMA BeforeStep ==
    ASSUME TypeOK, [Next]_vars, NEW n \in Names, Before(n)'
    PROVE  Before(n)
<1>1. /\ claims[n] \in Nat /\ claims'[n] \in Nat /\ claims[n] <= claims'[n]
      /\ \A m \in Makers : BeginClaim(m, n) => claims'[n] = claims[n] + 1
  BY FewerClaims
<1>2. CASE claims'[n] = 0
  BY <1>1, <1>2 DEF Before
<1>3. CASE /\ claims'[n] <= 1 /\ Source[n] = None
           /\ \E m \in Makers : item'[m] = n /\ maker'[m] \in {"claim", "claimed"}
  <2>1. PICK m \in Makers : item'[m] = n /\ maker'[m] \in {"claim", "claimed"}
    BY <1>3
  <2>2. CASE BeginClaim(m, n)
    BY <1>1, <1>3, <2>2 DEF Before
  <2>3. CASE ~BeginClaim(m, n)
    <3>1. item[m] = n /\ maker[m] \in {"claim", "claimed"}
      BY <2>1, <2>3, ItemStep
    <3>2. claims[n] <= 1
      BY <1>1, <1>3
    <3>. QED
      BY <1>3, <3>1, <3>2 DEF Before, Single
  <2>. QED
    BY <2>2, <2>3
<1>. QED
  BY <1>2, <1>3 DEF Before, Single

\* Its maker is not past the creation.
LEMMA BeforeMaker ==
    ASSUME TypeOK, Alone, [Next]_vars, NEW n \in Names, Before(n)',
           NEW m \in Makers, item[m] = n
    PROVE  ~Create(m) /\ ~RecordIdentity(m)
<1>1. /\ claims[n] \in Nat /\ claims'[n] \in Nat /\ claims[n] <= claims'[n]
      /\ \A x \in Makers : BeginClaim(x, n) => claims'[n] = claims[n] + 1
  BY FewerClaims
<1>2. claims[n] # 0
  BY DEF Alone
<1>3. PICK x \in Makers : /\ item'[x] = n /\ maker'[x] \in {"claim", "claimed"}
                          /\ claims'[n] <= 1
  BY <1>1, <1>2 DEF Before, Single
<1>4. ~BeginClaim(x, n)
  BY <1>1, <1>2, <1>3
<1>5. item[x] = n /\ claims[n] <= 1
  BY <1>1, <1>3, <1>4, ItemStep
<1>6. x = m
  BY <1>5 DEF Alone
<1>. QED
  BY <1>3, <1>6 DEF Create, RecordIdentity, MakerEnds, TypeOK

LEMMA NotYetStep == IInv /\ [Next]_vars => NotYet'
<1>. SUFFICES ASSUME IInv, [Next]_vars, NEW n \in Names, Before(n)'
              PROVE  /\ cloud'[n] \in {"none", "foreign"} /\ file'[n] \notin Made
                     /\ \A m \in Makers : draft'[m][n] \notin Made
                     /\ \A r \in Runs : /\ mem'[r][n] \notin Made
                                        /\ seen'[r][n] \in {"absent", "foreign"}
                                        /\ current'[r] # n
  BY DEF NotYet
<1>1. TypeOK /\ Alone /\ NotYet
  BY DEF IInv
<1>2. /\ cloud[n] \in {"none", "foreign"} /\ file[n] \notin Made
      /\ \A m \in Makers : draft[m][n] \notin Made
      /\ \A r \in Runs : /\ mem[r][n] \notin Made
                         /\ seen[r][n] \in {"absent", "foreign"}
                         /\ current[r] # n
  BY <1>1, BeforeStep DEF NotYet
<1>3. \A m \in Makers : item[m] = n => ~Create(m) /\ ~RecordIdentity(m)
  BY <1>1, BeforeMaker
<1>4. cloud'[n] \in {"none", "foreign"}
  BY <1>1, <1>2, <1>3, CloudStep
<1>. USE <1>1
<1>5. Blank[n] \notin Made /\ Unseen[n] = "absent" /\ None # n
  BY CleanupAssumption DEF Blank, Unseen, Made
<1>6. ASSUME NEW m \in Makers, MakerStep(m)
      PROVE  /\ file'[n] \notin Made
             /\ \A x \in Makers : draft'[x][n] \notin Made
             /\ UNCHANGED runVars
  <2>1. CASE Claim(m)
    <3>0. draft[m][n] \in {"none", "intended", "refused"}
      BY <1>2 DEF TypeOK, Ledgers, Statuses, Made
    <3>1. file'[n] \notin Made
      BY <2>1, <1>2, <3>0, ClaimEffect DEF ClaimedRow, Made
    <3>. QED
      BY <2>1, <1>2, <1>5, <3>1 DEF Claim
  <2>2. CASE RecordIdentity(m)
    <3>1. file'[n] \notin Made
      BY <2>2, <1>2, <1>3, RecordEffect
    <3>. QED
      BY <2>2, <1>2, <1>5, <3>1 DEF RecordIdentity, MakerEnds, TypeOK
  <2>3. CASE (\E k \in Names : BeginClaim(m, k)) \/ BeginRecord(m)
    <3>1. draft' = [draft EXCEPT ![m] = file] /\ UNCHANGED <<file, runVars>>
      BY <2>3 DEF BeginClaim, BeginRecord
    <3>. QED
      BY <3>1, <1>2 DEF TypeOK
  <2>4. CASE Create(m)
    BY <2>4, <1>2 DEF Create
  <2>5. CASE MakerStops(m)
    BY <2>5, <1>2, <1>5 DEF MakerStops, MakerEnds, TypeOK
  <2>. QED
    BY <1>6, <2>1, <2>2, <2>3, <2>4, <2>5 DEF MakerStep
<1>7. ASSUME NEW k \in Names, Purge(k) \/ Unprotect(k)
      PROVE  UNCHANGED <<file, makerVars, runVars>>
  BY <1>7 DEF Purge, Unprotect
<1>8. ASSUME NEW r \in Runs, RunStep(r) \/ Crash(r)
      PROVE  /\ file'[n] \notin Made /\ UNCHANGED makerVars
             /\ \A q \in Runs : /\ mem'[q][n] \notin Made
                                /\ seen'[q][n] \in {"absent", "foreign"}
                                /\ current'[q] # n
  <2>1. CASE Merge(r)
    <3>1. Inventory[n] \in {"absent", "foreign"}
      BY <1>2, InventoryType, InventorySays
    <3>2. mem'[r][n] \notin Made /\ file'[n] = mem'[r][n]
      BY <2>1, <1>2, <3>1, MergeEffect DEF Listed
    <3>. QED
      BY <2>1, <1>2, <3>1, <3>2, MergeEffect DEF Merge, TypeOK
  <2>2. CASE Walk(r)
    <3>1. PICK k \in Names, s \in Statuses \cup {"none"} :
             /\ Settles(r, k, s)
             /\ mem' = [mem EXCEPT ![r] = [mem[r] EXCEPT ![k] = s]]
             /\ \/ ToDelete(r, k) /\ current' = [current EXCEPT ![r] = k]
                \/ current' = current
             /\ file' = file \/ \A x \in Names : file'[x] = mem'[r][x]
      BY <2>2, WalkEffect
    <3>2. k = n => s \notin Made /\ ~ToDelete(r, k)
      BY <3>1, <1>2 DEF Settles, Settled, ToDelete, Made
    <3>3. \A q \in Runs : mem'[q][n] \notin Made
      BY <3>1, <3>2, <1>2 DEF TypeOK, Ledgers
    <3>4. \A q \in Runs : current'[q] # n
      BY <3>1, <3>2, <1>2 DEF TypeOK
    <3>. QED
      BY <2>2, <1>2, <3>1, <3>3, <3>4 DEF Walk
  <2>3. CASE Confirm(r)
    <3>1. file'[n] = mem'[r][n] /\ mem'[r][n] \notin Made
      BY <2>3, <1>2, ConfirmEffect
    <3>2. \A q \in Runs \ {r} : mem'[q] = mem[q]
      BY <2>3, ConfirmEffect DEF TypeOK
    <3>3. \A q \in Runs : mem'[q][n] \notin Made
      BY <1>2, <3>1, <3>2
    <3>. QED
      BY <2>3, <1>2, <1>5, <3>1, <3>3 DEF Confirm, TypeOK
  <2>4. CASE DeleteFails(r)
    BY <2>4, <1>2, <1>5, FailEffect DEF DeleteFails, Ends, TypeOK
  <2>5. CASE ~Merge(r) /\ ~Walk(r) /\ ~Confirm(r) /\ ~DeleteFails(r)
    BY <1>8, <2>5, <1>2, <1>5 DEF RunStep, Load, Delete, Report, Crash, Ends, TypeOK
  <2>. QED
    BY <2>1, <2>2, <2>3, <2>4, <2>5
<1>9. CASE UNCHANGED vars
  BY <1>2, <1>9 DEF vars, makerVars, runVars
<1>. QED
  BY <1>2, <1>4, <1>6, <1>7, <1>8, <1>9 DEF Next, makerVars, runVars

LEMMA OnceStep == IInv /\ [Next]_vars => Once'
<1>. SUFFICES ASSUME IInv, [Next]_vars, NEW n \in Names, Single(n)',
                     cloud'[n] = "live"
              PROVE  /\ file'[n] \notin Closed
                     /\ \A m \in Makers : draft'[m][n] \notin Closed
                     /\ \A r \in Runs :
                           /\ mem'[r][n] \notin Closed
                           /\ pc'[r] \in Active /\ mem'[r][n] \in Made =>
                                 seen'[r][n] \in {"live", "protected"}
                           /\ pc'[r] = "deleted" => current'[r] # n
  BY DEF Once
<1>1. TypeOK /\ Merged /\ NotYet /\ Once
  BY DEF IInv
<1>. USE <1>1
<1>2. Single(n)
  BY FewerClaims DEF Single
<1>3. CASE cloud[n] # "live"
  <2>1. PICK m \in Makers : Create(m) /\ item[m] = n
    BY <1>3, CloudStep
  <2>2. Before(n)
    BY <1>2, <2>1 DEF Before, Create
  <2>3. /\ file[n] \notin Made
        /\ \A x \in Makers : draft[x][n] \notin Made
        /\ \A r \in Runs : mem[r][n] \notin Made /\ current[r] # n
    BY <2>2 DEF NotYet
  <2>. QED
    BY <2>1, <2>3 DEF Create, runVars, Made, Closed
<1>4. CASE cloud[n] = "live"
  <2>1. /\ file[n] \notin Closed
        /\ \A m \in Makers : draft[m][n] \notin Closed
        /\ \A r \in Runs :
              /\ mem[r][n] \notin Closed
              /\ pc[r] \in Active /\ mem[r][n] \in Made =>
                    seen[r][n] \in {"live", "protected"}
              /\ pc[r] = "deleted" => current[r] # n
    BY <1>2, <1>4 DEF Once
  <2>2. Blank[n] \notin Closed
    BY DEF Blank, Closed
  <2>3. ASSUME NEW m \in Makers, MakerStep(m)
        PROVE  /\ file'[n] \notin Closed
               /\ \A x \in Makers : draft'[x][n] \notin Closed
               /\ UNCHANGED runVars
    <3>1. CASE Claim(m)
      <4>1. file'[n] \notin Closed
        BY <3>1, <2>1, ClaimEffect DEF ClaimedRow, Closed
      <4>. QED
        BY <3>1, <2>1, <2>2, <4>1 DEF Claim, TypeOK
    <3>2. CASE RecordIdentity(m)
      <4>1. file'[n] \notin Closed
        BY <3>2, <2>1, RecordEffect DEF Closed
      <4>. QED
        BY <3>2, <2>1, <2>2, <4>1 DEF RecordIdentity, MakerEnds, TypeOK
    <3>3. CASE (\E k \in Names : BeginClaim(m, k)) \/ BeginRecord(m)
      <4>1. draft' = [draft EXCEPT ![m] = file] /\ UNCHANGED <<file, runVars>>
        BY <3>3 DEF BeginClaim, BeginRecord
      <4>. QED
        BY <4>1, <2>1 DEF TypeOK
    <3>4. CASE Create(m)
      BY <3>4, <2>1 DEF Create
    <3>5. CASE MakerStops(m)
      BY <3>5, <2>1, <2>2 DEF MakerStops, MakerEnds, TypeOK
    <3>. QED
      BY <2>3, <3>1, <3>2, <3>3, <3>4, <3>5 DEF MakerStep
  <2>4. ASSUME NEW k \in Names, Purge(k) \/ Unprotect(k)
        PROVE  UNCHANGED <<file, makerVars, runVars>>
    BY <2>4 DEF Purge, Unprotect
  <2>5. ASSUME NEW r \in Runs, RunStep(r) \/ Crash(r)
        PROVE  /\ file'[n] \notin Closed /\ UNCHANGED makerVars
               /\ \A q \in Runs :
                     /\ mem'[q][n] \notin Closed
                     /\ pc'[q] \in Active /\ mem'[q][n] \in Made =>
                           seen'[q][n] \in {"live", "protected"}
                     /\ pc'[q] = "deleted" => current'[q] # n
    <3>1. CASE Merge(r)
      <4>1. Inventory[n] \in {"live", "protected"}
        BY <1>2, <1>4, InventorySays DEF Single, Stranded
      <4>2. mem'[r][n] \notin Closed /\ file'[n] = mem'[r][n]
        BY <3>1, <2>1, <4>1, MergeEffect DEF Closed
      <4>3. seen'[r][n] \in {"live", "protected"} /\ pc'[r] = "walk"
        BY <3>1, <4>1, MergeEffect DEF TypeOK
      <4>4. /\ UNCHANGED <<makerVars, current>>
            /\ \A q \in Runs \ {r} :
                  mem'[q] = mem[q] /\ seen'[q] = seen[q] /\ pc'[q] = pc[q]
        <5>1. UNCHANGED <<makerVars, current>>
          BY <3>1 DEF Merge
        <5>2. /\ \A q \in Runs \ {r} : mem'[q] = mem[q]
              /\ pc' = [pc EXCEPT ![r] = "walk"]
              /\ seen' = [seen EXCEPT ![r] = Inventory]
          BY <3>1, MergeEffect
        <5>. QED
          BY <5>1, <5>2 DEF TypeOK
      <4>. QED
        BY <2>1, <4>2, <4>3, <4>4
    <3>2. CASE Walk(r)
      <4>1. PICK k \in Names, s \in Statuses \cup {"none"} :
               /\ Settles(r, k, s) /\ pc[r] = "walk"
               /\ mem' = [mem EXCEPT ![r] = [mem[r] EXCEPT ![k] = s]]
               /\ \/ /\ pc' = [pc EXCEPT ![r] = "delete"]
                     /\ current' = [current EXCEPT ![r] = k]
                  \/ pc' = pc /\ current' = current
               /\ file' = file \/ \A x \in Names : file'[x] = mem'[r][x]
        BY <3>2, WalkEffect
      <4>2. ASSUME k = n
            PROVE  /\ s \notin Closed
                   /\ s \in Made => seen[r][n] \in {"live", "protected"}
        <5>1. pc[r] \in Active
          BY <4>1 DEF Active
        <5>2. seen[r][n] = "delayed" => mem[r][n] = "refused"
          <6>1. mem[r][n] \in Statuses \cup {"none"}
            BY DEF TypeOK, Ledgers
          <6>. QED
            BY <2>1, <5>1, <6>1 DEF Merged, Statuses, Made, Closed
        <5>3. mem[r][n] \notin Closed
          BY <2>1
        <5>4. mem[r][n] \in Made => seen[r][n] \in {"live", "protected"}
          BY <2>1, <5>1
        <5>. QED
          BY <4>1, <4>2, <5>2, <5>3, <5>4 DEF Settles, Settled, ToDelete, Made, Closed
      <4>3. mem'[r][n] = IF n = k THEN s ELSE mem[r][n]
        BY <4>1 DEF TypeOK, Ledgers
      <4>4. /\ mem'[r][n] \notin Closed
            /\ mem'[r][n] \in Made => seen[r][n] \in {"live", "protected"}
        BY <2>1, <4>1, <4>2, <4>3 DEF Active
      <4>5. /\ pc'[r] # "deleted" /\ UNCHANGED <<seen, makerVars>>
            /\ \A q \in Runs \ {r} : /\ mem'[q] = mem[q] /\ pc'[q] = pc[q]
                                     /\ current'[q] = current[q]
        BY <3>2, <4>1 DEF Walk, TypeOK
      <4>. QED
        BY <2>1, <4>1, <4>4, <4>5
    <3>3. CASE Confirm(r)
      <4>1. pc[r] = "deleted" /\ n # current[r] /\ pc'[r] = "walk"
        BY <3>3, <2>1, ConfirmEffect DEF TypeOK
      <4>2. file'[n] = mem[r][n] /\ mem'[r][n] = mem[r][n]
        BY <3>3, <4>1, ConfirmEffect
      <4>3. /\ UNCHANGED <<makerVars, seen>>
            /\ \A q \in Runs \ {r} : /\ mem'[q] = mem[q] /\ pc'[q] = pc[q]
                                     /\ current'[q] = current[q]
        BY <3>3 DEF Confirm, Goto, TypeOK
      <4>. QED
        BY <2>1, <4>1, <4>2, <4>3 DEF Active
    <3>4. CASE Delete(r)
      <4>1. current[r] # n
        <5>1. current[r] \in Names /\ Vanishes(current[r])
          BY <3>4 DEF Delete, TypeOK
        <5>. QED
          BY <5>1, Vanished
      <4>. QED
        BY <2>1, <3>4, <4>1 DEF Delete, Goto, TypeOK, Active
    <3>5. CASE DeleteFails(r) \/ Report(r) \/ Crash(r)
      <4>1. file'[n] \notin Closed /\ UNCHANGED makerVars /\ Ends(r)
        BY <2>1, <3>5, FailEffect DEF DeleteFails, Report, Crash
      <4>. QED
        BY <2>1, <2>2, <4>1 DEF Ends, Goto, TypeOK, Active
    <3>6. CASE \E d \in BOOLEAN : Load(r, d)
      BY <2>1, <3>6 DEF Load, Goto, TypeOK, Active
    <3>. QED
      BY <2>5, <3>1, <3>2, <3>3, <3>4, <3>5, <3>6 DEF RunStep
  <2>6. CASE UNCHANGED vars
    BY <2>1, <2>6 DEF vars, makerVars, runVars
  <2>. QED
    BY <2>1, <2>3, <2>4, <2>5, <2>6 DEF Next, makerVars, runVars
<1>. QED
  BY <1>3, <1>4

-----------------------------------------------------------------------------
(***************************************************************************)
(* The theorems.                                                           *)
(***************************************************************************)

LEMMA InitInvariant == Init => IInv
<1>. SUFFICES ASSUME Init PROVE IInv
  OBVIOUS
<1>1. TypeOK
  BY TypeInit
<1>2. /\ \A n \in Names : /\ file[n] = "none" /\ cloud[n] \in {"none", "foreign"}
                          /\ claims[n] = 0
      /\ \A m \in Makers, n \in Names : draft[m][n] = "none"
      /\ \A m \in Makers : maker[m] = "idle" /\ item[m] = None
      /\ \A r \in Runs, n \in Names : mem[r][n] = "none" /\ seen[r][n] = "absent"
      /\ \A r \in Runs : pc[r] = "idle" /\ current[r] = None
      /\ protected = Protected
  BY DEF Init, Blank, Unseen
<1>3. \A n \in Names : n # None
  BY CleanupAssumption
<1>4. Refusals /\ Protection /\ Merged
  BY <1>2 DEF Refusals, Protection, Merged, Active
<1>5. Exposing /\ Opened /\ Sighted /\ Truthful /\ Passed /\ Ranked
  BY <1>2 DEF Exposing, Opened, Sighted, Truthful, Passed, Ranked, Active
<1>6. Excused /\ NoneStranded
  BY <1>2 DEF Excused, NoneStranded, Buried, Stranded
<1>7. Alone /\ NotYet /\ Once
  BY <1>2, <1>3 DEF Alone, NotYet, Once, Made
<1>. QED
  BY <1>1, <1>4, <1>5, <1>6, <1>7 DEF IInv

LEMMA StepInvariant == IInv /\ [Next]_vars => IInv'
BY TypeStep, RefusalsStep, ProtectionStep, MergedStep, ExposingStep, OpenedStep,
   SightedStep, TruthfulStep, PassedStep, RankedStep, ExcusedStep, StrandedStep,
   AloneStep, NotYetStep, OnceStep
DEF IInv

\* The invariant of the ledger: what a pass knows, what the saved rows say, and
\* what is there, agree on every resource that was not made during a pass and
\* whose row was not overwritten.
THEOREM LedgerInvariant == Spec => []IInv
BY InitInvariant, StepInvariant, PTL DEF Spec

\* Every variable keeps its type.
THEOREM TypeCorrect == Spec => []TypeOK
<1>1. IInv => TypeOK
  BY DEF IInv
<1>. QED
  BY <1>1, LedgerInvariant, PTL

\* An instance is not deleted before the backups that are owned through it, for
\* any resources and any number of passes at once, unless a backup was in the
\* making during a pass or its row was overwritten (cleanup_ledger.go: rows are
\* taken by rank, and a failed deletion ends the pass).
THEOREM BackupsGoFirst == Spec => []NoneStranded
<1>1. IInv => NoneStranded
  BY DEF IInv
<1>. QED
  BY <1>1, LedgerInvariant, PTL

\* A row says "gone" or "tombstone" of a live resource only if it was
\* overwritten, or if the resource was made during a pass under a name used
\* before or owned through another (cleanup_ledger.go: what is intended and not
\* there stays intended).
THEOREM RowsAreRight == Spec => []GoneIsGone
<1>1. IInv => GoneIsGone
  <2>. SUFFICES ASSUME IInv, NEW n \in Names, Buried(n)
                PROVE  \/ n \in clobbered
                       \/ n \in exposed /\ (claims[n] > 1 \/ Source[n] # None)
    BY DEF GoneIsGone
  <2>1. TypeOK /\ Excused /\ Once
    BY DEF IInv
  <2>2. n \in exposed \cup clobbered
    BY <2>1 DEF Excused, Regular
  <2>3. ~Single(n)
    BY <2>1 DEF Once, Buried, Closed
  <2>4. claims[n] \in Nat
    BY <2>1 DEF TypeOK
  <2>. QED
    BY <2>2, <2>3, <2>4 DEF Single
<1>. QED
  BY <1>1, LedgerInvariant, PTL

\* Only a report changes a verdict to "complete", and its inventory is of that
\* moment.
LEMMA CompleteStep ==
    ASSUME IInv, [Next]_vars, NEW r \in Runs, verdict'[r] = "complete",
           verdict[r] # "complete", NEW n \in Names, cloud[n] = "live"
    PROVE  Stranded(n) /\ n \in exposed \cup clobbered
<1>1. TypeOK /\ NoneStranded
  BY DEF IInv
<1>2. Report(r)
  <2>1. ASSUME NEW m \in Makers, MakerStep(m) PROVE FALSE
    BY <2>1 DEF MakerStep, BeginClaim, Claim, Create, BeginRecord, RecordIdentity,
       MakerStops, runVars
  <2>2. ASSUME NEW k \in Names, Purge(k) \/ Unprotect(k) PROVE FALSE
    BY <2>2 DEF Purge, Unprotect, runVars
  <2>3. ASSUME NEW q \in Runs, RunStep(q) \/ Crash(q) PROVE Report(r)
    BY <1>1, <2>3 DEF RunStep, Load, Merge, Walk, Delete, DeleteFails, Confirm,
       Report, Crash, TypeOK
  <2>. QED
    BY <2>1, <2>2, <2>3 DEF Next, vars, runVars
<1>3. Verdict(r, Inventory) = "complete"
  BY <1>1, <1>2 DEF Report, TypeOK
<1>4. Inventory[n] \notin {"live", "protected"}
  BY <1>3 DEF Verdict
<1>5. Stranded(n)
  BY <1>1, <1>4, InventorySays
<1>. QED
  BY <1>1, <1>5 DEF NoneStranded

\* When a pass reports "complete" nothing that the run owns is live, except for
\* backups stranded as above (cleanup_ledger.go: the second inventory).
THEOREM CompleteIsClean == Spec => CompleteMeansClean
<1>1. IInv /\ [Next]_vars =>
        [\A r \in Runs : verdict'[r] = "complete" /\ verdict[r] # "complete" =>
            \A n \in Names :
                cloud[n] = "live" => Stranded(n) /\ n \in exposed \cup clobbered]_vars
  BY CompleteStep
<1>. QED
  BY <1>1, LedgerInvariant, PTL DEF Spec, CompleteMeansClean
=============================================================================
