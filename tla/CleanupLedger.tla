---------------------------- MODULE CleanupLedger ----------------------------
(***************************************************************************)
(* The cleanup ledger of one acceptance run: a JSON document that says     *)
(* what the run owns in the cloud, saved whole and without a lock by       *)
(*   - the maker of a resource: claim it, create it, record its identity;  *)
(*   - "cleanup reconcile" and, without deletions, "cleanup plan": merge   *)
(*     the inventory into the ledger, walk it in rank order, delete what   *)
(*     is owned and live, and look again.                                  *)
(* The provider is any that the ledger's interface allows.  As the Cloud   *)
(* SQL adapter does, it identifies a resource by its name and may own a    *)
(* backup only through the instance it was made from; it may also report   *)
(* delayed deletion and resources of others, which ReconcileCleanup        *)
(* handles and no adapter reports yet.  A claimed row has its identity, as *)
(* every way to write one gives it, and a refused row has none.            *)
(***************************************************************************)
EXTENDS Naturals, Sequences

CONSTANTS
    Order,     \* the names of the resources, in the order of rank and key
    Source,    \* Source[n]: the instance that n is owned through, or None
    Contested, \* names that somebody else's resource may have taken
    Protected, \* resources that deletion protection was asked for
    Delayed,   \* resources that the provider deletes with a delay
    MaxClaims, \* MaxClaims[n]: bound on how often n is claimed
    Makers,    \* processes that make resources
    Runs,      \* processes that run "cleanup reconcile" or "cleanup plan"
    MaxMishaps,  \* bound on crashes and failed deletions
    None

Names == {Order[i] : i \in DOMAIN Order}
Rank(n) == CHOOSE i \in DOMAIN Order : Order[i] = n

\* A backup has a lower rank than its instance, and only resources that are
\* owned directly can be protected, as the inventory of Cloud SQL has it.
ASSUME CleanupAssumption ==
    /\ Order \in Seq(Names)
    /\ \A i, j \in DOMAIN Order : Order[i] = Order[j] => i = j
    /\ Source \in [Names -> Names \cup {None}]
    /\ \A n \in Names :
          Source[n] # None => Rank(n) < Rank(Source[n]) /\ n \notin Protected
    /\ UNION {Contested, Protected, Delayed} \subseteq Names
    /\ MaxClaims \in [Names -> Nat] /\ MaxMishaps \in Nat
    /\ None \notin Names

Statuses == {"intended", "claimed", "deleting", "gone", "tombstone", "refused"}
Ledgers == [Names -> Statuses \cup {"none"}]

VARIABLES
    file,       \* the saved ledger: the status of each name, "none" without a row
    cloud,      \* each resource: not there, live, in delayed deletion, or
                \* somebody else's
    protected,  \* resources with deletion protection
    maker,      \* the step of each maker
    item,       \* the name it works on
    draft,      \* the ledger it has loaded
    claims,     \* how often the resource was claimed
    pc,         \* the step of each cleanup process
    dry,        \* it runs "cleanup plan"
    mem,        \* the ledger it works on
    seen,       \* the inventory it has taken
    todo,       \* names it has still to look at
    current,    \* the name it deletes
    verdict,    \* what its last report says
    mishaps,
    \* history
    exposed,    \* claimed names, or created ones, of which an inventory was
                \* taken or in use after the claim and before the creation;
                \* a new claim ends that, but not for a stranded backup
    clobbered   \* names whose row was overwritten by a save that had not seen it

makerVars == <<maker, item, draft, claims>>
runVars == <<pc, dry, mem, seen, todo, current, verdict>>
vars == <<file, cloud, protected, makerVars, runVars, mishaps, exposed,
          clobbered>>

MakerSteps == {"idle", "claim", "claimed", "created", "record"}
Active == {"walk", "delete", "deleted"}

TypeOK ==
    /\ file \in Ledgers
    /\ cloud \in [Names -> {"none", "live", "delayed", "foreign"}]
    /\ protected \subseteq Names
    /\ maker \in [Makers -> MakerSteps]
    /\ item \in [Makers -> Names \cup {None}]
    /\ \A m \in Makers : maker[m] = "idle" <=> item[m] = None
    /\ draft \in [Makers -> Ledgers] /\ claims \in [Names -> Nat]
    /\ pc \in [Runs -> {"idle", "loaded"} \cup Active]
    /\ dry \in [Runs -> BOOLEAN] /\ mem \in [Runs -> Ledgers]
    /\ seen \in [Runs -> [Names -> {"absent", "foreign", "protected", "live",
                                    "delayed"}]]
    /\ todo \in [Runs -> SUBSET Names]
    /\ current \in [Runs -> Names \cup {None}]
    /\ verdict \in [Runs -> {"none", "complete", "pending", "failed"}]
    /\ \A r \in Runs : pc[r] \in {"delete", "deleted"} <=> current[r] # None
    /\ mishaps \in 0 .. MaxMishaps
    /\ exposed \subseteq Names /\ clobbered \subseteq Names

Blank == [n \in Names |-> "none"]
Unseen == [n \in Names |-> "absent"]

Init ==
    /\ file = Blank
    /\ \E taken \in SUBSET Contested :
          cloud = [n \in Names |-> IF n \in taken THEN "foreign" ELSE "none"]
    /\ protected = Protected
    /\ maker = [m \in Makers |-> "idle"]
    /\ item = [m \in Makers |-> None]
    /\ draft = [m \in Makers |-> Blank]
    /\ claims = [n \in Names |-> 0]
    /\ pc = [r \in Runs |-> "idle"]
    /\ dry = [r \in Runs |-> FALSE]
    /\ mem = [r \in Runs |-> Blank]
    /\ seen = [r \in Runs |-> Unseen]
    /\ todo = [r \in Runs |-> {}]
    /\ current = [r \in Runs |-> None]
    /\ verdict = [r \in Runs |-> "none"]
    /\ mishaps = 0 /\ exposed = {} /\ clobbered = {}

\* The document as it was when it was read replaces the document as it is.
Save(old, new) ==
    /\ file' = new
    /\ clobbered' = clobbered \cup {n \in Names : file[n] \notin {old[n], new[n]}}

(**************************** claim and record ****************************)

BeginClaim(m, n) ==
    /\ maker[m] = "idle" /\ claims[n] < MaxClaims[n]
    /\ maker' = [maker EXCEPT ![m] = "claim"]
    /\ item' = [item EXCEPT ![m] = n]
    /\ draft' = [draft EXCEPT ![m] = file]
    /\ claims' = [claims EXCEPT ![n] = @ + 1]
    /\ UNCHANGED <<file, cloud, protected, runVars, mishaps, exposed,
                   clobbered>>

\* A backup that nothing in the inventory points to any more.
Stranded(n) ==
    cloud[n] = "live" /\ Source[n] # None /\ cloud[Source[n]] # "live"

\* A row with an identity becomes "claimed" again, whatever it was.
ClaimedRow(status) ==
    IF status \in {"none", "intended", "refused"} THEN "intended" ELSE "claimed"

Claim(m) ==
    /\ maker[m] = "claim"
    /\ Save(draft[m], [draft[m] EXCEPT ![item[m]] = ClaimedRow(@)])
    /\ maker' = [maker EXCEPT ![m] = "claimed"]
    /\ draft' = [draft EXCEPT ![m] = Blank]
    /\ exposed' = IF \E r \in Runs : pc[r] \in Active
                  THEN exposed \cup {item[m]}
                  ELSE exposed \ {n \in {item[m]} : ~Stranded(n)}
    /\ UNCHANGED <<cloud, protected, item, claims, runVars, mishaps>>

\* The provider creates the resource, marked as owned; a backup needs its
\* instance.
Create(m) ==
    /\ maker[m] = "claimed"
    /\ LET n == item[m] IN
          /\ cloud[n] = "none"
          /\ Source[n] # None => cloud[Source[n]] = "live"
          /\ cloud' = [cloud EXCEPT ![n] = "live"]
    /\ maker' = [maker EXCEPT ![m] = "created"]
    /\ UNCHANGED <<file, protected, item, draft, claims, runVars, mishaps,
                   exposed, clobbered>>

BeginRecord(m) ==
    /\ maker[m] = "created"
    /\ maker' = [maker EXCEPT ![m] = "record"]
    /\ draft' = [draft EXCEPT ![m] = file]
    /\ UNCHANGED <<file, cloud, protected, item, claims, runVars, mishaps,
                   exposed, clobbered>>

\* The maker is done with the resource, or it fails or is killed.
MakerEnds(m) ==
    /\ maker' = [maker EXCEPT ![m] = "idle"]
    /\ item' = [item EXCEPT ![m] = None]
    /\ draft' = [draft EXCEPT ![m] = Blank]

\* The identity is added; only an intended row changes its status.
RecordIdentity(m) ==
    /\ maker[m] = "record"
    /\ IF draft[m][item[m]] = "none"
       THEN UNCHANGED <<file, clobbered>>
       ELSE Save(draft[m], [draft[m] EXCEPT ![item[m]] =
                               IF @ = "intended" THEN "claimed" ELSE @])
    /\ MakerEnds(m)
    /\ UNCHANGED <<cloud, protected, claims, runVars, mishaps, exposed>>

MakerStops(m) ==
    /\ maker[m] # "idle"
    /\ MakerEnds(m)
    /\ UNCHANGED <<file, cloud, protected, claims, runVars, mishaps, exposed,
                   clobbered>>

(******************************** the provider *****************************)

Owned(n) ==
    /\ cloud[n] # "foreign"
    /\ Source[n] # None => cloud[Source[n]] = "live"

\* What the service that owns the resources lists under the marker.
Inventory ==
    [n \in Names |->
        IF cloud[n] = "live" /\ n \in protected THEN "protected"
        ELSE IF cloud[n] = "foreign" \/ (cloud[n] # "none" /\ Owned(n))
             THEN cloud[n] ELSE "absent"]

Purge(n) ==
    /\ cloud[n] = "delayed"
    /\ cloud' = [cloud EXCEPT ![n] = "none"]
    /\ UNCHANGED <<file, protected, makerVars, runVars, mishaps, exposed,
                   clobbered>>

Unprotect(n) ==
    /\ n \in protected
    /\ protected' = protected \ {n}
    /\ UNCHANGED <<file, cloud, makerVars, runVars, mishaps, exposed,
                   clobbered>>

(***************************** ReconcileCleanup ****************************)

Goto(r, p) == pc' = [pc EXCEPT ![r] = p]

\* Without a first claim there is no document to load.
Load(r, isDry) ==
    /\ pc[r] = "idle" /\ file # Blank
    /\ dry' = [dry EXCEPT ![r] = isDry]
    /\ mem' = [mem EXCEPT ![r] = file]
    /\ verdict' = [verdict EXCEPT ![r] = "none"]
    /\ Goto(r, "loaded")
    /\ UNCHANGED <<file, cloud, protected, makerVars, seen, todo, current,
                   mishaps, exposed, clobbered>>

Listed(inventory) == {n \in Names : inventory[n] \in {"live", "protected", "delayed"}}

\* An owned resource without a row is adopted, an intended one is claimed.
MergeInventory(ledger, inventory) ==
    [n \in Names |->
        CASE n \in Listed(inventory) /\ ledger[n] = "intended" -> "claimed"
          [] n \in Listed(inventory) /\ ledger[n] = "none" ->
                IF inventory[n] = "delayed" THEN "tombstone" ELSE "claimed"
          [] OTHER -> ledger[n]]

Merge(r) ==
    /\ pc[r] = "loaded"
    /\ seen' = [seen EXCEPT ![r] = Inventory]
    /\ mem' = [mem EXCEPT ![r] = MergeInventory(@, Inventory)]
    /\ Save(mem[r], mem'[r])
    /\ todo' = [todo EXCEPT ![r] = {n \in Names : mem'[r][n] # "none"}]
    /\ exposed' = exposed \cup {item[m] : m \in {x \in Makers : maker[x] = "claimed"}}
    /\ Goto(r, "walk")
    /\ UNCHANGED <<cloud, protected, makerVars, dry, current, verdict, mishaps>>

\* Rows are taken by rank: backups before what they were restored to, and
\* that before the instance they came from.
\* (Mutant: the walk goes from the highest rank to the lowest.)
LastOf(S) == CHOOSE n \in S : \A k \in S : Rank(k) <= Rank(n)
FirstOf(S) == CHOOSE n \in S : \A k \in S : Rank(n) <= Rank(k)

\* The status a row gets from what the inventory says of it; a live one goes
\* through "deleting".
\* (Mutant: an intended resource that is not there is taken for gone.)
SettledAll(status, sight) ==
    IF status \in {"gone", "refused", "tombstone"} THEN status
    ELSE CASE sight = "foreign" -> "refused"
           [] sight = "protected" -> "claimed"
           [] sight = "delayed" -> "tombstone"
           [] sight = "absent" -> "gone"
           [] OTHER -> status
Settled(status, sight) ==
    IF status \in {"gone", "refused", "tombstone"} THEN status
    ELSE CASE sight = "foreign" -> "refused"
           [] sight = "protected" -> "claimed"
           [] sight = "delayed" -> "tombstone"
           [] sight = "absent" /\ status \in {"claimed", "deleting"} -> "gone"
           [] OTHER -> status

\* (Mutant: a deletion that was interrupted is not taken up again.)
ToDeleteClaimed(r, n) ==
    /\ ~dry[r]
    /\ seen[r][n] = "live"
    /\ mem[r][n] = "claimed"
ToDelete(r, n) ==
    /\ ~dry[r]
    /\ seen[r][n] = "live"
    /\ mem[r][n] \notin {"gone", "refused", "tombstone"}

\* A row that changes is saved at once, and so is one about to be deleted.
Walk(r) ==
    /\ pc[r] = "walk" /\ todo[r] # {}
    /\ LET n == FirstOf(todo[r])
           d == ToDelete(r, n)
           s == IF d THEN "deleting" ELSE Settled(mem[r][n], seen[r][n])
       IN  /\ mem' = [mem EXCEPT ![r][n] = s]
           /\ IF d \/ s # mem[r][n] \/ seen[r][n] = "protected"
              THEN Save(mem[r], mem'[r])
              ELSE UNCHANGED <<file, clobbered>>
           /\ todo' = [todo EXCEPT ![r] = @ \ {n}]
           /\ current' = [current EXCEPT ![r] = IF d THEN n ELSE None]
           /\ Goto(r, IF d THEN "delete" ELSE "walk")
    /\ UNCHANGED <<cloud, protected, makerVars, dry, seen, verdict, mishaps,
                   exposed>>

\* The adapter looks again: what is not there is deleted already, what is
\* protected or not owned is an error; it waits until the resource is gone.
Vanishes(n) ==
    cloud' = [cloud EXCEPT ![n] = IF @ # "live" THEN @
                                  ELSE IF n \in Delayed THEN "delayed" ELSE "none"]

Delete(r) ==
    /\ pc[r] = "delete"
    /\ LET n == current[r] IN
          /\ cloud[n] = "live" => Owned(n) /\ n \notin protected
          /\ Vanishes(n)
    /\ Goto(r, "deleted")
    /\ UNCHANGED <<file, protected, makerVars, dry, mem, seen, todo, current,
                   verdict, mishaps, exposed, clobbered>>

Confirm(r) ==
    /\ pc[r] = "deleted"
    /\ mem' = [mem EXCEPT ![r][current[r]] = "gone"]
    /\ Save(mem[r], mem'[r])
    /\ current' = [current EXCEPT ![r] = None]
    /\ Goto(r, "walk")
    /\ UNCHANGED <<cloud, protected, makerVars, dry, seen, todo, verdict, mishaps,
                   exposed>>

\* The process is over: its memory goes with it.
Ends(r) ==
    /\ Goto(r, "idle")
    /\ dry' = [dry EXCEPT ![r] = FALSE]
    /\ mem' = [mem EXCEPT ![r] = Blank]
    /\ seen' = [seen EXCEPT ![r] = Unseen]
    /\ todo' = [todo EXCEPT ![r] = {}]
    /\ current' = [current EXCEPT ![r] = None]

\* The deletion fails, or its answer is lost: the pass ends there.
DeleteFails(r) ==
    /\ pc[r] = "delete"
    /\ LET n == current[r] IN
       IF cloud[n] = "live" /\ (~Owned(n) \/ n \in protected)
       THEN UNCHANGED <<cloud, mishaps>>
       ELSE /\ mishaps < MaxMishaps /\ mishaps' = mishaps + 1
            /\ Vanishes(n) \/ UNCHANGED cloud
    /\ Save(mem[r], mem[r])
    /\ Ends(r)
    /\ UNCHANGED <<protected, makerVars, verdict, exposed>>

\* The report, from the rows and from a second inventory.
\* (Mutant: the report relies on the rows alone.)
VerdictOfRows(r, inventory) ==
    LET Rows(S) == {n \in Names : mem[r][n] \in S} IN
    IF Rows({"refused"}) # {} THEN "failed"
    ELSE IF Rows({"claimed", "deleting", "tombstone"}) # {} THEN "pending"
    ELSE "complete"
Verdict(r, inventory) ==
    LET Rows(S) == {n \in Names : mem[r][n] \in S}
        Sights(S) == {n \in Names : inventory[n] \in S}
        Unfinished == Rows({"claimed", "deleting", "tombstone"})
        Live == Sights({"live", "protected"})
    IN  IF Rows({"refused"}) # {} THEN "failed"
        ELSE IF Live # {} THEN (IF dry[r] THEN "pending" ELSE "failed")
        ELSE IF Unfinished \cup Sights({"delayed"}) # {} THEN "pending"
        ELSE "complete"

Report(r) ==
    /\ pc[r] = "walk" /\ todo[r] = {}
    /\ verdict' = [verdict EXCEPT ![r] = Verdict(r, Inventory)]
    /\ Ends(r)
    /\ UNCHANGED <<file, cloud, protected, makerVars, mishaps, exposed,
                   clobbered>>

\* The process is killed, or an inventory or a save fails.
Crash(r) ==
    /\ pc[r] # "idle"
    /\ mishaps < MaxMishaps /\ mishaps' = mishaps + 1
    /\ Ends(r)
    /\ UNCHANGED <<file, cloud, protected, makerVars, verdict, exposed,
                   clobbered>>

MakerStep(m) ==
    \/ \E n \in Names : BeginClaim(m, n)
    \/ Claim(m) \/ Create(m) \/ BeginRecord(m) \/ RecordIdentity(m)
    \/ MakerStops(m)

RunStep(r) ==
    \/ \E isDry \in BOOLEAN : Load(r, isDry)
    \/ Merge(r) \/ Walk(r) \/ Delete(r) \/ DeleteFails(r)
    \/ Confirm(r) \/ Report(r)

Next ==
    \/ \E m \in Makers : MakerStep(m)
    \/ \E n \in Names : Purge(n) \/ Unprotect(n)
    \/ \E r \in Runs : RunStep(r) \/ Crash(r)

Spec == Init /\ [][Next]_vars

\* A process that is alive takes its steps, and it is not "plan" alone that is
\* run again and again.  Nothing is assumed of the makers and the provider.
FairSpec ==
    Spec /\ \A r \in Runs : WF_vars(RunStep(r)) /\ SF_vars(Load(r, FALSE))

(******************************** properties *******************************)

\* A live resource that no pass will look at again.
Buried(n) == cloud[n] = "live" /\ file[n] \in {"gone", "tombstone"}

\* An instance is not deleted before the backups that are owned through it,
\* whatever fails in between, unless the backup was in the making during the
\* pass or its row was overwritten (cleanup_ledger.go: the order of ranks,
\* and the pass that ends with a failed deletion).
NoneStranded == \A n \in Names : Stranded(n) => n \in exposed \cup clobbered

\* A row says "gone" of a live resource only if the row was overwritten, or
\* if a pass came between the claim and the creation and either the name had
\* been used before or ownership is through another resource.  The first
\* claim of a resource with a marker of its own is safe from that: it stays
\* "intended" while the resource is not there (cleanup_ledger.go).
GoneIsGone ==
    \A n \in Names : Buried(n) /\ ~Stranded(n) =>
        n \in clobbered \/ (n \in exposed /\ (claims[n] > 1 \/ Source[n] # None))

\* When a pass reports "complete", nothing that the run owns is live, except
\* for a stranded backup (cleanup_ledger.go: the second inventory).
CompleteMeansClean ==
    [][\A r \in Runs : verdict'[r] = "complete" /\ verdict[r] # "complete" =>
          \A n \in Names :
              cloud[n] = "live" => Stranded(n) /\ n \in exposed \cup clobbered]_vars

\* Whoever crashes and whichever saves overwrite each other, a resource of
\* the run is deleted in the end if reconcile is run again and again, unless
\* it is protected or has become one of those above (cleanup_ledger.go:
\* "safe to call again after interruption").
CleanedUp ==
    \A n \in Names :
        cloud[n] = "live" ~>
            cloud[n] # "live" \/ n \in protected \/ Buried(n) \/ Stranded(n)
==============================================================================
