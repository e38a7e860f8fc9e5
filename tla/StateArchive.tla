---------------------------- MODULE StateArchive ----------------------------
(***************************************************************************)
(* Backup and restore of the Pulumi state objects of one environment       *)
(* (internal/shared/statearchive/archive.go), over the object store of the *)
(* environment's state bucket.                                             *)
(*                                                                         *)
(* The commands hold the deployment lock, so one of them runs at a time;   *)
(* each request to the store is a step, after which the command may fail,  *)
(* be cancelled or die.  Two things do not wait for the lock: an           *)
(* infrastructure-only deploy, which writes state without taking it, and   *)
(* the bucket's expiry of old backups.                                     *)
(***************************************************************************)
EXTENDS Naturals, FiniteSets

CONSTANTS
    Keys,            \* state objects, outside the reserved prefixes
    Values,          \* their contents; a digest identifies its content
    Ids,             \* backup identities
    UnlockedWrites,  \* TRUE when state is also written without the lock
    NoObject,        \* there is no such object
    Corrupt,         \* content that nobody wrote
    NoState          \* no state to compare with

ASSUME ArchiveAssumption ==
    /\ UnlockedWrites \in BOOLEAN
    /\ NoObject \notin Values /\ Corrupt \notin Values /\ NoObject # Corrupt

Contents == [Keys -> Values \cup {NoObject, Corrupt}]
Empty == [k \in Keys |-> NoObject]

ASSUME NoStateAssumption == NoState \notin Contents /\ Corrupt \notin Contents

VARIABLES
    state,     \* the current state objects
    objects,   \* objects[i][k] is the copy of k under backup i
    manifest,  \* the manifest of each backup: the content its digests name
    marker,    \* the completion marker of each backup
    op,        \* where the running command is
    id,        \* the backup it works on
    key,       \* the object it works on
    body,      \* what it last read of that object
    todo,      \* objects it has still to copy
    stale,     \* objects a restore has still to delete
    expected,  \* the manifest being built, or the one being restored
    result,    \* how the last command ended
    origin,    \* history: the state each backup was taken of
    before     \* history: the state the last restore found

archiveVars == <<objects, manifest, marker>>
commandVars == <<id, key, body, todo, stale, expected>>
vars == <<state, archiveVars, op, commandVars, result, origin, before>>

Ops == {"idle", "read", "copy", "check", "mark", "restore", "verify"}

TypeOK ==
    /\ state \in Contents
    /\ objects \in [Ids -> Contents]
    /\ manifest \in [Ids -> Contents \cup {NoState, Corrupt}]
    /\ marker \in [Ids -> {"absent", "complete", "corrupt"}]
    /\ op \in Ops
    /\ id \in Ids
    /\ key \in Keys
    /\ body \in Values \cup {NoObject, Corrupt}
    /\ todo \subseteq Keys
    /\ stale \subseteq Keys
    /\ expected \in Contents
    /\ result \in {"none", "backed up", "restored", "error"}
    /\ origin \in [Ids -> Contents \cup {NoState}]
    /\ before \in Contents \cup {NoState}

Init ==
    /\ state \in [Keys -> Values \cup {NoObject}]
    /\ objects = [i \in Ids |-> Empty]
    /\ manifest = [i \in Ids |-> NoState]
    /\ marker = [i \in Ids |-> "absent"]
    /\ op = "idle"
    /\ id \in Ids
    /\ key \in Keys
    /\ body = NoObject
    /\ todo = {} /\ stale = {}
    /\ expected = Empty
    /\ result = "none"
    /\ origin = [i \in Ids |-> NoState]
    /\ before = NoState

-----------------------------------------------------------------------------
\* The keys a listing of s returns.
Listed(s) == {k \in Keys : s[k] # NoObject}

\* The running command returns an error.
Fail ==
    /\ op' = "idle"
    /\ result' = "error"

-----------------------------------------------------------------------------
(***************************************************************************)
(* Backup: copy and check every object, then the manifest, then the marker.*)
(***************************************************************************)

\* Something exists under the prefix of this identity.
Occupied(i) ==
    Listed(objects[i]) # {} \/ manifest[i] # NoState \/ marker[i] # "absent"

BeginBackup(i) ==
    /\ op = "idle"
    /\ ~Occupied(i)
    /\ op' = "read"
    /\ id' = i
    /\ todo' = Listed(state)
    /\ expected' = Empty
    /\ result' = "none"
    /\ origin' = [origin EXCEPT ![i] = state]
    /\ before' = NoState
    /\ UNCHANGED <<state, archiveVars, key, body, stale>>

ReadObject(k) ==
    /\ op = "read"
    /\ k \in todo
    /\ state[k] # NoObject
    /\ op' = "copy"
    /\ key' = k
    /\ body' = state[k]
    /\ UNCHANGED <<state, archiveVars, id, todo, stale, expected, result,
                   origin, before>>

CopyObject ==
    /\ op = "copy"
    /\ state[key] # NoObject
    /\ objects' = [objects EXCEPT ![id][key] = state[key]]
    /\ op' = "check"
    /\ UNCHANGED <<state, manifest, marker, commandVars, result, origin,
                   before>>

\* The copy is read back and compared with what was read before it.
CheckCopy ==
    /\ op = "check"
    /\ objects[id][key] = body
    /\ expected' = [expected EXCEPT ![key] = body]
    /\ todo' = todo \ {key}
    /\ op' = "read"
    /\ UNCHANGED <<state, archiveVars, id, key, body, stale, result, origin,
                   before>>

\* (Mutant: the manifest is written before every object is copied.)
PutManifestEarly ==
    /\ op = "read"
    /\ expected # Empty
    /\ manifest' = [manifest EXCEPT ![id] = expected]
    /\ op' = "mark"
    /\ UNCHANGED <<state, objects, marker, commandVars, result, origin, before>>
PutManifest ==
    /\ op = "read"
    /\ todo = {}
    /\ expected # Empty
    /\ manifest' = [manifest EXCEPT ![id] = expected]
    /\ op' = "mark"
    /\ UNCHANGED <<state, objects, marker, commandVars, result, origin, before>>

\* The put may be applied and its answer lost: a complete backup that was
\* reported as failed.
PutMarker ==
    /\ op = "mark"
    /\ marker' = [marker EXCEPT ![id] = "complete"]
    /\ op' = "idle"
    /\ result' \in {"backed up", "error"}
    /\ UNCHANGED <<state, objects, manifest, commandVars, origin, before>>

-----------------------------------------------------------------------------
(***************************************************************************)
(* Restore: verify the whole backup, copy it over the current state, then  *)
(* delete what the backup does not have.                                   *)
(***************************************************************************)

\* The backup is marked complete, its manifest is sound and not empty, and
\* every listed object has the digest the manifest names and no other exists.
Restorable(i) ==
    /\ marker[i] = "complete"
    /\ manifest[i] \in Contents \ {Empty}
    /\ objects[i] = manifest[i]

BeginRestore(i) ==
    /\ op = "idle"
    /\ Restorable(i)
    /\ op' = "restore"
    /\ id' = i
    /\ todo' = Listed(manifest[i])
    /\ stale' = Listed(state) \ Listed(manifest[i])
    /\ expected' = manifest[i]
    /\ result' = "none"
    /\ before' = state
    /\ UNCHANGED <<state, archiveVars, key, body, origin>>

RestoreObject(k) ==
    /\ op = "restore"
    /\ k \in todo
    /\ objects[id][k] # NoObject
    /\ state' = [state EXCEPT ![k] = objects[id][k]]
    /\ op' = "verify"
    /\ key' = k
    /\ UNCHANGED <<archiveVars, id, body, todo, stale, expected, result, origin,
                   before>>

VerifyRestored ==
    /\ op = "verify"
    /\ state[key] = expected[key]
    /\ todo' = todo \ {key}
    /\ op' = "restore"
    /\ UNCHANGED <<state, archiveVars, id, key, body, stale, expected, result,
                   origin, before>>

\* (Mutants: stale objects are deleted first; a delete leaves a tombstone.)
DeleteStaleFirst(k) ==
    /\ op = "restore"
    /\ k \in stale
    /\ state' = [state EXCEPT ![k] = NoObject]
    /\ stale' = stale \ {k}
    /\ UNCHANGED <<archiveVars, op, id, key, body, todo, expected, result,
                   origin, before>>
DeleteToTombstone(k) ==
    /\ op = "restore"
    /\ todo = {}
    /\ k \in stale
    /\ state' = [state EXCEPT ![k] = NoState]
    /\ stale' = stale \ {k}
    /\ UNCHANGED <<archiveVars, op, id, key, body, todo, expected, result,
                   origin, before>>
DeleteStale(k) ==
    /\ op = "restore"
    /\ todo = {}
    /\ k \in stale
    /\ state' = [state EXCEPT ![k] = NoObject]
    /\ stale' = stale \ {k}
    /\ UNCHANGED <<archiveVars, op, id, key, body, todo, expected, result,
                   origin, before>>

\* (Mutant: a restore that only copies.)
FinishWithStale ==
    /\ op = "restore"
    /\ todo = {}
    /\ op' = "idle"
    /\ result' = "restored"
    /\ UNCHANGED <<state, archiveVars, commandVars, origin, before>>
FinishRestore ==
    /\ op = "restore"
    /\ todo = {}
    /\ stale = {}
    /\ op' = "idle"
    /\ result' = "restored"
    /\ UNCHANGED <<state, archiveVars, commandVars, origin, before>>

-----------------------------------------------------------------------------
\* A request fails, a check does not hold, or the command is cancelled or
\* dies.  What it has written stays.
Abort ==
    /\ op # "idle"
    /\ Fail
    /\ UNCHANGED <<state, archiveVars, commandVars, origin, before>>

\* The identity of a new backup is taken.
RefuseBackup(i) ==
    /\ op = "idle"
    /\ Occupied(i)
    /\ Fail
    /\ UNCHANGED <<state, archiveVars, commandVars, origin, before>>

\* A backup that does not verify is refused before anything is changed.
RefuseRestore(i) ==
    /\ op = "idle"
    /\ ~Restorable(i)
    /\ Fail
    /\ UNCHANGED <<state, archiveVars, commandVars, origin, before>>

\* Pulumi writes or deletes a state object: under the lock between two
\* commands, or at any time by an infrastructure-only deploy.
WriteObject(k, v) ==
    /\ op = "idle" \/ UnlockedWrites
    /\ state[k] # v
    /\ state' = [state EXCEPT ![k] = v]
    /\ origin' = IF op \in {"read", "copy", "check"}
                 THEN [origin EXCEPT ![id] = NoState] ELSE origin
    /\ before' = NoState
    /\ result' = "none"
    /\ UNCHANGED <<archiveVars, op, commandVars>>

\* An object of a backup expires or rots.
Damage(i) ==
    /\ \/ \E k \in Listed(objects[i]), v \in {NoObject, Corrupt} :
             /\ objects' = [objects EXCEPT ![i][k] = v]
             /\ UNCHANGED <<manifest, marker>>
       \/ /\ manifest[i] # NoState
          /\ \E m \in {NoState, Corrupt} : manifest' = [manifest EXCEPT ![i] = m]
          /\ UNCHANGED <<objects, marker>>
       \/ /\ marker[i] # "absent"
          /\ \E m \in {"absent", "corrupt"} : marker' = [marker EXCEPT ![i] = m]
          /\ UNCHANGED <<objects, manifest>>
    /\ UNCHANGED <<state, op, commandVars, result, origin, before>>

Next ==
    \/ \E i \in Ids : BeginBackup(i) \/ RefuseBackup(i)
    \/ \E i \in Ids : BeginRestore(i) \/ RefuseRestore(i) \/ Damage(i)
    \/ \E k \in Keys : ReadObject(k) \/ RestoreObject(k) \/ DeleteStale(k)
    \/ CopyObject \/ CheckCopy \/ PutManifest \/ PutMarker
    \/ VerifyRestored \/ FinishRestore
    \/ Abort
    \/ \E k \in Keys, v \in Values \cup {NoObject} : WriteObject(k, v)

Spec == Init /\ [][Next]_vars

-----------------------------------------------------------------------------
(***************************************************************************)
(* Properties.                                                             *)
(***************************************************************************)

\* A backup that Restore accepts is the whole state it was taken of, object
\* by object, whatever attempt failed before, was reported as failed, or
\* expired since, unless state was written without the lock meanwhile
\* (Backup: copies, then manifest, then marker).
FaithfulBackup ==
    \A i \in Ids : (Restorable(i) /\ origin[i] # NoState) => objects[i] = origin[i]

\* A restore that reports success has brought back exactly the state the
\* backup was taken of, also when the backup rots while it is copied, unless
\* state was written without the lock during either (Restore: each restored
\* object is checked against the manifest, stale ones go).
RestoredExactly ==
    (result = "restored" /\ before # NoState /\ origin[id] # NoState)
        => state = origin[id]

\* A restore removes nothing before the snapshot is back: wherever it stops,
\* every object it found still exists, or the whole snapshot does (Restore:
\* "Copy the complete snapshot before deleting stale current state").
StaleLast ==
    before # NoState =>
        \/ Listed(before) \subseteq Listed(state)
        \/ \A k \in Listed(expected) : state[k] = expected[k]
=============================================================================
