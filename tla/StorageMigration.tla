-------------------------- MODULE StorageMigration --------------------------
(***************************************************************************)
(* What v1.0.0 stored in the window and the current version takes over:    *)
(* the image editor's database (app-ui/modules/images/storage-migration.js)*)
(* and the keys of localStorage (app-ui/modules/runtime/                   *)
(* storage-migration.js). Every start tries again; the window may be       *)
(* closed between two steps, and every call of the browser may fail.       *)
(***************************************************************************)
EXTENDS Integers, FiniteSets

CONSTANTS
    Records,      \* records of the image database; identifiers of one store
    Keys,         \* the parts of localStorage keys after their prefix
    MaxStarts,    \* starts of the application
    MaxWrites     \* writes of the user

VARIABLES
    legacy,       \* records of the old database, or Gone
    current,      \* records of the new one
    opened,       \* the database the editor works on
    step,         \* where migrateLegacyImagesDatabase is
    copied,       \* what copyMissingRecords has read
    written,      \* records the user wrote and did not delete
    oldKeys, newKeys,        \* values of the keys under the two prefixes
    scanned,      \* legacy keys migrateLegacyStorageNamespace still has to see
    saved,        \* the values the keys had under v1.0.0
    starts, writes

MigrationConstants == {MaxStarts, MaxWrites} \subseteq Nat

images == <<legacy, current, opened, step, copied, written>>
keys   == <<oldKeys, newKeys, scanned, saved>>
migrationVars == <<images, keys, starts, writes>>

Gone   == [there |-> FALSE, records |-> {}]
Values == {"none", "old", "new"}
Steps  == {"closed", "create", "open", "read", "write", "remove", "ready"}

MigrationInit ==
    /\ \E before \in SUBSET Records :
         /\ legacy = [there |-> TRUE, records |-> before]
         /\ written = before
    /\ current = {} /\ opened = "none" /\ step = "closed" /\ copied = {}
    /\ oldKeys \in [Keys -> {"none", "old"}]
    /\ newKeys \in [Keys -> {"none", "new"}]
    /\ saved = oldKeys
    /\ scanned = {} /\ starts = 0 /\ writes = 0

----------------------------------------------------------------------------
(* The database of the image editor                                        *)

Moves(from, to) == step = from /\ step' = to
Keep == UNCHANGED <<written, keys, starts, writes>>

\* The application starts, and the keys of localStorage are listed.
Start ==
    /\ Moves("closed", "create") /\ starts < MaxStarts
    /\ starts' = starts + 1
    /\ scanned' = {k \in Keys : oldKeys[k] # "none"}
    /\ UNCHANGED <<legacy, current, opened, copied, written, oldKeys, newKeys, saved, writes>>

\* legacyDatabaseExists: databases that cannot be listed count as there.
Exists == IF legacy.there THEN {TRUE} ELSE {TRUE, FALSE}

\* The new database is opened; if it cannot be, the old one is used as it is.
Create ==
    /\ step = "create"
    /\ \E exists \in Exists :
         \/ exists /\ step' = "open" /\ UNCHANGED opened
         \/ ~exists /\ step' = "ready" /\ opened' = "current"
         \/ step' = "ready" /\ opened' \in IF exists THEN {"legacy", "memory"} ELSE {"memory"}
    /\ UNCHANGED <<legacy, current, copied>> /\ Keep

\* The old one is opened, created empty if it is not there; or it cannot be,
\* and the editor works in memory.
OpenLegacy ==
    /\ step = "open"
    /\ \/ step' = "read" /\ legacy' = [legacy EXCEPT !.there = TRUE] /\ UNCHANGED opened
       \/ step' = "ready" /\ opened' = "memory" /\ UNCHANGED legacy
    /\ UNCHANGED <<current, copied>> /\ Keep

\* copyMissingRecords reads every store, then writes what is missing in one
\* transaction; if either fails the old database is used.
Fails == step' = "ready" /\ opened' = "legacy" /\ UNCHANGED <<current, copied>>
ReadLegacy ==
    /\ step = "read"
    /\ \/ step' = "write" /\ copied' = legacy.records /\ UNCHANGED <<current, opened>>
       \/ Fails
    /\ UNCHANGED legacy /\ Keep
CopyMissing ==
    /\ step = "write"
    /\ \/ /\ step' = "remove" /\ copied' = {} /\ UNCHANGED opened
          /\ current' = current \cup copied
       \/ Fails
    /\ UNCHANGED legacy /\ Keep

RemoveEarly ==
    /\ step \in {"write", "remove"} /\ copied' = {}
    /\ step' = "ready" /\ opened' = "current"
    /\ legacy' \in {legacy, Gone}
    /\ UNCHANGED current /\ Keep
\* The old database is deleted, or stays: it is blocked, or it fails.
RemoveLegacy ==
    /\ step = "remove"
    /\ step' = "ready" /\ opened' = "current"
    /\ legacy' \in {legacy, Gone}
    /\ UNCHANGED <<current, copied>> /\ Keep

----------------------------------------------------------------------------
(* The user                                                                *)

InUse == IF opened = "current" THEN current ELSE legacy.records

Write(r, there) ==
    /\ step = "ready" /\ writes < MaxWrites /\ opened \in {"current", "legacy"}
    /\ (r \in InUse) = ~there
    /\ writes' = writes + 1
    /\ LET new == IF there THEN InUse \cup {r} ELSE InUse \ {r} IN
       IF opened = "current" THEN current' = new /\ UNCHANGED legacy
       ELSE legacy' = [there |-> TRUE, records |-> new] /\ UNCHANGED current
    /\ written' = IF there THEN written \cup {r} ELSE written \ {r}
    /\ UNCHANGED <<opened, step, copied, keys, starts>>
Save(r)   == Write(r, TRUE)
Delete(r) == Write(r, FALSE)

\* The window is closed, at any step.
Close ==
    /\ step # "closed"
    /\ step' = "closed" /\ opened' = "none" /\ copied' = {} /\ scanned' = {}
    /\ UNCHANGED <<legacy, current, written, oldKeys, newKeys, saved, starts, writes>>

----------------------------------------------------------------------------
(* The keys of localStorage                                                *)

\* A key is copied if the new one is missing, and the old one removed only
\* when the new one holds its value; setting and removing may fail.
MoveKey(k) ==
    /\ k \in scanned
    /\ scanned' = scanned \ {k}
    /\ \E sets, removes \in BOOLEAN :
         LET value == IF newKeys[k] = "none" /\ sets THEN oldKeys[k] ELSE newKeys[k] IN
         /\ newKeys' = [newKeys EXCEPT ![k] = value]
         /\ oldKeys' = IF value = oldKeys[k] /\ removes
                       THEN [oldKeys EXCEPT ![k] = "none"] ELSE oldKeys
    /\ UNCHANGED <<images, saved, starts, writes>>

----------------------------------------------------------------------------
MigrationNext ==
    \/ Start \/ Create \/ OpenLegacy \/ ReadLegacy \/ CopyMissing \/ RemoveLegacy \/ Close
    \/ \E r \in Records : Save(r) \/ Delete(r)
    \/ \E k \in Keys : MoveKey(k)

MigrationSpec == MigrationInit /\ [][MigrationNext]_migrationVars

TypeOK ==
    /\ legacy.records \subseteq Records /\ current \subseteq Records /\ copied \subseteq Records
    /\ step \in Steps /\ opened \in {"none", "current", "legacy", "memory"}
    /\ {oldKeys, newKeys, saved} \subseteq [Keys -> Values]

\* Nothing is lost on the way: what the user saved is in one of the databases,
\* and a value of v1.0.0 is under one of its two keys, whichever call fails
\* and whenever the window is closed.
NothingLost ==
    /\ written \subseteq legacy.records \cup current
    /\ \A k \in Keys : saved[k] # "none" => saved[k] \in {oldKeys[k], newKeys[k]}
=============================================================================
