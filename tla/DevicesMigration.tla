-------------------------- MODULE DevicesMigration --------------------------
(***************************************************************************)
(* Opening the database (Database::open, has_column and migrate_devices in  *)
(* collector/src/main.cpp).  Older databases kept run-local sequence        *)
(* columns in the global table of devices; open() replaces the table by one *)
(* without them, in a transaction of five statements, and then creates its  *)
(* run.  The columns are looked at before the transaction begins, and any   *)
(* number of processes may open the same file at once.                      *)
(*                                                                          *)
(* A statement that fails, and a process that is killed, is GiveUp in the   *)
(* composing module: from any place, with the transaction rolled back.      *)
(***************************************************************************)
EXTENDS SqliteFile, Functions

VARIABLES runOf,      \* run_id_ of each process, 0 before its run exists
          misread     \* history: has_column stopped at a failing step

Drop(content, name) ==
  [content EXCEPT !.identities = Restrict(@, DOMAIN @ \ {name})]

Put(content, name, table) ==
  [content EXCEPT !.identities = [n \in DOMAIN @ \cup {name} |-> IF n = name THEN table ELSE @[n]]]

-----------------------------------------------------------------------------
\* open() up to migrate_devices(): the file is there with its two tables, and
\* PRAGMA foreign_keys is on.
Connect(p) ==
  /\ Statement(p, "down", "inspect")
  /\ Read
  /\ UNCHANGED <<runOf, misread>>

\* Faulty variant: a connection that finds the old columns works with them.
InspectTolerates(p) ==
  /\ Statement(p, "inspect", "newRun")
  /\ Read
  /\ UNCHANGED <<runOf, misread>>

\* has_column(), twice.  A step that fails ends the loop like the last row: the
\* columns count as absent.
Inspect(p) ==
  /\ \/ /\ Statement(p, "inspect", IF DevicesTable(View(p)).legacy THEN "begin" ELSE "newRun")
        /\ UNCHANGED misread
     \/ /\ Statement(p, "inspect", "newRun")
        /\ misread' = TRUE
  /\ Read
  /\ UNCHANGED runOf

\* BEGIN; DROP TABLE IF EXISTS devices_migrated.
BeginMigration(p) ==
  /\ Statement(p, "begin", "create")
  /\ BeginWrite(p, Drop(Content, "devices_migrated"))
  /\ UNCHANGED <<runOf, misread>>

CreateMigrated(p) ==
  /\ Statement(p, "create", "copy")
  /\ Write(p, Put(working, "devices_migrated", [legacy |-> FALSE, ids |-> {}]))
  /\ UNCHANGED <<runOf, misread>>

\* Faulty variant: the copy is forgotten.
CopyNothing(p) ==
  /\ Statement(p, "copy", "drop")
  /\ Write(p, working)
  /\ UNCHANGED <<runOf, misread>>

\* INSERT OR IGNORE INTO devices_migrated SELECT ... FROM devices.
CopyIdentities(p) ==
  /\ Statement(p, "copy", "drop")
  /\ Write(p, Put(working, "devices_migrated",
                  [legacy |-> FALSE, ids |-> DevicesTable(working).ids]))
  /\ UNCHANGED <<runOf, misread>>

\* Faulty variant: the old table is dropped outside of the transaction.
DropDevicesAtOnce(p) ==
  /\ Statement(p, "drop", "rename")
  /\ identities' = Restrict(identities, DOMAIN identities \ {"devices"})
  /\ working' = Drop(working, "devices")
  /\ UNCHANGED <<writer, newest, evidence, ended, tables, runOf, misread>>

\* DROP TABLE devices deletes its rows first: it fails when a row of
\* movement_episodes refers to one.
DropDevices(p) ==
  /\ Statement(p, "drop", "rename")
  /\ DevicesResolve(Drop(working, "devices"))
  /\ Write(p, Drop(working, "devices"))
  /\ UNCHANGED <<runOf, misread>>

\* ALTER TABLE devices_migrated RENAME TO devices.
RenameMigrated(p) ==
  /\ Statement(p, "rename", "commitMigration")
  /\ Write(p, Drop(Put(working, "devices", working.identities["devices_migrated"]),
                   "devices_migrated"))
  /\ UNCHANGED <<runOf, misread>>

CommitMigration(p) ==
  /\ Statement(p, "commitMigration", "newRun")
  /\ Commit(p, working)
  /\ UNCHANGED <<runOf, misread>>

\* The last statement of open(): INSERT INTO collector_runs.
CreateRun(p) ==
  /\ Statement(p, "newRun", "recording")
  /\ newest < MaxRuns
  /\ Autocommit([Content EXCEPT !.newest = newest + 1])
  /\ runOf' = [runOf EXCEPT ![p] = newest + 1]
  /\ UNCHANGED misread

OpenStep(p) == \/ Connect(p) \/ Inspect(p) \/ BeginMigration(p) \/ CreateMigrated(p)
               \/ CopyIdentities(p) \/ DropDevices(p) \/ RenameMigrated(p)
               \/ CommitMigration(p) \/ CreateRun(p)
=============================================================================
