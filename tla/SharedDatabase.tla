--------------------------- MODULE SharedDatabase ---------------------------
(***************************************************************************)
(* Several collector processes on one database file: each opens it (and     *)
(* migrates it when it is old), records batches of rows, ends its run and   *)
(* derives the episodes of all runs.  Database has one connection in        *)
(* detail; here a batch is what others see of it: the write lock, and rows  *)
(* that appear together.                                                    *)
(***************************************************************************)
EXTENDS DevicesMigration, Derivation

CONSTANT BatchSize   \* batch_size_: 128

ASSUME BatchSizeAssumption == BatchSize \in Nat \ {0}

VARIABLES added,     \* added[p]: the devices the process has recorded
          pending    \* pending[p]: pending_rows_

recorder == <<added, pending>>
vars == <<file, writer, working, pc, runOf, misread, loaded, recorder>>

Run == 1 .. MaxRuns

\* The table of devices of a file open() has just created, and of an old one,
\* perhaps with the remains of a migration.
NewDevices == identities = [n \in {"devices"} |-> [legacy |-> FALSE, ids |-> {}]]

OldDevices ==
  \E names \in {{"devices"}, TableName} :
    identities = [n \in names |-> [legacy |-> n = "devices", ids |-> {evidence[1][1].device}]]

Init == /\ Reader!Init
        /\ IF newest = 0 THEN NewDevices ELSE OldDevices
        /\ writer = None /\ working = Nothing
        /\ pc = [p \in Process |-> "down"]
        /\ runOf = [p \in Process |-> 0] /\ misread = FALSE
        /\ loaded = [p \in Process |-> << >>]
        /\ added = [p \in Process |-> {}]
        /\ pending = [p \in Process |-> 0]

-----------------------------------------------------------------------------
\* Faulty variant of commit_if_full(): a row more than a batch.
InsertOverfull(p, content) ==
  /\ Statement(p, "recording", "recording")
  /\ IF pending[p] = 0 THEN writer = None ELSE writer = p
  /\ IF pending[p] = BatchSize
       THEN /\ Publish(content)
            /\ writer' = None /\ working' = Nothing
            /\ pending' = [pending EXCEPT ![p] = 0]
       ELSE /\ writer' = p /\ working' = content
            /\ pending' = [pending EXCEPT ![p] = @ + 1]
            /\ UNCHANGED file
  /\ UNCHANGED <<runOf, misread, loaded>>

\* begin_batch(), an INSERT that makes the process see content, and
\* commit_if_full().
Insert(p, content) ==
  /\ Statement(p, "recording", "recording")
  /\ IF pending[p] = 0 THEN writer = None ELSE writer = p
  /\ IF pending[p] + 1 = BatchSize
       THEN /\ Publish(content)
            /\ writer' = None /\ working' = Nothing
            /\ pending' = [pending EXCEPT ![p] = 0]
       ELSE /\ writer' = p /\ working' = content
            /\ pending' = [pending EXCEPT ![p] = @ + 1]
            /\ UNCHANGED file
  /\ UNCHANGED <<runOf, misread, loaded>>

\* record_device(): an upsert.
RecordDevice(p) ==
  \E d \in Device \ added[p] :
    /\ Insert(p, [View(p) EXCEPT !.identities["devices"].ids = @ \cup {d}])
    /\ added' = [added EXCEPT ![p] = @ \cup {d}]

\* record_event() of a motion: libinput announces a device before its events.
RecordMotion(p) ==
  \E motion \in [device : added[p], rested : BOOLEAN] :
    /\ Len(View(p).evidence[runOf[p]]) < MaxMotions
    /\ Insert(p, [View(p) EXCEPT !.evidence[runOf[p]] = Append(@, motion)])
    /\ UNCHANGED added

\* finish(): the COMMIT of the last batch, then the UPDATE.
FinishCommit(p) ==
  /\ Statement(p, "recording", "update")
  /\ IF pending[p] = 0 THEN Read ELSE Commit(p, working)
  /\ pending' = [pending EXCEPT ![p] = 0]
  /\ UNCHANGED <<runOf, misread, loaded, added>>

FinishUpdate(p) ==
  /\ Statement(p, "update", "schema")
  /\ Autocommit([Content EXCEPT !.ended[runOf[p]] = TRUE])
  /\ UNCHANGED <<runOf, misread, loaded, recorder>>

\* A statement fails, for whatever reason or because another process has the
\* lock for too long: Database::disable or the derivation's rollback, and the
\* process leaves the file alone.  A process that is killed, or at its end.
GiveUp(p) ==
  /\ pc[p] # "down"
  /\ pc' = [pc EXCEPT ![p] = "down"]
  /\ Rollback(p)
  /\ runOf' = [runOf EXCEPT ![p] = 0]
  /\ loaded' = [loaded EXCEPT ![p] = << >>]
  /\ added' = [added EXCEPT ![p] = {}]
  /\ pending' = [pending EXCEPT ![p] = 0]
  /\ UNCHANGED misread

Open(p) == OpenStep(p) /\ UNCHANGED <<loaded, recorder>>
Derive(p) == DeriveStep(p) /\ UNCHANGED <<runOf, misread, recorder>>
Record(p) == RecordDevice(p) \/ RecordMotion(p) \/ FinishCommit(p) \/ FinishUpdate(p)

Next == \E p \in Process : Open(p) \/ Record(p) \/ Derive(p) \/ GiveUp(p)

Spec == Init /\ [][Next]_vars

-----------------------------------------------------------------------------
Place == {"down", "inspect", "begin", "create", "copy", "drop", "rename", "commitMigration",
          "newRun", "recording", "update", "schema", "clear", "clearMembers",
          "clearEpisodes", "load", "episode", "members", "points", "done"}

IdentityTables == UNION {[names -> IdentityTable] : names \in SUBSET TableName}

FileOK(content) ==
  /\ content.newest \in 0 .. MaxRuns
  /\ content.evidence \in [Run -> Seq([device : Device, rested : BOOLEAN])]
  /\ content.ended \in [Run -> BOOLEAN]
  /\ content.tables.created \in BOOLEAN
  /\ \A id \in DOMAIN content.tables.episodes :
       content.tables.episodes[id] \in [run : Run, device : Device, motions : SUBSET (1 .. MaxMotions)]
  /\ content.tables.members \cup content.tables.points
       \subseteq (DOMAIN content.tables.episodes) \X Run \X (1 .. MaxMotions)
  /\ content.identities \in IdentityTables

\* Type invariant: the file, what the lock's holder sees of it, the processes.
TypeOK ==
  /\ FileOK(Content)
  /\ writer \in Process \cup {None}
  /\ IF writer = None THEN working = Nothing ELSE FileOK(working)
  /\ pc \in [Process -> Place]
  /\ runOf \in [Process -> 0 .. MaxRuns]
  /\ misread \in BOOLEAN
  /\ \A p \in Process : added[p] \subseteq Device /\ pending[p] \in 0 .. BatchSize - 1

\* Whatever is committed and whoever is in the middle of what, the device of
\* every stored motion and of every episode is in the table of devices:
\* otherwise the foreign key would refuse the episode, and with it the whole
\* derivation, of all runs, for ever.
EvidenceResolves ==
  /\ HasDevices(Content)
  /\ \A r \in Run : \A i \in DOMAIN evidence[r] :
       evidence[r][i].device \in DevicesTable(Content).ids
  /\ DevicesResolve(Content)

\* main.cpp 545, "Keep the identity": no step of any process takes an identity
\* or the table from the readers, a migration that is interrupted included.
IdentitiesKept ==
  [][/\ "devices" \in DOMAIN identities'
     /\ identities["devices"].ids \subseteq identities'["devices"].ids]_vars

\* A table of devices that is still to be migrated is not referred to by any
\* episode, so that it can be dropped - as long as no has_column stopped at a
\* failing step and took the old table for a new one.
MigrationNotBlocked ==
  ~misread => (identities["devices"].legacy => tables.episodes = << >>)

\* The rows of one transaction appear together, and the derived tables are
\* always a function of all the evidence at the moment they were committed:
\* SPEC.md 1436, "Episode replacement and trajectory replacement are atomic."
ImplementsEpisodeTables == Reader!Spec
=============================================================================
