----------------------------- MODULE SqliteFile -----------------------------
(***************************************************************************)
(* One SQLite database file in WAL mode, as several collector processes use *)
(* it (external: SQLite is modelled from how the code in src/ calls it).    *)
(*   - Readers see the committed content, and never wait.                   *)
(*   - The first writing statement of a transaction takes the write lock    *)
(*     and the committed content of that moment; until COMMIT or ROLLBACK   *)
(*     no other connection writes.  A statement that waits for the lock for *)
(*     longer than the busy timeout fails.                                  *)
(*   - A process that ends in any way leaves its transaction rolled back.   *)
(*   - With foreign_keys=ON a statement that would leave a row referring to *)
(*     nothing fails.                                                       *)
(***************************************************************************)
EXTENDS Integers, Sequences, FiniteSets

CONSTANTS Device, MaxRuns, MaxMotions,   \* as in EpisodeTables
          Process,     \* the collector processes
          None         \* nobody holds the write lock

\* An old file has one run of one motion.
ASSUME BoundsAssumption == MaxRuns \in Nat \ {0} /\ MaxMotions \in Nat \ {0}
ASSUME NoneAssumption == None \notin Process

VARIABLES newest, evidence, ended, tables   \* committed, as in EpisodeTables
VARIABLES identities,  \* the committed tables of device ids, by table name
          writer,      \* who holds the write lock
          working,     \* what the lock's holder sees
          pc           \* pc[p]: the next statement of process p

file == <<newest, evidence, ended, tables, identities>>

Reader == INSTANCE EpisodeTables

TableName == {"devices", "devices_migrated"}

\* legacy: the table has the sequence columns of older databases.
IdentityTable == [legacy : BOOLEAN, ids : SUBSET Device]

Content == [newest |-> newest, evidence |-> evidence, ended |-> ended,
            tables |-> tables, identities |-> identities]

Nothing == [newest |-> 0]

\* What a statement of p sees.
View(p) == IF writer = p THEN working ELSE Content

Publish(content) ==
  /\ newest' = content.newest
  /\ evidence' = content.evidence
  /\ ended' = content.ended
  /\ tables' = content.tables
  /\ identities' = content.identities

Statement(p, from, to) == pc[p] = from /\ pc' = [pc EXCEPT ![p] = to]

\* BEGIN, and the first writing statement after it.
BeginWrite(p, content) ==
  /\ writer = None
  /\ writer' = p
  /\ working' = content
  /\ UNCHANGED file

\* A further statement inside of the transaction.
Write(p, content) ==
  /\ writer = p
  /\ working' = content
  /\ UNCHANGED <<writer, file>>

Read == UNCHANGED <<writer, working, file>>

\* COMMIT; content is what the transaction wrote.
Commit(p, content) ==
  /\ writer = p
  /\ Publish(content)
  /\ writer' = None
  /\ working' = Nothing

\* A writing statement outside of a transaction.
Autocommit(content) ==
  /\ writer = None
  /\ Publish(content)
  /\ UNCHANGED <<writer, working>>

Rollback(p) ==
  /\ writer' = IF writer = p THEN None ELSE writer
  /\ working' = IF writer = p THEN Nothing ELSE working
  /\ UNCHANGED file

-----------------------------------------------------------------------------
DevicesTable(content) == content.identities["devices"]

HasDevices(content) == "devices" \in DOMAIN content.identities

\* movement_episodes.device_id REFERENCES devices(device_id): every row refers
\* to an id that is there.
DevicesResolve(content) ==
  \A id \in DOMAIN content.tables.episodes :
    /\ HasDevices(content)
    /\ content.tables.episodes[id].device \in DevicesTable(content).ids
=============================================================================
