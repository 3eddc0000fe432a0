------------------------ MODULE SharedDatabaseProofs ------------------------
(***************************************************************************)
(* Proofs, for any number of processes, devices, runs and motions, that no  *)
(* interleaving of openings, migrations, batches, derivations and deaths on *)
(* one database file takes a device's identity from it or leaves a motion   *)
(* or an episode without the row of its device, and that what they do       *)
(* together implements EpisodeTables.                                       *)
(***************************************************************************)
EXTENDS SharedDatabase, TLAPS, SequenceTheorems, FiniteSetTheorems, WellFoundedInduction

\* The places at which a process holds the write lock between two statements.
MigrationPlace == {"create", "copy", "drop", "rename", "commitMigration"}
DerivationPlace == {"clearMembers", "clearEpisodes", "load", "episode", "members", "points"}
Holding == MigrationPlace \cup DerivationPlace \cup {"recording"}

\* The places of a process that is opening the database.
Opening == {"down", "inspect", "begin", "newRun"} \cup MigrationPlace

\* The places of a process that has opened the database.
Opened == {"newRun", "recording", "update", "schema", "clear", "done"} \cup DerivationPlace

\* What a connection sees is a database: its tables have the columns they
\* should have.  What the derived tables hold is not said here.
ContentOK(c) ==
  /\ c = [newest |-> c.newest, evidence |-> c.evidence, ended |-> c.ended,
          tables |-> c.tables, identities |-> c.identities]
  /\ c.newest \in Nat
  /\ c.evidence \in [Run -> Seq(Reader!Motion)]
  /\ c.ended \in [Run -> BOOLEAN]
  /\ c.tables = [created |-> c.tables.created, episodes |-> c.tables.episodes,
                 members |-> c.tables.members, points |-> c.tables.points]
  /\ c.identities \in IdentityTables

\* The table of this name in c can stand for the committed table of devices:
\* it has all its ids, and those of all motions of c.
Keeps(c, name) ==
  /\ name \in DOMAIN c.identities
  /\ identities["devices"].ids \subseteq c.identities[name].ids
  /\ c.identities[name].legacy => identities["devices"].legacy
  /\ \A r \in Run : \A i \in DOMAIN c.evidence[r] :
       c.evidence[r][i].device \in c.identities[name].ids

\* What the holder of the lock has made of the content, at each place.
WorkingAt(c, place) ==
  /\ ContentOK(c)
  /\ DevicesResolve(c)
  /\ place # "rename" => Keeps(c, "devices")
  /\ place \in {"copy", "drop", "rename"} => "devices_migrated" \in DOMAIN c.identities
  /\ place \in {"drop", "rename"} => Keeps(c, "devices_migrated")
                                     /\ ~ c.identities["devices_migrated"].legacy
  /\ place = "commitMigration" => ~ c.identities["devices"].legacy
  /\ place \notin DerivationPlace => c.tables = tables

\* The processes' own variables.
ProcessesOK ==
  /\ pc \in [Process -> Place]
  /\ runOf \in [Process -> 0 .. MaxRuns]
  /\ \A p \in Process : pc[p] \in {"recording", "update"} => runOf[p] \in Run
  /\ misread \in BOOLEAN
  /\ loaded = [p \in Process |-> loaded[p]]
  /\ added \in [Process -> SUBSET Device]
  /\ \A p \in Process : pc[p] \in Opening => added[p] = {}
  /\ pending \in [Process -> 0 .. BatchSize - 1]

\* The committed content.
FileIsSound == ContentOK(Content) /\ Keeps(Content, "devices") /\ DevicesResolve(Content)

\* The write lock, and what its holder has written.
LockIsSound ==
  \/ writer = None /\ working = Nothing
  \/ /\ writer \in Process
     /\ pc[writer] \in Holding
     /\ pc[writer] = "recording" => pending[writer] > 0
     /\ WorkingAt(working, pc[writer])

\* A process has announced its devices to the table it sees.
AddedIsKnown ==
  \A p \in Process : pc[p] = "recording" => added[p] \subseteq DevicesTable(View(p)).ids

\* Whoever is past the migration has seen that it is done.
MigrationIsDone ==
  ~misread => \A p \in Process : pc[p] \in Opened => ~ identities["devices"].legacy

\* The inductive invariant.
SafeInv == /\ ProcessesOK
           /\ FileIsSound
           /\ LockIsSound
           /\ AddedIsKnown
           /\ MigrationIsDone
           /\ MigrationNotBlocked

-----------------------------------------------------------------------------
\* Content with one of its tables replaced.
LEMMA WithIdentities ==
  ASSUME NEW c, ContentOK(c), NEW t \in IdentityTables, NEW d, d = [c EXCEPT !.identities = t]
  PROVE  /\ ContentOK(d) /\ d.identities = t
         /\ d.newest = c.newest /\ d.evidence = c.evidence /\ d.ended = c.ended
         /\ d.tables = c.tables
  BY DEF ContentOK

\* The same for the derived tables.
LEMMA WithTables ==
  ASSUME NEW c, ContentOK(c), NEW d, NEW t, d = [c EXCEPT !.tables = t],
         t = [created |-> t.created, episodes |-> t.episodes,
              members |-> t.members, points |-> t.points]
  PROVE  /\ ContentOK(d) /\ d.tables = t
         /\ d.newest = c.newest /\ d.evidence = c.evidence /\ d.ended = c.ended
         /\ d.identities = c.identities
  BY DEF ContentOK

\* The same for the evidence.
LEMMA WithEvidence ==
  ASSUME NEW c, ContentOK(c), NEW d, NEW e \in [Run -> Seq(Reader!Motion)],
         d = [c EXCEPT !.evidence = e]
  PROVE  /\ ContentOK(d) /\ d.evidence = e
         /\ d.newest = c.newest /\ d.ended = c.ended /\ d.tables = c.tables
         /\ d.identities = c.identities
  BY DEF ContentOK

\* The same for the runs' ends.
LEMMA WithEnded ==
  ASSUME NEW c, ContentOK(c), NEW d, NEW e \in [Run -> BOOLEAN], d = [c EXCEPT !.ended = e]
  PROVE  /\ ContentOK(d) /\ d.ended = e
         /\ d.newest = c.newest /\ d.evidence = c.evidence /\ d.tables = c.tables
         /\ d.identities = c.identities
  BY DEF ContentOK

\* The same for the last run.
LEMMA WithNewest ==
  ASSUME NEW c, ContentOK(c), NEW d, NEW n \in Nat, d = [c EXCEPT !.newest = n]
  PROVE  /\ ContentOK(d) /\ d.newest = n
         /\ d.evidence = c.evidence /\ d.ended = c.ended /\ d.tables = c.tables
         /\ d.identities = c.identities
  BY DEF ContentOK

\* The tables of device ids, one by one.
LEMMA IdentityTypes ==
  ASSUME NEW t
  PROVE  t \in IdentityTables <=>
           /\ t = [n \in DOMAIN t |-> t[n]] /\ DOMAIN t \subseteq TableName
           /\ \A n \in DOMAIN t : t[n] \in IdentityTable
  <1>1. ASSUME t \in IdentityTables
        PROVE  /\ t = [n \in DOMAIN t |-> t[n]] /\ DOMAIN t \subseteq TableName
               /\ \A n \in DOMAIN t : t[n] \in IdentityTable
    <2>1. PICK names \in SUBSET TableName : t \in [names -> IdentityTable]
      BY <1>1 DEF IdentityTables
    <2> QED BY <2>1
  <1>2. ASSUME t = [n \in DOMAIN t |-> t[n]], DOMAIN t \subseteq TableName,
               \A n \in DOMAIN t : t[n] \in IdentityTable
        PROVE  t \in IdentityTables
    <2>1. t \in [DOMAIN t -> IdentityTable]
      BY <1>2
    <2> QED BY <1>2, <2>1 DEF IdentityTables
  <1> QED BY <1>1, <1>2

\* DROP TABLE.
LEMMA DropFacts ==
  ASSUME NEW c, ContentOK(c), NEW name
  PROVE  LET d == Drop(c, name)
         IN  /\ ContentOK(d)
             /\ DOMAIN d.identities = DOMAIN c.identities \ {name}
             /\ \A n \in DOMAIN d.identities : d.identities[n] = c.identities[n]
             /\ d.newest = c.newest /\ d.evidence = c.evidence /\ d.ended = c.ended
             /\ d.tables = c.tables
  <1> DEFINE t == [n \in DOMAIN c.identities \ {name} |-> c.identities[n]]
  <1>1. Drop(c, name) = [c EXCEPT !.identities = t]
    BY DEF Drop, Restrict
  <1>2. c.identities \in IdentityTables
    BY DEF ContentOK
  <1>3. DOMAIN t = DOMAIN c.identities \ {name} /\ \A n \in DOMAIN t : t[n] = c.identities[n]
    OBVIOUS
  <1>4. t \in IdentityTables
    BY <1>2, <1>3, IdentityTypes
  <1> HIDE DEF t
  <1> QED BY <1>1, <1>3, <1>4, WithIdentities

\* CREATE TABLE, INSERT INTO it, and RENAME.
LEMMA PutFacts ==
  ASSUME NEW c, ContentOK(c), NEW name \in TableName, NEW table \in IdentityTable
  PROVE  LET d == Put(c, name, table)
         IN  /\ ContentOK(d)
             /\ DOMAIN d.identities = DOMAIN c.identities \cup {name}
             /\ d.identities[name] = table
             /\ \A n \in DOMAIN c.identities : n # name => d.identities[n] = c.identities[n]
             /\ d.newest = c.newest /\ d.evidence = c.evidence /\ d.ended = c.ended
             /\ d.tables = c.tables
  <1> DEFINE t == [n \in DOMAIN c.identities \cup {name} |->
                     IF n = name THEN table ELSE c.identities[n]]
  <1>1. Put(c, name, table) = [c EXCEPT !.identities = t]
    BY DEF Put
  <1>2. c.identities \in IdentityTables
    BY DEF ContentOK
  <1>3. /\ DOMAIN t = DOMAIN c.identities \cup {name} /\ t[name] = table
        /\ \A n \in DOMAIN c.identities : n # name => t[n] = c.identities[n]
    OBVIOUS
  <1>4. t \in IdentityTables
    BY <1>2, <1>3, IdentityTypes
  <1> HIDE DEF t
  <1> QED BY <1>1, <1>3, <1>4, WithIdentities

\* What is committed is content.
LEMMA ContentFields ==
  /\ Content.newest = newest /\ Content.evidence = evidence /\ Content.ended = ended
  /\ Content.tables = tables /\ Content.identities = identities
  BY DEF Content

-----------------------------------------------------------------------------
(***************************************************************************)
(* Every statement of a process p is one of four kinds: it reads, writes    *)
(* under the lock, publishes, or gives up.  What each kind has to show of   *)
(* p and of the content for the invariant to hold afterwards; the other     *)
(* processes are argued about here, once.                                   *)
(***************************************************************************)

\* Only p moves, to this place, with its own variables in order.
Moves(p, place) ==
  /\ ProcessesOK'
  /\ pc'[p] = place
  /\ \A q \in Process \ {p} : pc'[q] = pc[q] /\ added'[q] = added[q] /\ pending'[q] = pending[q]
  /\ misread => misread'

\* The step keeps the invariant, and every identity.
Safely ==
  /\ SafeInv'
  /\ "devices" \in DOMAIN identities'
  /\ identities["devices"].ids \subseteq identities'["devices"].ids

\* What the lock's holder has written does not depend on the other variables.
LEMMA WorkingStays ==
  ASSUME NEW c, NEW place, UNCHANGED file, WorkingAt(c, place)
  PROVE  WorkingAt(c, place)'
  BY DEF WorkingAt, Keeps, ContentOK, DevicesResolve, DevicesTable, HasDevices, file

\* A committed content that nobody changes stays sound.
LEMMA FileStays ==
  ASSUME FileIsSound, UNCHANGED file
  PROVE  FileIsSound'
  BY DEF FileIsSound, Keeps, ContentOK, DevicesResolve, DevicesTable, HasDevices, file, Content

\* A statement that reads, or that changes variables of p only.
LEMMA ReadStep ==
  ASSUME SafeInv, NEW p \in Process, NEW place \in Place, Moves(p, place), Read,
         writer = p => place \in Holding /\ WorkingAt(working, place),
         place # "recording",
         ~misread' => (place \in Opened => ~ identities["devices"].legacy)
  PROVE  Safely
  <1>1. ProcessesOK'
    BY DEF Moves
  <1>2. FileIsSound'
    BY FileStays DEF SafeInv, Read
  <1>3. LockIsSound'
    <2> PICK c : c = working
      OBVIOUS
    <2>1. CASE writer = None /\ working = Nothing
      BY <2>1 DEF LockIsSound, Read, Nothing
    <2>2. CASE writer = p
      <3>1. WorkingAt(c, place)'
        BY <2>2, WorkingStays DEF Read
      <3> QED BY <2>2, <3>1 DEF LockIsSound, Read, Moves
    <2>3. CASE writer \in Process \ {p}
      <3> PICK at : at = pc[writer]
        OBVIOUS
      <3>1. /\ pc[writer] \in Holding
            /\ pc[writer] = "recording" => pending[writer] > 0
            /\ WorkingAt(c, at)
        BY <2>3, NoneAssumption DEF SafeInv, LockIsSound
      <3>2. WorkingAt(c, at)'
        BY <3>1, WorkingStays DEF Read
      <3>3. writer' = writer /\ working' = c /\ pc'[writer] = at /\ pending'[writer] = pending[writer]
        BY <2>3 DEF Read, Moves
      <3>4. pc'[writer'] = at /\ (at = "recording" => pending'[writer'] > 0)
        BY <3>1, <3>3
      <3> QED BY <2>3, <3>1, <3>2, <3>3, <3>4 DEF LockIsSound
    <2> QED BY <2>1, <2>2, <2>3 DEF SafeInv, LockIsSound
  <1>4. AddedIsKnown'
    BY DEF AddedIsKnown, SafeInv, Moves, Read, View, Content, file, DevicesTable
  <1>5. MigrationIsDone'
    BY DEF MigrationIsDone, SafeInv, Moves, Read, file
  <1>6. MigrationNotBlocked'
    BY DEF MigrationNotBlocked, SafeInv, Moves, Read, file
  <1>7. Keeps(Content, "devices") /\ Content.identities = identities /\ identities' = identities
    BY ContentFields DEF SafeInv, FileIsSound, Read, file
  <1> QED BY <1>1, <1>2, <1>3, <1>4, <1>5, <1>6, <1>7 DEF SafeInv, Safely, Keeps

\* A statement that leaves c in the transaction of p, its first one included.
LEMMA WriteStep ==
  ASSUME SafeInv, NEW p \in Process, NEW place \in Holding, NEW c, Moves(p, place),
         writer \in {None, p}, writer' = p, working' = c, UNCHANGED file,
         WorkingAt(c, place),
         place = "recording" => pending'[p] > 0 /\ added'[p] \subseteq DevicesTable(c).ids,
         ~misread => (place \in Opened => ~ identities["devices"].legacy)
  PROVE  Safely
  <1>1. ProcessesOK'
    BY DEF Moves
  <1>2. FileIsSound'
    BY FileStays DEF SafeInv
  <1>3. LockIsSound'
    <2>1. WorkingAt(c, place)'
      BY WorkingStays
    <2> QED BY <2>1 DEF LockIsSound, Moves
  <1>4. AddedIsKnown'
    <2> SUFFICES ASSUME NEW q \in Process, pc'[q] = "recording"
                 PROVE  added'[q] \subseteq DevicesTable(View(q))'.ids
      BY DEF AddedIsKnown
    <2>1. CASE q = p
      BY <2>1 DEF Moves, View, DevicesTable
    <2>2. CASE q # p
      BY <2>2, NoneAssumption DEF AddedIsKnown, SafeInv, Moves, View, Content, file, DevicesTable
    <2> QED BY <2>1, <2>2
  <1>5. MigrationIsDone'
    BY DEF MigrationIsDone, SafeInv, Moves, file
  <1>6. MigrationNotBlocked'
    BY DEF MigrationNotBlocked, SafeInv, Moves, file
  <1>7. Keeps(Content, "devices") /\ Content.identities = identities /\ identities' = identities
    BY ContentFields DEF SafeInv, FileIsSound, Read, file
  <1> QED BY <1>1, <1>2, <1>3, <1>4, <1>5, <1>6, <1>7 DEF SafeInv, Safely, Keeps

\* A statement after which the committed content is c: a COMMIT, or a writing
\* statement outside of a transaction.
LEMMA PublishStep ==
  ASSUME SafeInv, NEW p \in Process, NEW place \in Place, NEW c, Moves(p, place),
         writer \in {None, p}, writer' = None, working' = Nothing, Publish(c),
         ContentOK(c), DevicesResolve(c), Keeps(c, "devices"),
         place = "recording" => added'[p] \subseteq DevicesTable(c).ids,
         ~misread => /\ c.identities["devices"].legacy => c.tables.episodes = << >>
                     /\ place \in Opened => ~ c.identities["devices"].legacy
  PROVE  Safely
  <1>1. ProcessesOK'
    BY DEF Moves
  <1>2. /\ newest' = c.newest /\ evidence' = c.evidence /\ ended' = c.ended
        /\ tables' = c.tables /\ identities' = c.identities
    BY DEF Publish
  <1>3. Content' = c
    BY <1>2 DEF Content, ContentOK
  <1>4. FileIsSound'
    <2>1. ContentOK(c)' /\ DevicesResolve(c)'
      BY DEF ContentOK, DevicesResolve, DevicesTable, HasDevices
    <2>2. Keeps(c, "devices")'
      BY <1>2 DEF Keeps
    <2> QED BY <1>3, <2>1, <2>2 DEF FileIsSound
  <1>5. LockIsSound'
    BY DEF LockIsSound, Nothing
  <1>6. AddedIsKnown'
    <2> SUFFICES ASSUME NEW q \in Process, pc'[q] = "recording"
                 PROVE  added'[q] \subseteq DevicesTable(View(q))'.ids
      BY DEF AddedIsKnown
    <2>0. DevicesTable(View(q))'.ids = c.identities["devices"].ids
      BY <1>3, NoneAssumption DEF View, DevicesTable
    <2>1. CASE q = p
      BY <2>0, <2>1 DEF Moves, DevicesTable
    <2>2. CASE q # p
      <3>1. added[q] \subseteq identities["devices"].ids /\ added'[q] = added[q]
        BY <2>2, NoneAssumption
           DEF AddedIsKnown, SafeInv, Moves, View, Content, DevicesTable
      <3> QED BY <2>0, <3>1 DEF Keeps
    <2> QED BY <2>1, <2>2
  <1>7. MigrationIsDone'
    BY <1>2 DEF MigrationIsDone, SafeInv, Moves, Keeps
  <1>8. MigrationNotBlocked'
    BY <1>2 DEF MigrationNotBlocked, Moves
  <1>9. "devices" \in DOMAIN identities' /\ identities["devices"].ids \subseteq identities'["devices"].ids
    BY <1>2 DEF Keeps
  <1> QED BY <1>1, <1>4, <1>5, <1>6, <1>7, <1>8, <1>9 DEF SafeInv, Safely

\* p is done with the file, in whatever state: its transaction is rolled back.
LEMMA GiveUpStep ==
  ASSUME SafeInv, NEW p \in Process, GiveUp(p)
  PROVE  Safely
  <1>1. /\ ProcessesOK'
        /\ pc'[p] = "down" /\ misread' = misread
        /\ \A q \in Process \ {p} : pc'[q] = pc[q] /\ added'[q] = added[q]
                                      /\ pending'[q] = pending[q]
    <2> USE DEF GiveUp, SafeInv, ProcessesOK
    <2>1. pc' \in [Process -> Place]
      BY DEF Place
    <2>2. runOf' \in [Process -> 0 .. MaxRuns]
      BY BoundsAssumption
    <2>3. \A q \in Process : pc'[q] \in {"recording", "update"} => runOf'[q] \in Run
      OBVIOUS
    <2>4. loaded' = [q \in Process |-> loaded'[q]]
      OBVIOUS
    <2>5. /\ added' \in [Process -> SUBSET Device] /\ misread' \in BOOLEAN
          /\ \A q \in Process : pc'[q] \in Opening => added'[q] = {}
      OBVIOUS
    <2>6. pending' \in [Process -> 0 .. BatchSize - 1]
      BY BatchSizeAssumption
    <2> QED BY <2>1, <2>2, <2>3, <2>4, <2>5, <2>6
  <1>2. UNCHANGED file
    BY DEF GiveUp, Rollback
  <1>3. FileIsSound'
    BY <1>2, FileStays DEF SafeInv
  <1>4. LockIsSound'
    <2>1. CASE writer = p
      BY <2>1 DEF GiveUp, Rollback, LockIsSound
    <2>2. CASE writer = None /\ working = Nothing
      BY <2>2, NoneAssumption DEF GiveUp, Rollback, LockIsSound, Nothing
    <2>3. CASE writer \in Process \ {p}
      <3> PICK c : c = working
        OBVIOUS
      <3> PICK at : at = pc[writer]
        OBVIOUS
      <3>1. /\ pc[writer] \in Holding
            /\ pc[writer] = "recording" => pending[writer] > 0
            /\ WorkingAt(c, at)
        BY <2>3, NoneAssumption DEF SafeInv, LockIsSound
      <3>2. WorkingAt(c, at)'
        BY <1>2, <3>1, WorkingStays
      <3>3. writer' = writer /\ working' = c /\ pc'[writer] = at /\ pending'[writer] = pending[writer]
        BY <1>1, <2>3 DEF GiveUp, Rollback
      <3> QED BY <2>3, <3>1, <3>2, <3>3 DEF LockIsSound
    <2> QED BY <2>1, <2>2, <2>3 DEF SafeInv, LockIsSound
  <1>5. AddedIsKnown'
    <2> SUFFICES ASSUME NEW q \in Process, pc'[q] = "recording"
                 PROVE  added'[q] \subseteq DevicesTable(View(q))'.ids
      BY DEF AddedIsKnown
    <2>1. q # p /\ added'[q] = added[q] /\ pc[q] = "recording"
      BY <1>1
    <2>2. View(q)' = View(q)
      BY <1>2, <2>1, NoneAssumption DEF View, Content, file, GiveUp, Rollback
    <2> QED BY <2>1, <2>2 DEF AddedIsKnown, SafeInv, DevicesTable
  <1>6. MigrationIsDone'
    <2>1. "down" \notin Opened
      BY DEF Opened, DerivationPlace
    <2> QED BY <1>1, <1>2, <2>1 DEF MigrationIsDone, SafeInv, file
  <1>7. MigrationNotBlocked'
    BY <1>1, <1>2 DEF MigrationNotBlocked, SafeInv, file
  <1>8. Keeps(Content, "devices") /\ Content.identities = identities /\ identities' = identities
    BY <1>2, ContentFields DEF SafeInv, FileIsSound, file
  <1> QED BY <1>1, <1>3, <1>4, <1>5, <1>6, <1>7, <1>8 DEF SafeInv, Safely, Keeps

-----------------------------------------------------------------------------
\* What a statement may rely on: the content p sees, the lock, and its place.

\* The holder of the lock is at a place where it has one.
LEMMA HolderSees ==
  ASSUME SafeInv, NEW p \in Process, writer = p
  PROVE  pc[p] \in Holding /\ WorkingAt(working, pc[p])
  BY NoneAssumption DEF SafeInv, LockIsSound

\* The committed content.
LEMMA FileSees ==
  ASSUME SafeInv
  PROVE  ContentOK(Content) /\ Keeps(Content, "devices") /\ DevicesResolve(Content)
  BY DEF SafeInv, FileIsSound

\* A process that records sees a whole database, with its devices.
LEMMA RecorderSees ==
  ASSUME SafeInv, NEW p \in Process, pc[p] = "recording"
  PROVE  /\ ContentOK(View(p)) /\ DevicesResolve(View(p)) /\ Keeps(View(p), "devices")
         /\ View(p).tables = tables
         /\ added[p] \subseteq View(p).identities["devices"].ids
  <1>1. added[p] \subseteq View(p).identities["devices"].ids
    BY DEF SafeInv, AddedIsKnown, DevicesTable
  <1>2. CASE writer = p
    <2>1. WorkingAt(working, "recording") /\ View(p) = working
      BY <1>2, HolderSees DEF View
    <2> QED BY <1>1, <2>1 DEF WorkingAt, DerivationPlace
  <1>3. CASE writer # p
    BY <1>1, <1>3, FileSees, ContentFields DEF View
  <1> QED BY <1>2, <1>3

\* A statement that changes the place of p and what it has loaded, no more.
LEMMA PlainMove ==
  ASSUME SafeInv, NEW p \in Process, NEW from, NEW place \in Place,
         Statement(p, from, place), UNCHANGED <<runOf, misread, added, pending>>,
         loaded' = [q \in Process |-> loaded'[q]],
         place \in {"recording", "update"} => from \in {"recording", "update"},
         place \in Opening => from \in Opening
  PROVE  Moves(p, place) /\ pc[p] = from
  BY DEF Statement, Moves, SafeInv, ProcessesOK

\* Nothing is loaded in this step.
LEMMA SameLoaded ==
  ASSUME SafeInv, UNCHANGED loaded
  PROVE  loaded' = [q \in Process |-> loaded'[q]]
  <1>1. loaded = [q \in Process |-> loaded[q]]
    BY DEF SafeInv, ProcessesOK
  <1> QED BY <1>1

-----------------------------------------------------------------------------
\* The statements of open(), one by one.

\* Connect reads.
LEMMA ConnectStep ==
  ASSUME SafeInv, NEW p \in Process, Connect(p), UNCHANGED <<loaded, added, pending>>
  PROVE  Safely
  <1>1. Moves(p, "inspect") /\ pc[p] = "down"
    BY SameLoaded, PlainMove DEF Connect, Place, Opening, MigrationPlace
  <1>2. writer # p
    BY <1>1, HolderSees DEF Holding, MigrationPlace, DerivationPlace
  <1> QED BY <1>1, <1>2, ReadStep DEF Connect, Place, Opened, DerivationPlace

\* Inspect reads; whoever goes on without a migration has seen a table without
\* the old columns, or has misread.
LEMMA InspectStep ==
  ASSUME SafeInv, NEW p \in Process, Inspect(p), UNCHANGED <<loaded, added, pending>>
  PROVE  Safely
  <1>1. pc[p] = "inspect"
    BY DEF Inspect, Statement
  <1>2. writer # p
    BY <1>1, HolderSees DEF Holding, MigrationPlace, DerivationPlace
  <1>3. DevicesTable(View(p)).legacy = identities["devices"].legacy
    BY <1>2 DEF View, DevicesTable, Content
  <1>4. Read /\ runOf' = runOf
    BY DEF Inspect
  <1>5. CASE /\ Statement(p, "inspect", IF DevicesTable(View(p)).legacy THEN "begin" ELSE "newRun")
             /\ UNCHANGED misread
    <2>1. PICK place \in {"begin", "newRun"} :
            /\ Statement(p, "inspect", place)
            /\ place = "newRun" => ~ identities["devices"].legacy
      BY <1>3, <1>5
    <2>2. Moves(p, place)
      BY <1>4, <1>5, <2>1, SameLoaded, PlainMove DEF Place, Opening
    <2> QED BY <1>2, <1>4, <2>1, <2>2, ReadStep DEF Place, Opened, DerivationPlace
  <1>6. CASE Statement(p, "inspect", "newRun") /\ misread' = TRUE
    <2>1. Moves(p, "newRun")
      BY <1>4, <1>6, SameLoaded DEF Statement, Moves, SafeInv, ProcessesOK, Place, Opening
    <2> QED BY <1>2, <1>4, <1>6, <2>1, ReadStep DEF Place
  <1> QED BY <1>5, <1>6 DEF Inspect

\* The transaction of the migration begins with the committed content, the
\* remains of another migration dropped.
LEMMA BeginMigrationStep ==
  ASSUME SafeInv, NEW p \in Process, BeginMigration(p), UNCHANGED <<loaded, added, pending>>
  PROVE  Safely
  <1>1. Moves(p, "create")
    BY SameLoaded, PlainMove DEF BeginMigration, Place, Opening, MigrationPlace
  <1> PICK c : c = Drop(Content, "devices_migrated")
    OBVIOUS
  <1>2. WorkingAt(c, "create")
    <2>1. /\ ContentOK(c) /\ c.identities["devices"] = Content.identities["devices"]
          /\ "devices" \in DOMAIN c.identities
          /\ c.evidence = Content.evidence /\ c.tables = Content.tables
      BY FileSees, DropFacts DEF Keeps
    <2>2. Keeps(c, "devices") /\ DevicesResolve(c)
      BY <2>1, FileSees DEF Keeps, DevicesResolve, HasDevices, DevicesTable
    <2> QED BY <2>1, <2>2, ContentFields DEF WorkingAt, DerivationPlace
  <1>3. writer = None /\ writer' = p /\ working' = c /\ UNCHANGED file /\ misread' = misread
    BY DEF BeginMigration, BeginWrite
  <1> QED BY <1>1, <1>2, <1>3, WriteStep DEF Holding, MigrationPlace, Opened, DerivationPlace

\* The new table is empty.
LEMMA CreateMigratedStep ==
  ASSUME SafeInv, NEW p \in Process, CreateMigrated(p), UNCHANGED <<loaded, added, pending>>
  PROVE  Safely
  <1>1. Moves(p, "copy") /\ pc[p] = "create"
    BY SameLoaded, PlainMove DEF CreateMigrated, Place, Opening, MigrationPlace
  <1> PICK w : w = working
    OBVIOUS
  <1> PICK c : c = Put(w, "devices_migrated", [legacy |-> FALSE, ids |-> {}])
    OBVIOUS
  <1>2. writer = p /\ writer' = p /\ working' = c /\ UNCHANGED file /\ misread' = misread
    BY DEF CreateMigrated, Write
  <1>3. WorkingAt(w, "create")
    BY <1>1, <1>2, HolderSees
  <1>4. WorkingAt(c, "copy")
    <2>1. [legacy |-> FALSE, ids |-> {}] \in IdentityTable
      BY DEF IdentityTable
    <2>2. /\ ContentOK(c) /\ c.identities["devices"] = w.identities["devices"]
          /\ {"devices", "devices_migrated"} \subseteq DOMAIN c.identities
          /\ c.evidence = w.evidence /\ c.tables = w.tables
      BY <1>3, <2>1, PutFacts DEF WorkingAt, TableName, Keeps
    <2>3. Keeps(c, "devices") /\ DevicesResolve(c)
      BY <1>3, <2>2 DEF WorkingAt, Keeps, DevicesResolve, HasDevices, DevicesTable
    <2> QED BY <1>3, <2>2, <2>3 DEF WorkingAt, DerivationPlace
  <1> QED BY <1>1, <1>2, <1>4, WriteStep DEF Holding, MigrationPlace, Opened, DerivationPlace

\* The new table has the ids of the old one, and none of its columns.
LEMMA CopyIdentitiesStep ==
  ASSUME SafeInv, NEW p \in Process, CopyIdentities(p), UNCHANGED <<loaded, added, pending>>
  PROVE  Safely
  <1>1. Moves(p, "drop") /\ pc[p] = "copy"
    BY SameLoaded, PlainMove DEF CopyIdentities, Place, Opening, MigrationPlace
  <1> PICK w : w = working
    OBVIOUS
  <1> PICK table : table = [legacy |-> FALSE, ids |-> w.identities["devices"].ids]
    OBVIOUS
  <1> PICK c : c = Put(w, "devices_migrated", table)
    OBVIOUS
  <1>2. writer = p /\ writer' = p /\ working' = c /\ UNCHANGED file /\ misread' = misread
    BY DEF CopyIdentities, Write, DevicesTable
  <1>3. WorkingAt(w, "copy")
    BY <1>1, <1>2, HolderSees
  <1>4. WorkingAt(c, "drop")
    <2>0. "devices" \in DOMAIN w.identities /\ w.identities \in IdentityTables
      BY <1>3 DEF WorkingAt, Keeps, ContentOK
    <2>1. table \in IdentityTable
      BY <2>0, IdentityTypes DEF IdentityTable
    <2>2. /\ ContentOK(c) /\ c.identities["devices"] = w.identities["devices"]
          /\ {"devices", "devices_migrated"} \subseteq DOMAIN c.identities
          /\ c.identities["devices_migrated"] = table
          /\ c.evidence = w.evidence /\ c.tables = w.tables
      BY <1>3, <2>0, <2>1, PutFacts DEF WorkingAt, TableName
    <2>3. Keeps(c, "devices") /\ DevicesResolve(c)
      <3>1. Keeps(w, "devices") /\ DevicesResolve(w)
        BY <1>3 DEF WorkingAt
      <3>2. Keeps(c, "devices")
        BY <2>2, <3>1 DEF Keeps
      <3>3. DevicesResolve(c)
        BY <2>2, <3>1, <3>2 DEF Keeps, DevicesResolve, HasDevices, DevicesTable
      <3> QED BY <3>2, <3>3
    <2>4. Keeps(c, "devices_migrated") /\ ~ c.identities["devices_migrated"].legacy
      <3>1. table.legacy = FALSE /\ table.ids = c.identities["devices"].ids
        BY <2>2
      <3>2. Keeps(c, "devices") /\ c.identities["devices_migrated"].ids = c.identities["devices"].ids
            /\ ~ c.identities["devices_migrated"].legacy
        BY <2>2, <2>3, <3>1
      <3>3. /\ identities["devices"].ids \subseteq c.identities["devices"].ids
            /\ \A r \in Run : \A i \in DOMAIN c.evidence[r] :
                 c.evidence[r][i].device \in c.identities["devices"].ids
        BY <3>2 DEF Keeps
      <3>4. PICK old : old = c.identities["devices"].ids
        OBVIOUS
      <3>5. PICK migrated : migrated = c.identities["devices_migrated"]
        OBVIOUS
      <3>6. /\ identities["devices"].ids \subseteq migrated.ids /\ ~ migrated.legacy
            /\ \A r \in Run : \A i \in DOMAIN c.evidence[r] : c.evidence[r][i].device \in migrated.ids
        BY <3>2, <3>3, <3>4, <3>5
      <3> QED BY <2>2, <3>5, <3>6 DEF Keeps
    <2> QED BY <1>3, <2>2, <2>3, <2>4 DEF WorkingAt, DerivationPlace
  <1> QED BY <1>1, <1>2, <1>4, WriteStep DEF Holding, MigrationPlace, Opened, DerivationPlace

\* The old table goes: the guard says that no episode refers to it.
LEMMA DropDevicesStep ==
  ASSUME SafeInv, NEW p \in Process, DropDevices(p), UNCHANGED <<loaded, added, pending>>
  PROVE  Safely
  <1>1. Moves(p, "rename") /\ pc[p] = "drop"
    BY SameLoaded, PlainMove DEF DropDevices, Place, Opening, MigrationPlace
  <1> PICK w : w = working
    OBVIOUS
  <1> PICK c : c = Drop(w, "devices")
    OBVIOUS
  <1>2. /\ writer = p /\ writer' = p /\ working' = c /\ UNCHANGED file /\ misread' = misread
        /\ DevicesResolve(c)
    BY DEF DropDevices, Write
  <1>3. WorkingAt(w, "drop")
    BY <1>1, <1>2, HolderSees
  <1>4. WorkingAt(c, "rename")
    <2>1. /\ ContentOK(c)
          /\ c.identities["devices_migrated"] = w.identities["devices_migrated"]
          /\ "devices_migrated" \in DOMAIN c.identities
          /\ c.evidence = w.evidence /\ c.tables = w.tables
      BY <1>3, DropFacts DEF WorkingAt
    <2>2. Keeps(c, "devices_migrated") /\ ~ c.identities["devices_migrated"].legacy
      BY <1>3, <2>1 DEF WorkingAt, Keeps
    <2> QED BY <1>2, <1>3, <2>1, <2>2 DEF WorkingAt, DerivationPlace
  <1> QED BY <1>1, <1>2, <1>4, WriteStep DEF Holding, MigrationPlace, Opened, DerivationPlace

\* The new table takes the name of the old one.
LEMMA RenameMigratedStep ==
  ASSUME SafeInv, NEW p \in Process, RenameMigrated(p), UNCHANGED <<loaded, added, pending>>
  PROVE  Safely
  <1>1. Moves(p, "commitMigration") /\ pc[p] = "rename"
    BY SameLoaded, PlainMove DEF RenameMigrated, Place, Opening, MigrationPlace
  <1> PICK w : w = working
    OBVIOUS
  <1> PICK b : b = Put(w, "devices", w.identities["devices_migrated"])
    OBVIOUS
  <1> PICK c : c = Drop(b, "devices_migrated")
    OBVIOUS
  <1>2. writer = p /\ writer' = p /\ working' = c /\ UNCHANGED file /\ misread' = misread
    BY DEF RenameMigrated, Write
  <1>3. WorkingAt(w, "rename")
    BY <1>1, <1>2, HolderSees
  <1>4. WorkingAt(c, "commitMigration")
    <2>0. w.identities["devices_migrated"] \in IdentityTable
      BY <1>3, IdentityTypes DEF WorkingAt, Keeps, ContentOK
    <2>1. /\ ContentOK(b) /\ b.identities["devices"] = w.identities["devices_migrated"]
          /\ "devices" \in DOMAIN b.identities
          /\ b.evidence = w.evidence /\ b.tables = w.tables
      BY <1>3, <2>0, PutFacts DEF WorkingAt, TableName
    <2>2. /\ ContentOK(c) /\ c.identities["devices"] = w.identities["devices_migrated"]
          /\ "devices" \in DOMAIN c.identities
          /\ c.evidence = w.evidence /\ c.tables = tables
      BY <1>3, <2>1, DropFacts DEF WorkingAt, DerivationPlace
    <2>3. Keeps(c, "devices")
      BY <1>3, <2>2 DEF WorkingAt, Keeps
    <2>4. DevicesResolve(c)
      BY <2>2, <2>3, FileSees, ContentFields DEF DevicesResolve, HasDevices, DevicesTable, Keeps
    <2> QED BY <1>3, <2>2, <2>3, <2>4 DEF WorkingAt, DerivationPlace
  <1> QED BY <1>1, <1>2, <1>4, WriteStep DEF Holding, MigrationPlace, Opened, DerivationPlace

\* The migration becomes visible.
LEMMA CommitMigrationStep ==
  ASSUME SafeInv, NEW p \in Process, CommitMigration(p), UNCHANGED <<loaded, added, pending>>
  PROVE  Safely
  <1>1. Moves(p, "newRun") /\ pc[p] = "commitMigration"
    BY SameLoaded, PlainMove DEF CommitMigration, Place, Opening, MigrationPlace
  <1> PICK c : c = working
    OBVIOUS
  <1>2. writer = p /\ writer' = None /\ working' = Nothing /\ Publish(c)
    BY DEF CommitMigration, Commit, Publish
  <1>3. WorkingAt(c, "commitMigration")
    BY <1>1, <1>2, HolderSees
  <1>4. ContentOK(c) /\ DevicesResolve(c) /\ Keeps(c, "devices") /\ ~ c.identities["devices"].legacy
    BY <1>3 DEF WorkingAt
  <1> QED BY <1>1, <1>2, <1>4, PublishStep DEF Place

\* The run of p is committed at once; the table it will record into is there.
LEMMA CreateRunStep ==
  ASSUME SafeInv, NEW p \in Process, CreateRun(p), UNCHANGED <<loaded, added, pending>>
  PROVE  Safely
  <1> PICK c : c = [Content EXCEPT !.newest = newest + 1]
    OBVIOUS
  <1>0. pc[p] = "newRun" /\ newest \in Nat /\ newest < MaxRuns
    BY FileSees, ContentFields DEF CreateRun, Statement, ContentOK
  <1>1. Moves(p, "recording")
    <2>1. newest + 1 \in Run
      BY <1>0, BoundsAssumption DEF Run
    <2>2. runOf' \in [Process -> 0 .. MaxRuns]
      BY <2>1 DEF CreateRun, SafeInv, ProcessesOK, Run
    <2>3. \A q \in Process : pc'[q] \in {"recording", "update"} => runOf'[q] \in Run
      BY <2>1 DEF CreateRun, Statement, SafeInv, ProcessesOK
    <2> QED BY <2>2, <2>3, SameLoaded
            DEF CreateRun, Statement, Moves, SafeInv, ProcessesOK, Place, Opening, MigrationPlace
  <1>2. /\ ContentOK(c) /\ c.evidence = evidence /\ c.tables = tables
        /\ c.identities = identities
    BY <1>0, FileSees, WithNewest, ContentFields
  <1>3. Keeps(c, "devices") /\ DevicesResolve(c)
    BY <1>2, FileSees, ContentFields DEF Keeps, DevicesResolve, HasDevices, DevicesTable
  <1>4. ~misread => ~ c.identities["devices"].legacy
    BY <1>0, <1>2 DEF SafeInv, MigrationIsDone, Opened
  <1>5. writer = None /\ writer' = None /\ working' = Nothing /\ Publish(c)
    BY NoneAssumption DEF CreateRun, Autocommit, SafeInv, LockIsSound
  <1>6. added'[p] \subseteq DevicesTable(c).ids /\ misread' = misread
    BY <1>0 DEF CreateRun, SafeInv, ProcessesOK, Opening
  <1> QED BY <1>1, <1>2, <1>3, <1>4, <1>5, <1>6, PublishStep DEF Place

-----------------------------------------------------------------------------
\* The statements that record, and the end of the run.

\* An INSERT that makes p see c, whether it is the first or the last of its
\* batch or neither.
LEMMA InsertStep ==
  ASSUME SafeInv, NEW p \in Process, NEW c, Insert(p, c),
         ContentOK(c), DevicesResolve(c), Keeps(c, "devices"), c.tables = tables,
         added' \in [Process -> SUBSET Device],
         \A q \in Process \ {p} : added'[q] = added[q],
         added'[p] \subseteq c.identities["devices"].ids
  PROVE  Safely
  <1>1. /\ pc[p] = "recording" /\ pc' = [pc EXCEPT ![p] = "recording"]
        /\ runOf' = runOf /\ misread' = misread /\ loaded' = loaded
    BY DEF Insert, Statement
  <1>2. pending[p] \in 0 .. BatchSize - 1 /\ BatchSize \in Nat \ {0}
    BY BatchSizeAssumption DEF SafeInv, ProcessesOK
  <1>3. /\ pending' \in [Process -> 0 .. BatchSize - 1]
        /\ \A q \in Process \ {p} : pending'[q] = pending[q]
    BY <1>2 DEF Insert, SafeInv, ProcessesOK
  <1>4. \A q \in Process : pc'[q] \in Opening => added'[q] = {}
    BY <1>1 DEF SafeInv, ProcessesOK, Opening, MigrationPlace
  <1>5. Moves(p, "recording")
    BY <1>1, <1>3, <1>4, SameLoaded DEF Moves, SafeInv, ProcessesOK, Place
  <1>6. writer \in {None, p}
    BY DEF Insert
  <1>7. ~misread => ~ identities["devices"].legacy /\ ~ c.identities["devices"].legacy
    BY <1>1 DEF SafeInv, MigrationIsDone, Opened, Keeps
  <1>8. added'[p] \subseteq DevicesTable(c).ids
    BY DEF DevicesTable
  <1>9. CASE pending[p] + 1 = BatchSize
    <2>1. Publish(c) /\ writer' = None /\ working' = Nothing
      BY <1>9 DEF Insert
    <2> QED BY <1>5, <1>6, <1>7, <1>8, <2>1, PublishStep DEF Place
  <1>10. CASE pending[p] + 1 # BatchSize
    <2>1. writer' = p /\ working' = c /\ UNCHANGED file /\ pending' = [pending EXCEPT ![p] = @ + 1]
      BY <1>10 DEF Insert
    <2>2. pending'[p] > 0
      BY <1>2, <2>1 DEF SafeInv, ProcessesOK
    <2>3. WorkingAt(c, "recording")
      BY DEF WorkingAt
    <2> QED BY <1>1, <1>5, <1>6, <1>7, <1>8, <2>1, <2>2, <2>3, WriteStep DEF Holding
  <1> QED BY <1>9, <1>10

\* A device is announced: its id joins the others.
LEMMA RecordDeviceStep ==
  ASSUME SafeInv, NEW p \in Process, RecordDevice(p)
  PROVE  Safely
  <1>20. PICK d \in Device \ added[p] :
        /\ Insert(p, [View(p) EXCEPT !.identities["devices"].ids = @ \cup {d}])
        /\ added' = [added EXCEPT ![p] = @ \cup {d}]
    BY DEF RecordDevice
  <1>21. PICK v : v = View(p)
    OBVIOUS
  <1>22. PICK table : table = [v.identities["devices"] EXCEPT !.ids = @ \cup {d}]
    OBVIOUS
  <1>23. PICK t : t = [v.identities EXCEPT !["devices"] = table]
    OBVIOUS
  <1>24. PICK c : c = [v EXCEPT !.identities = t]
    OBVIOUS
  <1>1. pc[p] = "recording"
    BY <1>20 DEF Insert, Statement
  <1>2. /\ ContentOK(v) /\ DevicesResolve(v) /\ Keeps(v, "devices") /\ v.tables = tables
        /\ added[p] \subseteq v.identities["devices"].ids
    BY <1>1, <1>21, RecorderSees
  <1>3. Insert(p, c)
    <2>1. c = [v EXCEPT !.identities["devices"].ids = @ \cup {d}]
      BY <1>22, <1>23, <1>24
    <2> QED BY <1>20, <1>21, <2>1
  <1>4. /\ DOMAIN t = DOMAIN v.identities /\ "devices" \in DOMAIN t
        /\ t["devices"].ids = v.identities["devices"].ids \cup {d}
        /\ t["devices"].legacy = v.identities["devices"].legacy
        /\ t \in IdentityTables
    <2>1. "devices" \in DOMAIN v.identities /\ v.identities \in IdentityTables
      BY <1>2 DEF Keeps, ContentOK
    <2>2. PICK names \in SUBSET TableName : v.identities \in [names -> IdentityTable]
      BY <2>1 DEF IdentityTables
    <2>3. v.identities["devices"] \in IdentityTable
      BY <2>1, <2>2
    <2>4. t["devices"] = table
      BY <1>23, <2>1, <2>2
    <2>5. /\ t["devices"] \in IdentityTable
          /\ t["devices"].ids = v.identities["devices"].ids \cup {d}
          /\ t["devices"].legacy = v.identities["devices"].legacy
      BY <1>22, <2>3, <2>4 DEF IdentityTable
    <2>6. t \in [names -> IdentityTable]
      BY <1>23, <2>1, <2>2, <2>4, <2>5
    <2> QED BY <1>23, <2>1, <2>2, <2>5, <2>6 DEF IdentityTables
  <1>5. /\ ContentOK(c) /\ c.identities = t
        /\ c.evidence = v.evidence /\ c.tables = v.tables
    BY <1>2, <1>4, <1>24, WithIdentities
  <1>6. Keeps(c, "devices") /\ DevicesResolve(c)
    BY <1>2, <1>4, <1>5 DEF Keeps, DevicesResolve, HasDevices, DevicesTable
  <1>7. /\ added' \in [Process -> SUBSET Device]
        /\ \A q \in Process \ {p} : added'[q] = added[q]
        /\ added'[p] = added[p] \cup {d}
    BY <1>20 DEF SafeInv, ProcessesOK
  <1>8. added'[p] \subseteq c.identities["devices"].ids
    BY <1>2, <1>4, <1>5, <1>7
  <1> QED BY <1>2, <1>3, <1>5, <1>6, <1>7, <1>8, InsertStep

\* A motion is recorded: its device was announced before.
LEMMA RecordMotionStep ==
  ASSUME SafeInv, NEW p \in Process, RecordMotion(p)
  PROVE  Safely
  <1>20. PICK m \in [device : added[p], rested : BOOLEAN] :
        /\ Insert(p, [View(p) EXCEPT !.evidence[runOf[p]] = Append(@, m)])
        /\ UNCHANGED added
    BY DEF RecordMotion
  <1>21. PICK v : v = View(p)
    OBVIOUS
  <1>22. PICK r : r = runOf[p]
    OBVIOUS
  <1>23. PICK e : e = [v.evidence EXCEPT ![r] = Append(@, m)]
    OBVIOUS
  <1>24. PICK c : c = [v EXCEPT !.evidence = e]
    OBVIOUS
  <1>1. pc[p] = "recording"
    BY <1>20 DEF Insert, Statement
  <1>2. /\ ContentOK(v) /\ DevicesResolve(v) /\ Keeps(v, "devices") /\ v.tables = tables
        /\ added[p] \subseteq v.identities["devices"].ids
    BY <1>1, <1>21, RecorderSees
  <1>3. Insert(p, c)
    <2>1. c = [v EXCEPT !.evidence[r] = Append(@, m)]
      BY <1>23, <1>24
    <2> QED BY <1>20, <1>21, <1>22, <2>1
  <1>4. r \in Run /\ added \in [Process -> SUBSET Device]
    BY <1>1, <1>22 DEF SafeInv, ProcessesOK
  <1>5. m \in Reader!Motion /\ m.device \in v.identities["devices"].ids
    BY <1>2, <1>4, <1>20 DEF Reader!Motion
  <1>6. v.evidence \in [Run -> Seq(Reader!Motion)]
    BY <1>2 DEF ContentOK
  <1>7. e \in [Run -> Seq(Reader!Motion)]
    BY <1>4, <1>5, <1>6, <1>23, AppendProperties
  <1>8. /\ ContentOK(c) /\ c.evidence = e
        /\ c.identities = v.identities /\ c.tables = v.tables
    BY <1>2, <1>7, <1>24, WithEvidence
  <1>9. \A s \in Run : \A i \in DOMAIN e[s] : e[s][i].device \in v.identities["devices"].ids
    <2> SUFFICES ASSUME NEW s \in Run, NEW i \in DOMAIN e[s]
                 PROVE  e[s][i].device \in v.identities["devices"].ids
      OBVIOUS
    <2>1. CASE s # r
      BY <1>2, <1>4, <1>6, <1>23, <2>1 DEF Keeps
    <2>2. CASE s = r
      <3>1. e[s] = Append(v.evidence[r], m) /\ v.evidence[r] \in Seq(Reader!Motion)
        BY <1>4, <1>6, <1>23, <2>2
      <3>2. CASE i = Len(v.evidence[r]) + 1
        BY <1>5, <3>1, <3>2, AppendProperties
      <3>3. CASE i \in DOMAIN v.evidence[r]
        <4>1. e[s][i] = v.evidence[r][i]
          BY <1>5, <3>1, <3>3, AppendProperties
        <4> QED BY <1>2, <1>4, <3>3, <4>1 DEF Keeps
      <3>4. DOMAIN e[s] = 1 .. Len(v.evidence[r]) + 1 /\ DOMAIN v.evidence[r] = 1 .. Len(v.evidence[r])
            /\ Len(v.evidence[r]) \in Nat
        BY <1>5, <3>1, AppendProperties, LenProperties
      <3> QED BY <3>2, <3>3, <3>4
    <2> QED BY <2>1, <2>2
  <1>10. Keeps(c, "devices") /\ DevicesResolve(c)
    BY <1>2, <1>8, <1>9 DEF Keeps, DevicesResolve, HasDevices, DevicesTable
  <1>11. /\ added' \in [Process -> SUBSET Device]
         /\ \A q \in Process \ {p} : added'[q] = added[q]
         /\ added'[p] \subseteq c.identities["devices"].ids
    BY <1>2, <1>4, <1>8, <1>20
  <1> QED BY <1>2, <1>3, <1>8, <1>10, <1>11, InsertStep

\* The last batch of the run becomes visible, when there is one.
LEMMA FinishCommitStep ==
  ASSUME SafeInv, NEW p \in Process, FinishCommit(p)
  PROVE  Safely
  <1>1. /\ pc[p] = "recording" /\ pc' = [pc EXCEPT ![p] = "update"]
        /\ runOf' = runOf /\ misread' = misread /\ loaded' = loaded /\ added' = added
        /\ pending' = [pending EXCEPT ![p] = 0]
    BY DEF FinishCommit, Statement
  <1>2. Moves(p, "update")
    <2>1. \A q \in Process : pc'[q] \in Opening => added'[q] = {}
      BY <1>1 DEF SafeInv, ProcessesOK, Opening, MigrationPlace
    <2>2. pending' \in [Process -> 0 .. BatchSize - 1]
      BY <1>1, BatchSizeAssumption DEF SafeInv, ProcessesOK
    <2> QED BY <1>1, <2>1, <2>2, SameLoaded DEF Moves, SafeInv, ProcessesOK, Place
  <1>3. ~misread => ~ identities["devices"].legacy
    BY <1>1 DEF SafeInv, MigrationIsDone, Opened
  <1>4. CASE pending[p] = 0
    <2>1. Read
      BY <1>4 DEF FinishCommit
    <2>2. writer # p
      BY <1>1, <1>4, NoneAssumption DEF SafeInv, LockIsSound
    <2> QED BY <1>1, <1>2, <1>3, <2>1, <2>2, ReadStep DEF Place
  <1>5. CASE pending[p] # 0
    <2> PICK c : c = working
      OBVIOUS
    <2>1. writer = p /\ writer' = None /\ working' = Nothing /\ Publish(c)
      BY <1>5 DEF FinishCommit, Commit, Publish
    <2>2. WorkingAt(c, "recording")
      BY <1>1, <2>1, HolderSees
    <2>3. ContentOK(c) /\ DevicesResolve(c) /\ Keeps(c, "devices")
      BY <2>2 DEF WorkingAt
    <2>4. ~misread => ~ c.identities["devices"].legacy
      BY <1>3, <2>3 DEF Keeps
    <2> QED BY <1>2, <2>1, <2>3, <2>4, PublishStep DEF Place
  <1> QED BY <1>4, <1>5

\* The run's end is committed at once.
LEMMA FinishUpdateStep ==
  ASSUME SafeInv, NEW p \in Process, FinishUpdate(p)
  PROVE  Safely
  <1> PICK r : r = runOf[p]
    OBVIOUS
  <1> PICK e : e = [ended EXCEPT ![r] = TRUE]
    OBVIOUS
  <1> PICK c : c = [Content EXCEPT !.ended = e]
    OBVIOUS
  <1>1. Statement(p, "update", "schema") /\ UNCHANGED <<runOf, misread, loaded, added, pending>>
    BY DEF FinishUpdate, recorder
  <1>2. Moves(p, "schema") /\ pc[p] = "update"
    BY <1>1, SameLoaded, PlainMove DEF Place, Opening, MigrationPlace
  <1>3. ContentOK(Content)
    BY FileSees
  <1>4. e \in [Run -> BOOLEAN]
    BY <1>3, ContentFields DEF ContentOK
  <1>5. Autocommit(c)
    BY DEF FinishUpdate, Content
  <1>6. /\ ContentOK(c) /\ c.evidence = evidence /\ c.tables = tables
        /\ c.identities = identities
    BY <1>3, <1>4, WithEnded, ContentFields
  <1>7. Keeps(c, "devices") /\ DevicesResolve(c)
    BY <1>6, FileSees, ContentFields DEF Keeps, DevicesResolve, HasDevices, DevicesTable
  <1>8. ~misread => ~ c.identities["devices"].legacy
    BY <1>2, <1>6 DEF SafeInv, MigrationIsDone, Opened
  <1>9. writer = None /\ writer' = None /\ working' = Nothing /\ Publish(c)
    BY <1>5, NoneAssumption DEF Autocommit, SafeInv, LockIsSound
  <1> QED BY <1>2, <1>6, <1>7, <1>8, <1>9, PublishStep DEF Place

-----------------------------------------------------------------------------
\* The statements of the derivation.

\* c with other derived tables is still sound, as long as their episodes are
\* of known devices.
LEMMA DerivedStays ==
  ASSUME SafeInv, NEW c, NEW d, NEW t, NEW place \in DerivationPlace, d = [c EXCEPT !.tables = t],
         ContentOK(c), Keeps(c, "devices"),
         t = [created |-> t.created, episodes |-> t.episodes,
              members |-> t.members, points |-> t.points],
         \A id \in DOMAIN t.episodes : t.episodes[id].device \in c.identities["devices"].ids
  PROVE  WorkingAt(d, place) /\ d.identities = c.identities
  <1>1. /\ ContentOK(d) /\ d.tables = t
        /\ d.evidence = c.evidence /\ d.identities = c.identities
    BY WithTables
  <1>2. Keeps(d, "devices") /\ DevicesResolve(d)
    BY <1>1 DEF Keeps, DevicesResolve, HasDevices, DevicesTable
  <1> QED BY <1>1, <1>2 DEF WorkingAt, DerivationPlace

\* create_schema() is done by the first process that comes to it.
LEMMA CreateSchemaStep ==
  ASSUME SafeInv, NEW p \in Process, CreateSchema(p), UNCHANGED <<runOf, misread, added, pending>>
  PROVE  Safely
  <1>1. Moves(p, "clear") /\ pc[p] = "schema" /\ misread' = misread
    BY SameLoaded, PlainMove DEF CreateSchema, Place, Opening, MigrationPlace
  <1>2. ~misread => ~ identities["devices"].legacy
    BY <1>1 DEF SafeInv, MigrationIsDone, Opened
  <1>3. CASE tables.created
    <2>1. writer # p
      BY <1>1, HolderSees DEF Holding, MigrationPlace, DerivationPlace
    <2>2. Read
      BY <1>3 DEF CreateSchema
    <2> QED BY <1>1, <1>2, <2>1, <2>2, ReadStep DEF Place
  <1>4. CASE ~tables.created
    <2>1. PICK t : t = [tables EXCEPT !.created = TRUE]
      OBVIOUS
    <2>2. PICK c : c = [Content EXCEPT !.tables = t]
      OBVIOUS
    <2>3. Autocommit(c)
      <3>1. c = [Content EXCEPT !.tables.created = TRUE]
        BY <2>1, <2>2, ContentFields DEF Content
      <3> QED BY <1>4, <3>1 DEF CreateSchema
    <2>4. /\ t = [created |-> t.created, episodes |-> t.episodes,
                  members |-> t.members, points |-> t.points]
          /\ t.episodes = tables.episodes
      BY <2>1, FileSees, ContentFields DEF ContentOK
    <2>5. /\ ContentOK(c) /\ c.tables = t /\ c.evidence = evidence
          /\ c.identities = identities
      BY <2>2, <2>4, FileSees, WithTables, ContentFields
    <2>6. Keeps(c, "devices") /\ DevicesResolve(c)
      BY <2>4, <2>5, FileSees, ContentFields DEF Keeps, DevicesResolve, HasDevices, DevicesTable
    <2>7. writer = None /\ writer' = None /\ working' = Nothing /\ Publish(c)
      BY <2>3, NoneAssumption DEF Autocommit, SafeInv, LockIsSound
    <2> QED BY <1>1, <1>2, <2>5, <2>6, <2>7, PublishStep DEF Place
  <1> QED BY <1>3, <1>4

\* A statement of p inside of its derivation, that makes it see the tables t.
LEMMA DeriveWriteStep ==
  ASSUME SafeInv, NEW p \in Process, NEW from, NEW place \in DerivationPlace, NEW c, NEW t,
         Statement(p, from, place), UNCHANGED <<runOf, misread, added, pending>>,
         loaded' = [q \in Process |-> loaded'[q]],
         from \in Opened,
         ContentOK(c), Keeps(c, "devices"),
         writer \in {None, p}, writer' = p, working' = [c EXCEPT !.tables = t], UNCHANGED file,
         t = [created |-> t.created, episodes |-> t.episodes,
              members |-> t.members, points |-> t.points],
         \A id \in DOMAIN t.episodes : t.episodes[id].device \in c.identities["devices"].ids
  PROVE  Safely
  <1>1. Moves(p, place) /\ pc[p] = from
    BY PlainMove DEF DerivationPlace, Place, Opening, MigrationPlace
  <1>2. PICK d : d = [c EXCEPT !.tables = t]
    OBVIOUS
  <1>3. WorkingAt(d, place)
    BY <1>2, DerivedStays
  <1>4. ~misread => ~ identities["devices"].legacy
    BY <1>1 DEF SafeInv, MigrationIsDone
  <1>5. place \in Holding /\ place # "recording"
    BY DEF Holding, DerivationPlace
  <1> QED BY <1>1, <1>2, <1>3, <1>4, <1>5, WriteStep

\* What a process in its derivation sees.
LEMMA DeriverSees ==
  ASSUME SafeInv, NEW p \in Process, writer = p, pc[p] \in DerivationPlace
  PROVE  /\ ContentOK(working) /\ Keeps(working, "devices")
         /\ \A id \in DOMAIN working.tables.episodes :
              working.tables.episodes[id].device \in working.identities["devices"].ids
  <1>1. WorkingAt(working, pc[p])
    BY HolderSees
  <1> QED BY <1>1 DEF WorkingAt, DerivationPlace, DevicesResolve, DevicesTable

\* The transaction of the derivation begins with the committed content.
LEMMA ClearPointsStep ==
  ASSUME SafeInv, NEW p \in Process, ClearPoints(p), UNCHANGED <<runOf, misread, added, pending>>
  PROVE  Safely
  <1>1. PICK t : t = [tables EXCEPT !.points = {}]
    OBVIOUS
  <1>2. /\ Statement(p, "clear", "clearMembers") /\ UNCHANGED loaded
        /\ writer = None /\ writer' = p /\ UNCHANGED file
        /\ working' = [Content EXCEPT !.tables.points = {}]
    BY DEF ClearPoints, BeginWrite
  <1>3. working' = [Content EXCEPT !.tables = t]
    BY <1>1, <1>2 DEF Content
  <1>4. t = [created |-> t.created, episodes |-> t.episodes,
             members |-> t.members, points |-> t.points]
    BY <1>1, FileSees, ContentFields DEF ContentOK
  <1>5. \A id \in DOMAIN t.episodes : t.episodes[id].device \in Content.identities["devices"].ids
    BY <1>1, FileSees, ContentFields DEF ContentOK, DevicesResolve, DevicesTable
  <1> QED BY <1>2, <1>3, <1>4, <1>5, FileSees, SameLoaded, DeriveWriteStep DEF DerivationPlace, Opened

\* The members go.
LEMMA ClearMembersStep ==
  ASSUME SafeInv, NEW p \in Process, ClearMembers(p), UNCHANGED <<runOf, misread, added, pending>>
  PROVE  Safely
  <1>1. PICK t : t = [working.tables EXCEPT !.members = {}]
    OBVIOUS
  <1>2. /\ Statement(p, "clearMembers", "clearEpisodes") /\ UNCHANGED loaded
        /\ writer = p /\ writer' = p /\ UNCHANGED file
        /\ working' = [working EXCEPT !.tables.members = {}]
    BY DEF ClearMembers, Write
  <1>3. pc[p] \in DerivationPlace /\ "clearMembers" \in Opened
    BY <1>2 DEF Statement, DerivationPlace, Opened
  <1>4. working' = [working EXCEPT !.tables = t]
    BY <1>1, <1>2
  <1>5. /\ t = [created |-> t.created, episodes |-> t.episodes,
                members |-> t.members, points |-> t.points]
        /\ t.episodes = working.tables.episodes
    BY <1>1, <1>2, <1>3, DeriverSees DEF ContentOK
  <1> QED BY <1>2, <1>3, <1>4, <1>5, DeriverSees, SameLoaded, DeriveWriteStep DEF DerivationPlace

\* The episodes go.
LEMMA ClearEpisodesStep ==
  ASSUME SafeInv, NEW p \in Process, ClearEpisodes(p), UNCHANGED <<runOf, misread, added, pending>>
  PROVE  Safely
  <1>1. PICK t : t = [working.tables EXCEPT !.episodes = << >>]
    OBVIOUS
  <1>2. /\ Statement(p, "clearEpisodes", "load") /\ UNCHANGED loaded
        /\ writer = p /\ writer' = p /\ UNCHANGED file
        /\ working' = [working EXCEPT !.tables.episodes = << >>]
    BY DEF ClearEpisodes, Write
  <1>3. pc[p] \in DerivationPlace /\ "clearEpisodes" \in Opened
    BY <1>2 DEF Statement, DerivationPlace, Opened
  <1>4. working' = [working EXCEPT !.tables = t]
    BY <1>1, <1>2
  <1>5. /\ t = [created |-> t.created, episodes |-> t.episodes,
                members |-> t.members, points |-> t.points]
        /\ t.episodes = << >>
    BY <1>1, <1>2, <1>3, DeriverSees DEF ContentOK
  <1> QED BY <1>2, <1>3, <1>4, <1>5, DeriverSees, SameLoaded, DeriveWriteStep DEF DerivationPlace

\* The evidence is read, under the lock.
LEMMA LoadEvidenceStep ==
  ASSUME SafeInv, NEW p \in Process, LoadEvidence(p), UNCHANGED <<runOf, misread, added, pending>>
  PROVE  Safely
  <1>1. Read /\ Statement(p, "load", "episode")
    BY DEF LoadEvidence
  <1>2. loaded' = [q \in Process |-> loaded'[q]]
    BY DEF LoadEvidence, SafeInv, ProcessesOK
  <1>3. Moves(p, "episode") /\ pc[p] = "load"
    BY <1>1, <1>2, PlainMove DEF Place, Opening, MigrationPlace
  <1>4. writer = p => "episode" \in Holding /\ WorkingAt(working, "episode")
    BY <1>3, HolderSees DEF WorkingAt, Holding, DerivationPlace
  <1>5. ~misread' => ~ identities["devices"].legacy
    BY <1>3 DEF SafeInv, MigrationIsDone, Opened, DerivationPlace, Moves
  <1> QED BY <1>1, <1>3, <1>4, <1>5, ReadStep DEF Place

\* One more episode: its foreign key is the guard.
LEMMA InsertEpisodeStep ==
  ASSUME SafeInv, NEW p \in Process, InsertEpisode(p), UNCHANGED <<runOf, misread, added, pending>>
  PROVE  Safely
  <1>1. PICK more : more = Append(working.tables.episodes, Head(loaded[p]))
    OBVIOUS
  <1>2. PICK t : t = [working.tables EXCEPT !.episodes = more]
    OBVIOUS
  <1>3. PICK d : d = [working EXCEPT !.tables = t]
    OBVIOUS
  <1>4. /\ Statement(p, "episode", "members") /\ UNCHANGED loaded
        /\ writer = p /\ writer' = p /\ UNCHANGED file
        /\ working' = [working EXCEPT !.tables.episodes = more]
        /\ DevicesResolve([working EXCEPT !.tables.episodes = more])
    BY <1>1 DEF InsertEpisode, Write
  <1>5. pc[p] \in DerivationPlace /\ "episode" \in Opened
    BY <1>4 DEF Statement, DerivationPlace, Opened
  <1>6. d = [working EXCEPT !.tables.episodes = more]
    BY <1>2, <1>3
  <1>7. /\ t = [created |-> t.created, episodes |-> t.episodes,
                members |-> t.members, points |-> t.points]
        /\ d.tables = t /\ d.identities = working.identities
    BY <1>2, <1>3, <1>4, <1>5, DeriverSees DEF ContentOK
  <1>8. \A id \in DOMAIN t.episodes : t.episodes[id].device \in working.identities["devices"].ids
    BY <1>4, <1>6, <1>7 DEF DevicesResolve, DevicesTable
  <1> QED BY <1>3, <1>4, <1>5, <1>6, <1>7, <1>8, DeriverSees, SameLoaded, DeriveWriteStep
          DEF DerivationPlace

\* The rows of the newest episode.
LEMMA InsertMembersStep ==
  ASSUME SafeInv, NEW p \in Process, InsertMembers(p), UNCHANGED <<runOf, misread, added, pending>>
  PROVE  Safely
  <1>1. PICK t : t = [working.tables EXCEPT !.members = @ \cup NewestRows(p)]
    OBVIOUS
  <1>2. /\ Statement(p, "members", "points") /\ UNCHANGED loaded
        /\ writer = p /\ writer' = p /\ UNCHANGED file
        /\ working' = [working EXCEPT !.tables.members = @ \cup NewestRows(p)]
    BY DEF InsertMembers, Write
  <1>3. pc[p] \in DerivationPlace /\ "members" \in Opened
    BY <1>2 DEF Statement, DerivationPlace, Opened
  <1>4. working' = [working EXCEPT !.tables = t]
    BY <1>1, <1>2
  <1>5. /\ t = [created |-> t.created, episodes |-> t.episodes,
                members |-> t.members, points |-> t.points]
        /\ t.episodes = working.tables.episodes
    BY <1>1, <1>2, <1>3, DeriverSees DEF ContentOK
  <1> QED BY <1>2, <1>3, <1>4, <1>5, DeriverSees, SameLoaded, DeriveWriteStep DEF DerivationPlace

\* The points of the newest episode; it is taken from the list.
LEMMA InsertPointsStep ==
  ASSUME SafeInv, NEW p \in Process, InsertPoints(p), UNCHANGED <<runOf, misread, added, pending>>
  PROVE  Safely
  <1>1. PICK t : t = [working.tables EXCEPT !.points = @ \cup NewestRows(p)]
    OBVIOUS
  <1>2. /\ Statement(p, "points", "episode")
        /\ writer = p /\ writer' = p /\ UNCHANGED file
        /\ working' = [working EXCEPT !.tables.points = @ \cup NewestRows(p)]
    BY DEF InsertPoints, Write
  <1>3. pc[p] \in DerivationPlace /\ "points" \in Opened
    BY <1>2 DEF Statement, DerivationPlace, Opened
  <1>4. working' = [working EXCEPT !.tables = t]
    BY <1>1, <1>2
  <1>5. /\ t = [created |-> t.created, episodes |-> t.episodes,
                members |-> t.members, points |-> t.points]
        /\ t.episodes = working.tables.episodes
    BY <1>1, <1>2, <1>3, DeriverSees DEF ContentOK
  <1>6. loaded' = [q \in Process |-> loaded'[q]]
    BY DEF InsertPoints, SafeInv, ProcessesOK
  <1> QED BY <1>2, <1>3, <1>4, <1>5, <1>6, DeriverSees, DeriveWriteStep DEF DerivationPlace

\* The derivation becomes visible.
LEMMA CommitDerivationStep ==
  ASSUME SafeInv, NEW p \in Process, CommitDerivation(p), UNCHANGED <<runOf, misread, added, pending>>
  PROVE  Safely
  <1>1. Moves(p, "done") /\ pc[p] = "episode"
    BY SameLoaded, PlainMove DEF CommitDerivation, Place, Opening, MigrationPlace
  <1> PICK c : c = working
    OBVIOUS
  <1>2. writer = p /\ writer' = None /\ working' = Nothing /\ Publish(c)
    BY DEF CommitDerivation, Commit, Publish
  <1>3. WorkingAt(c, "episode")
    BY <1>1, <1>2, HolderSees
  <1>4. ContentOK(c) /\ DevicesResolve(c) /\ Keeps(c, "devices")
    BY <1>3 DEF WorkingAt
  <1>5. ~misread => ~ c.identities["devices"].legacy
    BY <1>1, <1>4 DEF SafeInv, MigrationIsDone, Opened, DerivationPlace, Keeps
  <1> QED BY <1>1, <1>2, <1>4, <1>5, PublishStep DEF Place

-----------------------------------------------------------------------------
\* The first state is sound: a new file, or an old one with the device of its
\* only motion.
LEMMA SafeInit == Init => SafeInv
  <1> SUFFICES ASSUME Init
               PROVE  SafeInv
    OBVIOUS
  <1> USE DEF Init
  <1>1. ProcessesOK
    <2>1. pc \in [Process -> Place] /\ \A p \in Process : pc[p] = "down" /\ added[p] = {}
      BY DEF Place
    <2>2. runOf \in [Process -> 0 .. MaxRuns]
      BY BoundsAssumption
    <2>3. added \in [Process -> SUBSET Device] /\ misread \in BOOLEAN
      OBVIOUS
    <2>4. pending \in [Process -> 0 .. BatchSize - 1]
      BY BatchSizeAssumption
    <2>5. loaded = [p \in Process |-> loaded[p]]
      OBVIOUS
    <2> QED BY <2>1, <2>2, <2>3, <2>4, <2>5 DEF ProcessesOK
  <1>2. tables = Reader!NoTables /\ DOMAIN tables.episodes = {} /\ tables.episodes = << >>
    BY DEF Reader!Init, Reader!NoTables
  <1>3. /\ newest \in Nat
        /\ evidence \in [Run -> Seq(Reader!Motion)]
        /\ ended \in [Run -> BOOLEAN]
        /\ \/ NewDevices /\ \A r \in Run : DOMAIN evidence[r] = {}
           \/ /\ OldDevices
              /\ \E d \in Device :
                   /\ evidence[1][1].device = d
                   /\ \A r \in Run : \A i \in DOMAIN evidence[r] : evidence[r][i].device = d
    <2>1. CASE Reader!NewFile
      BY <2>1 DEF Reader!NewFile, Run, Reader!Run
    <2>2. CASE Reader!OldFile
      <3>1. PICK d \in Device :
              evidence = [r \in Run |-> IF r = 1 THEN <<[device |-> d, rested |-> TRUE]>> ELSE << >>]
        BY <2>2 DEF Reader!OldFile, Run, Reader!Run
      <3>2. 1 \in Run
        BY BoundsAssumption DEF Run
      <3>3. evidence[1][1].device = d
        BY <3>1, <3>2
      <3>4. \A r \in Run : \A i \in DOMAIN evidence[r] : evidence[r][i].device = d
        BY <3>1
      <3>5. [device |-> d, rested |-> TRUE] \in Reader!Motion
        BY DEF Reader!Motion
      <3>6. evidence \in [Run -> Seq(Reader!Motion)]
        BY <3>1, <3>5
      <3>7. newest \in Nat /\ ended \in [Run -> BOOLEAN] /\ newest # 0
        BY <2>2 DEF Reader!OldFile, Run, Reader!Run
      <3> QED BY <3>3, <3>4, <3>6, <3>7
    <2> QED BY <2>1, <2>2 DEF Reader!Init
  <1>4. identities \in IdentityTables /\ "devices" \in DOMAIN identities
        /\ \A r \in Run : \A i \in DOMAIN evidence[r] :
             evidence[r][i].device \in identities["devices"].ids
    <2>1. CASE NewDevices /\ \A r \in Run : DOMAIN evidence[r] = {}
      <3>1. /\ DOMAIN identities = {"devices"} /\ identities = [n \in {"devices"} |-> identities[n]]
            /\ identities["devices"] = [legacy |-> FALSE, ids |-> {}]
        BY <2>1 DEF NewDevices
      <3>2. [legacy |-> FALSE, ids |-> {}] \in IdentityTable
        BY DEF IdentityTable
      <3> QED BY <2>1, <3>1, <3>2, IdentityTypes DEF TableName
    <2>2. CASE OldDevices /\ \E d \in Device :
                   /\ evidence[1][1].device = d
                   /\ \A r \in Run : \A i \in DOMAIN evidence[r] : evidence[r][i].device = d
      <3>1. PICK names \in {{"devices"}, TableName} :
              identities = [n \in names |-> [legacy |-> n = "devices", ids |-> {evidence[1][1].device}]]
        BY <2>2 DEF OldDevices
      <3>2. PICK d \in Device :
                   /\ evidence[1][1].device = d
                   /\ \A r \in Run : \A i \in DOMAIN evidence[r] : evidence[r][i].device = d
        BY <2>2
      <3>3. \A n \in names : identities[n] \in IdentityTable /\ identities[n].ids = {d}
        BY <3>1, <3>2 DEF IdentityTable
      <3>4. DOMAIN identities = names /\ identities = [n \in names |-> identities[n]]
        BY <3>1
      <3>5. names \subseteq TableName /\ "devices" \in names
        BY DEF TableName
      <3> QED BY <3>2, <3>3, <3>4, <3>5, IdentityTypes
    <2> QED BY <1>3, <2>1, <2>2
  <1>5. FileIsSound
    <2>1. ContentOK(Content)
      BY <1>2, <1>3, <1>4, ContentFields DEF ContentOK, Content, Reader!NoTables
    <2>2. Keeps(Content, "devices") /\ DevicesResolve(Content)
      BY <1>2, <1>4, ContentFields DEF Keeps, DevicesResolve
    <2> QED BY <2>1, <2>2 DEF FileIsSound
  <1>6. LockIsSound /\ AddedIsKnown
    BY DEF LockIsSound, AddedIsKnown
  <1>7. MigrationIsDone /\ MigrationNotBlocked
    BY <1>2 DEF MigrationIsDone, MigrationNotBlocked, Opened, DerivationPlace
  <1> QED BY <1>1, <1>5, <1>6, <1>7 DEF SafeInv

\* Every step keeps the invariant, and every identity.
LEMMA SafeStep == SafeInv /\ [Next]_vars => Safely
  <1> SUFFICES ASSUME SafeInv, [Next]_vars
               PROVE  Safely
    OBVIOUS
  <1>1. ASSUME NEW p \in Process, Open(p)
        PROVE  Safely
    BY <1>1, ConnectStep, InspectStep, BeginMigrationStep, CreateMigratedStep, CopyIdentitiesStep,
       DropDevicesStep, RenameMigratedStep, CommitMigrationStep, CreateRunStep
       DEF Open, OpenStep, recorder
  <1>2. ASSUME NEW p \in Process, Record(p)
        PROVE  Safely
    BY <1>2, RecordDeviceStep, RecordMotionStep, FinishCommitStep, FinishUpdateStep DEF Record
  <1>3. ASSUME NEW p \in Process, Derive(p)
        PROVE  Safely
    BY <1>3, CreateSchemaStep, ClearPointsStep, ClearMembersStep, ClearEpisodesStep,
       LoadEvidenceStep, InsertEpisodeStep, InsertMembersStep, InsertPointsStep,
       CommitDerivationStep
       DEF Derive, DeriveStep, recorder
  <1>4. ASSUME NEW p \in Process, GiveUp(p)
        PROVE  Safely
    BY <1>4, GiveUpStep
  <1>5. CASE UNCHANGED vars
    <2>1. /\ UNCHANGED file /\ writer' = writer /\ working' = working /\ pc' = pc
          /\ runOf' = runOf /\ misread' = misread /\ loaded' = loaded /\ added' = added
          /\ pending' = pending
      BY <1>5 DEF vars, recorder
    <2>2. FileIsSound'
      BY <2>1, FileStays DEF SafeInv
    <2>3. ProcessesOK'
      BY <2>1 DEF SafeInv, ProcessesOK
    <2>4. LockIsSound'
      <3> PICK c : c = working
        OBVIOUS
      <3> PICK at : at = pc[writer]
        OBVIOUS
      <3>1. WorkingAt(c, at) => WorkingAt(c, at)'
        BY <2>1, WorkingStays
      <3> QED BY <2>1, <3>1 DEF SafeInv, LockIsSound, Nothing
    <2>5. AddedIsKnown'
      BY <2>1 DEF SafeInv, AddedIsKnown, DevicesTable, View, Content, file
    <2>6. MigrationIsDone' /\ MigrationNotBlocked'
      BY <2>1 DEF SafeInv, MigrationIsDone, MigrationNotBlocked, file
    <2>7. Keeps(Content, "devices") /\ Content.identities = identities /\ identities' = identities
      BY <2>1, FileSees, ContentFields DEF file
    <2> QED BY <2>2, <2>3, <2>4, <2>5, <2>6, <2>7 DEF SafeInv, Safely, Keeps
  <1> QED BY <1>1, <1>2, <1>3, <1>4, <1>5 DEF Next

\* The invariant holds of every state.
LEMMA AlwaysSafe == Spec => []SafeInv
  <1>1. SafeInv /\ [Next]_vars => SafeInv'
    BY SafeStep DEF Safely
  <1> QED BY SafeInit, <1>1, PTL DEF Spec

\* Whatever the processes do and wherever they die, every stored motion and
\* every episode finds the row of its device (main.cpp 545, the foreign key
\* of movement_episodes).
THEOREM DevicesAreNeverMissing == Spec => []EvidenceResolves
  <1>1. SafeInv => EvidenceResolves
    BY ContentFields DEF SafeInv, FileIsSound, Keeps, EvidenceResolves, HasDevices, DevicesTable
  <1> QED BY <1>1, AlwaysSafe, PTL

\* A table of devices that is still to be migrated is referred to by no
\* episode, unless has_column was misled by a failing step.
THEOREM MigrationIsPossible == Spec => []MigrationNotBlocked
  <1>1. SafeInv => MigrationNotBlocked
    BY DEF SafeInv
  <1> QED BY <1>1, AlwaysSafe, PTL

\* No step of any process takes an identity or the table of devices from the
\* readers (main.cpp 545, "Keep the identity").
THEOREM IdentitiesStay == Spec => IdentitiesKept
  <1>1. SafeInv /\ [Next]_vars => [/\ "devices" \in DOMAIN identities'
                                  /\ identities["devices"].ids \subseteq identities'["devices"].ids]_vars
    BY SafeStep DEF Safely
  <1> QED BY <1>1, AlwaysSafe, PTL DEF Spec, IdentitiesKept

-----------------------------------------------------------------------------
(***************************************************************************)
(* What a derivation makes is a sequence of episodes.  The operators that   *)
(* make it count positions and concatenate the runs' sequences; induction   *)
(* over them is by the least position at which something would be wrong.    *)
(***************************************************************************)

\* An episode as it is stored.
Episode == [run : Run, device : Device, motions : SUBSET (1 .. MaxMotions)]

\* A set of numbers that is not empty has a least one.
LEMMA LeastNumber ==
  ASSUME NEW S \in SUBSET Nat, S # {}
  PROVE  \E n \in S : \A m \in S : n <= m
  <1> DEFINE R == OpToRel(<, Nat)
  <1>1. IsWellFoundedOn(R, Nat)
    BY NatLessThanWellFounded
  <1>2. \A m, n \in Nat : m < n => <<m, n>> \in R
    BY DEF OpToRel
  <1> HIDE DEF R
  <1>3. PICK n \in S : \A m \in S : ~ (<<m, n>> \in R)
    BY <1>1, WFMin
  <1>4. \A m \in S : ~ (m < n)
    BY <1>2, <1>3, Zenon
  <1> QED BY <1>4

\* The readers' specification counts like this module.
LEMMA SameCardinality ==
  ASSUME NEW S
  PROVE  Reader!Cardinality(S) = Cardinality(S)
  BY DEF Reader!Cardinality, Cardinality

\* The number of positions that open an episode: at each position it grows by
\* one, or not at all.
LEMMA OpeningCount ==
  ASSUME NEW rows
  PROVE  /\ Reader!OpeningTo(rows, 0) = {} /\ Cardinality(Reader!OpeningTo(rows, 0)) = 0
         /\ \A i \in Nat : Cardinality(Reader!OpeningTo(rows, i)) \in Nat
         /\ \A i \in Nat \ {0} :
              Cardinality(Reader!OpeningTo(rows, i)) =
                Cardinality(Reader!OpeningTo(rows, i - 1)) + (IF Reader!Opens(rows, i) THEN 1 ELSE 0)
  <1>1. Reader!OpeningTo(rows, 0) = {} /\ Cardinality(Reader!OpeningTo(rows, 0)) = 0
    BY FS_EmptySet DEF Reader!OpeningTo
  <1>2. ASSUME NEW i \in Nat
        PROVE  IsFiniteSet(Reader!OpeningTo(rows, i)) /\ Cardinality(Reader!OpeningTo(rows, i)) \in Nat
    <2>1. IsFiniteSet(1 .. i)
      BY FS_Interval
    <2>2. Reader!OpeningTo(rows, i) \in SUBSET (1 .. i)
      BY DEF Reader!OpeningTo
    <2> QED BY <2>1, <2>2, FS_Subset, FS_CardinalityType
  <1>3. ASSUME NEW i \in Nat \ {0}
        PROVE  Cardinality(Reader!OpeningTo(rows, i)) =
                 Cardinality(Reader!OpeningTo(rows, i - 1)) + (IF Reader!Opens(rows, i) THEN 1 ELSE 0)
    <2>1. i - 1 \in Nat /\ 1 .. i = (1 .. i - 1) \cup {i} /\ i \notin 1 .. i - 1
      OBVIOUS
    <2>2. CASE Reader!Opens(rows, i)
      <3>1. Reader!OpeningTo(rows, i) = Reader!OpeningTo(rows, i - 1) \cup {i}
            /\ i \notin Reader!OpeningTo(rows, i - 1)
        BY <2>1, <2>2 DEF Reader!OpeningTo
      <3>2. IsFiniteSet(Reader!OpeningTo(rows, i - 1))
        BY <1>2, <2>1
      <3>3. Cardinality(Reader!OpeningTo(rows, i)) = Cardinality(Reader!OpeningTo(rows, i - 1)) + 1
        BY <3>1, <3>2, FS_AddElement
      <3> QED BY <2>2, <3>3
    <2>3. CASE ~ Reader!Opens(rows, i)
      <3>1. Reader!OpeningTo(rows, i) = Reader!OpeningTo(rows, i - 1)
        BY <2>1, <2>3 DEF Reader!OpeningTo
      <3> QED BY <1>2, <2>1, <2>3, <3>1
    <2> QED BY <2>2, <2>3
  <1> QED BY <1>1, <1>2, <1>3

\* The n-th position that opens an episode exists.
LEMMA OpeningExists ==
  ASSUME NEW rows \in Seq(Reader!Motion),
         NEW n \in 1 .. Cardinality(Reader!OpeningTo(rows, Len(rows)))
  PROVE  Reader!Opening(rows, n) \in 1 .. Len(rows)
  <1> DEFINE count(i) == Cardinality(Reader!OpeningTo(rows, i))
             S == {i \in Nat : count(i) >= n}
  <1>1. /\ count(0) = 0 /\ \A i \in Nat : count(i) \in Nat
        /\ \A i \in Nat \ {0} : count(i) = count(i - 1) + (IF Reader!Opens(rows, i) THEN 1 ELSE 0)
    BY OpeningCount
  <1>2. Len(rows) \in Nat /\ n \in 1 .. count(Len(rows))
    BY LenProperties
  <1> HIDE DEF count
  <1>3. n \in Nat /\ n >= 1 /\ Len(rows) \in S
    BY <1>1, <1>2
  <1>4. S \in SUBSET Nat /\ \A j \in Nat : j \in S <=> count(j) >= n
    OBVIOUS
  <1> HIDE DEF S
  <1>5. PICK i \in S : \A j \in S : i <= j
    BY <1>3, <1>4, LeastNumber
  <1>6. i \in Nat /\ i # 0 /\ i <= Len(rows)
    <2>1. i \in Nat /\ i <= Len(rows)
      BY <1>3, <1>4, <1>5
    <2>2. count(i) >= n
      BY <1>4, <1>5, <2>1
    <2>3. i # 0
      BY <1>1, <1>3, <2>2
    <2> QED BY <2>1, <2>3
  <1>7. i - 1 \in Nat /\ i - 1 \notin S
    BY <1>4, <1>5, <1>6
  <1>8. count(i) >= n /\ ~ (count(i - 1) >= n) /\ count(i - 1) \in Nat
    BY <1>1, <1>4, <1>5, <1>6, <1>7
  <1>9. count(i) = count(i - 1) + (IF Reader!Opens(rows, i) THEN 1 ELSE 0)
    BY <1>1, <1>6
  <1>10. Reader!Opens(rows, i)
    BY <1>3, <1>8, <1>9
  <1>11. count(i) = n
    BY <1>3, <1>8, <1>9, <1>10
  <1>12. \E j \in 1 .. Len(rows) : Reader!Opens(rows, j) /\ Cardinality(Reader!OpeningTo(rows, j)) = n
    <2>1. i \in 1 .. Len(rows)
      BY <1>2, <1>6
    <2> QED BY <1>10, <1>11, <2>1 DEF count
  <1> QED BY <1>12, SameCardinality DEF Reader!Opening

\* The episodes of one run.
LEMMA RunEpisodesType ==
  ASSUME NEW r \in Run, NEW rows \in Seq(Reader!Motion), Len(rows) <= MaxMotions
  PROVE  Reader!RunEpisodes(r, rows) \in Seq(Episode)
  <1> DEFINE count == Cardinality(Reader!OpeningTo(rows, Len(rows)))
             at(n) == Reader!Opening(rows, n)
  <1>1. Len(rows) \in Nat /\ count \in Nat
    BY OpeningCount, LenProperties
  <1>2. ASSUME NEW n \in 1 .. count
        PROVE  [run |-> r, device |-> rows[at(n)].device, motions |-> Reader!Members(rows, at(n))]
                 \in Episode
    <2>1. at(n) \in 1 .. Len(rows)
      BY OpeningExists
    <2>2. rows[at(n)] \in Reader!Motion
      BY <2>1, ElementOfSeq
    <2>3. Reader!Members(rows, at(n)) \subseteq 1 .. MaxMotions
      <3>1. Reader!Members(rows, at(n)) \subseteq at(n) .. Len(rows)
        BY DEF Reader!Members
      <3>2. at(n) .. Len(rows) \subseteq 1 .. MaxMotions
        BY <1>1, <2>1, BoundsAssumption
      <3> QED BY <3>1, <3>2
    <2> QED BY <2>2, <2>3 DEF Episode, Reader!Motion
  <1>3. Reader!RunEpisodes(r, rows) \in [1 .. count -> Episode]
    <2>1. Reader!RunEpisodes(r, rows) =
            [n \in 1 .. count |-> [run |-> r, device |-> rows[at(n)].device,
                                  motions |-> Reader!Members(rows, at(n))]]
      BY SameCardinality DEF Reader!RunEpisodes
    <2> HIDE DEF count, at
    <2> QED BY <1>2, <2>1
  <1> QED BY <1>1, <1>3

\* Sequences one after the other are a sequence.
LEMMA FlattenIsSeq ==
  ASSUME NEW S, NEW n \in Nat, NEW s \in [1 .. n -> Seq(S)]
  PROVE  Reader!FlattenSeq(s) \in Seq(S)
  <1> DEFINE IsFlatten(m, g) == g = [i \in 1 .. m |-> IF i = 1 THEN s[i] ELSE g[i - 1] \o s[i]]
             flatten == CHOOSE g : IsFlatten(n, g)
             Exists(m) == \E g \in [1 .. m -> Seq(S)] : IsFlatten(m, g)
  <1>1. \A m \in 0 .. n : Exists(m)
    <2> DEFINE Wrong == {m \in 0 .. n : ~ Exists(m)}
    <2>0. Wrong \in SUBSET Nat /\ \A m \in 0 .. n : m \in Wrong <=> ~ Exists(m)
      <3> HIDE DEF Exists
      <3> QED OBVIOUS
    <2> HIDE DEF Wrong, Exists
    <2> SUFFICES ASSUME Wrong # {}
                 PROVE  FALSE
      BY <2>0
    <2>1. PICK m \in Wrong : \A k \in Wrong : m <= k
      BY <2>0, LeastNumber
    <2>a. m \in 0 .. n
      BY <2>1 DEF Wrong
    <2>2. CASE m = 0
      <3>1. << >> \in [1 .. 0 -> Seq(S)] /\ IsFlatten(0, << >>)
        OBVIOUS
      <3> HIDE DEF IsFlatten
      <3>2. Exists(0)
        BY <3>1 DEF Exists
      <3> QED BY <2>0, <2>1, <2>2, <2>a, <3>2
    <2>3. CASE m # 0
      <3>1. m \in 1 .. n /\ m - 1 \in 0 .. n /\ m - 1 < m
        BY <2>3, <2>a
      <3>2. m - 1 \notin Wrong
        BY <2>1, <3>1
      <3>3. PICK f \in [1 .. m - 1 -> Seq(S)] : IsFlatten(m - 1, f)
        <4>1. Exists(m - 1)
          BY <2>0, <3>1, <3>2
        <4> HIDE DEF IsFlatten
        <4> QED BY <4>1 DEF Exists
      <3>4. PICK g : g = [i \in 1 .. m |-> IF i = m THEN (IF m = 1 THEN s[m] ELSE f[m - 1] \o s[m])
                                           ELSE f[i]]
        OBVIOUS
      <3>5. \A i \in 1 .. m - 1 : g[i] = f[i]
        BY <3>1, <3>4
      <3>6. g \in [1 .. m -> Seq(S)]
        <4>1. m # 1 => f[m - 1] \o s[m] \in Seq(S)
          BY <3>1, ConcatProperties
        <4>2. m = 1 => s[m] \in Seq(S)
          BY <3>1
        <4>3. \A i \in 1 .. m : i # m => f[i] \in Seq(S)
          BY <3>1
        <4> QED BY <3>4, <4>1, <4>2, <4>3
      <3>7. \A i \in 1 .. m : g[i] = IF i = 1 THEN s[i] ELSE g[i - 1] \o s[i]
        <4> SUFFICES ASSUME NEW i \in 1 .. m
                     PROVE  g[i] = IF i = 1 THEN s[i] ELSE g[i - 1] \o s[i]
          OBVIOUS
        <4>1. CASE i = m
          <5>1. i # 1 => i - 1 \in 1 .. m - 1
            BY <3>1, <4>1
          <5> QED BY <3>1, <3>4, <3>5, <4>1, <5>1
        <4>2. CASE i # m
          <5>1. i \in 1 .. m - 1 /\ (i # 1 => i - 1 \in 1 .. m - 1)
            BY <3>1, <4>2
          <5>2. f[i] = IF i = 1 THEN s[i] ELSE f[i - 1] \o s[i]
            BY <3>3, <5>1
          <5> QED BY <3>5, <5>1, <5>2
        <4> QED BY <4>1, <4>2
      <3>8. IsFlatten(m, g)
        BY <3>4, <3>7
      <3> HIDE DEF IsFlatten
      <3>9. Exists(m)
        BY <3>6, <3>8 DEF Exists
      <3> QED BY <2>0, <2>1, <2>a, <3>9
    <2> QED BY <2>2, <2>3
  <1>2. Len(s) = n
    OBVIOUS
  <1>3. CASE n = 0
    BY <1>2, <1>3 DEF Reader!FlattenSeq
  <1>4. CASE n # 0
    <2>1. Reader!FlattenSeq(s) = flatten[n]
      BY <1>2, <1>4 DEF Reader!FlattenSeq
    <2>2. \E g : IsFlatten(n, g)
      <3> HIDE DEF IsFlatten
      <3>1. Exists(n)
        <4> HIDE DEF Exists
        <4> QED BY <1>1
      <3> QED BY <3>1 DEF Exists
    <2>3. IsFlatten(n, flatten)
      BY <2>2
    <2>h. PICK h : h = flatten
      OBVIOUS
    <2>4. \A i \in 1 .. n : h[i] = IF i = 1 THEN s[i] ELSE h[i - 1] \o s[i]
      <3>1. IsFlatten(n, h)
        <4> HIDE DEF IsFlatten, flatten
        <4> QED BY <2>3, <2>h
      <3>2. h = [i \in 1 .. n |-> IF i = 1 THEN s[i] ELSE h[i - 1] \o s[i]]
        BY <3>1
      <3> QED BY <3>2
    <2> HIDE DEF flatten, IsFlatten, Exists
    <2> DEFINE Wrong == {i \in 1 .. n : h[i] \notin Seq(S)}
    <2>a. Wrong \in SUBSET Nat /\ \A i \in 1 .. n : i \in Wrong <=> h[i] \notin Seq(S)
      OBVIOUS
    <2>5. Wrong = {}
      <3> SUFFICES ASSUME Wrong # {}
                   PROVE  FALSE
        OBVIOUS
      <3>1. PICK i \in Wrong : \A k \in Wrong : i <= k
        <4> HIDE DEF Wrong
        <4> QED BY <2>a, LeastNumber
      <3>0. i \in 1 .. n /\ h[i] \notin Seq(S)
        BY <3>1
      <3> HIDE DEF Wrong
      <3>2. s[i] \in Seq(S)
        BY <3>0
      <3>3. i # 1
        BY <2>4, <3>0, <3>2
      <3>4. i - 1 \in 1 .. n /\ i - 1 < i
        BY <3>0, <3>3
      <3>5. h[i - 1] \in Seq(S)
        BY <2>a, <3>1, <3>4
      <3>6. h[i] = h[i - 1] \o s[i]
        BY <2>4, <3>0, <3>3
      <3> QED BY <3>0, <3>2, <3>5, <3>6, ConcatProperties
    <2>6. h[n] \in Seq(S)
      BY <1>4, <2>5, <2>a
    <2> QED BY <2>1, <2>6, <2>h
  <1> QED BY <1>3, <1>4

-----------------------------------------------------------------------------
(***************************************************************************)
(* What the readers are promised.  The second invariant says, for every     *)
(* place at which a transaction can be, how what its process sees differs   *)
(* from what the readers see.                                               *)
(***************************************************************************)

\* The first n episodes, and their rows.
FirstOf(all, n) == [i \in 1 .. n |-> all[i]]

Rows(all, n) == UNION {{<<id, all[id].run, m>> : m \in all[id].motions} : id \in 1 .. n}

\* The evidence of a file: no run is too long.
EvidenceOK(e) == e \in [Run -> Seq(Reader!Motion)] /\ \A r \in Run : Len(e[r]) <= MaxMotions

\* The derived tables, without regard to what they say.
TablesOK(t) ==
  /\ t.created \in BOOLEAN
  /\ t.episodes \in Seq(Episode)
  /\ t.members \cup t.points \subseteq (DOMAIN t.episodes) \X Run \X (1 .. MaxMotions)

\* The derived tables t are those of a derivation that has yet to insert the
\* episodes l.
Partial(t, l, place) ==
  LET all == Reader!Episodes(evidence)
      n == Len(all) - Len(l)
  IN  /\ l \in Seq(Episode) /\ n >= 0
      /\ \A i \in 1 .. Len(l) : l[i] = all[n + i]
      /\ place # "episode" => Len(l) > 0
      /\ t.episodes = FirstOf(all, IF place = "episode" THEN n ELSE n + 1)
      /\ t.members = Rows(all, IF place = "points" THEN n + 1 ELSE n)
      /\ t.points = Rows(all, n)

\* Evidence that has more motions of run r, at its end, or the same.
Extends(e, r) ==
  /\ EvidenceOK(e)
  /\ \A s \in Run : s # r => e[s] = evidence[s]
  /\ Len(evidence[r]) <= Len(e[r])
  /\ \A i \in 1 .. Len(evidence[r]) : e[r][i] = evidence[r][i]

\* What the transaction of a process has made of the content: l is what the
\* process has loaded and r its run.
Transaction(c, l, r, place) ==
  /\ c.newest = newest /\ c.ended = ended
  /\ IF place = "recording" THEN Extends(c.evidence, r) ELSE c.evidence = evidence
  /\ TablesOK(c.tables)
  /\ place \in DerivationPlace => c.tables.created
  /\ place = "load" => c.tables.episodes = << >> /\ c.tables.members = {} /\ c.tables.points = {}
  /\ place \in {"episode", "members", "points"} => Partial(c.tables, l, place)

\* No two processes have one run, and a run ends once, by its process.
RunsOK ==
  /\ newest \in 0 .. MaxRuns
  /\ \A p \in Process : runOf[p] <= newest
  /\ \A p, q \in Process : p # q => runOf[p] = 0 \/ runOf[p] # runOf[q]
  /\ \A p \in Process : pc[p] \in {"recording", "update"} => ~ ended[runOf[p]]
  /\ \A r \in Run : r > newest => ~ ended[r]
  /\ \A p \in Process : pc[p] = "schema" => \E r \in Run : ended[r]
  /\ \A p \in Process : pc[p] \in {"clear"} \cup DerivationPlace => tables.created

\* Of the open transaction.
TransactionOK ==
  writer # None => Transaction(working, loaded[writer], runOf[writer], pc[writer])

\* The second inductive invariant, on top of the first.
PromiseInv == /\ SafeInv
              /\ RunsOK
              /\ EvidenceOK(evidence)
              /\ TablesOK(tables)
              /\ TransactionOK

\* One derivation of a file's evidence.
LEMMA EpisodesType ==
  ASSUME NEW e, EvidenceOK(e)
  PROVE  Reader!Episodes(e) \in Seq(Episode)
  <1> DEFINE s == [r \in Run |-> Reader!RunEpisodes(r, e[r])]
  <1>1. \A r \in Run : Reader!RunEpisodes(r, e[r]) \in Seq(Episode)
    BY RunEpisodesType DEF EvidenceOK
  <1>2. s \in [1 .. MaxRuns -> Seq(Episode)]
    BY <1>1 DEF Run
  <1>3. Reader!Episodes(e) = Reader!FlattenSeq(s)
    BY DEF Reader!Episodes, Reader!Run, Run
  <1> HIDE DEF s
  <1> QED BY <1>2, <1>3, BoundsAssumption, FlattenIsSeq

\* The rows of one episode more.
LEMMA RowsGrow ==
  ASSUME NEW all, NEW n \in Nat
  PROVE  Rows(all, n + 1) = Rows(all, n) \cup {<<n + 1, all[n + 1].run, m>> : m \in all[n + 1].motions}
  <1>1. 1 .. n + 1 = (1 .. n) \cup {n + 1}
    OBVIOUS
  <1> QED BY <1>1 DEF Rows

\* No episode has no rows.
LEMMA NoRows == ASSUME NEW all PROVE Rows(all, 0) = {}
  <1>1. 1 .. 0 = {}
    OBVIOUS
  <1> QED BY <1>1 DEF Rows

\* The rows of the first episodes refer to them.
LEMMA RowsType ==
  ASSUME NEW all \in Seq(Episode), NEW n \in 0 .. Len(all), NEW k \in Nat, n <= k
  PROVE  Rows(all, n) \subseteq (1 .. k) \X Run \X (1 .. MaxMotions)
  <1> SUFFICES ASSUME NEW row \in Rows(all, n)
               PROVE  row \in (1 .. k) \X Run \X (1 .. MaxMotions)
    OBVIOUS
  <1>1. PICK id \in 1 .. n : row \in {<<id, all[id].run, m>> : m \in all[id].motions}
    BY DEF Rows
  <1>2. PICK m \in all[id].motions : row = <<id, all[id].run, m>>
    BY <1>1
  <1>3. Len(all) \in Nat
    BY LenProperties
  <1>4. id \in 1 .. Len(all) /\ id \in 1 .. k
    BY <1>3
  <1>5. all[id] \in Episode
    BY <1>4, ElementOfSeq
  <1>6. all[id].run \in Run /\ m \in 1 .. MaxMotions
    BY <1>5 DEF Episode
  <1> QED BY <1>2, <1>4, <1>6

\* Tables in the middle of a derivation are tables.
LEMMA PartialIsOK ==
  ASSUME EvidenceOK(evidence), NEW t, NEW l, NEW place, Partial(t, l, place), t.created \in BOOLEAN
  PROVE  TablesOK(t)
  <1>1. PICK all : all = Reader!Episodes(evidence)
    OBVIOUS
  <1>2. PICK n : n = Len(all) - Len(l)
    OBVIOUS
  <1>3. PICK k : k = IF place = "episode" THEN n ELSE n + 1
    OBVIOUS
  <1>4. /\ l \in Seq(Episode) /\ n >= 0
        /\ place # "episode" => Len(l) > 0
        /\ t.episodes = FirstOf(all, k)
        /\ t.members = Rows(all, IF place = "points" THEN n + 1 ELSE n)
        /\ t.points = Rows(all, n)
    BY <1>1, <1>2, <1>3 DEF Partial
  <1>5. all \in Seq(Episode)
    BY <1>1, EpisodesType
  <1>6. Len(all) \in Nat /\ Len(l) \in Nat
    BY <1>4, <1>5, LenProperties
  <1>7. n \in 0 .. Len(all) /\ k \in 0 .. Len(all) /\ n <= k
    BY <1>2, <1>3, <1>4, <1>6
  <1>8. t.episodes \in Seq(Episode) /\ DOMAIN t.episodes = 1 .. k
    <2>1. \A i \in 1 .. k : all[i] \in Episode
      BY <1>5, <1>6, <1>7, ElementOfSeq
    <2> QED BY <1>4, <1>7, <2>1 DEF FirstOf
  <1>9. t.points \subseteq (1 .. k) \X Run \X (1 .. MaxMotions)
    BY <1>4, <1>5, <1>7, RowsType
  <1>10. t.members \subseteq (1 .. k) \X Run \X (1 .. MaxMotions)
    <2>1. PICK j : j = IF place = "points" THEN n + 1 ELSE n
      OBVIOUS
    <2>2. j \in 0 .. Len(all) /\ j <= k
      BY <1>2, <1>3, <1>4, <1>6, <1>7, <2>1
    <2>3. t.members = Rows(all, j)
      BY <1>4, <2>1
    <2> QED BY <1>5, <1>7, <2>2, <2>3, RowsType
  <1> QED BY <1>8, <1>9, <1>10 DEF TablesOK

-----------------------------------------------------------------------------
\* The first state keeps the promise.
LEMMA PromiseInit == Init => PromiseInv
  <1> SUFFICES ASSUME Init
               PROVE  PromiseInv
    OBVIOUS
  <1>1. SafeInv
    BY SafeInit
  <1>2. /\ newest \in 0 .. MaxRuns
        /\ \A r \in Run : Len(evidence[r]) <= MaxMotions
        /\ \A r \in Run : r > newest => ~ ended[r]
    <2>1. CASE Reader!NewFile
      BY <2>1, BoundsAssumption DEF Reader!NewFile, Run, Reader!Run
    <2>2. CASE Reader!OldFile
      <3>1. PICK d \in Device :
              evidence = [r \in Run |-> IF r = 1 THEN <<[device |-> d, rested |-> TRUE]>> ELSE << >>]
        BY <2>2 DEF Reader!OldFile, Run, Reader!Run
      <3>2. \A r \in Run : Len(evidence[r]) <= MaxMotions
        BY <3>1, BoundsAssumption
      <3>3. newest = 1 /\ ended = [r \in Run |-> r = 1]
        BY <2>2 DEF Reader!OldFile, Run, Reader!Run
      <3>4. newest \in 0 .. MaxRuns
        BY <3>3, BoundsAssumption
      <3>5. \A r \in Run : r > newest => r # 1
        BY <3>3 DEF Run
      <3>6. \A r \in Run : ended[r] <=> r = 1
        BY <3>3, Zenon
      <3> QED BY <3>2, <3>4, <3>5, <3>6
    <2> QED BY <2>1, <2>2 DEF Init, Reader!Init
  <1>3. RunsOK
    BY <1>2 DEF RunsOK, Init, DerivationPlace
  <1>4. EvidenceOK(evidence)
    BY <1>1, <1>2, FileSees, ContentFields DEF EvidenceOK, ContentOK
  <1>5. TablesOK(tables)
    BY DEF Init, Reader!Init, Reader!NoTables, TablesOK
  <1>6. TransactionOK
    BY DEF Init, TransactionOK
  <1> QED BY <1>1, <1>3, <1>4, <1>5, <1>6 DEF PromiseInv

\* What the readers see of a step, and what the second invariant needs of it.
Promised ==
  /\ RunsOK' /\ EvidenceOK(evidence') /\ TablesOK(tables') /\ TransactionOK'
  /\ [Reader!Next]_Reader!vars

\* A transaction is not concerned by what others do to their own variables.
LEMMA TransactionStays ==
  ASSUME NEW c, NEW l, NEW r, NEW place, UNCHANGED file, Transaction(c, l, r, place)
  PROVE  Transaction(c, l, r, place)'
  <1>1. newest' = newest /\ ended' = ended /\ evidence' = evidence
    BY DEF file
  <1>2. Extends(c.evidence, r) => Extends(c.evidence, r)'
    BY <1>1 DEF Extends, EvidenceOK
  <1>3. Partial(c.tables, l, place) => Partial(c.tables, l, place)'
    BY <1>1 DEF Partial
  <1>4. TablesOK(c.tables) => TablesOK(c.tables)'
    BY DEF TablesOK
  <1> QED BY <1>1, <1>2, <1>3, <1>4 DEF Transaction

\* The runs are in order after a step of p that changes no run.
LEMMA RunsStay ==
  ASSUME SafeInv, RunsOK, NEW p \in Process, NEW place,
         pc' = [pc EXCEPT ![p] = place], runOf' = runOf, newest' = newest, ended' = ended,
         tables.created => tables'.created,
         place \in {"recording", "update"} => pc[p] \in {"recording", "update"},
         place = "schema" => \E r \in Run : ended[r],
         place \in {"clear"} \cup DerivationPlace => tables'.created
  PROVE  RunsOK'
  <1>1. \A q \in Process : pc'[q] = IF q = p THEN place ELSE pc[q]
    BY DEF SafeInv, ProcessesOK
  <1>2. \A q \in Process : pc'[q] \in {"recording", "update"} => ~ ended[runOf[q]]
    BY <1>1 DEF RunsOK
  <1>3. \A q \in Process : pc'[q] = "schema" => \E r \in Run : ended[r]
    BY <1>1 DEF RunsOK
  <1>4. \A q \in Process : pc'[q] \in {"clear"} \cup DerivationPlace => tables'.created
    BY <1>1 DEF RunsOK
  <1> QED BY <1>2, <1>3, <1>4 DEF RunsOK

\* A step of p after which the file is as before, and the open transaction that
\* of another process, or of p and in order.
LEMMA SilentStep ==
  ASSUME PromiseInv, NEW p \in Process, RunsOK', UNCHANGED file,
         \/ writer' = None
         \/ /\ writer' \in Process \ {p} /\ writer' = writer /\ working' = working
            /\ pc'[writer] = pc[writer] /\ loaded'[writer] = loaded[writer]
            /\ runOf'[writer] = runOf[writer]
         \/ /\ writer' = p
            /\ Transaction(working', loaded'[p], runOf'[p], pc'[p])
  PROVE  Promised
  <1>1. newest' = newest /\ evidence' = evidence /\ ended' = ended /\ tables' = tables
    BY DEF file
  <1>2. UNCHANGED Reader!vars
    BY <1>1 DEF Reader!vars
  <1>3. EvidenceOK(evidence') /\ TablesOK(tables')
    BY <1>1 DEF PromiseInv
  <1>4. TransactionOK'
    <2>1. CASE writer' = None
      BY <2>1 DEF TransactionOK
    <2>2. CASE writer' # None
      <3>1. PICK c : c = working'
        OBVIOUS
      <3>2. PICK l : l = loaded'[writer']
        OBVIOUS
      <3>3. PICK r : r = runOf'[writer']
        OBVIOUS
      <3>4. PICK place : place = pc'[writer']
        OBVIOUS
      <3>5. Transaction(c, l, r, place)
        BY <2>2, <3>1, <3>2, <3>3, <3>4, NoneAssumption DEF PromiseInv, TransactionOK
      <3>6. Transaction(c, l, r, place)'
        BY <3>5, TransactionStays
      <3> QED BY <3>1, <3>2, <3>3, <3>4, <3>6 DEF TransactionOK
    <2> QED BY <2>1, <2>2
  <1> QED BY <1>2, <1>3, <1>4 DEF Promised

\* A step that publishes: the lock is free, and the readers see what they were
\* promised.
LEMMA PublishedStep ==
  ASSUME PromiseInv, RunsOK', writer' = None, EvidenceOK(evidence'), TablesOK(tables'),
         [Reader!Next]_Reader!vars
  PROVE  Promised
  BY DEF Promised, TransactionOK

-----------------------------------------------------------------------------
\* A statement that reads.
LEMMA ReadPromise ==
  ASSUME PromiseInv, NEW p \in Process, NEW place, RunsOK', Read,
         pc' = [pc EXCEPT ![p] = place], runOf' = runOf,
         \A q \in Process \ {p} : loaded'[q] = loaded[q],
         writer = p => Transaction(working, loaded'[p], runOf[p], place)
  PROVE  Promised
  <1>1. writer' = writer /\ working' = working /\ UNCHANGED file
    BY DEF Read
  <1>2. \A q \in Process : pc'[q] = IF q = p THEN place ELSE pc[q]
    BY DEF PromiseInv, SafeInv, ProcessesOK
  <1>3. writer = None \/ writer \in Process
    BY DEF PromiseInv, SafeInv, LockIsSound
  <1>4. CASE writer = None
    BY <1>1, <1>4, SilentStep
  <1>5. CASE writer \in Process \ {p}
    BY <1>1, <1>2, <1>5, SilentStep
  <1>6. CASE writer = p
    BY <1>1, <1>2, <1>6, SilentStep
  <1> QED BY <1>3, <1>4, <1>5, <1>6

\* A statement of the migration, under the lock, that leaves c.
LEMMA MigrationPromise ==
  ASSUME PromiseInv, NEW p \in Process, NEW from, NEW place \in MigrationPlace, NEW c,
         Statement(p, from, place), runOf' = runOf, UNCHANGED file,
         writer' = p, working' = c,
         c.newest = newest, c.ended = ended, c.evidence = evidence, c.tables = tables
  PROVE  Promised
  <1>1. pc' = [pc EXCEPT ![p] = place] /\ pc'[p] = place
    BY DEF Statement, PromiseInv, SafeInv, ProcessesOK
  <1>2. place \notin DerivationPlace /\ place \notin {"recording", "update", "schema", "clear"}
    BY DEF MigrationPlace, DerivationPlace
  <1>3. newest' = newest /\ ended' = ended /\ tables' = tables
    BY DEF file
  <1>4. SafeInv /\ RunsOK /\ TablesOK(tables)
    BY DEF PromiseInv
  <1>5. RunsOK'
    BY <1>1, <1>2, <1>3, <1>4, RunsStay
  <1>6. Transaction(c, loaded'[p], runOf'[p], place)
    BY <1>2, <1>4 DEF Transaction, DerivationPlace
  <1> QED BY <1>1, <1>5, <1>6, SilentStep

\* What a process in its migration sees.
LEMMA MigratorSees ==
  ASSUME PromiseInv, NEW p \in Process, writer = p, pc[p] \in MigrationPlace
  PROVE  /\ ContentOK(working)
         /\ working.newest = newest /\ working.ended = ended
         /\ working.evidence = evidence /\ working.tables = tables
  <1>1. WorkingAt(working, pc[p])
    BY HolderSees DEF PromiseInv
  <1>2. Transaction(working, loaded[p], runOf[p], pc[p])
    BY NoneAssumption DEF PromiseInv, TransactionOK
  <1>3. pc[p] \notin DerivationPlace /\ pc[p] # "recording"
    BY DEF MigrationPlace, DerivationPlace
  <1> QED BY <1>1, <1>2, <1>3 DEF WorkingAt, Transaction

\* The committed content, as the second invariant has it.
LEMMA FilePromise ==
  ASSUME PromiseInv
  PROVE  /\ SafeInv /\ RunsOK /\ EvidenceOK(evidence) /\ TablesOK(tables) /\ TransactionOK
         /\ ContentOK(Content)
         /\ newest \in 0 .. MaxRuns /\ ended \in [Run -> BOOLEAN]
  BY FileSees, ContentFields DEF PromiseInv, RunsOK, ContentOK

\* open() shows the readers a new run, and nothing else.
LEMMA OpenPromise ==
  ASSUME PromiseInv, NEW p \in Process, Open(p)
  PROVE  Promised
  <1> USE FilePromise
  <1>0. loaded' = loaded
    BY DEF Open
  <1>1. CASE Connect(p)
    <2>1. Statement(p, "down", "inspect") /\ Read /\ runOf' = runOf
      BY <1>1 DEF Connect
    <2>2. pc' = [pc EXCEPT ![p] = "inspect"] /\ pc[p] = "down"
      BY <2>1 DEF Statement
    <2>3. RunsOK'
      BY <2>1, <2>2, RunsStay DEF Read, file, DerivationPlace
    <2>4. writer # p
      BY <2>2, HolderSees DEF Holding, MigrationPlace, DerivationPlace
    <2> QED BY <1>0, <2>1, <2>2, <2>3, <2>4, ReadPromise
  <1>2. CASE Inspect(p)
    <2>1. PICK place \in {"begin", "newRun"} : Statement(p, "inspect", place)
      BY <1>2 DEF Inspect
    <2>2. pc' = [pc EXCEPT ![p] = place] /\ pc[p] = "inspect" /\ Read /\ runOf' = runOf
      BY <1>2, <2>1 DEF Inspect, Statement
    <2>3. RunsOK'
      BY <2>2, RunsStay DEF Read, file, DerivationPlace
    <2>4. writer # p
      BY <2>2, HolderSees DEF Holding, MigrationPlace, DerivationPlace
    <2> QED BY <1>0, <2>2, <2>3, <2>4, ReadPromise
  <1>3. CASE BeginMigration(p)
    <2>1. PICK c : c = Drop(Content, "devices_migrated")
      OBVIOUS
    <2>2. /\ Statement(p, "begin", "create") /\ runOf' = runOf /\ UNCHANGED file
          /\ writer' = p /\ working' = c
      BY <1>3, <2>1 DEF BeginMigration, BeginWrite
    <2>3. c.newest = newest /\ c.ended = ended /\ c.evidence = evidence /\ c.tables = tables
      BY <2>1, DropFacts, ContentFields
    <2> QED BY <2>2, <2>3, MigrationPromise DEF MigrationPlace
  <1>4. CASE CreateMigrated(p)
    <2>1. PICK w : w = working
      OBVIOUS
    <2>2. PICK c : c = Put(w, "devices_migrated", [legacy |-> FALSE, ids |-> {}])
      OBVIOUS
    <2>3. /\ Statement(p, "create", "copy") /\ runOf' = runOf /\ UNCHANGED file
          /\ writer = p /\ writer' = p /\ working' = c
      BY <1>4, <2>1, <2>2 DEF CreateMigrated, Write
    <2>4. /\ ContentOK(w) /\ w.newest = newest /\ w.ended = ended
          /\ w.evidence = evidence /\ w.tables = tables
      BY <2>1, <2>3, MigratorSees DEF Statement, MigrationPlace
    <2>5. [legacy |-> FALSE, ids |-> {}] \in IdentityTable
      BY DEF IdentityTable
    <2>6. c.newest = newest /\ c.ended = ended /\ c.evidence = evidence /\ c.tables = tables
      BY <2>2, <2>4, <2>5, PutFacts DEF TableName
    <2> QED BY <2>3, <2>6, MigrationPromise DEF MigrationPlace
  <1>5. CASE CopyIdentities(p)
    <2>1. PICK w : w = working
      OBVIOUS
    <2>2. PICK table : table = [legacy |-> FALSE, ids |-> w.identities["devices"].ids]
      OBVIOUS
    <2>3. PICK c : c = Put(w, "devices_migrated", table)
      OBVIOUS
    <2>4. /\ Statement(p, "copy", "drop") /\ runOf' = runOf /\ UNCHANGED file
          /\ writer = p /\ writer' = p /\ working' = c
      BY <1>5, <2>1, <2>2, <2>3 DEF CopyIdentities, Write, DevicesTable
    <2>5. /\ ContentOK(w) /\ w.newest = newest /\ w.ended = ended
          /\ w.evidence = evidence /\ w.tables = tables
      BY <2>1, <2>4, MigratorSees DEF Statement, MigrationPlace
    <2>6. table \in IdentityTable
      <3>1. WorkingAt(w, "copy")
        BY <2>1, <2>4, HolderSees DEF Statement
      <3>2. "devices" \in DOMAIN w.identities /\ w.identities \in IdentityTables
        BY <3>1 DEF WorkingAt, Keeps, ContentOK
      <3> QED BY <2>2, <3>2, IdentityTypes DEF IdentityTable
    <2>7. c.newest = newest /\ c.ended = ended /\ c.evidence = evidence /\ c.tables = tables
      BY <2>3, <2>5, <2>6, PutFacts DEF TableName
    <2> QED BY <2>4, <2>7, MigrationPromise DEF MigrationPlace
  <1>6. CASE DropDevices(p)
    <2>1. PICK w : w = working
      OBVIOUS
    <2>2. PICK c : c = Drop(w, "devices")
      OBVIOUS
    <2>3. /\ Statement(p, "drop", "rename") /\ runOf' = runOf /\ UNCHANGED file
          /\ writer = p /\ writer' = p /\ working' = c
      BY <1>6, <2>1, <2>2 DEF DropDevices, Write
    <2>4. /\ ContentOK(w) /\ w.newest = newest /\ w.ended = ended
          /\ w.evidence = evidence /\ w.tables = tables
      BY <2>1, <2>3, MigratorSees DEF Statement, MigrationPlace
    <2>5. c.newest = newest /\ c.ended = ended /\ c.evidence = evidence /\ c.tables = tables
      BY <2>2, <2>4, DropFacts
    <2> QED BY <2>3, <2>5, MigrationPromise DEF MigrationPlace
  <1>7. CASE RenameMigrated(p)
    <2>1. PICK w : w = working
      OBVIOUS
    <2>2. PICK b : b = Put(w, "devices", w.identities["devices_migrated"])
      OBVIOUS
    <2>3. PICK c : c = Drop(b, "devices_migrated")
      OBVIOUS
    <2>4. /\ Statement(p, "rename", "commitMigration") /\ runOf' = runOf /\ UNCHANGED file
          /\ writer = p /\ writer' = p /\ working' = c
      BY <1>7, <2>1, <2>2, <2>3 DEF RenameMigrated, Write
    <2>5. /\ ContentOK(w) /\ w.newest = newest /\ w.ended = ended
          /\ w.evidence = evidence /\ w.tables = tables
      BY <2>1, <2>4, MigratorSees DEF Statement, MigrationPlace
    <2>6. w.identities["devices_migrated"] \in IdentityTable
      <3>1. WorkingAt(w, "rename")
        BY <2>1, <2>4, HolderSees DEF Statement
      <3>2. "devices_migrated" \in DOMAIN w.identities /\ w.identities \in IdentityTables
        BY <3>1 DEF WorkingAt, Keeps, ContentOK
      <3> QED BY <3>2, IdentityTypes
    <2>7. /\ ContentOK(b) /\ b.newest = newest /\ b.ended = ended
          /\ b.evidence = evidence /\ b.tables = tables
      BY <2>2, <2>5, <2>6, PutFacts DEF TableName
    <2>8. c.newest = newest /\ c.ended = ended /\ c.evidence = evidence /\ c.tables = tables
      BY <2>3, <2>7, DropFacts
    <2> QED BY <2>4, <2>8, MigrationPromise DEF MigrationPlace
  <1>8. CASE CommitMigration(p)
    <2>1. /\ pc' = [pc EXCEPT ![p] = "newRun"] /\ pc[p] = "commitMigration" /\ runOf' = runOf
          /\ writer = p /\ writer' = None /\ Publish(working)
      BY <1>8 DEF CommitMigration, Commit, Statement
    <2>2. /\ newest' = newest /\ ended' = ended /\ evidence' = evidence /\ tables' = tables
      BY <2>1, MigratorSees DEF MigrationPlace, Publish
    <2>3. RunsOK'
      BY <2>1, <2>2, RunsStay DEF DerivationPlace
    <2>4. UNCHANGED Reader!vars
      BY <2>2 DEF Reader!vars
    <2> QED BY <2>1, <2>2, <2>3, <2>4, PublishedStep
  <1>9. CASE CreateRun(p)
    <2>1. /\ pc' = [pc EXCEPT ![p] = "recording"] /\ pc[p] = "newRun"
          /\ newest < MaxRuns /\ runOf' = [runOf EXCEPT ![p] = newest + 1]
          /\ Autocommit([Content EXCEPT !.newest = newest + 1])
      BY <1>9 DEF CreateRun, Statement
    <2>2. /\ newest' = newest + 1 /\ ended' = ended /\ evidence' = evidence /\ tables' = tables
          /\ writer = None /\ writer' = None
      BY <2>1 DEF Autocommit, Publish, Content
    <2>3. /\ \A q \in Process : pc'[q] = IF q = p THEN "recording" ELSE pc[q]
          /\ \A q \in Process : runOf'[q] = IF q = p THEN newest + 1 ELSE runOf[q]
          /\ \A q \in Process : runOf[q] \in 0 .. newest
          /\ newest + 1 \in Run
      BY <2>1, BoundsAssumption DEF SafeInv, ProcessesOK, RunsOK, Run
    <2>4. RunsOK'
      <3>1. newest' \in 0 .. MaxRuns /\ \A q \in Process : runOf'[q] <= newest'
        BY <2>1, <2>2, <2>3, BoundsAssumption
      <3>2. \A q, s \in Process : q # s => runOf'[q] = 0 \/ runOf'[q] # runOf'[s]
        BY <2>3 DEF RunsOK
      <3>3. \A q \in Process : pc'[q] \in {"recording", "update"} => ~ ended'[runOf'[q]]
        BY <2>2, <2>3 DEF RunsOK
      <3>4. \A r \in Run : r > newest' => ~ ended'[r]
        <4>1. \A r \in Run : r > newest + 1 => r > newest
          BY DEF Run
        <4> QED BY <2>2, <4>1 DEF RunsOK
      <3>5. \A q \in Process : pc'[q] = "schema" => \E r \in Run : ended'[r]
        BY <2>2, <2>3 DEF RunsOK
      <3>6. \A q \in Process : pc'[q] \in {"clear"} \cup DerivationPlace => tables'.created
        BY <2>2, <2>3 DEF RunsOK, DerivationPlace
      <3> QED BY <3>1, <3>2, <3>3, <3>4, <3>5, <3>6 DEF RunsOK
    <2>5. Reader!StartRun
      BY <2>1, <2>2 DEF Reader!StartRun
    <2> QED BY <2>2, <2>4, <2>5, PublishedStep DEF Reader!Next
  <1> QED BY <1>1, <1>2, <1>3, <1>4, <1>5, <1>6, <1>7, <1>8, <1>9 DEF Open, OpenStep

\* More motions at the end of a run that is not ended are what the readers
\* were told to expect.
LEMMA ExtendsIsExtend ==
  ASSUME EvidenceOK(evidence), NEW e, NEW r \in Run, Extends(e, r),
         r <= newest, ~ ended[r],
         newest' = newest, evidence' = e, ended' = ended, tables' = tables
  PROVE  [Reader!Next]_Reader!vars
  <1>1. PICK old : old = evidence[r]
    OBVIOUS
  <1>2. PICK now : now = e[r]
    OBVIOUS
  <1>3. /\ old \in Seq(Reader!Motion) /\ now \in Seq(Reader!Motion)
        /\ Len(old) <= Len(now) /\ Len(now) <= MaxMotions
        /\ \A i \in 1 .. Len(old) : now[i] = old[i]
    BY <1>1, <1>2 DEF EvidenceOK, Extends
  <1>4. Len(old) \in Nat /\ Len(now) \in Nat
    BY <1>3, LenProperties
  <1>5. PICK n : n = Len(now) - Len(old)
    OBVIOUS
  <1>6. n \in Nat /\ n <= MaxMotions - Len(old)
    BY <1>3, <1>4, <1>5, BoundsAssumption
  <1>7. PICK batch : batch = [i \in 1 .. n |-> now[Len(old) + i]]
    OBVIOUS
  <1>8. batch \in [1 .. n -> Reader!Motion]
    <2>1. \A i \in 1 .. n : now[Len(old) + i] \in Reader!Motion
      BY <1>3, <1>4, <1>5, <1>6, ElementOfSeq
    <2> QED BY <1>7, <2>1
  <1>9. now = old \o batch
    <2>1. batch \in Seq(Reader!Motion) /\ Len(batch) = n
      BY <1>6, <1>8
    <2>2. /\ old \o batch \in Seq(Reader!Motion) /\ Len(old \o batch) = Len(now)
          /\ \A i \in 1 .. Len(now) : (old \o batch)[i] = IF i <= Len(old) THEN old[i]
                                                           ELSE batch[i - Len(old)]
      <3>1. Len(old) + Len(batch) = Len(now)
        BY <1>4, <1>5, <2>1
      <3> QED BY <1>3, <2>1, <3>1, ConcatProperties
    <2>3. \A i \in 1 .. Len(now) : (old \o batch)[i] = now[i]
      BY <1>3, <1>4, <1>5, <1>6, <1>7, <2>2
    <2> QED BY <1>3, <2>2, <2>3, SeqEqual
  <1>10. e = [evidence EXCEPT ![r] = @ \o batch]
    <2>1. e \in [Run -> Seq(Reader!Motion)] /\ evidence \in [Run -> Seq(Reader!Motion)]
      BY DEF EvidenceOK, Extends
    <2>2. \A s \in Run : e[s] = IF s = r THEN evidence[r] \o batch ELSE evidence[s]
      BY <1>1, <1>2, <1>9 DEF Extends
    <2> QED BY <2>1, <2>2
  <1>11. CASE n = 0
    <2>1. e[r] = evidence[r]
      BY <1>1, <1>2, <1>3, <1>4, <1>5, <1>11, SeqEqual
    <2>2. e = evidence
      <3>1. e \in [Run -> Seq(Reader!Motion)] /\ evidence \in [Run -> Seq(Reader!Motion)]
        BY DEF EvidenceOK, Extends
      <3>2. \A s \in Run : e[s] = evidence[s]
        BY <2>1 DEF Extends
      <3> QED BY <3>1, <3>2
    <2> QED BY <2>2 DEF Reader!vars
  <1>12. CASE n # 0
    <2>1. n \in 1 .. MaxMotions - Len(evidence[r])
      BY <1>1, <1>4, <1>6, <1>12, BoundsAssumption
    <2>2. Reader!Extend(r)
      BY <1>8, <1>10, <2>1 DEF Reader!Extend
    <2> QED BY <2>2 DEF Reader!Next, Reader!Run, Run
  <1> QED BY <1>11, <1>12

\* A process that records sees its own run grow, and nothing else.
LEMMA RecorderPromise ==
  ASSUME PromiseInv, NEW p \in Process, pc[p] = "recording"
  PROVE  /\ View(p).newest = newest /\ View(p).ended = ended /\ View(p).tables = tables
         /\ Extends(View(p).evidence, runOf[p])
         /\ runOf[p] \in Run /\ runOf[p] <= newest /\ ~ ended[runOf[p]]
  <1>1. runOf[p] \in Run /\ runOf[p] <= newest /\ ~ ended[runOf[p]]
    BY FilePromise DEF SafeInv, ProcessesOK, RunsOK
  <1>2. View(p).tables = tables
    BY FilePromise, RecorderSees
  <1>3. CASE writer = p
    <2>1. Transaction(working, loaded[p], runOf[p], "recording") /\ View(p) = working
      BY <1>3, FilePromise, NoneAssumption DEF TransactionOK, View
    <2> QED BY <1>1, <1>2, <2>1 DEF Transaction
  <1>4. CASE writer # p
    <2>1. View(p) = Content
      BY <1>4 DEF View
    <2>2. Len(evidence[runOf[p]]) \in Nat
      BY <1>1, FilePromise, LenProperties DEF EvidenceOK
    <2>3. Extends(evidence, runOf[p])
      BY <2>2, FilePromise DEF Extends
    <2> QED BY <1>1, <1>2, <2>1, <2>3, ContentFields
  <1> QED BY <1>3, <1>4

\* An INSERT of a process that records.
LEMMA InsertPromise ==
  ASSUME PromiseInv, NEW p \in Process, NEW c, Insert(p, c),
         c.newest = newest, c.ended = ended, c.tables = tables, Extends(c.evidence, runOf[p])
  PROVE  Promised
  <1> USE FilePromise
  <1>1. /\ pc[p] = "recording" /\ pc' = [pc EXCEPT ![p] = "recording"] /\ runOf' = runOf
        /\ loaded' = loaded /\ pc'[p] = "recording"
    BY DEF Insert, Statement, SafeInv, ProcessesOK
  <1>2. CASE pending[p] + 1 = BatchSize
    <2>1. /\ newest' = newest /\ ended' = ended /\ tables' = tables /\ evidence' = c.evidence
          /\ writer' = None
      BY <1>2 DEF Insert, Publish
    <2>2. RunsOK'
      BY <1>1, <2>1, RunsStay DEF DerivationPlace
    <2>3. EvidenceOK(evidence')
      BY <2>1 DEF Extends
    <2>4. [Reader!Next]_Reader!vars
      <3>1. PICK r \in Run : r = runOf[p] /\ r <= newest /\ ~ ended[r]
        BY <1>1, RecorderPromise
      <3> QED BY <2>1, <3>1, ExtendsIsExtend
    <2> QED BY <2>1, <2>2, <2>3, <2>4, PublishedStep
  <1>3. CASE pending[p] + 1 # BatchSize
    <2>1. UNCHANGED file /\ writer' = p /\ working' = c
      BY <1>3 DEF Insert
    <2>2. newest' = newest /\ ended' = ended /\ tables' = tables
      BY <2>1 DEF file
    <2>3. RunsOK'
      BY <1>1, <2>2, RunsStay DEF DerivationPlace
    <2>4. Transaction(c, loaded'[p], runOf'[p], "recording")
      BY <1>1 DEF Transaction, DerivationPlace
    <2> QED BY <1>1, <2>1, <2>3, <2>4, SilentStep
  <1> QED BY <1>2, <1>3

\* The statements that record show the readers what they were promised.
LEMMA RecordPromise ==
  ASSUME PromiseInv, NEW p \in Process, Record(p)
  PROVE  Promised
  <1> USE FilePromise
  <1>1. CASE RecordDevice(p)
    <2>1. PICK d \in Device \ added[p] :
            Insert(p, [View(p) EXCEPT !.identities["devices"].ids = @ \cup {d}])
      BY <1>1 DEF RecordDevice
    <2>2. PICK v : v = View(p)
      OBVIOUS
    <2>3. PICK c : c = [v EXCEPT !.identities["devices"].ids = @ \cup {d}]
      OBVIOUS
    <2>4. Insert(p, c) /\ pc[p] = "recording"
      BY <2>1, <2>2, <2>3 DEF Insert, Statement
    <2>5. ContentOK(v)
      BY <2>2, <2>4, RecorderSees
    <2>6. /\ c.newest = v.newest /\ c.ended = v.ended /\ c.tables = v.tables
          /\ c.evidence = v.evidence
      BY <2>3, <2>5 DEF ContentOK
    <2>7. /\ v.newest = newest /\ v.ended = ended /\ v.tables = tables
          /\ Extends(v.evidence, runOf[p])
      BY <2>2, <2>4, RecorderPromise
    <2> QED BY <2>4, <2>6, <2>7, InsertPromise
  <1>2. CASE RecordMotion(p)
    <2>1. PICK m \in [device : added[p], rested : BOOLEAN] :
            /\ Len(View(p).evidence[runOf[p]]) < MaxMotions
            /\ Insert(p, [View(p) EXCEPT !.evidence[runOf[p]] = Append(@, m)])
      BY <1>2 DEF RecordMotion
    <2>2. PICK v : v = View(p)
      OBVIOUS
    <2>3. PICK r : r = runOf[p]
      OBVIOUS
    <2>4. PICK e : e = [v.evidence EXCEPT ![r] = Append(@, m)]
      OBVIOUS
    <2>5. PICK c : c = [v EXCEPT !.evidence = e]
      OBVIOUS
    <2>6. Insert(p, c) /\ pc[p] = "recording"
      <3>1. c = [v EXCEPT !.evidence[r] = Append(@, m)]
        BY <2>4, <2>5
      <3> QED BY <2>1, <2>2, <2>3, <3>1 DEF Insert, Statement
    <2>7. /\ ContentOK(v) /\ v.newest = newest /\ v.ended = ended /\ v.tables = tables
          /\ Extends(v.evidence, r) /\ r \in Run
      BY <2>2, <2>3, <2>6, RecorderSees, RecorderPromise
    <2>8. m \in Reader!Motion
      BY <2>1 DEF SafeInv, ProcessesOK, Reader!Motion
    <2>9. PICK old : old = v.evidence[r]
      OBVIOUS
    <2>10. /\ old \in Seq(Reader!Motion) /\ Len(old) \in Nat /\ Len(old) < MaxMotions
           /\ evidence[r] \in Seq(Reader!Motion) /\ Len(evidence[r]) \in Nat
           /\ Len(evidence[r]) <= Len(old)
           /\ \A i \in 1 .. Len(evidence[r]) : old[i] = evidence[r][i]
           /\ v.evidence \in [Run -> Seq(Reader!Motion)]
      BY <2>1, <2>2, <2>3, <2>7, <2>9, LenProperties DEF EvidenceOK, Extends
    <2>11. /\ Append(old, m) \in Seq(Reader!Motion) /\ Len(Append(old, m)) = Len(old) + 1
           /\ \A i \in 1 .. Len(old) : Append(old, m)[i] = old[i]
      BY <2>8, <2>10, AppendProperties
    <2>12. Len(Append(old, m)) <= MaxMotions
      BY <2>10, <2>11, BoundsAssumption
    <2>13. \A s \in Run : e[s] = IF s = r THEN Append(old, m) ELSE v.evidence[s]
      BY <2>4, <2>7, <2>9, <2>10
    <2>14. e \in [Run -> Seq(Reader!Motion)]
      BY <2>4, <2>9, <2>10, <2>11
    <2>15. EvidenceOK(e)
      BY <2>7, <2>12, <2>13, <2>14 DEF EvidenceOK, Extends
    <2>16. Extends(e, r)
      <3>1. \A s \in Run : s # r => e[s] = evidence[s]
        BY <2>7, <2>13 DEF Extends
      <3>2. e[r] = Append(old, m)
        BY <2>7, <2>13
      <3>3. Len(evidence[r]) <= Len(Append(old, m))
        BY <2>10, <2>11
      <3>4. \A i \in 1 .. Len(evidence[r]) : i \in 1 .. Len(old)
        BY <2>10
      <3>5. \A i \in 1 .. Len(evidence[r]) : Append(old, m)[i] = evidence[r][i]
        BY <2>10, <2>11, <3>4, Zenon
      <3> QED BY <2>15, <3>1, <3>2, <3>3, <3>5 DEF Extends
    <2>17. /\ c.newest = newest /\ c.ended = ended /\ c.tables = tables /\ c.evidence = e
      BY <2>5, <2>7, <2>14, WithEvidence
    <2> QED BY <2>3, <2>6, <2>16, <2>17, InsertPromise
  <1>3. CASE FinishCommit(p)
    <2>1. /\ pc[p] = "recording" /\ pc' = [pc EXCEPT ![p] = "update"] /\ runOf' = runOf
          /\ loaded' = loaded
      BY <1>3 DEF FinishCommit, Statement
    <2>2. CASE pending[p] = 0
      <3>1. Read
        BY <1>3, <2>2 DEF FinishCommit
      <3>2. writer # p
        BY <2>1, <2>2, NoneAssumption DEF SafeInv, LockIsSound
      <3>3. RunsOK'
        BY <2>1, <3>1, RunsStay DEF Read, file, DerivationPlace
      <3> QED BY <2>1, <3>1, <3>2, <3>3, ReadPromise
    <2>3. CASE pending[p] # 0
      <3>1. writer = p /\ writer' = None /\ Publish(working)
        BY <1>3, <2>3 DEF FinishCommit, Commit
      <3>2. PICK r \in Run : r = runOf[p] /\ r <= newest /\ ~ ended[r]
        BY <2>1, RecorderPromise
      <3>3. PICK e : e = working.evidence
        OBVIOUS
      <3>4. /\ working.newest = newest /\ working.ended = ended /\ working.tables = tables
            /\ Extends(e, r)
        BY <2>1, <3>1, <3>2, <3>3, RecorderPromise DEF View
      <3>5. newest' = newest /\ ended' = ended /\ tables' = tables /\ evidence' = e
        BY <3>1, <3>3, <3>4 DEF Publish
      <3>6. RunsOK'
        BY <2>1, <3>5, RunsStay DEF DerivationPlace
      <3>7. EvidenceOK(evidence')
        BY <3>4, <3>5 DEF Extends
      <3>8. [Reader!Next]_Reader!vars
        BY <3>2, <3>4, <3>5, ExtendsIsExtend
      <3> QED BY <3>1, <3>5, <3>6, <3>7, <3>8, PublishedStep
    <2> QED BY <2>2, <2>3
  <1>4. CASE FinishUpdate(p)
    <2>1. /\ pc[p] = "update" /\ pc' = [pc EXCEPT ![p] = "schema"] /\ runOf' = runOf
          /\ Autocommit([Content EXCEPT !.ended[runOf[p]] = TRUE])
      BY <1>4 DEF FinishUpdate, Statement
    <2>2. PICK r \in Run : r = runOf[p] /\ r <= newest /\ ~ ended[r] /\ r # 0
      BY <2>1 DEF SafeInv, ProcessesOK, RunsOK, Run
    <2>3. /\ newest' = newest /\ evidence' = evidence /\ tables' = tables
          /\ ended' = [ended EXCEPT ![r] = TRUE]
          /\ writer = None /\ writer' = None
      BY <2>1, <2>2 DEF Autocommit, Publish, Content
    <2>4. /\ \A q \in Process : pc'[q] = IF q = p THEN "schema" ELSE pc[q]
          /\ \A s \in Run : ended'[s] <=> s = r \/ ended[s]
      BY <2>1, <2>3 DEF SafeInv, ProcessesOK
    <2>5. RunsOK'
      <3>1. \A q \in Process : pc'[q] \in {"recording", "update"} => ~ ended'[runOf[q]]
        <4> SUFFICES ASSUME NEW q \in Process, pc'[q] \in {"recording", "update"}
                     PROVE  ~ ended'[runOf[q]]
          OBVIOUS
        <4>1. q # p /\ pc[q] \in {"recording", "update"}
          BY <2>4
        <4>2. runOf[q] \in Run /\ ~ ended[runOf[q]]
          BY <4>1 DEF SafeInv, ProcessesOK, RunsOK
        <4>3. runOf[q] # r
          BY <2>2, <4>1 DEF RunsOK
        <4> QED BY <2>4, <4>2, <4>3
      <3>2. \A s \in Run : s > newest => ~ ended'[s]
        <4>1. \A s \in Run : s > newest => s # r
          BY <2>2 DEF Run
        <4> QED BY <2>4, <4>1 DEF RunsOK
      <3>3. \A q \in Process : pc'[q] = "schema" => \E s \in Run : ended'[s]
        BY <2>4
      <3>4. \A q \in Process : pc'[q] \in {"clear"} \cup DerivationPlace => tables.created
        BY <2>4 DEF RunsOK, DerivationPlace
      <3> QED BY <2>1, <2>3, <3>1, <3>2, <3>3, <3>4 DEF RunsOK
    <2>6. Reader!EndRun(r)
      BY <2>2, <2>3 DEF Reader!EndRun
    <2> QED BY <2>3, <2>5, <2>6, PublishedStep DEF Reader!Next, Reader!Run, Run
  <1> QED BY <1>1, <1>2, <1>3, <1>4 DEF Record

\* Nobody sees anything of a process that gives up.
LEMMA GiveUpPromise ==
  ASSUME PromiseInv, NEW p \in Process, GiveUp(p)
  PROVE  Promised
  <1> USE FilePromise
  <1>1. /\ UNCHANGED file
        /\ \A q \in Process : pc'[q] = IF q = p THEN "down" ELSE pc[q]
        /\ \A q \in Process : runOf'[q] = IF q = p THEN 0 ELSE runOf[q]
        /\ \A q \in Process \ {p} : loaded'[q] = loaded[q]
    BY DEF GiveUp, Rollback, SafeInv, ProcessesOK
  <1>2. newest' = newest /\ ended' = ended /\ tables' = tables
    BY <1>1 DEF file
  <1>3. RunsOK'
    <2>1. \A q \in Process : runOf'[q] <= newest
      BY <1>1 DEF RunsOK
    <2>2. \A q, s \in Process : q # s => runOf'[q] = 0 \/ runOf'[q] # runOf'[s]
      BY <1>1 DEF RunsOK
    <2>3. \A q \in Process : pc'[q] \in {"recording", "update"} => ~ ended[runOf'[q]]
      BY <1>1 DEF RunsOK
    <2>4. \A q \in Process : pc'[q] = "schema" => \E s \in Run : ended[s]
      BY <1>1 DEF RunsOK
    <2>5. \A q \in Process : pc'[q] \in {"clear"} \cup DerivationPlace => tables.created
      BY <1>1 DEF RunsOK, DerivationPlace
    <2> QED BY <1>2, <2>1, <2>2, <2>3, <2>4, <2>5 DEF RunsOK
  <1>4. writer = None \/ writer \in Process
    BY DEF SafeInv, LockIsSound
  <1>5. CASE writer \in {None, p}
    <2>1. writer' = None
      BY <1>5 DEF GiveUp, Rollback
    <2> QED BY <1>1, <1>3, <2>1, SilentStep
  <1>6. CASE writer \in Process \ {p}
    <2>1. writer' = writer /\ working' = working
      BY <1>6 DEF GiveUp, Rollback
    <2> QED BY <1>1, <1>3, <1>6, <2>1, SilentStep
  <1> QED BY <1>4, <1>5, <1>6

\* A statement of the derivation, under the lock, that leaves c with the
\* tables t.
LEMMA DerivePromise ==
  ASSUME PromiseInv, NEW p \in Process, NEW from, NEW place \in DerivationPlace, NEW c, NEW t,
         Statement(p, from, place), runOf' = runOf, UNCHANGED file,
         writer' = p, working' = [c EXCEPT !.tables = t], ContentOK(c),
         c.newest = newest, c.ended = ended, c.evidence = evidence,
         t = [created |-> t.created, episodes |-> t.episodes,
              members |-> t.members, points |-> t.points],
         from \in {"clear"} \cup DerivationPlace, t.created, TablesOK(t),
         place = "load" => t.episodes = << >> /\ t.members = {} /\ t.points = {},
         place \in {"episode", "members", "points"} => Partial(t, loaded'[p], place)
  PROVE  Promised
  <1> USE FilePromise
  <1>1. pc' = [pc EXCEPT ![p] = place] /\ pc'[p] = place /\ pc[p] = from
    BY DEF Statement, SafeInv, ProcessesOK
  <1>2. newest' = newest /\ ended' = ended /\ tables' = tables
    BY DEF file
  <1>3. tables.created
    BY <1>1 DEF RunsOK
  <1>4. RunsOK'
    BY <1>1, <1>2, <1>3, RunsStay DEF DerivationPlace
  <1>5. PICK d : d = [c EXCEPT !.tables = t]
    OBVIOUS
  <1>6. d.newest = newest /\ d.ended = ended /\ d.evidence = evidence /\ d.tables = t
    BY <1>5, WithTables
  <1>7. Transaction(d, loaded'[p], runOf'[p], place)
    BY <1>6 DEF Transaction, DerivationPlace
  <1> QED BY <1>1, <1>4, <1>5, <1>7, SilentStep

\* What a process in its derivation sees.
LEMMA DeriverPromise ==
  ASSUME PromiseInv, NEW p \in Process, writer = p, pc[p] \in DerivationPlace
  PROVE  /\ ContentOK(working)
         /\ working.newest = newest /\ working.ended = ended /\ working.evidence = evidence
         /\ working.tables.created /\ TablesOK(working.tables)
         /\ pc[p] = "load" => /\ working.tables.episodes = << >>
                              /\ working.tables.members = {} /\ working.tables.points = {}
         /\ pc[p] \in {"episode", "members", "points"} => Partial(working.tables, loaded[p], pc[p])
  <1>1. WorkingAt(working, pc[p])
    BY FilePromise, HolderSees
  <1>2. Transaction(working, loaded[p], runOf[p], pc[p])
    BY FilePromise, NoneAssumption DEF TransactionOK
  <1>3. pc[p] # "recording"
    BY DEF DerivationPlace
  <1> QED BY <1>1, <1>2, <1>3 DEF WorkingAt, Transaction

\* How many episodes a derivation has inserted, and has yet to insert.
LEMMA PartialNumbers ==
  ASSUME EvidenceOK(evidence), NEW t, NEW l, NEW place, Partial(t, l, place),
         NEW all, all = Reader!Episodes(evidence), NEW n, n = Len(all) - Len(l)
  PROVE  /\ all \in Seq(Episode) /\ Len(all) \in Nat
         /\ l \in Seq(Episode) /\ Len(l) \in Nat
         /\ n \in Nat /\ Len(all) = n + Len(l)
  <1>1. all \in Seq(Episode) /\ Len(all) \in Nat
    BY EpisodesType, LenProperties
  <1>2. l \in Seq(Episode) /\ Len(l) \in Nat /\ n >= 0
    BY LenProperties DEF Partial
  <1> QED BY <1>1, <1>2

\* The derivation shows the readers nothing before its commit, and then all
\* that it makes of the evidence.
LEMMA DeriveStepPromise ==
  ASSUME PromiseInv, NEW p \in Process, Derive(p)
  PROVE  Promised
  <1> USE FilePromise
  <1>0. runOf' = runOf
    BY DEF Derive
  <1>1. CASE CreateSchema(p)
    <2>1. /\ pc[p] = "schema" /\ pc' = [pc EXCEPT ![p] = "clear"] /\ loaded' = loaded
          /\ \E r \in Run : ended[r]
      BY <1>1 DEF CreateSchema, Statement, RunsOK
    <2>2. CASE tables.created
      <3>1. Read
        BY <1>1, <2>2 DEF CreateSchema
      <3>2. writer # p
        BY <2>1, HolderSees DEF Holding, MigrationPlace, DerivationPlace
      <3>3. RunsOK'
        BY <1>0, <2>1, <2>2, <3>1, RunsStay DEF Read, file, DerivationPlace
      <3> QED BY <1>0, <2>1, <3>1, <3>2, <3>3, ReadPromise
    <2>3. CASE ~tables.created
      <3>1. /\ newest' = newest /\ ended' = ended /\ evidence' = evidence
            /\ tables' = [tables EXCEPT !.created = TRUE] /\ writer' = None
        BY <1>1, <2>3 DEF CreateSchema, Autocommit, Publish, Content
      <3>2. /\ tables'.created = TRUE /\ tables'.episodes = tables.episodes
            /\ tables'.members = tables.members /\ tables'.points = tables.points
        BY <3>1, ContentFields DEF ContentOK
      <3>3. RunsOK'
        BY <1>0, <2>1, <3>1, <3>2, RunsStay
      <3>4. TablesOK(tables')
        BY <3>2 DEF TablesOK
      <3>5. Reader!Create
        BY <2>1, <3>1 DEF Reader!Create, Reader!Run, Run
      <3> QED BY <3>1, <3>3, <3>4, <3>5, PublishedStep DEF Reader!Next
    <2> QED BY <2>2, <2>3
  <1>2. CASE ClearPoints(p)
    <2>1. PICK c : c = Content
      OBVIOUS
    <2>2. PICK t : t = [c.tables EXCEPT !.points = {}]
      OBVIOUS
    <2>3. /\ Statement(p, "clear", "clearMembers") /\ UNCHANGED file /\ writer' = p
          /\ working' = [c EXCEPT !.tables = t]
      BY <1>2, <2>1, <2>2 DEF ClearPoints, BeginWrite
    <2>4. /\ t = [created |-> t.created, episodes |-> t.episodes,
                  members |-> t.members, points |-> t.points]
          /\ t.created = tables.created /\ t.episodes = tables.episodes
          /\ t.members = tables.members /\ t.points = {}
      BY <2>1, <2>2, ContentFields DEF ContentOK
    <2>5. tables.created
      BY <2>3 DEF Statement, RunsOK
    <2>6. TablesOK(t)
      BY <2>4 DEF TablesOK
    <2> QED BY <1>0, <2>1, <2>3, <2>4, <2>5, <2>6, ContentFields, DerivePromise DEF DerivationPlace
  <1>3. CASE ClearMembers(p)
    <2>1. PICK c : c = working
      OBVIOUS
    <2>2. PICK t : t = [c.tables EXCEPT !.members = {}]
      OBVIOUS
    <2>3. /\ Statement(p, "clearMembers", "clearEpisodes") /\ UNCHANGED file
          /\ writer = p /\ writer' = p /\ working' = [c EXCEPT !.tables = t]
      BY <1>3, <2>1, <2>2 DEF ClearMembers, Write
    <2>4. /\ ContentOK(c) /\ c.newest = newest /\ c.ended = ended /\ c.evidence = evidence
          /\ c.tables.created /\ TablesOK(c.tables)
      BY <2>1, <2>3, DeriverPromise DEF Statement, DerivationPlace
    <2>5. /\ t = [created |-> t.created, episodes |-> t.episodes,
                  members |-> t.members, points |-> t.points]
          /\ t.created = c.tables.created /\ t.episodes = c.tables.episodes
          /\ t.members = {} /\ t.points = c.tables.points
      BY <2>2, <2>4 DEF ContentOK
    <2>6. TablesOK(t)
      BY <2>4, <2>5 DEF TablesOK
    <2> QED BY <1>0, <2>3, <2>4, <2>5, <2>6, DerivePromise DEF DerivationPlace
  <1>4. CASE ClearEpisodes(p)
    <2>1. PICK c : c = working
      OBVIOUS
    <2>2. PICK t : t = [c.tables EXCEPT !.episodes = << >>]
      OBVIOUS
    <2>3. /\ Statement(p, "clearEpisodes", "load") /\ UNCHANGED file
          /\ writer = p /\ writer' = p /\ working' = [c EXCEPT !.tables = t]
          /\ c.tables.members = {} /\ c.tables.points = {}
      BY <1>4, <2>1, <2>2 DEF ClearEpisodes, Write
    <2>4. /\ ContentOK(c) /\ c.newest = newest /\ c.ended = ended /\ c.evidence = evidence
          /\ c.tables.created /\ TablesOK(c.tables)
      BY <2>1, <2>3, DeriverPromise DEF Statement, DerivationPlace
    <2>5. /\ t = [created |-> t.created, episodes |-> t.episodes,
                  members |-> t.members, points |-> t.points]
          /\ t.created = c.tables.created /\ t.episodes = << >>
          /\ t.members = {} /\ t.points = {}
      BY <2>2, <2>3, <2>4 DEF ContentOK
    <2>6. TablesOK(t)
      BY <2>4, <2>5 DEF TablesOK
    <2> QED BY <1>0, <2>3, <2>4, <2>5, <2>6, DerivePromise DEF DerivationPlace
  <1>5. CASE LoadEvidence(p)
    <2>1. /\ pc[p] = "load" /\ pc' = [pc EXCEPT ![p] = "episode"] /\ Read
          /\ loaded'[p] = Reader!Episodes(View(p).evidence)
          /\ \A q \in Process \ {p} : loaded'[q] = loaded[q]
      BY <1>5 DEF LoadEvidence, Statement, SafeInv, ProcessesOK
    <2>2. RunsOK'
      <3>1. tables.created
        BY <2>1 DEF RunsOK, DerivationPlace
      <3> QED BY <1>0, <2>1, <3>1, RunsStay DEF Read, file, DerivationPlace
    <2>3. ASSUME writer = p
          PROVE  Transaction(working, loaded'[p], runOf[p], "episode")
      <3>1. /\ working.newest = newest /\ working.ended = ended /\ working.evidence = evidence
            /\ working.tables.created /\ TablesOK(working.tables)
            /\ working.tables.episodes = << >> /\ working.tables.members = {}
            /\ working.tables.points = {}
        BY <2>1, <2>3, DeriverPromise DEF DerivationPlace
      <3>2. PICK all : all = Reader!Episodes(evidence)
        OBVIOUS
      <3>3. all \in Seq(Episode) /\ Len(all) \in Nat /\ loaded'[p] = all
        BY <2>1, <2>3, <3>1, <3>2, EpisodesType, LenProperties DEF View
      <3>4. Len(all) = 0 + Len(all) /\ \A i \in 1 .. Len(all) : all[i] = all[0 + i]
        BY <3>3
      <3>5. << >> = FirstOf(all, 0)
        BY DEF FirstOf
      <3>6. Partial(working.tables, all, "episode")
        BY <3>1, <3>2, <3>3, <3>4, <3>5, NoRows DEF Partial
      <3> QED BY <3>1, <3>3, <3>6 DEF Transaction
    <2> QED BY <1>0, <2>1, <2>2, <2>3, ReadPromise
  <1>6. CASE InsertEpisode(p)
    <2>1. PICK c : c = working
      OBVIOUS
    <2>2. PICK l : l = loaded[p]
      OBVIOUS
    <2>3. PICK more : more = Append(c.tables.episodes, Head(l))
      OBVIOUS
    <2>4. PICK t : t = [c.tables EXCEPT !.episodes = more]
      OBVIOUS
    <2>5. /\ Statement(p, "episode", "members") /\ UNCHANGED file /\ loaded' = loaded
          /\ writer = p /\ writer' = p /\ working' = [c EXCEPT !.tables = t] /\ l # << >>
      BY <1>6, <2>1, <2>2, <2>3, <2>4 DEF InsertEpisode, Write
    <2>6. /\ ContentOK(c) /\ c.newest = newest /\ c.ended = ended /\ c.evidence = evidence
          /\ c.tables.created /\ c.tables.created \in BOOLEAN /\ Partial(c.tables, l, "episode")
      BY <2>1, <2>2, <2>5, DeriverPromise DEF Statement, DerivationPlace, TablesOK
    <2>7. /\ t = [created |-> t.created, episodes |-> t.episodes,
                  members |-> t.members, points |-> t.points]
          /\ t.created = c.tables.created /\ t.episodes = more
          /\ t.members = c.tables.members /\ t.points = c.tables.points
      BY <2>4, <2>6 DEF ContentOK
    <2>8. Partial(t, l, "members")
      <3>a. PICK all : all = Reader!Episodes(evidence)
        OBVIOUS
      <3>b. PICK n : n = Len(all) - Len(l)
        OBVIOUS
      <3>c. /\ all \in Seq(Episode) /\ Len(all) \in Nat
            /\ l \in Seq(Episode) /\ Len(l) \in Nat
            /\ n \in Nat /\ Len(all) = n + Len(l)
        BY <2>6, <3>a, <3>b, PartialNumbers
      <3>1. /\ \A i \in 1 .. Len(l) : l[i] = all[n + i]
            /\ c.tables.episodes = FirstOf(all, n)
            /\ c.tables.members = Rows(all, n)
            /\ c.tables.points = Rows(all, n)
        BY <2>6, <3>a, <3>b DEF Partial
      <3>2. Len(l) > 0 /\ Head(l) = l[1]
        BY <2>5, <3>a, <3>b, <3>c, <3>1
      <3>3. Head(l) = all[n + 1] /\ all[n + 1] \in Episode /\ n + 1 \in 1 .. Len(all)
        BY <3>a, <3>b, <3>c, <3>1, <3>2, ElementOfSeq
      <3>4. more = FirstOf(all, n + 1)
        <4>1. PICK old : old = FirstOf(all, n)
          OBVIOUS
        <4>2. \A i \in 1 .. n : all[i] \in Episode
          BY <3>a, <3>b, <3>c, <3>1, ElementOfSeq
        <4>3. old \in Seq(Episode) /\ Len(old) = n /\ \A i \in 1 .. n : old[i] = all[i]
          BY <3>c, <4>1, <4>2 DEF FirstOf
        <4>4. /\ more \in Seq(Episode) /\ Len(more) = n + 1
              /\ \A i \in 1 .. n : more[i] = all[i]
              /\ more[n + 1] = all[n + 1]
          BY <2>3, <3>a, <3>b, <3>c, <3>1, <3>3, <4>1, <4>3, AppendProperties
        <4>5. \A i \in 1 .. n + 1 : more[i] = all[i]
          BY <3>c, <4>4
        <4> QED BY <3>c, <4>4, <4>5 DEF FirstOf
      <3> QED BY <2>7, <3>a, <3>b, <3>c, <3>1, <3>2, <3>4 DEF Partial
    <2>9. TablesOK(t)
      BY <2>6, <2>7, <2>8, PartialIsOK
    <2>10. loaded'[p] = l
      BY <2>2, <2>5
    <2> QED BY <1>0, <2>5, <2>6, <2>7, <2>8, <2>9, <2>10, DerivePromise DEF DerivationPlace
  <1>7. CASE InsertMembers(p)
    <2>1. PICK c : c = working
      OBVIOUS
    <2>2. PICK l : l = loaded[p]
      OBVIOUS
    <2>3. PICK more : more = c.tables.members \cup
                               {<<Len(c.tables.episodes), Head(l).run, m>> : m \in Head(l).motions}
      OBVIOUS
    <2>4. PICK t : t = [c.tables EXCEPT !.members = more]
      OBVIOUS
    <2>5. /\ Statement(p, "members", "points") /\ UNCHANGED file /\ loaded' = loaded
          /\ writer = p /\ writer' = p /\ working' = [c EXCEPT !.tables = t]
      BY <1>7, <2>1, <2>2, <2>3, <2>4 DEF InsertMembers, Write, NewestRows
    <2>6. /\ ContentOK(c) /\ c.newest = newest /\ c.ended = ended /\ c.evidence = evidence
          /\ c.tables.created /\ c.tables.created \in BOOLEAN /\ Partial(c.tables, l, "members")
      BY <2>1, <2>2, <2>5, DeriverPromise DEF Statement, DerivationPlace, TablesOK
    <2>7. /\ t = [created |-> t.created, episodes |-> t.episodes,
                  members |-> t.members, points |-> t.points]
          /\ t.created = c.tables.created /\ t.episodes = c.tables.episodes
          /\ t.members = more /\ t.points = c.tables.points
      BY <2>4, <2>6 DEF ContentOK
    <2>8. Partial(t, l, "points")
      <3>a. PICK all : all = Reader!Episodes(evidence)
        OBVIOUS
      <3>b. PICK n : n = Len(all) - Len(l)
        OBVIOUS
      <3>c. /\ all \in Seq(Episode) /\ Len(all) \in Nat
            /\ l \in Seq(Episode) /\ Len(l) \in Nat
            /\ n \in Nat /\ Len(all) = n + Len(l)
        BY <2>6, <3>a, <3>b, PartialNumbers
      <3>1. /\ \A i \in 1 .. Len(l) : l[i] = all[n + i]
            /\ Len(l) > 0
            /\ c.tables.episodes = FirstOf(all, n + 1)
            /\ c.tables.members = Rows(all, n)
            /\ c.tables.points = Rows(all, n)
        BY <2>6, <3>a, <3>b DEF Partial
      <3>2. Head(l) = all[n + 1]
        BY <3>a, <3>b, <3>c, <3>1
      <3>3. Len(c.tables.episodes) = n + 1
        BY <3>a, <3>b, <3>c, <3>1 DEF FirstOf
      <3>4. more = Rows(all, n + 1)
        <4>1. Rows(all, n + 1) =
                Rows(all, n) \cup {<<n + 1, all[n + 1].run, m>> : m \in all[n + 1].motions}
          BY <3>c, RowsGrow
        <4> QED BY <2>3, <3>1, <3>2, <3>3, <4>1
      <3> QED BY <2>7, <3>a, <3>b, <3>c, <3>1, <3>4 DEF Partial
    <2>9. TablesOK(t)
      BY <2>6, <2>7, <2>8, PartialIsOK
    <2>10. loaded'[p] = l
      BY <2>2, <2>5
    <2> QED BY <1>0, <2>5, <2>6, <2>7, <2>8, <2>9, <2>10, DerivePromise DEF DerivationPlace
  <1>8. CASE InsertPoints(p)
    <2>1. PICK c : c = working
      OBVIOUS
    <2>2. PICK l : l = loaded[p]
      OBVIOUS
    <2>3. PICK more : more = c.tables.points \cup
                               {<<Len(c.tables.episodes), Head(l).run, m>> : m \in Head(l).motions}
      OBVIOUS
    <2>4. PICK t : t = [c.tables EXCEPT !.points = more]
      OBVIOUS
    <2>5. /\ Statement(p, "points", "episode") /\ UNCHANGED file
          /\ writer = p /\ writer' = p /\ working' = [c EXCEPT !.tables = t]
      BY <1>8, <2>1, <2>2, <2>3, <2>4 DEF InsertPoints, Write, NewestRows
    <2>6. /\ ContentOK(c) /\ c.newest = newest /\ c.ended = ended /\ c.evidence = evidence
          /\ c.tables.created /\ c.tables.created \in BOOLEAN /\ Partial(c.tables, l, "points")
      BY <2>1, <2>2, <2>5, DeriverPromise DEF Statement, DerivationPlace, TablesOK
    <2>7. /\ t = [created |-> t.created, episodes |-> t.episodes,
                  members |-> t.members, points |-> t.points]
          /\ t.created = c.tables.created /\ t.episodes = c.tables.episodes
          /\ t.members = c.tables.members /\ t.points = more
      BY <2>4, <2>6 DEF ContentOK
    <2>8. loaded'[p] = Tail(l)
      BY <1>8, <2>2 DEF InsertPoints, SafeInv, ProcessesOK
    <2>9. Partial(t, Tail(l), "episode")
      <3>a. PICK all : all = Reader!Episodes(evidence)
        OBVIOUS
      <3>b. PICK n : n = Len(all) - Len(l)
        OBVIOUS
      <3>c. /\ all \in Seq(Episode) /\ Len(all) \in Nat
            /\ l \in Seq(Episode) /\ Len(l) \in Nat
            /\ n \in Nat /\ Len(all) = n + Len(l)
        BY <2>6, <3>a, <3>b, PartialNumbers
      <3>1. /\ \A i \in 1 .. Len(l) : l[i] = all[n + i]
            /\ Len(l) > 0
            /\ c.tables.episodes = FirstOf(all, n + 1)
            /\ c.tables.members = Rows(all, n + 1)
            /\ c.tables.points = Rows(all, n)
        BY <2>6, <3>a, <3>b DEF Partial
      <3>2. Head(l) = all[n + 1]
        BY <3>a, <3>b, <3>c, <3>1
      <3>3. Len(c.tables.episodes) = n + 1
        BY <3>a, <3>b, <3>c, <3>1 DEF FirstOf
      <3>4. more = Rows(all, n + 1)
        <4>1. Rows(all, n + 1) =
                Rows(all, n) \cup {<<n + 1, all[n + 1].run, m>> : m \in all[n + 1].motions}
          BY <3>c, RowsGrow
        <4> QED BY <2>3, <3>1, <3>2, <3>3, <4>1
      <3>5. /\ Tail(l) \in Seq(Episode) /\ Len(Tail(l)) = Len(l) - 1
            /\ \A i \in 1 .. Len(l) - 1 : Tail(l)[i] = l[i + 1]
        BY <3>a, <3>b, <3>c, <3>1
      <3>6. /\ Len(Tail(l)) \in Nat /\ n + 1 \in Nat /\ Len(all) = (n + 1) + Len(Tail(l))
            /\ \A i \in 1 .. Len(Tail(l)) : Tail(l)[i] = all[(n + 1) + i]
        <4>1. \A i \in 1 .. Len(Tail(l)) : i + 1 \in 1 .. Len(l) /\ n + (i + 1) = (n + 1) + i
          BY <3>a, <3>b, <3>c, <3>1, <3>5
        <4> QED BY <3>a, <3>b, <3>c, <3>1, <3>5, <4>1
      <3> QED BY <2>7, <3>a, <3>b, <3>c, <3>1, <3>4, <3>5, <3>6 DEF Partial
    <2>10. TablesOK(t)
      BY <2>6, <2>7, <2>9, PartialIsOK
    <2> QED BY <1>0, <2>5, <2>6, <2>7, <2>8, <2>9, <2>10, DerivePromise DEF DerivationPlace
  <1>9. CASE CommitDerivation(p)
    <2>1. PICK c : c = working
      OBVIOUS
    <2>2. /\ pc[p] = "episode" /\ pc' = [pc EXCEPT ![p] = "done"] /\ loaded[p] = << >>
          /\ writer = p /\ writer' = None /\ Publish(c)
      BY <1>9, <2>1 DEF CommitDerivation, Commit, Statement, Publish
    <2>3. /\ ContentOK(c) /\ c.newest = newest /\ c.ended = ended /\ c.evidence = evidence
          /\ c.tables.created /\ TablesOK(c.tables) /\ Partial(c.tables, << >>, "episode")
      BY <2>1, <2>2, DeriverPromise DEF DerivationPlace
    <2>4. newest' = newest /\ ended' = ended /\ evidence' = evidence /\ tables' = c.tables
      BY <2>2, <2>3 DEF Publish
    <2>5. RunsOK'
      BY <1>0, <2>2, <2>3, <2>4, RunsStay DEF DerivationPlace
    <2>6. c.tables = Reader!TablesOf(evidence)
      <3>a. PICK all : all = Reader!Episodes(evidence)
        OBVIOUS
      <3>b. PICK n : n = Len(all) - Len(<< >>)
        OBVIOUS
      <3>c. /\ all \in Seq(Episode) /\ Len(all) \in Nat
            /\ << >> \in Seq(Episode) /\ Len(<< >>) \in Nat
            /\ n \in Nat /\ Len(all) = n + Len(<< >>)
        BY <2>3, <3>a, <3>b, PartialNumbers
      <3>1. /\ \A i \in 1 .. Len(<< >>) : << >>[i] = all[n + i]
            /\ c.tables.episodes = FirstOf(all, n)
            /\ c.tables.members = Rows(all, n)
            /\ c.tables.points = Rows(all, n)
        BY <2>3, <3>a, <3>b DEF Partial
      <3>2. n = Len(all)
        BY <3>a, <3>b, <3>c, <3>1
      <3>3. c.tables.episodes = all /\ DOMAIN all = 1 .. n
        BY <3>a, <3>b, <3>c, <3>1, <3>2 DEF FirstOf
      <3>4. Rows(all, n) = Reader!MotionRows(all)
        BY <3>3 DEF Rows, Reader!MotionRows
      <3>5. c.tables.created = TRUE
        BY <2>3 DEF TablesOK
      <3>6. c.tables = [created |-> c.tables.created, episodes |-> c.tables.episodes,
                        members |-> c.tables.members, points |-> c.tables.points]
        BY <2>3 DEF ContentOK
      <3> QED BY <3>a, <3>b, <3>c, <3>1, <3>3, <3>4, <3>5, <3>6 DEF Reader!TablesOf
    <2>7. Reader!Replace
      <3>1. tables.created
        BY <2>2 DEF RunsOK, DerivationPlace
      <3> QED BY <2>4, <2>6, <3>1 DEF Reader!Replace
    <2> QED BY <2>2, <2>3, <2>4, <2>5, <2>7, PublishedStep DEF Reader!Next
  <1> QED BY <1>1, <1>2, <1>3, <1>4, <1>5, <1>6, <1>7, <1>8, <1>9 DEF Derive, DeriveStep

-----------------------------------------------------------------------------
\* Every step keeps the second invariant, and the readers see a step they were
\* promised, or none.
LEMMA PromiseStep == PromiseInv /\ [Next]_vars => PromiseInv' /\ [Reader!Next]_Reader!vars
  <1> SUFFICES ASSUME PromiseInv, [Next]_vars
               PROVE  PromiseInv' /\ [Reader!Next]_Reader!vars
    OBVIOUS
  <1>1. SafeInv'
    BY SafeStep DEF PromiseInv, Safely
  <1>2. CASE Next
    <2>1. Promised
      BY <1>2, OpenPromise, RecordPromise, DeriveStepPromise, GiveUpPromise DEF Next
    <2> QED BY <1>1, <2>1 DEF Promised, PromiseInv
  <1>3. CASE UNCHANGED vars
    <2>1. /\ UNCHANGED file /\ writer' = writer /\ working' = working /\ pc' = pc
          /\ runOf' = runOf /\ loaded' = loaded
          /\ newest' = newest /\ ended' = ended /\ evidence' = evidence /\ tables' = tables
      BY <1>3 DEF vars, file
    <2>2. RunsOK' /\ EvidenceOK(evidence)' /\ TablesOK(tables)'
      BY <2>1 DEF PromiseInv, RunsOK, EvidenceOK, TablesOK
    <2>3. TransactionOK'
      <3>1. PICK c, l, r, place :
              c = working /\ l = loaded[writer] /\ r = runOf[writer] /\ place = pc[writer]
        OBVIOUS
      <3>2. writer # None => Transaction(c, l, r, place)
        BY <3>1 DEF PromiseInv, TransactionOK
      <3>3. writer # None => Transaction(c, l, r, place)'
        BY <2>1, <3>2, TransactionStays
      <3> QED BY <2>1, <3>1, <3>3 DEF TransactionOK
    <2>4. UNCHANGED Reader!vars
      BY <2>1 DEF Reader!vars
    <2> QED BY <1>1, <2>2, <2>3, <2>4 DEF PromiseInv
  <1> QED BY <1>2, <1>3

\* The second invariant holds of every state.
LEMMA AlwaysPromise == Spec => []PromiseInv
  <1>1. PromiseInv /\ [Next]_vars => PromiseInv'
    BY PromiseStep
  <1> QED BY PromiseInit, <1>1, PTL DEF Spec

\* Several processes on one file implement what a reader is promised: evidence
\* that grows, and derived tables that are one derivation of all of it, whole
\* (SPEC.md 1436).
THEOREM FileImplementsEpisodeTables == Spec => ImplementsEpisodeTables
  <1>1. Init => Reader!Init
    BY DEF Init
  <1>2. PromiseInv /\ [Next]_vars => [Reader!Next]_Reader!vars
    BY PromiseStep
  <1> QED BY <1>1, <1>2, AlwaysPromise, PTL DEF Spec, ImplementsEpisodeTables, Reader!Spec

\* The file and what the lock's holder sees of it are databases, at every
\* statement of every process.
THEOREM SharedDatabaseTypeOK == Spec => []TypeOK
  <1>1. PromiseInv => TypeOK
    <2> SUFFICES ASSUME PromiseInv
                 PROVE  TypeOK
      OBVIOUS
    <2> USE FilePromise
    <2>1. ASSUME NEW c, ContentOK(c), c.newest \in 0 .. MaxRuns, TablesOK(c.tables)
          PROVE  FileOK(c)
      <3>1. c.evidence \in [Run -> Seq([device : Device, rested : BOOLEAN])]
        BY <2>1 DEF ContentOK, Reader!Motion
      <3>2. \A id \in DOMAIN c.tables.episodes :
              c.tables.episodes[id] \in [run : Run, device : Device, motions : SUBSET (1 .. MaxMotions)]
        BY <2>1, ElementOfSeq, LenProperties DEF TablesOK, Episode
      <3> QED BY <2>1, <3>1, <3>2 DEF FileOK, ContentOK, TablesOK
    <2>2. FileOK(Content)
      BY <2>1, ContentFields
    <2>3. IF writer = None THEN working = Nothing ELSE FileOK(working)
      <3>1. CASE writer = None
        BY <3>1, NoneAssumption DEF SafeInv, LockIsSound
      <3>2. CASE writer # None
        <4>1. writer \in Process /\ WorkingAt(working, pc[writer])
          BY <3>2 DEF SafeInv, LockIsSound
        <4>2. Transaction(working, loaded[writer], runOf[writer], pc[writer])
          BY <3>2 DEF TransactionOK
        <4> QED BY <2>1, <3>2, <4>1, <4>2 DEF WorkingAt, Transaction
      <3> QED BY <3>1, <3>2
    <2>4. writer \in Process \cup {None}
      BY DEF SafeInv, LockIsSound
    <2> QED BY <2>2, <2>3, <2>4 DEF TypeOK, SafeInv, ProcessesOK
  <1> QED BY <1>1, AlwaysPromise, PTL
=============================================================================
