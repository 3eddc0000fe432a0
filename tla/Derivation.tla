----------------------------- MODULE Derivation -----------------------------
(***************************************************************************)
(* The transaction of derive_movement_episodes (collector/src/              *)
(* movement_episodes.cpp): the derived tables are emptied, the evidence of  *)
(* all runs is loaded and cut into episodes, and every episode is inserted  *)
(* with its members and its trajectory points.  What segment() computes is  *)
(* Episodes in EpisodeTables (MovementEpisodes has its details); here it is *)
(* the order of the statements that counts, and what a reader sees when one *)
(* of them fails or the process is killed (GiveUp in the composing module). *)
(***************************************************************************)
EXTENDS SqliteFile

VARIABLES loaded   \* loaded[p]: the episodes that persist() has yet to insert

\* create_schema(): CREATE TABLE IF NOT EXISTS, each a statement of its own.
CreateSchema(p) ==
  /\ Statement(p, "schema", "clear")
  /\ IF tables.created THEN Read
     ELSE Autocommit([Content EXCEPT !.tables.created = TRUE])
  /\ UNCHANGED loaded

\* Faulty variant: no transaction is begun.
ClearPointsAtOnce(p) ==
  /\ Statement(p, "clear", "clearMembers")
  /\ writer = None
  /\ writer' = p
  /\ working' = [Content EXCEPT !.tables.points = {}]
  /\ tables' = [tables EXCEPT !.points = {}]
  /\ UNCHANGED <<newest, evidence, ended, identities, loaded>>

\* BEGIN; DELETE FROM movement_episode_trajectory_points.
ClearPoints(p) ==
  /\ Statement(p, "clear", "clearMembers")
  /\ BeginWrite(p, [Content EXCEPT !.tables.points = {}])
  /\ UNCHANGED loaded

ClearMembers(p) ==
  /\ Statement(p, "clearMembers", "clearEpisodes")
  /\ Write(p, [working EXCEPT !.tables.members = {}])
  /\ UNCHANGED loaded

\* DELETE FROM movement_episodes: the rows that referred to it are gone.
ClearEpisodes(p) ==
  /\ Statement(p, "clearEpisodes", "load")
  /\ working.tables.members = {} /\ working.tables.points = {}
  /\ Write(p, [working EXCEPT !.tables.episodes = << >>])
  /\ UNCHANGED loaded

\* load_evidence() and segment(), inside of the transaction.
LoadEvidence(p) ==
  /\ Statement(p, "load", "episode")
  /\ Read
  /\ loaded' = [loaded EXCEPT ![p] = Reader!Episodes(View(p).evidence)]

\* persist(): the row of the next episode; its id is last_insert_rowid.
InsertEpisode(p) ==
  /\ Statement(p, "episode", "members")
  /\ loaded[p] # << >>
  /\ LET after == [working EXCEPT !.tables.episodes = Append(@, Head(loaded[p]))]
     IN  DevicesResolve(after) /\ Write(p, after)
  /\ UNCHANGED loaded

\* The rows that give the newest episode its motions.
NewestRows(p) ==
  {<<Len(working.tables.episodes), Head(loaded[p]).run, m>> : m \in Head(loaded[p]).motions}

InsertMembers(p) ==
  /\ Statement(p, "members", "points")
  /\ Write(p, [working EXCEPT !.tables.members = @ \cup NewestRows(p)])
  /\ UNCHANGED loaded

\* persist_trajectory(); the loop goes on to the next episode.
InsertPoints(p) ==
  /\ Statement(p, "points", "episode")
  /\ Write(p, [working EXCEPT !.tables.points = @ \cup NewestRows(p)])
  /\ loaded' = [loaded EXCEPT ![p] = Tail(@)]

\* COMMIT; the process is done with the file.
CommitDerivation(p) ==
  /\ Statement(p, "episode", "done")
  /\ loaded[p] = << >>
  /\ Commit(p, working)
  /\ UNCHANGED loaded

DeriveStep(p) == \/ CreateSchema(p)
                 \/ ClearPoints(p) \/ ClearMembers(p) \/ ClearEpisodes(p)
                 \/ LoadEvidence(p)
                 \/ InsertEpisode(p) \/ InsertMembers(p) \/ InsertPoints(p)
                 \/ CommitDerivation(p)
=============================================================================
