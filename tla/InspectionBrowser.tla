------------------------- MODULE InspectionBrowser --------------------------
(***************************************************************************)
(* The inspector (QueryRepository and InspectionController in src/ui/src)   *)
(* as a reader of a database that collectors go on writing.  Its connection *)
(* is read-only and uses no transaction: each query is a statement with a   *)
(* snapshot of its own, so a handler of several queries may put together    *)
(* rows of different moments, and what it keeps - session_records_ with     *)
(* their counts, episode_records_ with their ids - is used again much       *)
(* later.  The writers are those of EpisodeTables.                          *)
(*                                                                          *)
(* The handlers run on the UI thread, one at a time; pc is the next query.  *)
(***************************************************************************)
EXTENDS EpisodeTables, FiniteSets

VARIABLES pc,           \* the next query of the running handler, or "idle"
          repository,   \* the database is open
          sessions,     \* session_records_
          session,      \* selected_session_index_ + 1; 0 when there is none
          hasRun,       \* has_run_
          devices,      \* selected_session_devices_
          episodes,     \* episode_records_
          episode,      \* selected_episode_index_ + 1; 0 when there is none
          trajectory,   \* trajectory_points_
          message,      \* "none", "error" (error_message_) or "empty" (empty_message_)
          overlapped    \* history: two collectors wrote at the same time

selection == <<session, hasRun, devices, episodes, episode, trajectory>>
browser == <<pc, repository, sessions, selection, message>>
allVars == <<vars, browser, overlapped>>

BrowserInit ==
  /\ Init
  /\ pc = "open" /\ repository = FALSE
  /\ sessions = << >> /\ session = 0 /\ hasRun = FALSE
  /\ devices = {} /\ episodes = << >> /\ episode = 0 /\ trajectory = {}
  /\ message = "none" /\ overlapped = FALSE

-----------------------------------------------------------------------------
\* What the queries return, from the tables as they are now.

MotionsOf(r) == Len(evidence[r])

IdsOf(r) == {id \in DOMAIN tables.episodes : tables.episodes[id].run = r}

\* The n-th of a set of numbers, for ORDER BY.
At(S, n) == CHOOSE i \in S : Cardinality({j \in S : j <= i}) = n

\* Faulty variant: the runs are not asked to be ended.
CompletedRunsOrNot == [n \in 1 .. newest |-> newest + 1 - n]

\* completed_runs(), newest first: by wall clock in the code, which is the
\* order of the ids unless the clock is set back.
CompletedRuns ==
  LET runs == {r \in Run : ended[r]}
  IN  [n \in 1 .. Cardinality(runs) |-> At(runs, Cardinality(runs) + 1 - n)]

\* A session record: the counts of completed_runs(), to which the three
\* statements of completed_sessions() add one each - the device status
\* counts, the compositor status counts, the aggregates - every one of them a
\* number of episodes.
SessionRecord(r) == [run |-> r, motions |-> MotionsOf(r), counts |-> <<Cardinality(IdsOf(r))>>]

\* Faulty variant: the raw half of the union is dropped.
DevicesWithEpisodes(r) == {tables.episodes[id].device : id \in IdsOf(r)}

\* device_summaries_for_session(): the devices with raw rows (here: motions)
\* or episodes.
DevicesOf(r) == {evidence[r][i].device : i \in DOMAIN evidence[r]}
                  \cup {tables.episodes[id].device : id \in IdsOf(r)}

\* episodes_for_run(), by start.
EpisodesOf(r) ==
  [n \in 1 .. Cardinality(IdsOf(r)) |->
     [id |-> At(IdsOf(r), n), row |-> tables.episodes[At(IdsOf(r), n)]]]

\* trajectory_for_episode().
PointsOf(id) == {<<point[2], point[3]>> : point \in {q \in tables.points : q[1] = id}}

-----------------------------------------------------------------------------
\* Faulty variant: the old episodes stay.
ClearActiveStateKeepsEpisodes ==
  /\ session' = 0 /\ hasRun' = FALSE /\ devices' = {}
  /\ episode' = 0 /\ trajectory' = {}
  /\ UNCHANGED episodes

ClearActiveState ==
  /\ session' = 0 /\ hasRun' = FALSE /\ devices' = {}
  /\ episodes' = << >> /\ episode' = 0 /\ trajectory' = {}

\* Faulty variant: the selection is left, and its index outlives the list.
SetErrorKeepsSelection ==
  /\ session' = session
  /\ hasRun' = FALSE /\ devices' = {}
  /\ episodes' = << >> /\ UNCHANGED episode /\ trajectory' = {}
  /\ message' = "error"
  /\ pc' = "idle"
  /\ UNCHANGED repository

\* setError(), and the handler returns.
SetError == /\ ClearActiveState
            /\ message' = "error"
            /\ pc' = "idle"
            /\ UNCHANGED repository

\* load(), called once before the window is there.
Open == /\ pc = "open"
        /\ repository' = TRUE
        /\ pc' = "runs"
        /\ UNCHANGED <<sessions, selection, message>>

\* The statement of completed_runs() names movement_episodes.
ReadRuns ==
  /\ pc = "runs"
  /\ tables.created
  /\ sessions' = [n \in DOMAIN CompletedRuns |-> SessionRecord(CompletedRuns[n])]
  /\ pc' = "summaries"
  /\ UNCHANGED <<repository, selection, message>>

\* Before the first derivation it cannot be prepared: no such table.
NoEpisodeTable ==
  /\ pc = "runs"
  /\ ~tables.created
  /\ SetError
  /\ UNCHANGED sessions

\* The sessions whose summary is not complete.
Unsummarized == {n \in DOMAIN sessions : Len(sessions[n].counts) < 4}

\* Faulty variant: the later statements have no WHERE run_id=?.
ReadSummaryOfAll ==
  /\ pc = "summaries"
  /\ Unsummarized # {}
  /\ LET n == CHOOSE n \in Unsummarized : \A m \in Unsummarized : n <= m
     IN  sessions' = [sessions EXCEPT ![n].counts = Append(@, Len(tables.episodes))]
  /\ UNCHANGED <<pc, repository, selection, message>>

\* One more statement of completed_sessions(), for the first such session.
ReadSummary ==
  /\ pc = "summaries"
  /\ Unsummarized # {}
  /\ LET n == CHOOSE n \in Unsummarized : \A m \in Unsummarized : n <= m
     IN  sessions' = [sessions EXCEPT ![n].counts =
                        Append(@, Cardinality(IdsOf(sessions[n].run)))]
  /\ UNCHANGED <<pc, repository, selection, message>>

\* loadSelectedSession(), up to its first query.
BeginSession(n) ==
  /\ session' = n /\ hasRun' = TRUE
  /\ devices' = {} /\ episodes' = << >> /\ episode' = 0 /\ trajectory' = {}
  /\ message' = "none"
  /\ pc' = "devices"
  /\ UNCHANGED <<repository, sessions>>

\* completed_sessions() returns: the newest session is selected.
Summarized ==
  /\ pc = "summaries"
  /\ Unsummarized = {}
  /\ \/ /\ sessions # << >>
        /\ BeginSession(1)
     \/ /\ sessions = << >>
        /\ message' = "empty"
        /\ pc' = "idle"
        /\ UNCHANGED <<repository, sessions, selection>>

SelectSession(n) ==
  /\ pc = "idle"
  /\ repository
  /\ n \in DOMAIN sessions
  /\ BeginSession(n)

SelectedRun == sessions[session].run

ReadDevices ==
  /\ pc = "devices"
  /\ devices' = DevicesOf(SelectedRun)
  /\ pc' = "episodes"
  /\ UNCHANGED <<repository, sessions, session, hasRun, episodes, episode,
                 trajectory, message>>

\* The first episode is selected, when there is one.
ReadEpisodes ==
  /\ pc = "episodes"
  /\ episodes' = EpisodesOf(SelectedRun)
  /\ \/ /\ episodes' = << >>
        /\ message' = "empty"
        /\ pc' = "idle"
        /\ UNCHANGED episode
     \/ /\ episodes' # << >>
        /\ episode' = 1
        /\ pc' = "trajectory"
        /\ UNCHANGED message
  /\ UNCHANGED <<repository, sessions, session, hasRun, devices, trajectory>>

SelectEpisode(n) ==
  /\ pc = "idle"
  /\ n \in DOMAIN episodes
  /\ episode' = n
  /\ trajectory' = {}
  /\ pc' = "trajectory"
  /\ UNCHANGED <<repository, sessions, session, hasRun, devices, episodes, message>>

\* loadTrajectory(), by the id that the list of episodes has kept.
ReadTrajectory ==
  /\ pc = "trajectory"
  /\ trajectory' = PointsOf(episodes[episode].id)
  /\ pc' = "idle"
  /\ UNCHANGED <<repository, sessions, session, hasRun, devices, episodes, episode, message>>

\* The call of SQLite that is next fails: the file cannot be opened or a
\* statement does not reach its end.  When it is one of completed_sessions()
\* no session is returned.
Fail ==
  /\ pc # "idle"
  /\ pc = "summaries" => Unsummarized # {}
  /\ SetError
  /\ sessions' = IF pc = "summaries" THEN << >> ELSE sessions

Handler == \/ Open \/ ReadRuns \/ NoEpisodeTable \/ ReadSummary \/ Summarized
           \/ ReadDevices \/ ReadEpisodes \/ ReadTrajectory \/ Fail
           \/ \E n \in Run : SelectSession(n)
           \/ \E n \in 1 .. MaxRuns * MaxMotions : SelectEpisode(n)

\* Two collectors are at work when a run grows or ends after a later one has
\* begun, and when a derivation commits while the newest run goes on.
Overlapping ==
  \/ \E r \in Run : r < newest /\ (evidence'[r] # evidence[r] \/ ended'[r] # ended[r])
  \/ tables' # tables /\ ~ended[newest]

\* A step of a collector.
Collect ==
  /\ Next
  /\ overlapped' = (overlapped \/ Overlapping)

BrowserNext == \/ Handler /\ UNCHANGED <<vars, overlapped>>
               \/ Collect /\ UNCHANGED browser

BrowserSpec == BrowserInit /\ [][BrowserNext]_allVars

-----------------------------------------------------------------------------
SessionRecords == [run : Run, motions : 0 .. MaxMotions, counts : Seq(0 .. MaxMotions)]

EpisodeRecords == [id : Nat, row : [run : Run, device : Device, motions : SUBSET (1 .. MaxMotions)]]

\* Type invariant of the inspector.
TypeOK ==
  /\ pc \in {"open", "runs", "summaries", "devices", "episodes", "trajectory", "idle"}
  /\ {repository, hasRun, overlapped} \subseteq BOOLEAN
  /\ sessions \in Seq(SessionRecords)
  /\ session \in {0} \cup DOMAIN sessions
  /\ devices \subseteq Device
  /\ episodes \in Seq(EpisodeRecords)
  /\ episode \in {0} \cup DOMAIN episodes
  /\ trajectory \subseteq Run \X (1 .. MaxMotions)
  /\ message \in {"none", "error", "empty"}

\* The trajectory on the screen is the complete trajectory of the selected
\* episode and of no other (SPEC.md:92), although it is fetched by an id that
\* was read earlier and every derivation in between has deleted all episodes
\* and numbered them anew - as long as collectors run one after the other.
TrajectoryIsOfSelected ==
  (pc = "idle" /\ episode # 0 /\ ~overlapped) =>
    LET row == episodes[episode].row IN trajectory = {<<row.run, m>> : m \in row.motions}

\* A listed session never changes behind its cached record: the motions it
\* counts are all its run will ever have.
SessionsAreFinal ==
  \A n \in DOMAIN sessions : sessions[n].motions = MotionsOf(sessions[n].run)

\* The four counts of one summary come from four statements.  A derivation
\* that commits between two of them tears the summary in one way only: from
\* no episode to all of them, never to another number.
CountsTearAtDerivationOnly ==
  ~overlapped =>
    \A n \in DOMAIN sessions :
      LET counts == sessions[n].counts
          derived == Len(RunEpisodes(sessions[n].run, evidence[sessions[n].run]))
      IN  \E k \in 0 .. Len(counts) :
            counts = [i \in 1 .. Len(counts) |-> IF i <= k THEN 0 ELSE derived]

\* Every listed episode is of a listed device, although the episodes are read
\* by a later statement than the devices, and whatever collectors do in between.
EpisodeDevicesAreListed ==
  \A n \in DOMAIN episodes : episodes[n].row.device \in devices

\* After an error nothing of an earlier selection is left to be shown, and
\* what is shown belongs to the selected session (SPEC.md:1077).
NothingStaleShown ==
  /\ message = "error" => selection = <<0, FALSE, {}, << >>, 0, {}>>
  /\ \A n \in DOMAIN episodes : hasRun /\ episodes[n].row.run = SelectedRun

\* The sessions can be listed whenever a run is completed: one without
\* episodes is a valid session (SPEC.md:961-962).
CompletedRunsAreReadable ==
  (pc = "runs" /\ CompletedRuns # << >>) => ENABLED ReadRuns
=============================================================================
