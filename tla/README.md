# Verification of mouseprint

TLA+ models, model-checking runs and machine-checked proofs for the mouseprint
collector (`src/collector`), the program that records libinput events together
with samples of the compositor's context into a SQLite database and derives
movement episodes from them, and for the inspector (`src/ui`) that reads it. The
source is the reference of every definition; `PROJECT.json` names, for each of them,
the lines it stands for.

## 1. The system

### Components

| component | code | state | operations |
|---|---|---|---|
| context queue | `ContextQueue`, main.cpp:120-151 | a bounded deque of samples, a drop counter, a mutex | `push` (drops the oldest when full), `pop`, `dropped` |
| evidence database | `Database`, main.cpp:153-606 | one SQLite connection, `enabled_`, `run_id_`, `pending_rows_`, prepared statements; the file | `open`, `record_device/event/context/match`, `finish`, `close` |
| bridge | `HyprlandContextBridge`, main.cpp:936-1237 | a copy of monitors, window and workspace, `state_dirty_`, event socket and its buffer, stop flag | a thread: connect, refresh, sample the cursor, read event lines, retry; `stop` |
| correlator | `ContextCorrelator`, main.cpp:1240-1380 | the retained contexts, the inputs not yet matched | `add_context`, `add_input`, `finish` |
| main thread | `main`, `drain_*`, `print_*`, main.cpp:1398-1683 | the poll loop, `running`, the sequence number | start, dispatch, drain, record, stop, derive |
| derivation | movement_episodes.cpp | none of its own: three tables deleted and written again in a transaction | `derive_movement_episodes`: load, segment, calculate, persist |
| JSON reader | `HyprlandJsonReader`, main.cpp:600-930 | a cursor into a string | pure parsing |
| devices migration | `Database::open`, `has_column`, `migrate_devices`, main.cpp:159-296, 518-557 | two tables of the file | five statements in a transaction |
| query repository | `src/ui/src/query_repository.cpp` | a read-only connection | four queries of one statement each, `completed_sessions` of one and three per session |
| inspection controller | `src/ui/src/inspection_controller.cpp` | session records, the selected session with its devices and episodes, the selected episode with its trajectory, a message | `load`, `selectSession`, `selectEpisode` |

### How they interact

Two threads. The bridge thread asks the compositor over a Unix socket, one
request at a time, and pushes samples into the context queue. The main thread
polls the libinput fd with a timeout; after each poll it drains libinput's events
(each is recorded, pointer events are given to the correlator), then pops the
queue (each sample is recorded and given to the correlator). The correlator
writes match rows through the database whenever a sample shows that no later one
can be nearer to a waiting input. Only the main thread uses correlator and
database; queue and `stop_requested_` are what the threads share. On a signal the
handler clears `running`; main stops and joins the bridge, drains the queue a last
time, finalizes every waiting input, ends the run in the database, and derives
the episodes of all runs again.

Processes meet in the database file, which is in WAL mode: any number of collectors may
have it open (nothing in the code excludes a second one), one of them at a time holds the
write lock, and a statement that waits for it for more than a second fails. The
inspector reads the same file in a third kind of process, without a transaction: each
query sees a snapshot of its own, and what it returned is kept and used later.

### What is hard

* *Overload*: the bridge pushes while the main thread is held up; the queue drops.
* *Failure in the middle of a batch*: rows are inserted in transactions of 128. Any
  statement may fail; the class rolls back and disables itself, and rows that had
  been given ids are gone. The process may crash anywhere.
* *Streaming decisions*: a match row is written once, from contexts that may be
  forgotten already, about an input that may arrive late.
* *Staleness*: the compositor's state is asked for in three requests while lines
  announce changes, connections are lost, requests fail.
* *Stopping*: the join waits for a thread that may be inside a request.
* *Several processes on one file*: a migration is interrupted, or done by another process
  after the columns were inspected; a derivation deletes and rewrites what a reader is in
  the middle of reading; episode ids are numbered anew.
* *Two computations of the same number*: an episode's row and its trajectory
  points are computed by different loops.

The hazards, each at its line, with the properties that would notice it going
wrong, are listed in `PROJECT.json`.

### What makes each component correct

* Queue: bounded; every sample attempted is popped, queued or counted as dropped;
  the dropped ones are the oldest; samples come out in order.
* Database: the counter agrees with SQLite's transaction; what is stored of a run
  is a prefix of what was asked for; an ended run is complete and never changes; a
  crash costs less than a batch.
* Correlator: each input gets one row, in order, and the row is right about all
  contexts of the run, evicted or yet to come; nothing waits that is decided.
* Bridge: no change of the compositor slips between a refresh and the event lines;
  every announced change reaches the copy.
* Process: a match row refers to rows that exist; an ended run is completely
  correlated; a signal ends the process; input events are drained.
* Derivation: each motion is in one episode; episodes are those of SPEC section 16;
  row and trajectory agree; gaps stay gaps. A reader finds the episodes of one
  derivation, whole, whatever fails.
* Shared file: no identity of a device is ever lost; every device that evidence or
  episodes name is there; an old table can always be migrated.
* Inspector: the trajectory shown is that of the selected episode; rows read at different
  moments fit together; after an error nothing of an earlier selection is shown.

## 2. The modules

| module | models | notes |
|---|---|---|
| `ContextQueue` | the queue | one action per critical section of the mutex |
| `EvidenceLog` | (abstract) what the database promises its readers | one log per run: a prefix of what was asked for, complete when ended |
| `Database` | class `Database` over SQLite | refines `EvidenceLog` |
| `ContextCorrelator` | class `ContextCorrelator` | one action per match row written |
| `HyprlandContextBridge` | the bridge thread and the compositor as far as it shows | one action per request, sample, line or end of a socket |
| `Collector` | the process: `ContextQueue`, `Database` and `ContextCorrelator` instantiated under the main thread, the bridge thread reduced to sampling | refines `EvidenceLog` |
| `MovementEpisodes` | `load_evidence`, `segment` | one action per row of the query |
| `MovementMetrics` | `calculate`, `persist_trajectory` | one action per trajectory point; metrics as operators |
| `EpisodeTables` | (abstract) what the derivation promises its readers | evidence grows, the derived tables are replaced in one step |
| `SqliteFile` | SQLite: committed content, one write lock, transactions, foreign keys | external; operators from which the statements of the next modules are built |
| `DevicesMigration` | `open`, `has_column`, `migrate_devices` over `SqliteFile` | one action per statement |
| `Derivation` | the transaction of `derive_movement_episodes` over `SqliteFile` | one action per statement of it, per episode |
| `SharedDatabase` | several collectors on one file: `DevicesMigration`, recording in batches, `Derivation` | refines `EpisodeTables` |
| `InspectionBrowser` | query repository and controller next to the steps of `EpisodeTables` | one action per statement of a handler |
| `ContextQueueProofs`, `DatabaseProofs`, `ContextCorrelatorProofs`, `HyprlandContextBridgeProofs`, `CollectorProofs`, `MovementEpisodesProofs`, `SharedDatabaseProofs`, `InspectionBrowserProofs` | theorems about the module of that name, with their proofs; `MovementEpisodesProofs` is also about `MovementMetrics` | section 5 |
| `MC...` | instances for TLC | constants, symmetry, assumptions about timing |

### How state and actions correspond to the code

Variables carry the names of the members they stand for (`pendingRows` for
`pending_rows_`, `allContexts` for `all_contexts_`). Variables marked *history* in a
declaration are not in the code: they remember what has happened, for the
properties.

**ContextQueue.** A sample is its number, so "oldest" and "in order" are comparisons
of numbers. `Push` and `Pop` are the bodies of the methods under the mutex.

**Database.** What the class believes (`enabled`, `runId`, `pendingRows`) and what
SQLite holds (`inTransaction`, `transaction`, `stored`, `ended`) are different
variables, because the code decides from the first and the file is the second.
Each call of `record_*` is one action with its outcomes: accepted (with the BEGIN
before and the COMMIT after it, when the counter says so), rejected at any of its
statements, ignored when disabled. `finish()` is two actions, since a crash may
come between its COMMIT and its UPDATE. A crash loses what is not committed.
`open()` succeeds and creates a run, or fails. Rows of `devices` are global
and written by an upsert; in the log they are listed with the run that wrote them.

**ContextCorrelator.** Deques of contexts are sets of positions in the order of
recording; the front is the least. `add_context` records, evicts and starts the
finalize loop; each iteration of the loop is an action (`FinalizeReady`, and
`FinalizePending` in `finish`), so that a process can crash between two match rows.

**HyprlandContextBridge.** A part of the compositor's state (monitors, window,
workspace) is a version number, and the bridge's copy the version it last got. The
compositor changes a part and sends a line; a connection may be lost, with its
unread lines, and in the middle of one.

**Collector.** `pc` is the place in `main()`; each action names the lines it is. The
components' actions are conjuncts of the main thread's actions, so they are the
definitions checked alone. The bridge is reduced to: begin a request, end it and
push a sample, leave when told to stop; its refreshing does not touch what the main
thread sees.

**MovementEpisodes.** The rows come in the order of the query (run, time, receive
sequence) and are otherwise arbitrary. `BUTTON_UP` and `SCROLL` are one kind. The
sort before the insertion decides only episode ids.

**MovementMetrics.** Motions and cursor positions are vectors of integers in the plane, and a
reversal is, as in the code, a negative dot product with the last motion that moved:
successive motions at right angles are none, however often the pointer goes around. `hypot`
is the constant operator `Hypot`, a length in a small unit; the instance gives it Euclidean
lengths and has only vectors whose length is a whole number. The
states are all episodes up to the bound, and each point adds one iteration of
`persist_trajectory`. A sample is on a monitor with a workspace, or on none the
bridge knows, when both columns are NULL (main.cpp:393-395). The loops of `calculate`
are recursive functions over the rows (`Total`, `Collected`, `Turned`), each with what the
loop carries from row to row. The
parts of its specification are called `MetricsInit` to `MetricsSpec`, so that one module of
proofs can extend both halves of the derivation.

**SqliteFile, DevicesMigration, Derivation, SharedDatabase.** The file is what is
committed; the holder of the write lock sees `working` instead. `pc[p]` is the next
statement of process `p`. A statement that fails, a lock that is not granted in time
and a kill have the same effect on the file, the loss of the open transaction, and are
one action, `GiveUp`; the process may then start again. `Database` has the connection's
own state in detail; here a batch is what others see of it. The two `CREATE TABLE`
before the migration are `Connect`; a file is new or old, and an old one may hold the
remains of a migration. Because `CREATE TABLE IF NOT EXISTS` of the derived tables is
outside of the derivation's transaction, they may exist and be empty.
`EpisodeTables!Episodes` is segmentation reduced to what ids depend on (`MovementEpisodes`
has its details): a motion opens an episode when its device had rested. The sort by start is
`Opening(rows, n)`, the n-th position that opens an episode, and the sorts of the inspector's
queries are `At(S, n)`, the n-th number of a set, since the prover knows no sorting operator.

**InspectionBrowser.** The writer is `EpisodeTables!Next`, that is, what `SharedDatabase` is
shown to implement. A handler is as many actions as it makes statements, with `pc` the
next one; a collector may step between any two. The four counts of `counts` are the
numbers of episodes of which the columns of a summary are made. The history variable
`overlapped` records that two collectors were at work at once.

## 3. The runs

`tlc -config X.cfg M` in this directory. Bounds are constants named in the module
they bound.

| run | shows | bounds and why they are enough |
|---|---|---|
| `queue` | `Bounded`, `Accounting`, `TakenInOrder`, `TakenIsRecent` | capacity 3, 8 attempts: the queue can be filled and overflown twice over; proved for all capacities |
| `database` | `CounterTracksTransaction`, `EndedRunIsComplete`, `LossBelowOneBatch`, refinement | batch 2, 3 rows, 2 runs: a full batch and a partial one, a failure or a crash at each statement, a second run over what the first left; proved for all sizes |
| `correlator` | `EachInputOnce`, `VerdictsAreFinal`, `MatchesKeepOrder`, `PendingIsUndecided` | tolerance 1, retention 5, gap 2, lateness 1, times to 8, 5 contexts, 2 inputs: eviction happens, ties, late inputs, failed samples |
| `correlator_gap` | **violation** of `VerdictsAreFinal` | the same without the assumption that samples come often enough |
| `collector` | `ReferencesResolve`, `EndedRunIsCorrelated`, refinement, `StopsWhenRequestsEnd`, `InputIsDrained` | capacity 2 and 3 samples (overflow), batch 2 (commits in the middle and a partial last one), 2 events, tolerance 0 and 2 times (matched and not), one process; a second one over the same file is in `database` and `shared` |
| `bridge` | `NoChangeSlips`, `OkHidesOnlyLosses`, `CatchesUp` | each part changes once, two losses of the socket, one failing request: a change may come before, between and after the requests of a refresh and may lose its line |
| `episodes` | `MotionsArePartitioned`, `EpisodesAreAsSpecified` | 4 rows, 2 devices, 2 runs, idle gap 1, times 0-3: rests below, at and above the gap, devices and runs alternating |
| `metrics` | `PathsAgree`, `GapsStayGaps`, `ReversalsShow` | 3 motions; deltas to the right, up, slanted by (-3, 4), zero, missing; 3 samples at the corners of a triangle with sides 3, 4 and 5, on 2 monitors (symmetric): a gap first, in the middle and last, right, acute and obtuse turns, a rest between two motions of any directions, a detour longer than the displacement; positions on no monitor are in the next run, and, with every other value, in the proofs |
| `metrics_transition` | **violation** of `TransitionsInvalidate` | 3 motions, 3 samples, 4 places |
| `shared` | `EvidenceResolves`, `IdentitiesKept`, `MigrationNotBlocked`, refinement of `EpisodeTables` | 2 processes that may fail and start again without bound, 2 devices, 2 runs of 2 motions, batch 2: two migrations at once, a derivation during another run, a batch that is full and one that is not, remains of a migration |
| `browser` | `TrajectoryIsOfSelected`, `SessionsAreFinal`, `CountsTearAtDerivationOnly`, `EpisodeDevicesAreListed`, `NothingStaleShown` | 2 devices, 2 runs of 2 motions: up to two episodes of a run, a run recorded and derived while the other is shown, every query failing |
| `browser_tables` | **violation** of `CompletedRunsAreReadable` | the same |

Runs list their module's type invariant as well where there is one; the composed process
and the two modules of the derivation's computations have none, being made of checked
components or of operators over their inputs; the proofs type the latter too (`TypeInv`,
`MetricsTypeOK`).

Deadlock checking is off where a model stops because a bound is reached or because
the program ends (all but `database`, where a process can always be started, crash
or ask again).

### Disagreements between code and documents

1. `correlator_gap`: `add_context` evicts before it finalizes (main.cpp:1253-1261). If
   two samples are further apart than `retention_us` (2 s), an input waiting for the
   second loses the context that qualified, and its row says
   `unmatched_outside_tolerance`; SPEC.md:416-418 promises otherwise.
2. `metrics_transition`: a sample on no known monitor between two monitors hides the
   transition (movement_episodes.cpp:292); SPEC.md:722-723.
3. `browser_tables`: the statement that lists the sessions names `movement_episodes`
   (query_repository.cpp:86), which only the first derivation creates. A completed run
   before it cannot be listed: a collector killed between main.cpp:1676 and 1677, a file from
   before there was a derivation. SPEC.md:961-962 and 1078-1079 call it a valid session.

Further observations, which no run states:

* `has_column` takes a step that fails for the end of the columns (main.cpp:526). The old
  `devices` table then counts as a new one. If its sequence columns may be NULL (its
  definition is not in the repository), the process records and derives, episodes refer to
  the old table, and every later `open()` fails at `DROP TABLE devices` by the foreign key.
  `MigrationNotBlocked` excludes this history (`misread`) and fails without the exclusion.
* The join (main.cpp:1657) waits for a request that the compositor need not end: a signal
  alone does not end the process (README.md:123); `StopsWhenRequestsEnd` states when it does.
* Reconnecting the event socket does not mark the state dirty (main.cpp:1177-1184): a
  sample may be stamped `ok` over a copy that missed changes whose lines were lost.
  `OkHidesOnlyLosses` states that it hides nothing else.
* When two collectors overlap, a run with a smaller id grows after a later one was derived.
  The next derivation shifts the ids, and an inspector that was open fetches another
  episode's trajectory for an id in its list. `TrajectoryIsOfSelected` excludes that history
  (`overlapped`).
* A summary may be torn: the count of episodes from before a derivation (0), the other
  counts from after it. `CountsTearAtDerivationOnly` states that nothing worse happens.

### The assumption about timing

`VerdictsAreFinal` holds when `2 * Tolerance + MaxGap + MaxLate <= Retention`
(`EnoughRetention`, assumed in `MCContextCorrelator`): the time between samples plus the
lateness of inputs is far below the two seconds of retention as long as the
compositor answers. In the code the tolerance is 25 ms and the interval 16.7 ms.
The gap run shows that the assumption cannot be dropped.

## 4. Fairness

* `Collector!FairSpec` (`collector`) assumes weak fairness of the
  main thread and of `BridgeExit`: the operating system schedules both threads, and `poll`
  returns when the fd is readable or after its timeout. `InputIsDrained` needs no more;
  in particular the bridge thread may stay inside a request for ever.
* `StopsWhenRequestsEnd` has weak fairness of `BridgeReply` as its antecedent: the
  compositor ends every request. That is an assumption about Hyprland and not about this
  code; without it the signal does not suffice.
* The bridge's `FairSpec` assumes `WF(Thread)` and strong fairness of the loop's decision to
  refresh: it depends on a timer of a second that is compared each time round, so the
  retry is due again and again but not continuously. Requests fail a bounded number
  of times (`MaxFailures`); with a compositor that fails for ever nothing can catch up.

`SharedDatabase` and `InspectionBrowser` state no liveness: every statement of theirs may fail.
Signals, input events, ticks, changes and crashes are never assumed to happen.

## 5. What is proved

`tlapm` checks the eight proof modules from nothing; `PROJECT.json` lists the theorems.
Every safety property of the passing runs, invariant or action property, is a theorem, for
every value of the constants.

**Assumptions**, the named `ASSUME`s of the modules: capacity and batch size are positive,
bounds, times and tolerances are naturals; in the modules of the file the bounds on runs and
motions are positive, since an old file has one run of one motion, and `None` is no process;
in the composed process the bound on the calls of a run leaves room for every event, sample
and match. In `MovementMetrics` deltas and positions are vectors of integers and no number or vector is
`Null` (`VectorsAssumption`), that is, SQLite keeps NULL and 0 apart and the code asks for the
column's type before it reads it; lengths are naturals, that of a position to itself is 0,
and no detour is shorter (`HypotAssumption`), which `hypot` has up to the rounding that is
left out. Nothing else is assumed of lengths or directions. Two theorems have a hypothesis: `VerdictsNeverChange` and
`MatchesAreOrdered` need `EnoughRetention` (section 3).

**ContextQueueProofs**: `QueueTypeOK`, `QueueBounded`, `QueueAccounting`, `QueueOrder`,
`QueueFreshness`. `TakenInOrder` is not inductive: a pop
appends the head of the queue to what was taken, and nothing in it says that the head
is newer. The invariant adds `TakenBeforeQueued` (what was taken is older than the block
that is queued), which in turn needs `NewestKept` (the queue is the newest consecutive
block), and that needs `Bounded`, since only from it an overflow drops exactly one.

**DatabaseProofs**: `DatabaseTypeOK`, `CounterAgrees`, `EndedRunsAreComplete`,
`CrashLosesLessThanOneBatch`, `DatabaseImplementsLog`. The inductive invariant adds to the
checked properties
`AskedIsStoredOrPending` (while recording works, what was asked for is the stored rows
followed by the open transaction), `StoredIsPrefix` (what failure leaves is a prefix),
`ConnectionIsConsistent` (which phases may be enabled, and that the run written is the
newest and not ended) and `FutureRunsAreEmpty`. The step that ends a run needs that the
transaction is empty after the COMMIT, which the code does not look at: it follows from
the agreement of the counter with SQLite's transaction. The refinement maps every
step to one of `EvidenceLog`: recording to `Extend` by one row of which none, or all so far,
becomes visible; the COMMIT in `finish` to an `Extend` without a new row; opening to
`StartRun`; the UPDATE to `EndRun`; failures, crashes and the rest to stuttering.

**ContextCorrelatorProofs**: `CorrelatorTypeOK`, `InputsAreMatchedOnce`,
`WaitingIsNecessary`, and with `EnoughRetention` `VerdictsNeverChange` and
`MatchesAreOrdered`. The invariant says what eviction leaves: exactly the contexts that are
not older than the retention (`RetainedAreRecent`). From that and `WaitingAreRecent` (no
waiting input is much older than the newest context) an evicted context is out of the
tolerance of every input not yet matched, and `MatchesAreSettled` puts later contexts out
of reach of every input that is matched.

**HyprlandContextBridgeProofs**: `BridgeTypeOK`, `NoChangeIsForgotten`,
`OkSamplesHideOnlyLosses`. `NoChangeSlips` needs that the dirty flag stays up until a refresh
has returned (`DirtyWhileRefreshing`), since a request that fails takes back what the ones
before it had fetched, and that only a lost connection leaves half a line behind.

**CollectorProofs**: `MatchRowsResolve`, `EndedRunsAreCorrelated`, `CollectorImplementsLog`.
The invariants of queue, correlator and database are kept by the composed steps, by their
own lemmas. What ties them together: whatever the correlator knows was asked to be stored
(`AskedOK`), each match was asked for after the rows it names (`AskedResolve`), and when the
database works each popped sample reached the correlator (`CorrelatorOK`). That the stored rows
are a prefix of those asked for then gives the first theorem, and that an ended run
stores all of them the second. The bridge is gone before the queue is drained for the last
time (`BridgeOK`), so that no sample comes behind it.

**MovementEpisodesProofs**: `EachMotionInOneEpisode`, `EpisodesMeetSpecification`. The
algorithm is one pass with an open list per device, the specification speaks of rows before
and after an episode. The invariant says that the open list is unbroken and that no row of
the device that matters has come since (`ActiveInv`), that closed episodes are as specified
in what has been read so far (`EpisodeInv`), and that open and closed ones are disjoint and
cover all motions.

The second part is about `MovementMetrics`, for episodes of any number of motions:
`NoValueBehindGap`, `OneAnswer`, `ReversalsAreInTrajectory`, `KnownTransitionsInvalidate`.
None of the properties is inductive. The points show the two flags and sums as they were at
their motion, so `MetricsInv` says what these are:

* the flags remember whether any motion so far lacked its part (`FlagsRemember`), which gives
  `NoValueBehindGap`;
* until then, the sums carried from point to point are those `calculate()` would give for the
  motions so far (`DeviceSum`, `CompositorSum`), the previous position is that of the last
  context it would collect, and the displacement is at most the path, each step by the
  triangle inequality; a sample stored in between changes nothing of it (`ContextsResolve`);
* the last point shows them (`LastPointShows`), which gives `OneAnswer`;
* the steps from point to point are the motions (`StepsShow`), and the loop of `calculate`
  has counted those among them that turn by more than a right angle against the last one that
  moved, which is what it remembers (`TurnsCounted`): together `ReversalsAreInTrajectory`. A
  new motion can only turn against the last one that moved, since a dot product with a motion
  at rest is 0 (`DotFacts`).

That the sums grow by one step with one more motion is a fact about recursive functions, and
for it `Recursion` shows that a recursion over the numbers up to `n` has a result,
`SameValues` that it has one only, and `TotalAppended`, `CollectedAppended`, `TurnedAppended`
and `PathGrows` what one more row adds. `KnownTransitionsInvalidate` is the other side of the run
`metrics_transition`: where monitor and workspace of every context are known, neighbours
that agree make all contexts agree, so that a position on no monitor is the only way for
the sentence of SPEC.md:722-723 to fail.

**SharedDatabaseProofs**, for any number of processes: `DevicesAreNeverMissing`,
`MigrationIsPossible`, `IdentitiesStay`, `FileImplementsEpisodeTables`,
`SharedDatabaseTypeOK`. The invariant `SafeInv` says of each place of a process what the
lock's holder sees: a copy of the committed identities while it migrates (`Keeps`), so that
neither the commit nor a death at any statement loses one. `PromiseInv` adds that a
derivation has so far written a prefix of the episodes of the evidence it loaded, and that
nobody else can change that evidence while it holds the lock. The COMMIT then is
`EpisodeTables!Replace`, and every other step a `StartRun`, `Extend`, `EndRun`, `Create` or
a stutter. `DevicesAreNeverMissing` is about any interleaving of migrations, batches and
derivations.

**InspectionBrowserProofs**: `BrowserTypeOK`, `ListedSessionsAreFinal`, `SummariesTearOnce`,
`ListedEpisodesHaveDevices`, `ShownIsOfSelectedSession`, `SelectedTrajectoryIsShown`. Rows
read at different moments fit together because an ended run has all its evidence and
because the derived tables are those of some evidence `f` that the evidence of now extends;
while collectors run one after the other `f` is all evidence of the first `m` runs and of
no other (`TablesInv`). The lemmas on `Episodes`, up to `EpisodesAreRepeated`, show that a
later derivation then repeats those episodes under their ids. The proof of
`ListedEpisodesHaveDevices` does not need that collectors take turns, and the property does
not ask for it: an ended run's episodes are of devices with evidence, under any interleaving.

Induction over data has no rule the provers can apply; where a proof needs it (the runs
of `Episodes`, positions in a sequence) it argues from a least counterexample
(`LeastNumber`) or with a set that contains 0 and every successor (`UpToNumber`). Lemmas
whose premise speaks of a function to be found state it with an operator (`CanRecur`,
`Alike`, `Located`), which the prover can match as a whole.

**Only model-checked:** all liveness and fairness (`StopsWhenRequestsEnd`, `InputIsDrained`,
`CatchesUp`), for which the prover has no rules, nor for `ENABLED`
(`CompletedRunsAreReadable`); and the violations, which are counterexamples.

## 6. What is not modelled

* Memory exhaustion and other C++ exceptions, such as the catch at main.cpp:1207-1212
  that ends the bridge thread.
* Reading JSON and formatting for the console: the models have a response accepted or
  not.
* Velocities, efficiencies and durations (quotients of modelled quantities) and floating
  point rounding: in doubles a difference of two sums may differ from the summand by an ulp.
* Arguments and default paths, QML, the text of what the inspector shows.
* The columns of the queries that are only shown; a query's rows are read at once.
* The second pass of `segment`, which sets `other_device_motion` when a motion of another
  device lies strictly between the first and the last motion of the episode; in
  `MovementMetrics` the flag is arbitrary. Both ends are exclusive, so motions at the same
  microsecond as an end, or between the last motion and a button press, do not count.
* A loss of power: with `synchronous=NORMAL` (main.cpp:178) and WAL the last commits may be
  gone. A crash in the models is the end of a process.
* The tie in the sort of `segment`: two episodes of one device that start at the same
  microsecond may swap ids between two derivations.
* A wall clock that is set back, which changes the order of the sessions in the inspector.

## 7. Plan

Done: the core (queue, database, correlator, bridge, process), segmentation and
metrics, the migration, the derivation's transaction, several collectors on one file, the
inspector, and the proofs of all their safety properties.

Next: the second pass of `segment` as part of `MovementEpisodes`, with the flag it sets
given to `MovementMetrics`; the order of the insertion with episodes that start at the same
microsecond; velocities, which need the times of motions and contexts next to their places.
