--------------------------- MODULE MovementMetrics ---------------------------
(***************************************************************************)
(* The metrics of an episode (calculate) and its trajectory points          *)
(* (persist_trajectory, collector/src/movement_episodes.cpp).  The two      *)
(* functions go over the same motions, one with nested loops over all of    *)
(* them, the other carrying its sums from point to point; SQLite gets the   *)
(* results of both.                                                         *)
(*                                                                          *)
(* An action is one iteration of persist_trajectory.  The metrics are       *)
(* operators on the motions so far: calculate() for the episode that has    *)
(* exactly these.  Motions and cursor positions are vectors of integers in  *)
(* the plane.  hypot() is a parameter: that a length is a number and that   *)
(* no detour is shorter is all that is assumed of it.  Velocities,          *)
(* quotients of these lengths, are left out, and the rounding of sums.      *)
(*                                                                          *)
(* The parts of the specification have names of their own, MetricsInit to   *)
(* MetricsSpec: this module and MovementEpisodes are the two halves of the  *)
(* derivation, and one module has the proofs about both.                    *)
(***************************************************************************)
EXTENDS Integers, Sequences, SequencesExt

CONSTANTS Null,        \* NULL in the database
          Deltas,      \* unaccelerated deltas, Null where libinput gave none
          Cursors,     \* cursor positions
          Hypot(_, _), \* std::hypot(): the length of a vector, in small units
          Places,      \* pairs of monitor and workspace, or <<Null, Null>>
          MaxSamples,  \* model bound on the context samples
          MaxMotions   \* model bound on the motions of the episode

ASSUME MetricsBoundsAssumption == MaxSamples \in Nat /\ MaxMotions \in Nat
Vector == [x : Int, y : Int]
Zero == [x |-> 0, y |-> 0]

Distance(a, b) == Hypot(a.x - b.x, a.y - b.y)

\* The product of lengths and cosine: negative at more than a right angle.
Dot(a, b) == a.x * b.x + a.y * b.y

ASSUME VectorsAssumption ==
  /\ Null \notin Int \cup Vector
  /\ Deltas \subseteq Vector \cup {Null} /\ Cursors \subseteq Vector
ASSUME HypotAssumption ==
  /\ \A d \in Deltas \ {Null} : Hypot(d.x, d.y) \in Nat
  /\ \A a, b \in Cursors : Distance(a, b) \in Nat /\ Distance(a, a) = 0
  /\ \A a, b, c \in Cursors : Distance(c, a) <= Distance(b, a) + Distance(c, b)

\* A match row without a valid sample, or no match row, is "unmatched".
Statuses == {"matched", "unmatched_context_error", "unmatched"}

VARIABLES samples,     \* the matchable contexts: [cursor, monitor, workspace]
          motions,     \* the motions so far: [delta, status, context]
          other,       \* other_device_motion
          device,      \* device_cumulative_available, device_x, _y, _path
          compositor,  \* compositor_available, _continuous, _path, previous_*
          points       \* the rows inserted: [x, y, devicePath, path]

metricsVars == <<samples, motions, other, device, compositor, points>>

MetricsInit == /\ samples = << >>
               /\ motions = << >>
               /\ other \in BOOLEAN
               /\ device = [available |-> TRUE, x |-> 0, y |-> 0, path |-> 0]
               /\ compositor = [available |-> FALSE, continuous |-> TRUE,
                                path |-> 0, previous |-> 0, cursor |-> Zero]
               /\ points = << >>

-----------------------------------------------------------------------------
\* A sample of the cursor; monitor and workspace are known together, or the
\* position is on no monitor the bridge knows.
Sample(cursor, place) ==
  /\ Len(samples) < MaxSamples
  /\ samples' = Append(samples, [cursor |-> cursor, monitor |-> place[1], workspace |-> place[2]])
  /\ UNCHANGED <<motions, other, device, compositor, points>>

\* The rows a motion can have: matches of an episode go forward in time.
NextMotion ==
  {m \in [delta : Deltas, status : Statuses, context : 0 .. Len(samples)] :
     IF m.status = "matched"
       THEN m.context > 0 /\ \A i \in 1 .. Len(motions) : motions[i].context <= m.context
       ELSE m.context = 0}

\* The device sums after m; a missing delta ends them.
DeviceStep(m) ==
  IF m.delta = Null THEN [device EXCEPT !.available = FALSE]
  ELSE IF device.available
    THEN [device EXCEPT !.x = @ + m.delta.x, !.y = @ + m.delta.y,
                         !.path = @ + Hypot(m.delta.x, m.delta.y)]
  ELSE device

\* Faulty variants: the first cursor position counts as a step from zero; an
\* unmatched motion is skipped and the path goes on behind it.
CompositorStepFromZero(m) ==
  IF m.status # "matched" THEN [compositor EXCEPT !.continuous = FALSE]
  ELSE [compositor EXCEPT
          !.available = @ \/ compositor.continuous,
          !.path = IF compositor.continuous /\ m.context # compositor.previous
                     THEN @ + Distance(samples[m.context].cursor, compositor.cursor)
                     ELSE @,
          !.previous = m.context,
          !.cursor = samples[m.context].cursor]

CompositorStepSkips(m) ==
  IF m.status # "matched" THEN compositor
  ELSE [compositor EXCEPT
          !.available = TRUE,
          !.path = IF compositor.available /\ m.context # compositor.previous
                     THEN @ + Distance(samples[m.context].cursor, compositor.cursor)
                     ELSE @,
          !.previous = m.context,
          !.cursor = samples[m.context].cursor]

\* The path after m; an unmatched motion ends it.
CompositorStep(m) ==
  IF m.status # "matched" THEN [compositor EXCEPT !.continuous = FALSE]
  ELSE [compositor EXCEPT
          !.available = @ \/ compositor.continuous,
          !.path = IF /\ compositor.continuous
                      /\ compositor.available
                      /\ m.context # compositor.previous
                     THEN @ + Distance(samples[m.context].cursor, compositor.cursor)
                     ELSE @,
          !.previous = m.context,
          !.cursor = samples[m.context].cursor]

\* One motion becomes one trajectory point.
TakeMotion(m) ==
  /\ Len(motions) < MaxMotions
  /\ motions' = Append(motions, m)
  /\ device' = DeviceStep(m)
  /\ compositor' = CompositorStep(m)
  /\ points' = Append(points,
       [x |-> IF device'.available THEN device'.x ELSE Null,
        y |-> IF device'.available THEN device'.y ELSE Null,
        devicePath |-> IF device'.available THEN device'.path ELSE Null,
        path |-> IF compositor'.continuous THEN compositor'.path ELSE Null])
  /\ UNCHANGED <<samples, other>>

MetricsNext == \/ \E cursor \in Cursors, place \in Places : Sample(cursor, place)
               \/ \E m \in NextMotion : TakeMotion(m)

MetricsSpec == MetricsInit /\ [][MetricsNext]_metricsVars

-----------------------------------------------------------------------------
\* A running sum over a sequence of numbers.
Total(s) == LET sum[i \in 0 .. Len(s)] == IF i = 0 THEN 0 ELSE sum[i - 1] + s[i]
            IN  sum[Len(s)]

\* calculate(), the device half.
DeviceComplete == \A i \in 1 .. Len(motions) : motions[i].delta # Null

DevicePath == Total([i \in 1 .. Len(motions) |-> Hypot(motions[i].delta.x, motions[i].delta.y)])

\* The reversals so far and previous_non_zero, Null at the start.  Faulty
\* variant: a motion is compared with the one just before it.
TurnFromNeighbour(turns, d) ==
  [count |-> IF turns.previous # Null /\ Dot(turns.previous, d) < 0
               THEN turns.count + 1 ELSE turns.count,
   previous |-> d]

\* Each non-zero motion is compared with the non-zero one before it.
Turn(turns, d) ==
  [count |-> IF turns.previous # Null /\ d # Zero /\ Dot(turns.previous, d) < 0
               THEN turns.count + 1 ELSE turns.count,
   previous |-> IF d # Zero THEN d ELSE turns.previous]

Turned(rows) ==
  LET turns[i \in 0 .. Len(rows)] == IF i = 0 THEN [count |-> 0, previous |-> Null]
                                     ELSE Turn(turns[i - 1], rows[i].delta)
  IN  turns[Len(rows)]

Reversals == Turned(motions).count

-----------------------------------------------------------------------------
\* calculate(), the compositor half: the contexts, each run of equal ones once.
Collect(seen, m) ==
  IF m.status = "matched" /\ (seen = << >> \/ Last(seen) # m.context)
    THEN Append(seen, m.context) ELSE seen

Collected(rows) ==
  LET seen[i \in 0 .. Len(rows)] == IF i = 0 THEN << >> ELSE Collect(seen[i - 1], rows[i])
  IN  seen[Len(rows)]

Contexts == Collected(motions)

Changes(field, i) ==
  LET before == samples[Contexts[i - 1]][field]
      after == samples[Contexts[i]][field]
  IN  before # Null /\ after # Null /\ before # after

Transitions == {i \in 2 .. Len(Contexts) : Changes("monitor", i) \/ Changes("workspace", i)}

Unmatched == {i \in 1 .. Len(motions) : motions[i].status # "matched"}

\* The first reason found is the status; a matched context has a cursor, so
\* "missing_cursor_position" is only the status of no motions at all.
CompositorStatus ==
  CASE other -> "other_device_motion"
    [] ~other /\ Unmatched # {} ->
         IF motions[Min(Unmatched)].status = "unmatched_context_error"
           THEN "context_sampling_failed" ELSE "unmatched_context"
    [] ~other /\ Unmatched = {} /\ Transitions # {} ->
         IF Changes("workspace", Min(Transitions))
           THEN "workspace_transition" ELSE "monitor_transition"
    [] OTHER -> IF Contexts = << >> THEN "missing_cursor_position" ELSE "available"

Available == CompositorStatus = "available"

\* The compositor metrics, where available.
Path == Total([i \in 1 .. Len(Contexts) |->
                 IF i = 1 THEN 0
                 ELSE Distance(samples[Contexts[i]].cursor, samples[Contexts[i - 1]].cursor)])

Displacement == Distance(samples[Last(Contexts)].cursor, samples[Contexts[1]].cursor)

-----------------------------------------------------------------------------
\* The path distance of the episode's row is the cumulative path of its last
\* trajectory point, or both are NULL.
DevicePathsAgree ==
  motions # << >> =>
    Last(points).devicePath = (IF DeviceComplete THEN DevicePath ELSE Null)

\* So is the compositor path where the metrics are available, and the
\* displacement is not longer: the efficiency is a ratio.
CompositorPathsAgree ==
  Available => /\ Last(points).path = Path
               /\ Displacement <= Path

\* An episode's row and its trajectory points are computed by two functions in
\* two loops, calculate() and persist_trajectory(); they give one answer.
PathsAgree == DevicePathsAgree /\ CompositorPathsAgree

\* SPEC.md 742-746 and 753-756: no continuity is fabricated across a gap; a
\* cumulative value is there exactly until the first motion that lacks one.
GapsStayGaps ==
  \A i \in 1 .. Len(points) :
    /\ points[i].devicePath = Null <=> \E k \in 1 .. i : motions[k].delta = Null
    /\ points[i].path = Null <=> \E k \in 1 .. i : motions[k].status # "matched"

\* SPEC.md 715-717 and 737-740, of what a reader finds in the trajectory: its
\* steps from point to point, the first from the origin, turn by more than a
\* right angle as often as the episode's row says; points at rest in between
\* do not count.  One function counts over the deltas, the other sums them up.
Step(i) ==
  IF i = 1 THEN [x |-> points[1].x, y |-> points[1].y]
  ELSE [x |-> points[i].x - points[i - 1].x, y |-> points[i].y - points[i - 1].y]

ReversalsShow ==
  DeviceComplete =>
    Reversals = Cardinality({j \in 1 .. Len(points) :
                               \E i \in 1 .. j - 1 : /\ Dot(Step(i), Step(j)) < 0
                                                     /\ \A k \in i + 1 .. j - 1 : Step(k) = Zero})

\* SPEC.md 722-723: "A monitor or workspace transition invalidates compositor
\* episode metrics."
TransitionsInvalidate ==
  Available => \A i, j \in 1 .. Len(Contexts) :
    LET a == samples[Contexts[i]]
        b == samples[Contexts[j]]
    IN  Null \notin {a.monitor, b.monitor} =>
          a.monitor = b.monitor /\ a.workspace = b.workspace
=============================================================================
