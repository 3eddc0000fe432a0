-------------------------- MODULE MovementEpisodes --------------------------
(***************************************************************************)
(* Cutting the recorded evidence into movement episodes (load_evidence,     *)
(* close_episode and segment in collector/src/movement_episodes.cpp).       *)
(*                                                                          *)
(* The rows of raw_input_events come one at a time in the order of the      *)
(* query: by run, by source time, then by receive sequence.  A row is known *)
(* by its place in that order.  One pass over the rows keeps, per run and   *)
(* device, the members of the episode that is open, if one is.  The second  *)
(* pass, which looks for motions of other devices, only sets a flag that    *)
(* MovementMetrics takes as given.                                          *)
(***************************************************************************)
EXTENDS Integers, Sequences, FiniteSets

CONSTANTS Device,     \* the devices
          IdleGap,    \* idle_gap_us: 100000
          MaxRuns,    \* model bound on the runs of the database
          MaxTime,    \* model bound on source_time_us
          MaxItems    \* model bound on the rows

ASSUME IdleGapAssumption == IdleGap \in Nat
ASSUME BoundsAssumption == MaxRuns \in Nat /\ MaxTime \in Nat /\ MaxItems \in Nat

Run == 1 .. MaxRuns
Time == 0 .. MaxTime
Key == Run \X Device

\* "OTHER" stands for BUTTON_UP and SCROLL.
Item == [run : Run, device : Device, kind : {"MOTION", "BUTTON_DOWN", "OTHER"}, time : Time]

VARIABLES evidence,   \* the rows the pass has been over
          active,     \* active[key]: the members of the open episode, or none
          episodes,   \* the closed episodes
          done        \* the pass is over

vars == <<evidence, active, episodes, done>>

Init == /\ evidence = << >>
        /\ active = [key \in Key |-> << >>]
        /\ episodes = {}
        /\ done = FALSE

-----------------------------------------------------------------------------
KeyOf(item) == <<item.run, item.device>>
Open(key) == active[key] # << >>
LastMember(key) == active[key][Len(active[key])]
LastTime(key) == evidence[LastMember(key)].time

\* Faulty variant: the gap is measured from the start of the episode.
IdleFromStart(key, time) == Open(key) /\ time - evidence[active[key][1]].time > IdleGap

\* The device rested for longer than the gap.
Idle(key, time) == Open(key) /\ time - LastTime(key) > IdleGap

\* close_episode(): what is pushed to the episodes.
Closed(key, members, end, reason) ==
  [run |-> key[1], device |-> key[2], members |-> members,
   start |-> evidence[members[1]].time, end |-> end, reason |-> reason]

\* The next row of the query.
Take(item) ==
  /\ ~done
  /\ Len(evidence) < MaxItems
  /\ evidence # << >> =>
       LET last == evidence[Len(evidence)]
       IN  item.run > last.run \/ (item.run = last.run /\ item.time >= last.time)
  /\ evidence' = Append(evidence, item)
  /\ UNCHANGED done

\* MOTION: closes an episode that has been idle, and starts one or goes on.
Motion(item) ==
  LET key == KeyOf(item)
      n == Len(evidence) + 1
  IN  /\ item.kind = "MOTION"
      /\ Take(item)
      /\ \/ /\ Idle(key, item.time)
            /\ episodes' = episodes \cup {Closed(key, active[key], LastTime(key), "idle_gap")}
            /\ active' = [active EXCEPT ![key] = <<n>>]
         \/ /\ ~Idle(key, item.time)
            /\ active' = [active EXCEPT ![key] = Append(@, n)]
            /\ UNCHANGED episodes

\* Faulty variants of BUTTON_DOWN: the episode it closed stays open; it ends
\* at the last motion without closing anything.
ButtonDownLeavesOpen(item) ==
  LET key == KeyOf(item)
      n == Len(evidence) + 1
  IN  /\ item.kind = "BUTTON_DOWN"
      /\ Take(item)
      /\ IF Open(key)
           THEN episodes' = episodes \cup {Closed(key, Append(active[key], n), item.time,
                                                  "button_down")}
           ELSE UNCHANGED episodes
      /\ UNCHANGED active

\* BUTTON_DOWN: closes an open episode, as its last member unless the episode
\* had been idle before.
ButtonDown(item) ==
  LET key == KeyOf(item)
      n == Len(evidence) + 1
  IN  /\ item.kind = "BUTTON_DOWN"
      /\ Take(item)
      /\ \/ /\ Idle(key, item.time)
            /\ episodes' = episodes \cup {Closed(key, active[key], LastTime(key), "idle_gap")}
         \/ /\ Open(key) /\ ~Idle(key, item.time)
            /\ episodes' = episodes \cup {Closed(key, Append(active[key], n), item.time,
                                                 "button_down")}
         \/ ~Open(key) /\ UNCHANGED episodes
      /\ active' = [active EXCEPT ![key] = << >>]

\* BUTTON_UP and SCROLL are passed over.
Other(item) == /\ item.kind = "OTHER"
               /\ Take(item)
               /\ UNCHANGED <<active, episodes>>

\* After the last row, what is still open is closed.  The sort that follows
\* only decides which episode_id an episode gets.
RunEnd ==
  /\ ~done
  /\ done' = TRUE
  /\ episodes' = episodes \cup
       {Closed(key, active[key], LastTime(key), "run_end") : key \in {k \in Key : Open(k)}}
  /\ active' = [key \in Key |-> << >>]
  /\ UNCHANGED evidence

Next == RunEnd \/ \E item \in Item : Motion(item) \/ ButtonDown(item) \/ Other(item)

Spec == Init /\ [][Next]_vars

-----------------------------------------------------------------------------
\* The members with the role "motion".
Motions(e) == IF e.reason = "button_down"
                THEN SubSeq(e.members, 1, Len(e.members) - 1)
                ELSE e.members

LastMotion(e) == Motions(e)[Len(Motions(e))]

-----------------------------------------------------------------------------
Positions == 1 .. Len(evidence)
MotionsOf(key) == {i \in Positions : KeyOf(evidence[i]) = key /\ evidence[i].kind = "MOTION"}

\* Every motion is a member of exactly one episode, whatever the devices and
\* runs did in between: none is lost at a close, none counted twice.
MotionsArePartitioned ==
  done => \A i \in Positions : evidence[i].kind = "MOTION" =>
            Cardinality({e \in episodes : \E k \in 1 .. Len(Motions(e)) : Motions(e)[k] = i}) = 1

\* The rows of e's device that can continue or end an episode.
Relevant(e) == {i \in Positions : /\ KeyOf(evidence[i]) = <<e.run, e.device>>
                                  /\ evidence[i].kind \in {"MOTION", "BUTTON_DOWN"}}

After(e, i) == {j \in Relevant(e) : j > i}
IsNext(e, i, j) == j \in After(e, i) /\ \A k \in After(e, i) : j <= k
Rest(i, j) == evidence[j].time - evidence[i].time

\* SPEC.md section 16, without a loop: an episode is an unbroken sequence of
\* motions of one device, each at most the idle gap after the one before; it
\* ends at the button that comes within the gap, or at its last motion.
AsSpecified(e) ==
  LET last == LastMotion(e)
  IN  /\ \A k \in 2 .. Len(Motions(e)) :
           /\ IsNext(e, Motions(e)[k - 1], Motions(e)[k])
           /\ Rest(Motions(e)[k - 1], Motions(e)[k]) <= IdleGap
      /\ e.start = evidence[Motions(e)[1]].time
      /\ CASE e.reason = "button_down" ->
                \E j \in Positions : /\ IsNext(e, last, j)
                                     /\ j = e.members[Len(e.members)]
                                     /\ evidence[j].kind = "BUTTON_DOWN"
                                     /\ Rest(last, j) <= IdleGap
                                     /\ e.end = evidence[j].time
           [] e.reason = "idle_gap" ->
                /\ \E j \in Positions : IsNext(e, last, j) /\ Rest(last, j) > IdleGap
                /\ e.end = evidence[last].time
           [] e.reason = "run_end" ->
                After(e, last) = {} /\ e.end = evidence[last].time

\* Each episode the pass closes is as specified, in whatever order the rows of
\* several devices and runs alternate.
EpisodesAreAsSpecified == \A e \in episodes : AsSpecified(e)
=============================================================================
