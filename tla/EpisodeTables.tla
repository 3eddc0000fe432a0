--------------------------- MODULE EpisodeTables ----------------------------
(***************************************************************************)
(* What the derivation promises to every reader of the database: the three  *)
(* derived tables are at any moment what one derivation made of the         *)
(* evidence there was, whole.                                               *)
(*   - evidence only grows, at the end of a run that is not ended;          *)
(*   - the derived tables are replaced in one step, by a function of all    *)
(*     the evidence stored at that moment;                                  *)
(*   - the tables are created, and replaced, after some run was ended.      *)
(* Several collectors may record into one file, so any run that is not      *)
(* ended may grow.  A failed derivation, a migration and a crash are not    *)
(* visible here.                                                            *)
(***************************************************************************)
EXTENDS Integers, Sequences, FiniteSets, SequencesExt

CONSTANTS Device,      \* device ids
          MaxRuns,     \* model bound on the runs of one database file
          MaxMotions   \* model bound on the motions of one run

\* An old file has one run of one motion.
ASSUME MaxRunsAssumption == MaxRuns \in Nat \ {0}
ASSUME MaxMotionsAssumption == MaxMotions \in Nat \ {0}

Run == 1 .. MaxRuns

\* A stored motion: its device, and whether the device had rested for the
\* idle gap (or pressed a button) before it.
Motion == [device : Device, rested : BOOLEAN]

VARIABLES newest,    \* the last row of collector_runs
          evidence,  \* evidence[r]: the motions stored for run r, in order
          ended,     \* ended[r]: run r has an ended_wallclock_us
          tables     \* the three derived tables, and whether they exist

vars == <<newest, evidence, ended, tables>>

-----------------------------------------------------------------------------
\* The motion at position i of a run opens an episode.
Opens(rows, i) ==
  \/ rows[i].rested
  \/ \A j \in 1 .. i - 1 : rows[j].device # rows[i].device

\* The motions of the episode that position i opens.
Members(rows, i) ==
  {j \in i .. Len(rows) :
     /\ rows[j].device = rows[i].device
     /\ \A k \in i + 1 .. j : rows[k].device = rows[i].device => ~Opens(rows, k)}

\* The positions up to i that open an episode, and the n-th of them all.
OpeningTo(rows, i) == {j \in 1 .. i : Opens(rows, j)}
Opening(rows, n) ==
  CHOOSE i \in 1 .. Len(rows) : Opens(rows, i) /\ Cardinality(OpeningTo(rows, i)) = n

\* segment() of one run, with the order of its sort: by start.
RunEpisodes(r, rows) ==
  [n \in 1 .. Cardinality(OpeningTo(rows, Len(rows))) |->
     [run |-> r, device |-> rows[Opening(rows, n)].device,
      motions |-> Members(rows, Opening(rows, n))]]

\* Faulty variant of the sort: the newest run comes first.
EpisodesNewestFirst(stored) ==
  FlattenSeq([n \in Run |-> RunEpisodes(MaxRuns + 1 - n, stored[MaxRuns + 1 - n])])

\* segment() of all runs; the sort is by run first.  The position is the
\* episode id: the tables are emptied, so SQLite counts up from 1.
Episodes(stored) == FlattenSeq([r \in Run |-> RunEpisodes(r, stored[r])])

\* Which motions belong to which id, as members and as trajectory points.
MotionRows(episodes) ==
  UNION {{<<id, episodes[id].run, m>> : m \in episodes[id].motions} : id \in DOMAIN episodes}

TablesOf(stored) ==
  LET episodes == Episodes(stored)
  IN  [created |-> TRUE, episodes |-> episodes,
       members |-> MotionRows(episodes), points |-> MotionRows(episodes)]

NoTables == [created |-> FALSE, episodes |-> << >>, members |-> {}, points |-> {}]

-----------------------------------------------------------------------------
\* A new file, or one of the time before there was a derivation, with one
\* ended run of one motion.
NewFile == /\ newest = 0
           /\ evidence = [r \in Run |-> << >>]
           /\ ended = [r \in Run |-> FALSE]

OldFile == /\ newest = 1
           /\ \E d \in Device :
                evidence = [r \in Run |-> IF r = 1 THEN <<[device |-> d, rested |-> TRUE]>>
                                         ELSE << >>]
           /\ ended = [r \in Run |-> r = 1]

Init == /\ NewFile \/ OldFile
        /\ tables = NoTables

StartRun == /\ newest < MaxRuns
            /\ newest' = newest + 1
            /\ UNCHANGED <<evidence, ended, tables>>

\* A batch of run r becomes visible.
Extend(r) ==
  /\ r <= newest
  /\ ~ended[r]
  /\ \E n \in 1 .. MaxMotions - Len(evidence[r]) : \E batch \in [1 .. n -> Motion] :
       evidence' = [evidence EXCEPT ![r] = @ \o batch]
  /\ UNCHANGED <<newest, ended, tables>>

EndRun(r) == /\ r <= newest
             /\ ~ended[r]
             /\ ended' = [ended EXCEPT ![r] = TRUE]
             /\ UNCHANGED <<newest, evidence, tables>>

\* The first derivation creates the tables, empty.
Create == /\ \E r \in Run : ended[r]
          /\ tables' = [tables EXCEPT !.created = TRUE]
          /\ UNCHANGED <<newest, evidence, ended>>

\* A derivation commits.
Replace == /\ tables.created
           /\ tables' = TablesOf(evidence)
           /\ UNCHANGED <<newest, evidence, ended>>

Next == \/ StartRun
        \/ \E r \in Run : Extend(r) \/ EndRun(r)
        \/ Create \/ Replace

Spec == Init /\ [][Next]_vars
=============================================================================
