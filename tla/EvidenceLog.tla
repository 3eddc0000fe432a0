---------------------------- MODULE EvidenceLog -----------------------------
(***************************************************************************)
(* What the recording side promises to every reader of the database (the    *)
(* derivation, the inspection UI): abstractly, one log of evidence rows per *)
(* collector run.                                                           *)
(*   - what is stored of a run is a prefix of what the collector asked to   *)
(*     record in it: no hole, no reordering;                                *)
(*   - a run that is marked ended stored everything it was asked to record, *)
(*     and never changes again;                                             *)
(*   - only the newest run grows; an older one that never ended stays an    *)
(*     interrupted prefix for ever.                                         *)
(* Failures and crashes are not visible here: they only show as a run that  *)
(* stops growing and is never ended.                                        *)
(***************************************************************************)
EXTENDS Integers, Sequences

CONSTANTS Row,       \* the evidence rows
          MaxRuns    \* model bound on the number of runs

Run == 1 .. MaxRuns

VARIABLES newest,   \* the number of runs started so far; run ids count up
          asked,    \* asked[r]: the rows the collector was asked to record in r
          stored,   \* stored[r]: the rows a reader finds for r
          ended     \* ended[r]: r has an ended_wallclock_us

vars == <<newest, asked, stored, ended>>

Init == /\ newest = 0
        /\ asked = [r \in Run |-> << >>]
        /\ stored = [r \in Run |-> << >>]
        /\ ended = [r \in Run |-> FALSE]

StartRun == /\ newest + 1 \in Run
            /\ newest' = newest + 1
            /\ UNCHANGED <<asked, stored, ended>>

\* One more row is asked for, or none, and more of what was asked for becomes
\* visible, or nothing does.
Extend ==
  /\ newest \in Run
  /\ ~ended[newest]
  /\ \/ UNCHANGED asked
     \/ \E row \in Row : asked' = [asked EXCEPT ![newest] = Append(@, row)]
  /\ \E n \in Len(stored[newest]) .. Len(asked'[newest]) :
       stored' = [stored EXCEPT ![newest] = SubSeq(asked'[newest], 1, n)]
  /\ UNCHANGED <<newest, ended>>

EndRun == /\ newest \in Run
          /\ ~ended[newest]
          /\ stored[newest] = asked[newest]
          /\ ended' = [ended EXCEPT ![newest] = TRUE]
          /\ UNCHANGED <<newest, asked, stored>>

Next == StartRun \/ Extend \/ EndRun

Spec == Init /\ [][Next]_vars
=============================================================================
