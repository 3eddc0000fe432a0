---------------------------- MODULE ContextQueue ----------------------------
(***************************************************************************)
(* The bounded queue between the Hyprland bridge thread, which pushes one   *)
(* snapshot per cursor sample, and the main thread, which pops them         *)
(* (class ContextQueue, collector/src/main.cpp).  push and pop hold the     *)
(* queue's mutex for the whole of their body, so each is one action.        *)
(*                                                                          *)
(* A snapshot is represented by the number of its sampling attempt: the     *)
(* bridge increments samples_attempted_ just before the push.               *)
(***************************************************************************)
EXTENDS Integers, Sequences

CONSTANTS Capacity,      \* capacity_: 256 in main()
          MaxAttempts    \* model bound on the number of samples pushed

\* pop_front on an empty deque is undefined, so the code needs Capacity > 0.
ASSUME CapacityAssumption == Capacity \in Nat \ {0}
ASSUME MaxAttemptsAssumption == MaxAttempts \in Nat

VARIABLES snapshots,   \* snapshots_: the queued samples, oldest first
          dropped,     \* dropped_: how many samples overflow discarded
          attempted,   \* samples_attempted_ of the bridge
          taken        \* history: the samples the main thread has popped

vars == <<snapshots, dropped, attempted, taken>>

Init == /\ snapshots = << >>
        /\ dropped = 0
        /\ attempted = 0
        /\ taken = << >>

\* Faulty variant: the capacity test is off by one.
FullOffByOne == Len(snapshots) > Capacity

Full == Len(snapshots) >= Capacity

\* Faulty variants of push(): the overflow counter runs backwards; overflow
\* is not counted; overflow discards the new sample instead of the oldest.
PushCountsDown ==
  /\ attempted < MaxAttempts
  /\ attempted' = attempted + 1
  /\ snapshots' = Append(IF Full THEN Tail(snapshots) ELSE snapshots, attempted + 1)
  /\ dropped' = IF Full THEN dropped - 1 ELSE dropped
  /\ UNCHANGED taken

PushUncounted ==
  /\ attempted < MaxAttempts
  /\ attempted' = attempted + 1
  /\ snapshots' = Append(IF Full THEN Tail(snapshots) ELSE snapshots, attempted + 1)
  /\ UNCHANGED <<dropped, taken>>

PushDropsNewest ==
  /\ attempted < MaxAttempts
  /\ attempted' = attempted + 1
  /\ snapshots' = IF Full THEN snapshots ELSE Append(snapshots, attempted + 1)
  /\ dropped' = IF Full THEN dropped + 1 ELSE dropped
  /\ UNCHANGED taken

\* push(): the bridge thread; overflow discards the oldest sample.
Push == /\ attempted < MaxAttempts
        /\ attempted' = attempted + 1
        /\ \/ /\ Full
              /\ snapshots' = Append(Tail(snapshots), attempted + 1)
              /\ dropped' = dropped + 1
           \/ /\ ~Full
              /\ snapshots' = Append(snapshots, attempted + 1)
              /\ UNCHANGED dropped
        /\ UNCHANGED taken

\* Faulty variant of pop(): the front is copied but not removed.
PopKeepsFront == /\ snapshots # << >>
                 /\ Len(taken) < MaxAttempts
                 /\ taken' = Append(taken, Head(snapshots))
                 /\ UNCHANGED <<snapshots, dropped, attempted>>

\* pop(): the main thread; on an empty queue it returns false and changes
\* nothing, which is a stuttering step.
Pop == /\ snapshots # << >>
       /\ taken' = Append(taken, Head(snapshots))
       /\ snapshots' = Tail(snapshots)
       /\ UNCHANGED <<dropped, attempted>>

Next == Push \/ Pop

Spec == Init /\ [][Next]_vars

-----------------------------------------------------------------------------
\* Type invariant: what the queue, its counter and the two histories hold.
TypeOK == /\ snapshots \in Seq(Nat)
          /\ dropped \in Nat
          /\ attempted \in Nat
          /\ taken \in Seq(Nat)

\* The queue never grows past its capacity, however the two threads
\* interleave (SPEC.md: "bounded queues").
Bounded == Len(snapshots) <= Capacity

\* Every sample the bridge attempted is accounted for exactly once: popped,
\* still queued, or counted in dropped_ (main prints queue_dropped at exit).
Accounting == attempted = Len(taken) + Len(snapshots) + dropped

\* Overflow discards the oldest samples only: what is queued is always the
\* newest consecutive block of attempts, in order.
NewestKept ==
  \A i \in 1 .. Len(snapshots) :
    snapshots[i] = attempted - Len(snapshots) + i

\* The main thread sees the samples in sampling order and none twice, across
\* any mixture of overflows and pops; the correlator relies on this order.
TakenInOrder ==
  \A i, j \in 1 .. Len(taken) : i < j => taken[i] < taken[j]

\* A sample that is popped is never older than the last Capacity attempts:
\* a stalled consumer resumes with recent context, not with a stale backlog.
TakenIsRecent ==
  [][taken' # taken => taken'[Len(taken')] > attempted - Capacity]_vars
=============================================================================
