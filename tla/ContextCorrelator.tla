-------------------------- MODULE ContextCorrelator --------------------------
(***************************************************************************)
(* Matching input events with compositor context samples by monotonic time  *)
(* (class ContextCorrelator, collector/src/main.cpp).  Only the main thread *)
(* uses it.  Inputs wait in pending_ until a context sample shows that no   *)
(* later one can be nearer; contexts are forgotten after retention_us.      *)
(*                                                                          *)
(* A context is known by its place in the order of the recorded contexts,   *)
(* an input by its place in the order of the recorded inputs.  A deque of   *)
(* contexts is the set of the numbers in it, its front the least of them.   *)
(* Every iteration of the finalize loops writes one match row, so it is an  *)
(* action of its own; `mode' says which loop the main thread is in.         *)
(***************************************************************************)
EXTENDS Integers, Sequences

CONSTANTS Tolerance,    \* tolerance_us_: 25000 in main()
          Retention,    \* retention_us: 2000000
          MaxGap,       \* most time between two recorded contexts
          MaxLate,      \* most time an input is behind what was seen before it
          MaxTime,      \* model bound on the clock
          MaxContexts,  \* model bound on the contexts of a run
          MaxInputs     \* model bound on the inputs of a run

ASSUME TimesAssumption == /\ Tolerance \in Nat
                          /\ Retention \in Nat
                          /\ MaxGap \in Nat
                          /\ MaxLate \in Nat
                          /\ MaxTime \in Nat
ASSUME BoundsAssumption == MaxContexts \in Nat /\ MaxInputs \in Nat

Time == 0 .. MaxTime
NoContext == 0    \* the context_id of a match row without context

VARIABLES observed,     \* history: every context recorded, [time, valid]
          arrived,      \* history: the source times of the inputs recorded
          allContexts,  \* all_contexts_: numbers of retained contexts
          contexts,     \* contexts_: the retained contexts with a cursor
          pending,      \* pending_: numbers of the inputs not yet matched
          mode,         \* "idle", "ready", "finishing" or "finished"
          newestTime,   \* newest_context_time_us of the finalize_ready call
          matches       \* the rows given to record_match so far

vars == <<observed, arrived, allContexts, contexts, pending, mode, newestTime, matches>>

Init == /\ observed = << >>
        /\ arrived = << >>
        /\ allContexts = {}
        /\ contexts = {}
        /\ pending = << >>
        /\ mode = "idle"
        /\ newestTime = 0
        /\ matches = << >>

-----------------------------------------------------------------------------
\* absolute_delta(): unsigned times are subtracted the larger first.
Delta(a, b) == IF a >= b THEN a - b ELSE b - a

\* c is at least as near to t as any context of S and, among the equally near
\* ones, the first: a candidate replaces `nearest' only when strictly nearer.
IsNearest(c, S, t) ==
  /\ c \in S
  /\ \A d \in S : LET near == Delta(t, observed[c].time)
                      far == Delta(t, observed[d].time)
                  IN  near < far \/ (near = far /\ c <= d)

Nearest(S, t) == CHOOSE c \in S : IsNearest(c, S, t)

Within(S, t) == {c \in S : Delta(t, observed[c].time) <= Tolerance}

\* nearest_failed(): the samples without a cursor within the tolerance.
Failed(S, t) == {c \in Within(S, t) : ~observed[c].valid}

\* finalize_one(): the status and the context of the match row.
Verdict(t) ==
  IF Within(contexts, t) # {}
    THEN [status |-> "matched", context |-> Nearest(contexts, t)]
  ELSE IF Failed(allContexts, t) # {}
    THEN [status |-> "unmatched_context_error", context |-> Nearest(Failed(allContexts, t), t)]
  ELSE IF contexts # {}
    THEN [status |-> "unmatched_outside_tolerance", context |-> Nearest(contexts, t)]
  ELSE [status |-> IF allContexts = {} THEN "unmatched_no_context"
                                      ELSE "unmatched_outside_tolerance",
        context |-> NoContext]

\* pop_front while the front is older than the retention: what is behind a
\* front that stays is kept whatever its age.
Kept(S, times, now) ==
  {c \in S : \E front \in S : front <= c /\ times[front].time + Retention >= now}

\* Faulty variant: only all_contexts_ is evicted from.
AddContextKeepsCursors(time, valid) ==
  /\ mode = "idle"
  /\ observed' = Append(observed, [time |-> time, valid |-> valid])
  /\ allContexts' = Kept(allContexts \cup {Len(observed) + 1}, observed', time)
  /\ contexts' = IF valid THEN contexts \cup {Len(observed) + 1} ELSE contexts
  /\ mode' = "ready"
  /\ newestTime' = time
  /\ UNCHANGED <<arrived, pending, matches>>

\* add_context() for a context the database stored, up to its call of
\* finalize_ready(); eviction comes before it.  The bridge stamps its samples
\* with one monotonic clock, so their times increase.
AddContext(time, valid) ==
  LET id == Len(observed) + 1
      all == allContexts \cup {id}
      cursors == IF valid THEN contexts \cup {id} ELSE contexts
  IN  /\ mode = "idle"
      /\ observed' = Append(observed, [time |-> time, valid |-> valid])
      /\ allContexts' = Kept(all, observed', time)
      /\ contexts' = Kept(cursors, observed', time)
      /\ mode' = "ready"
      /\ newestTime' = time
      /\ UNCHANGED <<arrived, pending, matches>>

\* Faulty variant: an input that is already ready waits for the next context.
AddInputLater(time) ==
  /\ mode = "idle"
  /\ arrived' = Append(arrived, time)
  /\ pending' = Append(pending, Len(arrived) + 1)
  /\ UNCHANGED <<observed, allContexts, contexts, mode, newestTime, matches>>

\* add_input() for an event the database stored.
AddInput(time) ==
  /\ mode = "idle"
  /\ arrived' = Append(arrived, time)
  /\ pending' = Append(pending, Len(arrived) + 1)
  /\ IF allContexts # {}
       THEN /\ mode' = "ready"
            /\ newestTime' = observed[Len(observed)].time
       ELSE UNCHANGED <<mode, newestTime>>
  /\ UNCHANGED <<observed, allContexts, contexts, matches>>

FrontTime == arrived[Head(pending)]

\* Faulty variant: pop_front is forgotten.
FinalizeFrontTwice ==
  /\ LET verdict == Verdict(FrontTime)
     IN  matches' = Append(matches, [input |-> Head(pending),
                                     status |-> verdict.status,
                                     context |-> verdict.context])
  /\ Len(matches) <= MaxInputs
  /\ UNCHANGED <<observed, arrived, allContexts, contexts, pending, newestTime>>

\* The match row of the front input is written, then the input is popped.
FinalizeFront ==
  /\ LET verdict == Verdict(FrontTime)
     IN  matches' = Append(matches, [input |-> Head(pending),
                                     status |-> verdict.status,
                                     context |-> verdict.context])
  /\ pending' = Tail(pending)
  /\ UNCHANGED <<observed, arrived, allContexts, contexts, newestTime>>

\* Faulty variants of the loop's condition: it does not wait for a context
\* that is the tolerance past the input; it does not wait at all.
FrontAtOnce == pending # << >>
FrontIsPast == pending # << >> /\ newestTime >= FrontTime

FrontIsReady == pending # << >> /\ newestTime >= FrontTime + Tolerance

\* One iteration of finalize_ready(), and its end.
FinalizeReady == mode = "ready" /\ FrontIsReady /\ FinalizeFront /\ UNCHANGED mode

ReadyDone == /\ mode = "ready"
             /\ ~FrontIsReady
             /\ mode' = "idle"
             /\ UNCHANGED <<observed, arrived, allContexts, contexts, pending,
                            newestTime, matches>>

\* finish() is called, one iteration of its loop, and its end.
StartFinish == /\ mode = "idle"
               /\ mode' = "finishing"
               /\ UNCHANGED <<observed, arrived, allContexts, contexts, pending,
                              newestTime, matches>>

FinalizePending == mode = "finishing" /\ pending # << >> /\ FinalizeFront /\ UNCHANGED mode

FinishDone == /\ mode = "finishing"
              /\ pending = << >>
              /\ mode' = "finished"
              /\ UNCHANGED <<observed, arrived, allContexts, contexts, pending,
                             newestTime, matches>>

-----------------------------------------------------------------------------
LastTime == IF observed = << >> THEN 0 ELSE observed[Len(observed)].time

\* The environment: samples come at most MaxGap apart, and an input is stored
\* at most MaxLate behind a context or an input that was stored before it.
NewContext == \E time \in Time, valid \in BOOLEAN :
                /\ Len(observed) < MaxContexts
                /\ observed # << >> => time > LastTime /\ time <= LastTime + MaxGap
                /\ AddContext(time, valid)

NewInput == \E time \in Time :
              /\ Len(arrived) < MaxInputs
              /\ time + MaxLate >= LastTime
              /\ \A i \in 1 .. Len(arrived) : time + MaxLate >= arrived[i]
              /\ AddInput(time)

Next == \/ NewContext \/ NewInput \/ FinalizeReady \/ ReadyDone
        \/ StartFinish \/ FinalizePending \/ FinishDone

Spec == Init /\ [][Next]_vars

-----------------------------------------------------------------------------
Status == {"matched", "unmatched_context_error",
           "unmatched_outside_tolerance", "unmatched_no_context"}
Mode == {"idle", "ready", "finishing", "finished"}

\* Type invariant: the deques hold recorded contexts and inputs.
TypeOK == /\ observed \in Seq([time : Time, valid : BOOLEAN])
          /\ arrived \in Seq(Time)
          /\ contexts \subseteq allContexts
          /\ allContexts \subseteq 1 .. Len(observed)
          /\ pending \in Seq(1 .. Len(arrived))
          /\ mode \in Mode
          /\ newestTime \in Time
          /\ matches \in Seq([input : 1 .. Len(arrived),
                              status : Status,
                              context : 0 .. Len(observed)])

\* Every recorded input is matched exactly once or still pending, in the
\* order in which the inputs were recorded, through any mixture of calls.
EachInputOnce ==
  LET done == [i \in 1 .. Len(matches) |-> matches[i].input]
  IN  done \o pending = [i \in 1 .. Len(arrived) |-> i]

\* The samples come often enough, and the inputs soon enough, for the
\* retention: the samples are 16667 us apart, and the retention is 2000000 us.
EnoughRetention == 2 * Tolerance + MaxGap + MaxLate <= Retention

\* The classification SPEC.md section 9 describes, over every context of the
\* run and not only the retained ones.
Valid == {c \in 1 .. Len(observed) : observed[c].valid}
Invalid == (1 .. Len(observed)) \ Valid

Agrees(m) ==
  LET t == arrived[m.input]
  IN  CASE Within(Valid, t) # {} ->
             m.status = "matched" /\ IsNearest(m.context, Valid, t)
        [] Within(Valid, t) = {} /\ Within(Invalid, t) # {} ->
             m.status = "unmatched_context_error" /\ IsNearest(m.context, Invalid, t)
        [] OTHER ->
             m.status = IF observed = << >> THEN "unmatched_no_context"
                                           ELSE "unmatched_outside_tolerance"

\* A match row, written once and never revised, is right about every context
\* of the run: those evicted before it was written and those that came after.
VerdictsAreFinal ==
  \A i \in 1 .. Len(matches) : Agrees(matches[i])

\* Later inputs are never matched with earlier contexts: the derivation
\* subtracts context times in that order, as unsigned numbers.
MatchesKeepOrder ==
  \A i, j \in 1 .. Len(matches) :
    LET a == matches[i]
        b == matches[j]
    IN  (/\ a.status = "matched"
         /\ b.status = "matched"
         /\ arrived[a.input] <= arrived[b.input]) => a.context <= b.context

\* Between two calls, the front input is still undecided, and no input waits
\* behind it unless it is at most MaxLate older (the queue is served in order).
PendingIsUndecided ==
  (mode = "idle" /\ observed # << >> /\ pending # << >>) =>
     /\ FrontTime + Tolerance > LastTime
     /\ \A i \in 1 .. Len(pending) : arrived[pending[i]] + MaxLate >= FrontTime
=============================================================================
