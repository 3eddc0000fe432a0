----------------------------- MODULE Collector ------------------------------
(***************************************************************************)
(* The collector process: the main thread (main(), drain_events,            *)
(* drain_context_queue, print_device_event and print_pointer_event in       *)
(* collector/src/main.cpp) composed with the context queue, the correlator  *)
(* and the database, and the bridge thread reduced to what the others see   *)
(* of it: it samples, it may be inside a request of any length, and it      *)
(* looks at stop_requested_ only between requests.                          *)
(*                                                                          *)
(* pc is the main thread's place in main().  The components' modules say    *)
(* what a call does to them; this module says who calls whom, and when.     *)
(***************************************************************************)
EXTENDS Integers, Sequences

CONSTANTS Capacity, MaxAttempts,                 \* as in ContextQueue
          BatchSize, MaxRuns, MaxAsked,          \* as in Database
          Tolerance, Retention, MaxTime,         \* as in ContextCorrelator
          MaxEvents,   \* model bound on the libinput events of a process
          MaxStarts    \* model bound on the processes started on one database

VARIABLES snapshots, dropped, attempted, taken
VARIABLES phase, enabled, runId, pendingRows, inTransaction, transaction,
          newest, stored, ended, asked
VARIABLES observed, arrived, allContexts, contexts, pending, mode, newestTime, matches

VARIABLES pc,            \* where the main thread is
          running,       \* the flag the signal handler clears
          aborted,       \* the initial libinput_dispatch failed
          sequence,      \* the receive sequence number
          kernel,        \* events ready on the input fd
          dispatched,    \* events libinput_dispatch fetched, not yet drained
          eventOf,       \* eventOf[i]: the event of the correlator's input i
          bridge,        \* "none", "idle", "requesting" or "exited"
          stopRequested, \* stop_requested_
          samples,       \* samples[n]: time and validity of the n-th attempt
          now,           \* CLOCK_MONOTONIC
          starts         \* how many collector processes there have been

queueVars == <<snapshots, dropped, attempted, taken>>
databaseVars == <<phase, enabled, runId, pendingRows, inTransaction, transaction,
                  newest, stored, ended, asked>>
correlatorVars == <<observed, arrived, allContexts, contexts, pending, mode,
                    newestTime, matches>>
mainVars == <<pc, aborted, sequence, dispatched, eventOf>>
bridgeVars == <<bridge, samples>>
environmentVars == <<kernel, now, starts>>
vars == <<queueVars, databaseVars, correlatorVars, mainVars, bridgeVars,
          environmentVars, running, stopRequested>>

ASSUME ConstantsAssumption ==
  /\ Capacity \in Nat \ {0} /\ BatchSize \in Nat \ {0}
  /\ {MaxAttempts, MaxRuns, MaxAsked, Tolerance, Retention, MaxTime, MaxEvents, MaxStarts} \subseteq Nat

\* The bound on the calls of a run leaves room for all that can be recorded.
ASSUME MaxAskedSuffices == MaxAsked >= 2 * MaxEvents + MaxAttempts

Kind == {"pointer", "device", "other"}
Time == 0 .. MaxTime

\* A row is about the device, a receive sequence number, a context number or
\* a match of an event, a context and a status.
Device == <<0>>
Item == {<<n>> : n \in 0 .. MaxEvents + MaxAttempts}
          \cup ((1 .. MaxEvents) \X (0 .. MaxAttempts) \X
                {"matched", "unmatched_context_error",
                 "unmatched_outside_tolerance", "unmatched_no_context"})

Queue == INSTANCE ContextQueue
DB == INSTANCE Database
Correlator == INSTANCE ContextCorrelator
                WITH MaxGap <- MaxTime, MaxLate <- MaxTime,
                     MaxContexts <- MaxAttempts, MaxInputs <- MaxEvents

Init ==
  /\ pc = "down" /\ aborted = FALSE /\ sequence = 0
  /\ dispatched = << >> /\ eventOf = << >>
  /\ bridge = "none" /\ samples = << >>
  /\ running = TRUE /\ stopRequested = FALSE
  /\ kernel = << >> /\ now = 0 /\ starts = 0
  /\ Queue!Init /\ DB!Init /\ Correlator!Init

\* The process and its memory are gone; the database file and the clock stay.
Forget ==
  /\ pc' = "down" /\ aborted' = FALSE /\ sequence' = 0
  /\ dispatched' = << >> /\ eventOf' = << >>
  /\ bridge' = "none" /\ samples' = << >>
  /\ running' = TRUE /\ stopRequested' = FALSE
  /\ snapshots' = << >> /\ dropped' = 0 /\ attempted' = 0 /\ taken' = << >>
  /\ observed' = << >> /\ arrived' = << >> /\ allContexts' = {} /\ contexts' = {}
  /\ pending' = << >> /\ mode' = "idle" /\ newestTime' = 0 /\ matches' = << >>
  /\ kernel' = << >>
  /\ UNCHANGED <<now, starts>>

-----------------------------------------------------------------------------
\* Between two calls into the correlator, whose loops write match rows.
Between == mode = "idle"

Goto(place) == pc' = place

\* main() up to the first dispatch: the input observer is ready, the run is
\* opened (or persistence is off), the bridge thread is started.
Start ==
  /\ pc = "down"
  /\ starts < MaxStarts
  /\ starts' = starts + 1
  /\ DB!Open
  /\ bridge' = "idle"
  /\ Goto("firstDispatch")
  /\ UNCHANGED <<queueVars, correlatorVars, aborted, sequence, dispatched, eventOf,
                 samples, kernel, now, running, stopRequested>>

\* libinput_dispatch() fetches what the kernel has.
Dispatch == /\ dispatched' = kernel
            /\ kernel' = << >>

\* The first libinput_dispatch(); when it fails, bridge.stop() and finish()
\* are all that is left of the normal way out.
FirstDispatch ==
  /\ pc = "firstDispatch"
  /\ \/ Goto("events") /\ Dispatch /\ UNCHANGED <<aborted, stopRequested>>
     \/ Goto("join") /\ aborted' = TRUE /\ stopRequested' = TRUE
        /\ UNCHANGED <<dispatched, kernel>>
  /\ UNCHANGED <<queueVars, databaseVars, correlatorVars, sequence, eventOf,
                 bridgeVars, now, starts, running>>

NextEvent == Head(dispatched)

TakeEvent == /\ dispatched # << >>
             /\ Between
             /\ dispatched' = Tail(dispatched)
             /\ sequence' = sequence + 1

\* drain_events(): a motion, button or scroll event is recorded and, when its
\* row has an id, handed to the correlator.
DrainPointerEvent ==
  /\ pc = "events"
  /\ TakeEvent
  /\ NextEvent.kind = "pointer"
  /\ \/ /\ DB!Accept(DB!EventRow(<<sequence + 1>>))
        /\ Correlator!AddInput(NextEvent.time)
        /\ eventOf' = Append(eventOf, sequence + 1)
     \/ /\ DB!Reject(DB!EventRow(<<sequence + 1>>))
        /\ UNCHANGED <<correlatorVars, eventOf>>
  /\ UNCHANGED <<queueVars, pc, aborted, bridgeVars, environmentVars, running, stopRequested>>

\* A pointer device was added or removed: record_device(), record_event().
DrainDeviceEvent ==
  /\ pc = "events"
  /\ TakeEvent
  /\ NextEvent.kind = "device"
  /\ DB!Record(DB!DeviceRow(Device))
  /\ Goto("deviceEvent")
  /\ UNCHANGED <<queueVars, correlatorVars, aborted, eventOf, bridgeVars,
                 environmentVars, running, stopRequested>>

RecordDeviceEvent ==
  /\ pc = "deviceEvent"
  /\ DB!Record(DB!EventRow(<<sequence>>))
  /\ Goto("events")
  /\ UNCHANGED <<queueVars, correlatorVars, aborted, sequence, dispatched, eventOf,
                 bridgeVars, environmentVars, running, stopRequested>>

\* Any other event only takes a sequence number.
DrainOtherEvent ==
  /\ pc = "events"
  /\ TakeEvent
  /\ NextEvent.kind = "other"
  /\ UNCHANGED <<queueVars, databaseVars, correlatorVars, pc, aborted, eventOf,
                 bridgeVars, environmentVars, running, stopRequested>>

EventsDrained ==
  /\ pc = "events"
  /\ dispatched = << >>
  /\ Between
  /\ Goto("contexts")
  /\ UNCHANGED <<queueVars, databaseVars, correlatorVars, aborted, sequence,
                 dispatched, eventOf, bridgeVars, environmentVars, running, stopRequested>>

\* drain_context_queue(): pop a snapshot and give it to add_context(), which
\* forgets it when its row has no id.
DrainContext ==
  /\ pc \in {"contexts", "lastContexts"}
  /\ Between
  /\ Queue!Pop
  /\ LET snapshot == samples[Head(snapshots)]
         row == DB!ContextRow(<<Len(observed) + 1>>)
     IN  \/ DB!Accept(row) /\ Correlator!AddContext(snapshot.time, snapshot.valid)
         \/ DB!Reject(row) /\ UNCHANGED correlatorVars
  /\ UNCHANGED <<mainVars, bridgeVars, environmentVars, running, stopRequested>>

\* Faulty variant: the main thread waits for the sample in progress.
ContextsDrainedAfterReply ==
  /\ pc = "contexts"
  /\ Between
  /\ snapshots = << >>
  /\ bridge # "requesting"
  /\ Goto("poll")
  /\ UNCHANGED <<queueVars, databaseVars, correlatorVars, aborted, sequence,
                 dispatched, eventOf, bridgeVars, environmentVars, running, stopRequested>>

\* The queue is found empty: back to poll, or on to correlator.finish().
ContextsDrained ==
  /\ pc = "contexts"
  /\ Between
  /\ snapshots = << >>
  /\ Goto("poll")
  /\ UNCHANGED <<queueVars, databaseVars, correlatorVars, aborted, sequence,
                 dispatched, eventOf, bridgeVars, environmentVars, running, stopRequested>>

LastContextsDrained ==
  /\ pc = "lastContexts"
  /\ snapshots = << >>
  /\ Correlator!StartFinish
  /\ Goto("correlate")
  /\ UNCHANGED <<queueVars, databaseVars, aborted, sequence, dispatched, eventOf,
                 bridgeVars, environmentVars, running, stopRequested>>

\* An iteration of the correlator's loops, with its record_match().
WriteMatch ==
  /\ Correlator!FinalizeReady \/ Correlator!FinalizePending
  /\ LET match == matches'[Len(matches')]
     IN  DB!Record(DB!MatchRow(<<eventOf[match.input], match.context, match.status>>))
  /\ UNCHANGED <<queueVars, mainVars, bridgeVars, environmentVars, running, stopRequested>>

MatchesWritten ==
  /\ Correlator!ReadyDone
  /\ UNCHANGED <<queueVars, databaseVars, mainVars, bridgeVars, environmentVars,
                 running, stopRequested>>

AllMatched ==
  /\ Correlator!FinishDone
  /\ Goto("finish")
  /\ UNCHANGED <<queueVars, databaseVars, aborted, sequence, dispatched, eventOf,
                 bridgeVars, environmentVars, running, stopRequested>>

\* Faulty variant: the thread is joined but not told to stop.
JoinOnly == Goto("join") /\ UNCHANGED stopRequested

\* bridge.stop() raises the flag and then joins the thread.
RequestStop == Goto("join") /\ stopRequested' = TRUE

\* The loop in main(): the flag, then poll, then dispatch.  A poll that a
\* signal interrupts goes back to the flag and changes nothing.
Poll ==
  /\ pc = "poll"
  /\ \/ ~running /\ RequestStop /\ UNCHANGED <<dispatched, kernel>>
     \/ running /\ kernel = << >> /\ Goto("contexts")
        /\ UNCHANGED <<dispatched, kernel, stopRequested>>
     \/ running /\ kernel # << >> /\ Goto("events") /\ Dispatch /\ UNCHANGED stopRequested
  /\ UNCHANGED <<queueVars, databaseVars, correlatorVars, aborted, sequence, eventOf,
                 bridgeVars, now, starts, running>>

\* poll() or libinput_dispatch() fails: the loop is left.
PollFails ==
  /\ pc = "poll"
  /\ running
  /\ RequestStop
  /\ UNCHANGED <<queueVars, databaseVars, correlatorVars, aborted, sequence, dispatched,
                 eventOf, bridgeVars, environmentVars, running>>

\* Faulty variant: nobody waits for the bridge thread to end.
JoinDetached ==
  /\ pc = "join"
  /\ Goto(IF aborted THEN "finish" ELSE "lastContexts")
  /\ UNCHANGED <<queueVars, databaseVars, correlatorVars, aborted, sequence,
                 dispatched, eventOf, bridgeVars, environmentVars, running, stopRequested>>

\* The join returns when the bridge thread has ended.
Join ==
  /\ pc = "join"
  /\ bridge = "exited"
  /\ Goto(IF aborted THEN "finish" ELSE "lastContexts")
  /\ UNCHANGED <<queueVars, databaseVars, correlatorVars, aborted, sequence,
                 dispatched, eventOf, bridgeVars, environmentVars, running, stopRequested>>

\* database.finish(), in its two halves.
FinishDatabase ==
  /\ pc = "finish"
  /\ DB!FinishCommit \/ DB!FinishUpdate
  /\ UNCHANGED <<queueVars, correlatorVars, mainVars, bridgeVars, environmentVars,
                 running, stopRequested>>

\* The process ends, after the derivation when persistence still works, and
\* the database is closed.
Leave ==
  /\ pc = "finish"
  /\ DB!Close
  /\ Forget

\* The process is killed.
Crash ==
  /\ pc # "down"
  /\ DB!Crash
  /\ Forget

Main == \/ Start \/ FirstDispatch
        \/ DrainPointerEvent \/ DrainDeviceEvent \/ RecordDeviceEvent \/ DrainOtherEvent
        \/ EventsDrained \/ DrainContext \/ ContextsDrained \/ LastContextsDrained
        \/ WriteMatch \/ MatchesWritten \/ AllMatched
        \/ Poll \/ PollFails \/ Join \/ FinishDatabase \/ Leave

-----------------------------------------------------------------------------
LastSample == IF samples = << >> THEN -1 ELSE samples[Len(samples)].time

\* HyprlandContextBridge::run(): the thread enters a request, of the cursor
\* or of the state, once its period is over.
BridgeRequest ==
  /\ bridge = "idle"
  /\ ~stopRequested
  /\ attempted < MaxAttempts
  /\ LastSample < now
  /\ bridge' = "requesting"
  /\ UNCHANGED <<queueVars, databaseVars, correlatorVars, mainVars, samples,
                 environmentVars, running, stopRequested>>

\* The request returns, with a cursor or without: the snapshot is pushed.
BridgeReply ==
  /\ bridge = "requesting"
  /\ bridge' = "idle"
  /\ Queue!Push
  /\ \E valid \in BOOLEAN, time \in LastSample + 1 .. now :
       samples' = Append(samples, [time |-> time, valid |-> valid])
  /\ UNCHANGED <<databaseVars, correlatorVars, mainVars, environmentVars,
                 running, stopRequested>>

\* The loop's condition is evaluated again after the flag was raised.
BridgeExit ==
  /\ bridge = "idle"
  /\ stopRequested
  /\ bridge' = "exited"
  /\ UNCHANGED <<queueVars, databaseVars, correlatorVars, mainVars, samples,
                 environmentVars, running, stopRequested>>

\* SIGINT or SIGTERM: stop_handler().
Signal ==
  /\ pc # "down"
  /\ running
  /\ running' = FALSE
  /\ UNCHANGED <<queueVars, databaseVars, correlatorVars, mainVars, bridgeVars,
                 environmentVars, stopRequested>>

\* The kernel has one more event for the seat.
Arrive ==
  /\ pc # "down"
  /\ sequence + Len(dispatched) + Len(kernel) < MaxEvents
  /\ \E kind \in Kind : kernel' = Append(kernel, [kind |-> kind, time |-> now])
  /\ UNCHANGED <<queueVars, databaseVars, correlatorVars, mainVars, bridgeVars,
                 now, starts, running, stopRequested>>

Tick ==
  /\ now < MaxTime
  /\ now' = now + 1
  /\ UNCHANGED <<queueVars, databaseVars, correlatorVars, mainVars, bridgeVars,
                 kernel, starts, running, stopRequested>>

Next == Main \/ BridgeRequest \/ BridgeReply \/ BridgeExit
        \/ Signal \/ Arrive \/ Tick \/ Crash

Spec == Init /\ [][Next]_vars

\* The scheduler runs both threads; nothing is said of the compositor, which
\* may leave the bridge thread in a request for ever.
FairSpec == Spec /\ WF_vars(Main) /\ WF_vars(BridgeExit)

\* The compositor ends every request, with an answer or without.
RequestsEnd == WF_vars(BridgeReply)

-----------------------------------------------------------------------------
Rows(r) == {stored[r][i] : i \in 1 .. Len(stored[r])}
Positions(r, table) == {i \in 1 .. Len(stored[r]) : stored[r][i].table = table}

\* Whatever is on disk at whatever moment, a match row refers to an event and
\* to a context of the same run that were stored before it.
ReferencesResolve ==
  \A r \in DB!Run : \A i \in Positions(r, "match") :
    LET match == stored[r][i].of
    IN  /\ \E j \in Positions(r, "event") : j < i /\ stored[r][j].of = <<match[1]>>
        /\ match[2] = 0 \/ \E j \in Positions(r, "context") :
                              j < i /\ stored[r][j].of = <<match[2]>>

\* Every event of the run has its match on disk, every sample its context row
\* or its place among the dropped ones.
RunIsCorrelated ==
  /\ \A i \in 1 .. Len(eventOf) :
       \E j \in Positions(runId, "match") : stored[runId][j].of[1] = eventOf[i]
  /\ ~aborted => attempted = dropped + Len(observed)
  /\ \A c \in 1 .. Len(observed) : DB!ContextRow(<<c>>) \in Rows(runId)

\* When the run of a process is marked ended, each event the correlator was
\* given has its match row on disk, and each sample the bridge attempted is
\* on disk or counted as dropped - unless the initial dispatch failed, when
\* the queue is not drained.
EndedRunIsCorrelated == [][ended' # ended => RunIsCorrelated]_vars

Log == INSTANCE EvidenceLog WITH Row <- DB!Row

\* The whole process implements the evidence log.
ImplementsEvidenceLog == Log!Spec

\* SIGINT and SIGTERM end the process: README.md 123, "Stop with `Ctrl-C` or
\* `SIGTERM`".
StopsOnSignal == ~running ~> pc = "down"

\* They do when the compositor ends every request, whatever fails on the way
\* out and however many samples and matches are left to be written.
StopsWhenRequestsEnd == RequestsEnd => StopsOnSignal

Stopping == ~running \/ pc \in {"join", "lastContexts", "correlate", "finish", "down"}

\* An event the kernel has is drained, whatever the bridge thread does, as
\* long as the process is not told to stop.
InputIsDrained ==
  \A n \in 1 .. MaxEvents :
    sequence + Len(dispatched) + Len(kernel) >= n ~> sequence >= n \/ Stopping
=============================================================================
