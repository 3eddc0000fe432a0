-------------------------- MODULE CollectorProofs ---------------------------
(***************************************************************************)
(* Proofs, for all bounds, batch sizes and capacities, about the whole      *)
(* collector process: its steps keep the invariants that the proofs of the  *)
(* queue, of the correlator and of the database rest on, so that what is    *)
(* proved of them alone holds of them together; match rows refer to rows    *)
(* that are there; and a run that is marked ended is correlated.            *)
(***************************************************************************)
EXTENDS Collector, SequenceTheorems, TLAPS

QueueProofs == INSTANCE ContextQueueProofs
DBProofs == INSTANCE DatabaseProofs
CorrelatorProofs == INSTANCE ContextCorrelatorProofs
                      WITH MaxGap <- MaxTime, MaxLate <- MaxTime,
                           MaxContexts <- MaxAttempts, MaxInputs <- MaxEvents

Place == {"down", "firstDispatch", "events", "deviceEvent", "contexts", "poll",
          "join", "lastContexts", "correlate", "finish"}

Event == [kind : Kind, time : Time]
Sample == [time : Time, valid : BOOLEAN]

\* The main thread's own variables, and the bound on the events.
MainOK ==
  /\ pc \in Place
  /\ running \in BOOLEAN /\ aborted \in BOOLEAN /\ stopRequested \in BOOLEAN
  /\ sequence \in Nat /\ now \in Time
  /\ kernel \in Seq(Event) /\ dispatched \in Seq(Event)
  /\ sequence + Len(dispatched) + Len(kernel) <= MaxEvents
  /\ eventOf \in Seq(1 .. MaxEvents)
  /\ \A i \in 1 .. Len(eventOf) : eventOf[i] <= sequence
  /\ Len(eventOf) <= sequence
  /\ pc = "deviceEvent" => sequence > 0

\* Where the main thread is, the phase of the connection and the loop of the
\* correlator agree.
ControlOK ==
  /\ pc = "down" => phase = "closed" /\ ~aborted
  /\ pc \notin {"down", "finish"} => phase = "open"
  /\ pc = "finish" => phase \in {"open", "finishing", "finished"}
  /\ mode = "ready" => pc \in {"events", "contexts", "lastContexts"}
  /\ mode = "finishing" <=> pc = "correlate"
  /\ mode = "finished" <=> pc = "finish" /\ ~aborted
  /\ mode = "finished" => pending = << >>

\* An initial dispatch that fails leaves nothing to do but the way out.
AbortOK ==
  aborted => /\ pc \in {"join", "finish"}
             /\ observed = << >> /\ arrived = << >> /\ matches = << >>

\* No process, no memory.
MemoryOK ==
  pc = "down" => /\ sequence = 0 /\ kernel = << >> /\ dispatched = << >> /\ eventOf = << >>
                 /\ snapshots = << >> /\ attempted = 0 /\ taken = << >> /\ samples = << >>
                 /\ observed = << >> /\ arrived = << >> /\ matches = << >>

\* A process that has not yet dispatched has correlated nothing.
StartOK ==
  pc = "firstDispatch" => observed = << >> /\ arrived = << >> /\ matches = << >>

\* The bridge thread is gone when the last snapshots are taken, so that none
\* is pushed behind them.
BridgeOK ==
  /\ bridge \in {"none", "idle", "requesting", "exited"}
  /\ pc = "down" => bridge = "none"
  /\ pc \in {"lastContexts", "correlate", "finish"} => bridge = "exited"
  /\ pc \in {"correlate", "finish"} /\ ~aborted => snapshots = << >>

\* The queue, and the samples its numbers stand for.
QueueOK ==
  /\ QueueProofs!IInv
  /\ attempted <= MaxAttempts
  /\ samples \in Seq(Sample) /\ Len(samples) = attempted
  /\ \A i, j \in 1 .. Len(samples) : i < j => samples[i].time < samples[j].time

\* The correlator, and where its contexts come from.
CorrelatorOK ==
  /\ CorrelatorProofs!QueueInv
  /\ Len(eventOf) = Len(arrived)
  /\ \A c \in 1 .. Len(observed) :
       \E i \in 1 .. attempted - Len(snapshots) : observed[c].time = samples[i].time
  /\ Len(observed) <= Len(taken)
  /\ enabled => Len(observed) = Len(taken)

Among(row, rows) == \E j \in 1 .. Len(rows) : rows[j] = row

\* What the correlator knows, and the matches it made, was asked to be stored.
AskedOK ==
  runId \in DB!Run =>
    /\ \A k \in 1 .. Len(eventOf) : Among(DB!EventRow(<<eventOf[k]>>), asked[runId])
    /\ \A c \in 1 .. Len(observed) : Among(DB!ContextRow(<<c>>), asked[runId])
    /\ \A m \in 1 .. Len(matches) :
         Among(DB!MatchRow(<<eventOf[matches[m].input], matches[m].context,
                             matches[m].status>>), asked[runId])

\* A match row, whether it is stored or not, refers to rows asked for before.
Resolves(rows, i) ==
  rows[i].table = "match" =>
    /\ \E j \in 1 .. i - 1 : rows[j] = DB!EventRow(<<rows[i].of[1]>>)
    /\ rows[i].of[2] = 0 \/ \E j \in 1 .. i - 1 : rows[j] = DB!ContextRow(<<rows[i].of[2]>>)

AskedResolve == \A r \in DB!Run : \A i \in 1 .. Len(asked[r]) : Resolves(asked[r], i)

\* The inductive invariant.
IInv == /\ MainOK /\ ControlOK /\ AbortOK /\ MemoryOK /\ StartOK /\ BridgeOK
        /\ QueueOK /\ CorrelatorOK /\ DBProofs!IInv
        /\ AskedOK /\ AskedResolve

-----------------------------------------------------------------------------
\* The constants are what the components assume of theirs.
LEMMA ComponentAssumptions ==
  /\ QueueProofs!CapacityAssumption /\ QueueProofs!MaxAttemptsAssumption
  /\ DBProofs!BatchSizeAssumption /\ DBProofs!MaxRunsAssumption /\ DBProofs!MaxAskedAssumption
  /\ CorrelatorProofs!TimesAssumption /\ CorrelatorProofs!BoundsAssumption
  BY ConstantsAssumption
  DEF QueueProofs!CapacityAssumption, QueueProofs!MaxAttemptsAssumption,
      DBProofs!BatchSizeAssumption, DBProofs!MaxRunsAssumption, DBProofs!MaxAskedAssumption,
      CorrelatorProofs!TimesAssumption, CorrelatorProofs!BoundsAssumption

\* The bounds are numbers.
LEMMA Numbers ==
  /\ MaxEvents \in Nat /\ MaxAttempts \in Nat /\ MaxTime \in Nat /\ MaxRuns \in Nat
  /\ Time \subseteq Nat
  BY ConstantsAssumption DEF Time

\* The queue of the process is the queue of the proofs.
LEMMA SameQueue ==
  /\ Queue!Init = QueueProofs!Init
  /\ Queue!Push = QueueProofs!Push
  /\ Queue!Pop = QueueProofs!Pop
  BY DEF Queue!Init, QueueProofs!Init, Queue!Push, QueueProofs!Push, Queue!Full,
         QueueProofs!Full, Queue!Pop, QueueProofs!Pop

\* So is its database connection.
LEMMA SameDatabase ==
  /\ DB!Init = DBProofs!Init
  /\ DB!Open = DBProofs!Open
  /\ DB!Close = DBProofs!Close
  /\ DB!Crash = DBProofs!Crash
  /\ DB!FinishCommit = DBProofs!FinishCommit
  /\ DB!FinishUpdate = DBProofs!FinishUpdate
  /\ \A row : DB!Record(row) = DBProofs!Record(row)
  /\ DB!Row = DBProofs!Row /\ DB!Run = DBProofs!Run
  BY DEF DB!Init, DBProofs!Init, DB!Open, DBProofs!Open, DB!Close, DBProofs!Close,
         DB!Crash, DBProofs!Crash, DB!Exit, DBProofs!Exit, DB!file, DBProofs!file,
         DB!FinishCommit, DBProofs!FinishCommit, DB!FinishUpdate, DBProofs!FinishUpdate,
         DB!Commit, DBProofs!Commit, DB!Disable, DBProofs!Disable,
         DB!Record, DBProofs!Record, DB!Accept, DBProofs!Accept, DB!Reject, DBProofs!Reject,
         DB!Ask, DBProofs!Ask, DB!CommitIfFull, DBProofs!CommitIfFull,
         DB!Row, DBProofs!Row, DB!Run, DBProofs!Run

\* And its correlator.
LEMMA SameCorrelator ==
  /\ Correlator!Init = CorrelatorProofs!Init
  /\ \A time, valid : Correlator!AddContext(time, valid) = CorrelatorProofs!AddContext(time, valid)
  /\ \A time : Correlator!AddInput(time) = CorrelatorProofs!AddInput(time)
  /\ Correlator!FinalizeReady = CorrelatorProofs!FinalizeReady
  /\ Correlator!FinalizePending = CorrelatorProofs!FinalizePending
  /\ Correlator!ReadyDone = CorrelatorProofs!ReadyDone
  /\ Correlator!StartFinish = CorrelatorProofs!StartFinish
  /\ Correlator!FinishDone = CorrelatorProofs!FinishDone
  BY DEF Correlator!Init, CorrelatorProofs!Init,
         Correlator!AddContext, CorrelatorProofs!AddContext,
         Correlator!AddInput, CorrelatorProofs!AddInput, Correlator!Kept, CorrelatorProofs!Kept,
         Correlator!FinalizeReady, CorrelatorProofs!FinalizeReady,
         Correlator!FinalizePending, CorrelatorProofs!FinalizePending,
         Correlator!FinalizeFront, CorrelatorProofs!FinalizeFront,
         Correlator!ReadyDone, CorrelatorProofs!ReadyDone,
         Correlator!FrontIsReady, CorrelatorProofs!FrontIsReady,
         Correlator!FrontTime, CorrelatorProofs!FrontTime,
         Correlator!StartFinish, CorrelatorProofs!StartFinish,
         Correlator!FinishDone, CorrelatorProofs!FinishDone,
         Correlator!Verdict, CorrelatorProofs!Verdict, Correlator!Within, CorrelatorProofs!Within,
         Correlator!Failed, CorrelatorProofs!Failed, Correlator!Nearest, CorrelatorProofs!Nearest,
         Correlator!IsNearest, CorrelatorProofs!IsNearest,
         Correlator!Delta, CorrelatorProofs!Delta,
         Correlator!NoContext, CorrelatorProofs!NoContext

-----------------------------------------------------------------------------
\* A step of the main thread leaves the flags, the sequence number and the
\* events as they are.
MainStays ==
  /\ UNCHANGED <<running, aborted, stopRequested, sequence, now, kernel, dispatched, eventOf>>
  /\ pc' \in Place \ {"deviceEvent"}

\* Then what is known of the main thread's variables stays true.
LEMMA MainStaysOK == ASSUME MainOK, MainStays PROVE MainOK'
  BY DEF MainOK, MainStays

\* The main thread's variables keep their types, and the events their bound.
LEMMA MainStep == ASSUME MainOK, MemoryOK, Next PROVE MainOK'
  <1> USE Numbers
  <1>1. CASE Start \/ EventsDrained \/ ContextsDrained \/ LastContextsDrained \/ AllMatched
             \/ Join \/ RecordDeviceEvent
    <2>1. CASE Start \/ RecordDeviceEvent
      BY <1>1, <2>1, MainStaysOK DEF Start, RecordDeviceEvent, Goto, Place, MainStays, environmentVars
    <2>2. CASE EventsDrained \/ ContextsDrained \/ Join
      BY <1>1, <2>2, MainStaysOK DEF EventsDrained, ContextsDrained, Join, Goto, Place, MainStays,
                                     environmentVars
    <2>3. CASE LastContextsDrained \/ AllMatched
      BY <1>1, <2>3, MainStaysOK DEF LastContextsDrained, AllMatched, Goto, Place, MainStays,
                                     environmentVars
    <2> QED BY <1>1, <2>1, <2>2, <2>3
  <1>2. CASE DrainContext \/ WriteMatch \/ MatchesWritten \/ FinishDatabase
             \/ BridgeRequest \/ BridgeReply \/ BridgeExit
    <2>1. UNCHANGED <<mainVars, environmentVars, running, stopRequested>>
      BY <1>2 DEF DrainContext, WriteMatch, MatchesWritten, FinishDatabase, BridgeRequest,
                  BridgeReply, BridgeExit
    <2> QED BY <2>1 DEF MainOK, mainVars, environmentVars
  <1>3. CASE FirstDispatch
    <2>1. UNCHANGED <<running, sequence, now, eventOf>> /\ pc' \in {"events", "join"}
      BY <1>3 DEF FirstDispatch, Goto
    <2>2. aborted' \in BOOLEAN /\ stopRequested' \in BOOLEAN
      BY <1>3 DEF FirstDispatch, MainOK
    <2>3. \/ dispatched' = kernel /\ kernel' = << >>
          \/ dispatched' = dispatched /\ kernel' = kernel
      BY <1>3 DEF FirstDispatch, Dispatch
    <2>4. /\ dispatched' \in Seq(Event) /\ kernel' \in Seq(Event)
          /\ Len(dispatched') + Len(kernel') <= Len(dispatched) + Len(kernel)
          /\ Len(dispatched') \in Nat /\ Len(kernel') \in Nat
          /\ Len(dispatched) \in Nat /\ Len(kernel) \in Nat
      <3>1. << >> \in Seq(Event) /\ Len(<< >>) = 0
        OBVIOUS
      <3>2. Len(dispatched) \in Nat /\ Len(kernel) \in Nat
        BY DEF MainOK
      <3>3. dispatched \in Seq(Event) /\ kernel \in Seq(Event)
        BY DEF MainOK
      <3>4. CASE dispatched' = kernel /\ kernel' = << >>
        BY <3>1, <3>2, <3>3, <3>4
      <3>5. CASE dispatched' = dispatched /\ kernel' = kernel
        BY <3>2, <3>3, <3>5
      <3> QED BY <2>3, <3>4, <3>5
    <2> QED BY <2>1, <2>2, <2>4 DEF MainOK, Place
  <1>4. CASE Poll \/ PollFails
    <2>1. UNCHANGED <<running, aborted, sequence, now, eventOf>> /\ pc' \in {"events", "join", "contexts"}
      BY <1>4 DEF Poll, PollFails, Goto, RequestStop, mainVars, environmentVars
    <2>2. stopRequested' \in BOOLEAN
      BY <1>4 DEF Poll, PollFails, RequestStop, MainOK
    <2>3. \/ dispatched' = kernel /\ kernel' = << >>
          \/ dispatched' = dispatched /\ kernel' = kernel
      BY <1>4 DEF Poll, PollFails, Dispatch, environmentVars
    <2>4. /\ dispatched' \in Seq(Event) /\ kernel' \in Seq(Event)
          /\ Len(dispatched') + Len(kernel') <= Len(dispatched) + Len(kernel)
          /\ Len(dispatched') \in Nat /\ Len(kernel') \in Nat
          /\ Len(dispatched) \in Nat /\ Len(kernel) \in Nat
      <3>1. << >> \in Seq(Event) /\ Len(<< >>) = 0
        OBVIOUS
      <3>2. Len(dispatched) \in Nat /\ Len(kernel) \in Nat
        BY DEF MainOK
      <3>3. dispatched \in Seq(Event) /\ kernel \in Seq(Event)
        BY DEF MainOK
      <3>4. CASE dispatched' = kernel /\ kernel' = << >>
        BY <3>1, <3>2, <3>3, <3>4
      <3>5. CASE dispatched' = dispatched /\ kernel' = kernel
        BY <3>2, <3>3, <3>5
      <3> QED BY <2>3, <3>4, <3>5
    <2> QED BY <2>1, <2>2, <2>4 DEF MainOK, Place
  <1>5. CASE DrainPointerEvent \/ DrainDeviceEvent \/ DrainOtherEvent
    <2>1. /\ UNCHANGED <<running, aborted, stopRequested, now, kernel>>
          /\ dispatched # << >> /\ dispatched' = Tail(dispatched) /\ sequence' = sequence + 1
          /\ pc' \in Place
          /\ eventOf' = Append(eventOf, sequence + 1) \/ eventOf' = eventOf
      BY <1>5 DEF DrainPointerEvent, DrainDeviceEvent, DrainOtherEvent, TakeEvent, Goto, Place,
                  environmentVars, MainOK
    <2>2. /\ Len(dispatched) > 0 /\ Tail(dispatched) \in Seq(Event)
          /\ Len(Tail(dispatched)) = Len(dispatched) - 1
      BY <2>1 DEF MainOK
    <2>3. Len(dispatched) \in Nat /\ Len(kernel) \in Nat /\ Len(eventOf) \in Nat /\ sequence \in Nat
      BY DEF MainOK
    <2>4. /\ sequence' \in Nat
          /\ sequence' + Len(dispatched') + Len(kernel') <= MaxEvents
          /\ sequence + 1 \in 1 .. MaxEvents
      BY <2>1, <2>2, <2>3 DEF MainOK
    <2>5. /\ eventOf' \in Seq(1 .. MaxEvents) /\ Len(eventOf') <= sequence'
          /\ \A i \in 1 .. Len(eventOf') : eventOf'[i] <= sequence'
      <3>1. CASE eventOf' = eventOf
        BY <2>1, <2>3, <3>1 DEF MainOK
      <3>2. CASE eventOf' = Append(eventOf, sequence + 1)
        <4>1. /\ eventOf' \in Seq(1 .. MaxEvents) /\ Len(eventOf') = Len(eventOf) + 1
              /\ eventOf'[Len(eventOf) + 1] = sequence + 1
              /\ \A i \in 1 .. Len(eventOf) : eventOf'[i] = eventOf[i] /\ eventOf[i] \in 1 .. MaxEvents
          <5>1. eventOf \in Seq(1 .. MaxEvents)
            BY DEF MainOK
          <5>2. /\ eventOf' \in Seq(1 .. MaxEvents) /\ Len(eventOf') = Len(eventOf) + 1
                /\ \A i \in 1 .. Len(eventOf) : eventOf'[i] = eventOf[i]
                /\ eventOf'[Len(eventOf) + 1] = sequence + 1
            BY <2>4, <3>2, <5>1, AppendProperties
          <5>3. \A i \in 1 .. Len(eventOf) : eventOf[i] \in 1 .. MaxEvents
            BY <5>1
          <5> QED BY <5>2, <5>3
        <4>2. Len(eventOf) <= sequence /\ \A i \in 1 .. Len(eventOf) : eventOf[i] <= sequence
          BY DEF MainOK
        <4>3. Len(eventOf') <= sequence'
          BY <2>1, <2>3, <4>1, <4>2
        <4>4. ASSUME NEW i \in 1 .. Len(eventOf')
              PROVE  eventOf'[i] <= sequence'
          <5>1. CASE i = Len(eventOf) + 1
            BY <2>1, <2>3, <4>1, <5>1
          <5>2. CASE i # Len(eventOf) + 1
            <6>1. i \in 1 .. Len(eventOf)
              BY <2>3, <4>1, <5>2
            <6>2. eventOf'[i] = eventOf[i] /\ eventOf[i] \in 1 .. MaxEvents /\ eventOf[i] <= sequence
              BY <4>1, <4>2, <6>1
            <6> QED BY <2>1, <2>3, <6>2
          <5> QED BY <5>1, <5>2
        <4> QED BY <4>1, <4>3, <4>4
      <3> QED BY <2>1, <3>1, <3>2
    <2> QED BY <2>1, <2>2, <2>3, <2>4, <2>5 DEF MainOK
  <1>6. CASE Leave \/ Crash
    <2>1. << >> \in Seq(Event) /\ << >> \in Seq(1 .. MaxEvents) /\ Len(<< >>) = 0
      OBVIOUS
    <2>2. Forget
      BY <1>6 DEF Leave, Crash
    <2>3. /\ kernel' \in Seq(Event) /\ dispatched' \in Seq(Event) /\ eventOf' \in Seq(1 .. MaxEvents)
          /\ Len(kernel') = 0 /\ Len(dispatched') = 0 /\ Len(eventOf') = 0
      BY <2>1, <2>2 DEF Forget
    <2>4. /\ pc' = "down" /\ sequence' = 0 /\ now' = now
          /\ running' \in BOOLEAN /\ aborted' \in BOOLEAN /\ stopRequested' \in BOOLEAN
      BY <2>2 DEF Forget
    <2> QED BY <2>3, <2>4 DEF MainOK, Place
  <1>7. CASE Signal
    BY <1>7 DEF Signal, MainOK, mainVars, environmentVars
  <1>8. CASE Arrive
    <2>1. PICK kind \in Kind : kernel' = Append(kernel, [kind |-> kind, time |-> now])
      BY <1>8 DEF Arrive
    <2>2. [kind |-> kind, time |-> now] \in Event
      BY DEF MainOK, Event
    <2>3. kernel' \in Seq(Event) /\ Len(kernel') = Len(kernel) + 1 /\ Len(kernel) \in Nat
      BY <2>1, <2>2 DEF MainOK
    <2> QED BY <1>8, <2>3 DEF Arrive, MainOK, mainVars
  <1>9. CASE Tick
    BY <1>9 DEF Tick, MainOK, mainVars, Time
  <1> QED BY <1>1, <1>2, <1>3, <1>4, <1>5, <1>6, <1>7, <1>8, <1>9 DEF Next, Main

-----------------------------------------------------------------------------
\* The places of the main thread, the connection and the correlator stay in
\* step.
LEMMA ControlStep == ASSUME IInv, Next PROVE ControlOK'
  <1> USE DEF IInv, ControlOK, Goto
  <1>1. CASE Start
    BY <1>1 DEF Start, DB!Open, correlatorVars
  <1>2. CASE FirstDispatch
    BY <1>2 DEF FirstDispatch, databaseVars, correlatorVars
  <1>3. CASE DrainPointerEvent
    BY <1>3 DEF DrainPointerEvent, DB!Accept, DB!Reject, Correlator!AddInput, correlatorVars
  <1>4. CASE DrainDeviceEvent \/ RecordDeviceEvent
    BY <1>4 DEF DrainDeviceEvent, RecordDeviceEvent, DB!Record, DB!Accept, DB!Reject, TakeEvent,
                Between, correlatorVars
  <1>5. CASE DrainOtherEvent \/ MatchesWritten
    BY <1>5 DEF DrainOtherEvent, MatchesWritten, Correlator!ReadyDone, mainVars, databaseVars,
                correlatorVars
  <1>6. CASE EventsDrained \/ ContextsDrained \/ Poll \/ PollFails \/ Join
    BY <1>6 DEF EventsDrained, ContextsDrained, Poll, PollFails, Join, RequestStop, Between,
                databaseVars, correlatorVars
  <1>7. CASE DrainContext
    BY <1>7 DEF DrainContext, DB!Accept, DB!Reject, Correlator!AddContext, mainVars, correlatorVars
  <1>8. CASE LastContextsDrained \/ AllMatched
    BY <1>8 DEF LastContextsDrained, AllMatched, Correlator!StartFinish, Correlator!FinishDone,
                AbortOK, databaseVars
  <1>9. CASE WriteMatch
    BY <1>9 DEF WriteMatch, Correlator!FinalizeReady, Correlator!FinalizePending,
                DB!Record, DB!Accept, DB!Reject, mainVars
  <1>10. CASE FinishDatabase
    BY <1>10 DEF FinishDatabase, DB!FinishCommit, DB!FinishUpdate, mainVars, correlatorVars
  <1>11. CASE Leave \/ Crash
    BY <1>11 DEF Leave, Crash, Forget, DB!Close, DB!Crash, DB!Exit
  <1>12. CASE BridgeRequest \/ BridgeReply \/ BridgeExit \/ Signal \/ Arrive \/ Tick
    BY <1>12 DEF BridgeRequest, BridgeReply, BridgeExit, Signal, Arrive, Tick, mainVars,
                 databaseVars, correlatorVars
  <1> QED BY <1>1, <1>2, <1>3, <1>4, <1>5, <1>6, <1>7, <1>8, <1>9, <1>10, <1>11, <1>12
          DEF Next, Main

\* A failed initial dispatch leaves the correlator as it was: empty.
LEMMA AbortStep == ASSUME IInv, Next PROVE AbortOK'
  <1> USE DEF IInv, AbortOK
  <1>1. CASE Start
    BY <1>1 DEF Start, ControlOK
  <1>2. CASE FirstDispatch
    <2>1. UNCHANGED <<observed, arrived, matches>>
      BY <1>2 DEF FirstDispatch, correlatorVars
    <2>2. CASE aborted' = aborted
      BY <1>2, <2>2 DEF FirstDispatch
    <2>3. CASE pc' = "join"
      <3>1. observed = << >> /\ arrived = << >> /\ matches = << >>
        BY <1>2 DEF FirstDispatch, StartOK
      <3> QED BY <2>1, <2>3, <3>1
    <2> QED BY <1>2, <2>2, <2>3 DEF FirstDispatch, Goto
  <1>3. CASE DrainPointerEvent \/ DrainDeviceEvent \/ RecordDeviceEvent \/ DrainOtherEvent
             \/ EventsDrained \/ ContextsDrained \/ LastContextsDrained \/ DrainContext
             \/ Poll \/ PollFails
    <2>1. aborted' = aborted /\ pc \notin {"join", "finish"}
      BY <1>3 DEF DrainPointerEvent, DrainDeviceEvent, RecordDeviceEvent, DrainOtherEvent,
                  EventsDrained, ContextsDrained, LastContextsDrained, DrainContext, Poll,
                  PollFails, mainVars
    <2> QED BY <2>1
  <1>4. CASE WriteMatch \/ MatchesWritten \/ AllMatched
    <2>1. aborted' = aborted /\ mode \in {"ready", "finishing"}
      BY <1>4 DEF WriteMatch, MatchesWritten, AllMatched, mainVars, Correlator!FinalizeReady,
                  Correlator!FinalizePending, Correlator!ReadyDone, Correlator!FinishDone
    <2> QED BY <2>1 DEF ControlOK
  <1>5. CASE Join
    BY <1>5 DEF Join, Goto, correlatorVars
  <1>6. CASE FinishDatabase
    BY <1>6 DEF FinishDatabase, mainVars, correlatorVars
  <1>7. CASE Leave \/ Crash
    BY <1>7 DEF Leave, Crash, Forget
  <1>8. CASE BridgeRequest \/ BridgeReply \/ BridgeExit \/ Signal \/ Arrive \/ Tick
    BY <1>8 DEF BridgeRequest, BridgeReply, BridgeExit, Signal, Arrive, Tick, mainVars,
                correlatorVars
  <1> QED BY <1>1, <1>2, <1>3, <1>4, <1>5, <1>6, <1>7, <1>8 DEF Next, Main

\* Without a process nothing is remembered, and a new process knows nothing.
LEMMA MemoryStep == ASSUME IInv, Next PROVE MemoryOK' /\ StartOK'
  <1> USE DEF IInv, MemoryOK, StartOK
  <1>1. CASE Start
    BY <1>1 DEF Start, Goto, correlatorVars
  <1>2. CASE Leave \/ Crash
    BY <1>2 DEF Leave, Crash, Forget
  <1>3. CASE FirstDispatch
    BY <1>3 DEF FirstDispatch, Goto
  <1>4. CASE DrainPointerEvent \/ DrainDeviceEvent \/ RecordDeviceEvent \/ DrainOtherEvent
             \/ EventsDrained \/ ContextsDrained \/ LastContextsDrained \/ DrainContext
             \/ Poll \/ PollFails \/ Join \/ FinishDatabase \/ AllMatched
    <2>1. pc' \notin {"down", "firstDispatch"}
      <3>1. CASE DrainPointerEvent \/ DrainOtherEvent \/ DrainContext \/ FinishDatabase
        BY <3>1 DEF DrainPointerEvent, DrainOtherEvent, DrainContext, FinishDatabase, mainVars
      <3>2. CASE DrainDeviceEvent \/ RecordDeviceEvent \/ EventsDrained \/ ContextsDrained
                 \/ LastContextsDrained
        BY <3>2 DEF DrainDeviceEvent, RecordDeviceEvent, EventsDrained, ContextsDrained,
                    LastContextsDrained, Goto
      <3>3. CASE Poll \/ PollFails \/ Join \/ AllMatched
        BY <3>3 DEF Poll, PollFails, Join, AllMatched, Goto, RequestStop
      <3> QED BY <1>4, <3>1, <3>2, <3>3
    <2> QED BY <2>1
  <1>5. CASE WriteMatch \/ MatchesWritten
    <2>1. pc' = pc /\ mode \in {"ready", "finishing"}
      BY <1>5 DEF WriteMatch, MatchesWritten, mainVars, Correlator!FinalizeReady,
                  Correlator!FinalizePending, Correlator!ReadyDone
    <2> QED BY <2>1 DEF ControlOK
  <1>6. CASE BridgeRequest \/ BridgeReply
    <2>1. pc' = pc /\ pc # "down" /\ UNCHANGED <<observed, arrived, matches>>
      BY <1>6 DEF BridgeRequest, BridgeReply, mainVars, correlatorVars, BridgeOK
    <2> QED BY <2>1
  <1>7. CASE BridgeExit \/ Signal \/ Tick
    BY <1>7 DEF BridgeExit, Signal, Tick, mainVars, correlatorVars, queueVars, bridgeVars,
                environmentVars
  <1>8. CASE Arrive
    BY <1>8 DEF Arrive, mainVars, correlatorVars
  <1> QED BY <1>1, <1>2, <1>3, <1>4, <1>5, <1>6, <1>7, <1>8 DEF Next, Main

\* The bridge thread runs until it is told to stop and has been joined, and
\* the queue is empty from then on.
LEMMA BridgeStep == ASSUME IInv, Next PROVE BridgeOK'
  <1> USE DEF IInv, BridgeOK
  <1>1. CASE Start
    BY <1>1 DEF Start, Goto
  <1>2. CASE Leave \/ Crash
    BY <1>2 DEF Leave, Crash, Forget
  <1>3. CASE FirstDispatch \/ Poll \/ PollFails
    BY <1>3 DEF FirstDispatch, Poll, PollFails, Goto, RequestStop, bridgeVars
  <1>4. CASE DrainPointerEvent \/ DrainDeviceEvent \/ RecordDeviceEvent \/ DrainOtherEvent
             \/ EventsDrained \/ ContextsDrained
    BY <1>4 DEF DrainPointerEvent, DrainDeviceEvent, RecordDeviceEvent, DrainOtherEvent,
                EventsDrained, ContextsDrained, Goto, bridgeVars
  <1>5. CASE DrainContext
    BY <1>5 DEF DrainContext, mainVars, bridgeVars
  <1>6. CASE LastContextsDrained \/ AllMatched
    BY <1>6 DEF LastContextsDrained, AllMatched, Goto, bridgeVars, queueVars, ControlOK, AbortOK,
                Correlator!FinishDone
  <1>7. CASE WriteMatch \/ MatchesWritten \/ FinishDatabase
    BY <1>7 DEF WriteMatch, MatchesWritten, FinishDatabase, mainVars, bridgeVars, queueVars
  <1>8. CASE Join
    BY <1>8 DEF Join, Goto, bridgeVars
  <1>9. CASE BridgeRequest \/ BridgeReply \/ BridgeExit
    BY <1>9 DEF BridgeRequest, BridgeReply, BridgeExit, mainVars, queueVars
  <1>10. CASE Signal \/ Arrive \/ Tick
    BY <1>10 DEF Signal, Arrive, Tick, mainVars, queueVars, bridgeVars
  <1> QED BY <1>1, <1>2, <1>3, <1>4, <1>5, <1>6, <1>7, <1>8, <1>9, <1>10 DEF Next, Main

-----------------------------------------------------------------------------
\* A component that is forgotten is in its first state, and its invariant
\* holds.
LEMMA ForgottenQueue == QueueProofs!Init' => QueueProofs!IInv'
  <1>1. QueueProofs!Init => QueueProofs!IInv
    BY ComponentAssumptions, QueueProofs!InitInvariant
  <1> QED BY <1>1, PTL

\* The same of the correlator.
LEMMA ForgottenCorrelator == CorrelatorProofs!Init' => CorrelatorProofs!QueueInv'
  <1>1. CorrelatorProofs!Init => CorrelatorProofs!QueueInv
    BY ComponentAssumptions, CorrelatorProofs!QueueInit
  <1> QED BY <1>1, PTL

\* What a step does to the queue.
QueueEffect ==
  \/ Queue!Push /\ \E valid \in BOOLEAN, time \in LastSample + 1 .. now :
                     samples' = Append(samples, [time |-> time, valid |-> valid])
  \/ Queue!Pop /\ samples' = samples
  \/ UNCHANGED queueVars /\ samples' = samples
  \/ QueueProofs!Init' /\ samples' = << >>

\* Every step does one of these to the queue.
LEMMA QueueSees == ASSUME Next PROVE QueueEffect
  <1>1. CASE BridgeReply
    BY <1>1 DEF BridgeReply, QueueEffect
  <1>2. CASE DrainContext
    BY <1>2 DEF DrainContext, QueueEffect, bridgeVars
  <1>3. CASE Leave \/ Crash
    BY <1>3 DEF Leave, Crash, Forget, QueueEffect, QueueProofs!Init
  <1>4. CASE Start \/ FirstDispatch \/ DrainPointerEvent \/ DrainDeviceEvent \/ RecordDeviceEvent
             \/ DrainOtherEvent \/ EventsDrained \/ ContextsDrained \/ LastContextsDrained
    BY <1>4 DEF Start, FirstDispatch, DrainPointerEvent, DrainDeviceEvent, RecordDeviceEvent,
                DrainOtherEvent, EventsDrained, ContextsDrained, LastContextsDrained,
                QueueEffect, bridgeVars
  <1>5. CASE WriteMatch \/ MatchesWritten \/ AllMatched \/ Poll \/ PollFails \/ Join
             \/ FinishDatabase
    BY <1>5 DEF WriteMatch, MatchesWritten, AllMatched, Poll, PollFails, Join, FinishDatabase,
                QueueEffect, bridgeVars
  <1>6. CASE BridgeRequest \/ BridgeExit \/ Signal \/ Arrive \/ Tick
    BY <1>6 DEF BridgeRequest, BridgeExit, Signal, Arrive, Tick, QueueEffect, bridgeVars
  <1> QED BY <1>1, <1>2, <1>3, <1>4, <1>5, <1>6 DEF Next, Main

\* The queue keeps its invariant, and a new sample is later than all others.
LEMMA QueueStep == ASSUME IInv, Next PROVE QueueOK'
  <1> USE Numbers, ComponentAssumptions DEF IInv, QueueOK
  <1>0. /\ attempted \in Nat /\ samples \in Seq(Sample) /\ Len(samples) = attempted
        /\ \A i \in 1 .. attempted : samples[i] \in Sample /\ samples[i].time \in Nat
    <2>1. attempted \in Nat
      BY DEF QueueProofs!IInv, QueueProofs!TypeOK
    <2>2. \A i \in 1 .. attempted : samples[i] \in Sample
      BY <2>1, ElementOfSeq
    <2> QED BY <2>1, <2>2 DEF Sample
  <1>1. CASE Queue!Push /\ \E valid \in BOOLEAN, time \in LastSample + 1 .. now :
                             samples' = Append(samples, [time |-> time, valid |-> valid])
    <2>1. PICK valid \in BOOLEAN, time \in LastSample + 1 .. now :
            samples' = Append(samples, [time |-> time, valid |-> valid])
      BY <1>1
    <2>2. QueueProofs!IInv'
      BY <1>1, SameQueue, QueueProofs!PushInvariant
    <2>3. attempted' = attempted + 1 /\ attempted' <= MaxAttempts
      BY <1>0, <1>1 DEF Queue!Push
    <2>4. LastSample \in Int /\ LastSample >= -1 /\ \A i \in 1 .. attempted : samples[i].time <= LastSample
      <3>1. CASE samples = << >>
        BY <1>0, <3>1 DEF LastSample
      <3>2. CASE samples # << >>
        <4>1. attempted \in 1 .. attempted /\ LastSample = samples[attempted].time
          BY <1>0, <3>2 DEF LastSample
        <4>2. \A i \in 1 .. attempted : i # attempted => samples[i].time < samples[attempted].time
          BY <1>0, <4>1
        <4> QED BY <1>0, <4>1, <4>2
      <3> QED BY <3>1, <3>2
    <2>5. time \in Time /\ [time |-> time, valid |-> valid] \in Sample
      BY <2>4 DEF MainOK, Time, Sample
    <2>6. /\ samples' \in Seq(Sample) /\ Len(samples') = attempted + 1
          /\ \A i \in 1 .. attempted : samples'[i] = samples[i]
          /\ samples'[attempted + 1].time = time
      <3>1. PICK e \in Sample : e = [time |-> time, valid |-> valid]
        BY <2>5
      <3>2. /\ samples' \in Seq(Sample) /\ Len(samples') = attempted + 1
            /\ \A i \in 1 .. attempted : samples'[i] = samples[i]
            /\ samples'[attempted + 1] = e
        BY <1>0, <2>1, <3>1, AppendProperties
      <3> QED BY <3>1, <3>2
    <2>7. \A i, j \in 1 .. Len(samples') : i < j => samples'[i].time < samples'[j].time
      <3> SUFFICES ASSUME NEW i \in 1 .. attempted + 1, NEW j \in 1 .. attempted + 1, i < j
                   PROVE  samples'[i].time < samples'[j].time
        BY <2>6
      <3>1. i \in 1 .. attempted /\ samples'[i].time = samples[i].time
        BY <1>0, <2>6
      <3>2. CASE j = attempted + 1
        BY <1>0, <2>4, <2>5, <2>6, <3>1, <3>2
      <3>3. CASE j \in 1 .. attempted
        BY <1>0, <2>6, <3>1, <3>3
      <3> QED BY <1>0, <3>2, <3>3
    <2> QED BY <2>2, <2>3, <2>6, <2>7
  <1>2. CASE Queue!Pop /\ samples' = samples
    <2>1. QueueProofs!IInv'
      BY <1>2, SameQueue, QueueProofs!PopInvariant
    <2> QED BY <1>2, <2>1 DEF Queue!Pop
  <1>3. CASE UNCHANGED queueVars /\ samples' = samples
    <2>1. QueueProofs!IInv'
      BY <1>3, QueueProofs!StutterInvariant DEF queueVars, QueueProofs!vars
    <2> QED BY <1>3, <2>1 DEF queueVars
  <1>4. CASE QueueProofs!Init' /\ samples' = << >>
    <2>1. QueueProofs!IInv'
      BY <1>4, ForgottenQueue
    <2>2. attempted' = 0
      BY <1>4 DEF QueueProofs!Init
    <2>3. samples' \in Seq(Sample) /\ Len(samples') = 0
      BY <1>4
    <2> QED BY <2>1, <2>2, <2>3
  <1> QED BY <1>1, <1>2, <1>3, <1>4, QueueSees DEF QueueEffect

-----------------------------------------------------------------------------
\* No call but open() enables the connection.
LEMMA OnlyOpenEnables ==
  ASSUME \/ \E row : DB!Record(row)
         \/ DB!FinishCommit \/ DB!FinishUpdate
         \/ UNCHANGED databaseVars,
         enabled'
  PROVE  enabled
  BY DEF DB!Record, DB!Accept, DB!Reject, DB!CommitIfFull, DB!Disable, DB!FinishCommit,
         DB!FinishUpdate, databaseVars

\* What is queued, taken and observed, counted.
LEMMA QueueCounts ==
  ASSUME IInv
  PROVE  /\ Len(snapshots) \in Nat /\ Len(taken) \in Nat /\ Len(observed) \in Nat
         /\ attempted \in Nat /\ dropped \in Nat
         /\ attempted = Len(taken) + Len(snapshots) + dropped
         /\ attempted <= MaxAttempts /\ Len(samples) = attempted
         /\ Len(observed) <= Len(taken)
         /\ Len(arrived) = Len(eventOf) /\ Len(eventOf) \in Nat
         /\ \A i \in 1 .. attempted : samples[i] \in Sample
  <1>1. snapshots \in Seq(Nat) /\ taken \in Seq(Nat) /\ attempted \in Nat /\ dropped \in Nat
    BY DEF IInv, QueueOK, QueueProofs!IInv, QueueProofs!TypeOK
  <1>2. Len(observed) \in Nat
    BY LenProperties DEF IInv, CorrelatorOK, CorrelatorProofs!QueueInv, CorrelatorProofs!TypeOK
  <1>3. attempted = Len(taken) + Len(snapshots) + dropped
    BY DEF IInv, QueueOK, QueueProofs!IInv, QueueProofs!Accounting
  <1>4. \A i \in 1 .. attempted : samples[i] \in Sample
    BY ElementOfSeq DEF IInv, QueueOK
  <1>5. Len(eventOf) \in Nat
    BY LenProperties DEF IInv, MainOK
  <1> QED BY <1>1, <1>2, <1>3, <1>4, <1>5, LenProperties DEF IInv, QueueOK, CorrelatorOK

\* A popped snapshot stands for a sample that is later than what was observed
\* before.
LEMMA PoppedIsNew ==
  ASSUME IInv, Queue!Pop
  PROVE  /\ Head(snapshots) = attempted - Len(snapshots) + 1
         /\ Head(snapshots) \in 1 .. attempted
         /\ Len(observed) < MaxAttempts
         /\ Len(snapshots') = Len(snapshots) - 1 /\ Len(taken') = Len(taken) + 1
         /\ attempted' = attempted
         /\ observed # << >> =>
              CorrelatorProofs!LastTime < samples[Head(snapshots)].time
  <1>1. snapshots \in Seq(Nat) /\ taken \in Seq(Nat) /\ snapshots # << >>
    BY DEF IInv, QueueOK, QueueProofs!IInv, QueueProofs!TypeOK, Queue!Pop
  <1>2. Len(snapshots) > 0 /\ Head(snapshots) = snapshots[1] /\ Head(snapshots) \in Nat
    BY <1>1
  <1>3. Head(snapshots) = attempted - Len(snapshots) + 1
    BY <1>2, QueueCounts DEF IInv, QueueOK, QueueProofs!IInv, QueueProofs!NewestKept
  <1>4. Head(snapshots) \in 1 .. attempted /\ Len(observed) < MaxAttempts
    BY <1>2, <1>3, QueueCounts, Numbers
  <1>5. Len(snapshots') = Len(snapshots) - 1 /\ Len(taken') = Len(taken) + 1 /\ attempted' = attempted
    BY <1>1, <1>2 DEF Queue!Pop
  <1>6. ASSUME observed # << >>
        PROVE  CorrelatorProofs!LastTime < samples[Head(snapshots)].time
    <2>1. CorrelatorProofs!TypeOK
      BY DEF IInv, CorrelatorOK, CorrelatorProofs!QueueInv
    <2>2. /\ Len(observed) \in 1 .. Len(observed)
          /\ CorrelatorProofs!LastTime = observed[Len(observed)].time
      BY <1>6, <2>1, ComponentAssumptions, CorrelatorProofs!LastTimeType
         DEF CorrelatorProofs!Recorded
    <2>3. PICK i \in 1 .. attempted - Len(snapshots) : observed[Len(observed)].time = samples[i].time
      BY <2>2 DEF IInv, CorrelatorOK
    <2>4. i \in 1 .. Len(samples) /\ Head(snapshots) \in 1 .. Len(samples) /\ i < Head(snapshots)
      BY <1>3, <1>4, <2>3, QueueCounts
    <2>5. samples[i].time < samples[Head(snapshots)].time
      BY <2>4 DEF IInv, QueueOK
    <2> QED BY <2>2, <2>3, <2>5
  <1> QED BY <1>3, <1>4, <1>5, <1>6

\* Calls that leave the queue and the histories of the correlator alone.
LEMMA HistoriesStay ==
  ASSUME IInv, CorrelatorProofs!QueueInv', UNCHANGED <<queueVars, samples, observed, arrived, eventOf>>,
         enabled' => enabled
  PROVE  CorrelatorOK'
  BY DEF IInv, CorrelatorOK, queueVars

\* A sample that is recorded is one the correlator expects.
LEMMA ContextStep == ASSUME IInv, DrainContext PROVE CorrelatorOK'
  <1> USE Numbers, ComponentAssumptions
  <1>1. Queue!Pop /\ samples' = samples /\ eventOf' = eventOf
    BY DEF DrainContext, bridgeVars, mainVars
  <1>2. CorrelatorProofs!QueueInv
    BY DEF IInv, CorrelatorOK
  <1>3. PICK s : s = samples[Head(snapshots)]
    OBVIOUS
  <1>4. s \in Sample /\ s.time \in Time /\ s.valid \in BOOLEAN
    <2>1. s \in Sample
      BY <1>1, <1>3, PoppedIsNew, QueueCounts
    <2> QED BY <2>1 DEF Sample
  <1>5. \/ DB!Accept(DB!ContextRow(<<Len(observed) + 1>>)) /\ Correlator!AddContext(s.time, s.valid)
        \/ DB!Reject(DB!ContextRow(<<Len(observed) + 1>>)) /\ UNCHANGED correlatorVars
    BY <1>3 DEF DrainContext
  <1>6. \A c \in 1 .. Len(observed) :
          \E i \in 1 .. attempted' - Len(snapshots') : observed[c].time = samples'[i].time
    <2>1. attempted' - Len(snapshots') = attempted - Len(snapshots) + 1
          /\ attempted - Len(snapshots) \in Int
      <3>1. attempted' = attempted /\ Len(snapshots') = Len(snapshots) - 1
        BY <1>1, PoppedIsNew
      <3>2. Len(snapshots) \in Nat /\ attempted \in Nat
        BY QueueCounts
      <3> QED BY <3>1, <3>2
    <2>2. 1 .. attempted - Len(snapshots) \subseteq 1 .. attempted - Len(snapshots) + 1
      BY <2>1
    <2> QED BY <1>1, <2>1, <2>2 DEF IInv, CorrelatorOK
  <1>7. CASE DB!Accept(DB!ContextRow(<<Len(observed) + 1>>)) /\ Correlator!AddContext(s.time, s.valid)
    <2>1. CorrelatorProofs!AddContext(s.time, s.valid)
      BY <1>7, SameCorrelator
    <2>2. CorrelatorProofs!LastTime \in Nat
      BY <1>2, CorrelatorProofs!LastTimeType DEF CorrelatorProofs!QueueInv
    <2>3. CorrelatorProofs!NewContext
      <3>1. observed # << >> => /\ s.time > CorrelatorProofs!LastTime
                                /\ s.time <= CorrelatorProofs!LastTime + MaxTime
        BY <1>1, <1>3, <1>4, <2>2, PoppedIsNew DEF Time
      <3>2. Len(observed) < MaxAttempts
        BY <1>1, PoppedIsNew
      <3> QED BY <1>4, <2>1, <3>1, <3>2 DEF CorrelatorProofs!NewContext, CorrelatorProofs!Time, Time
    <2>4. CorrelatorProofs!QueueInv'
      BY <1>2, <2>3, CorrelatorProofs!ContextStep
    <2>5. /\ observed' = Append(observed, [time |-> s.time, valid |-> s.valid])
          /\ arrived' = arrived /\ enabled
      BY <1>7 DEF Correlator!AddContext, DB!Accept
    <2>6. /\ Len(observed') = Len(observed) + 1
          /\ \A c \in 1 .. Len(observed) : observed'[c] = observed[c]
          /\ observed'[Len(observed) + 1].time = s.time
      <3>1. observed \in Seq(Sample)
        BY <1>2 DEF CorrelatorProofs!QueueInv, CorrelatorProofs!TypeOK, CorrelatorProofs!Time, Sample, Time
      <3>2. PICK e \in Sample : e = [time |-> s.time, valid |-> s.valid]
        BY <1>4 DEF Sample
      <3>3. /\ Len(observed') = Len(observed) + 1
            /\ \A c \in 1 .. Len(observed) : observed'[c] = observed[c]
            /\ observed'[Len(observed) + 1] = e
        BY <2>5, <3>1, <3>2, AppendProperties
      <3> QED BY <3>2, <3>3
    <2>7. \A c \in 1 .. Len(observed') :
            \E i \in 1 .. attempted' - Len(snapshots') : observed'[c].time = samples'[i].time
      <3> SUFFICES ASSUME NEW c \in 1 .. Len(observed) + 1
                   PROVE  \E i \in 1 .. attempted' - Len(snapshots') : observed'[c].time = samples'[i].time
        BY <2>6
      <3>1. CASE c \in 1 .. Len(observed)
        BY <1>6, <2>6, <3>1
      <3>2. CASE c = Len(observed) + 1
        <4>1. Head(snapshots) \in 1 .. attempted' - Len(snapshots')
          <5>1. PICK h : h = Head(snapshots)
            OBVIOUS
          <5>2. h \in 1 .. attempted /\ h = attempted - Len(snapshots) + 1
            BY <1>1, <5>1, PoppedIsNew
          <5>3. attempted' = attempted /\ Len(snapshots') = Len(snapshots) - 1
            BY <1>1, PoppedIsNew
          <5> QED BY <5>1, <5>2, <5>3, QueueCounts
        <4>2. observed'[c].time = samples'[Head(snapshots)].time
          BY <1>1, <1>3, <2>6, <3>2
        <4> QED BY <4>1, <4>2
      <3> QED BY <3>1, <3>2, QueueCounts
    <2>8. Len(observed) = Len(taken)
      BY <2>5 DEF IInv, CorrelatorOK
    <2>9. Len(observed') = Len(taken')
      BY <1>1, <2>6, <2>8, PoppedIsNew
    <2>10. Len(taken') \in Nat /\ Len(eventOf') = Len(arrived')
      BY <1>1, <2>5, PoppedIsNew, QueueCounts
    <2> QED BY <2>4, <2>7, <2>9, <2>10 DEF CorrelatorOK
  <1>8. CASE DB!Reject(DB!ContextRow(<<Len(observed) + 1>>)) /\ UNCHANGED correlatorVars
    <2>1. CorrelatorProofs!QueueInv'
      BY <1>2, <1>8, CorrelatorProofs!QueueNext DEF correlatorVars, CorrelatorProofs!vars
    <2>2. observed' = observed /\ arrived' = arrived /\ ~enabled'
      BY <1>8 DEF correlatorVars, DB!Reject, DB!Disable
    <2>3. Len(observed') <= Len(taken') /\ Len(eventOf') = Len(arrived')
      BY <1>1, <2>2, PoppedIsNew, QueueCounts
    <2> QED BY <1>6, <2>1, <2>2, <2>3 DEF CorrelatorOK
  <1> QED BY <1>5, <1>7, <1>8

\* An event that is recorded is one the correlator expects.
LEMMA InputStep == ASSUME IInv, DrainPointerEvent PROVE CorrelatorOK'
  <1> USE Numbers, ComponentAssumptions
  <1>1. /\ UNCHANGED <<queueVars, samples>> /\ dispatched # << >>
        /\ sequence + Len(dispatched) + Len(kernel) <= MaxEvents
    BY DEF DrainPointerEvent, TakeEvent, bridgeVars, IInv, MainOK
  <1>2. CorrelatorProofs!QueueInv
    BY DEF IInv, CorrelatorOK
  <1>3. PICK time : time = NextEvent.time
    OBVIOUS
  <1>4. time \in Time /\ Len(eventOf) < MaxEvents
    <2>1. dispatched \in Seq(Event) /\ kernel \in Seq(Event) /\ sequence \in Nat /\ Len(eventOf) <= sequence
      BY DEF IInv, MainOK
    <2>2. Head(dispatched) \in Event /\ Len(dispatched) > 0 /\ Len(kernel) \in Nat /\ Len(dispatched) \in Nat
      BY <1>1, <2>1
    <2> QED BY <1>1, <1>3, <2>1, <2>2, QueueCounts DEF NextEvent, Event
  <1>5. CASE /\ DB!Accept(DB!EventRow(<<sequence + 1>>))
             /\ Correlator!AddInput(NextEvent.time)
             /\ eventOf' = Append(eventOf, sequence + 1)
    <2>1. CorrelatorProofs!AddInput(time)
      BY <1>3, <1>5, SameCorrelator
    <2>2. CorrelatorProofs!TypeOK
      BY <1>2 DEF CorrelatorProofs!QueueInv
    <2>3. time + MaxTime >= CorrelatorProofs!LastTime
      <3>1. CorrelatorProofs!LastTime \in 0 .. MaxTime
        <4>1. CorrelatorProofs!LastTime \in Nat /\ (observed # << >> => CorrelatorProofs!LastTime \in 0 .. MaxTime)
          BY <2>2, CorrelatorProofs!LastTimeType DEF CorrelatorProofs!Time
        <4> QED BY <4>1 DEF CorrelatorProofs!LastTime
      <3> QED BY <1>4, <3>1 DEF Time
    <2>4. \A i \in 1 .. Len(arrived) : time + MaxTime >= arrived[i]
      <3>1. \A i \in 1 .. Len(arrived) : arrived[i] \in 0 .. MaxTime
        BY <2>2, ElementOfSeq DEF CorrelatorProofs!TypeOK, CorrelatorProofs!Time
      <3> QED BY <1>4, <3>1 DEF Time
    <2>5. Len(arrived) < MaxEvents
      BY <1>4, QueueCounts
    <2>6. CorrelatorProofs!NewInput
      BY <1>4, <2>1, <2>3, <2>4, <2>5 DEF CorrelatorProofs!NewInput, CorrelatorProofs!Time, Time
    <2>7. CorrelatorProofs!QueueInv'
      BY <1>2, <2>6, CorrelatorProofs!InputStep
    <2>8. /\ observed' = observed /\ arrived' = Append(arrived, time) /\ enabled
      BY <1>3, <1>5 DEF Correlator!AddInput, DB!Accept
    <2>9. Len(arrived') = Len(arrived) + 1 /\ Len(eventOf') = Len(eventOf) + 1
      <3>1. arrived \in Seq(Time)
        BY <2>2 DEF CorrelatorProofs!TypeOK, CorrelatorProofs!Time, Time
      <3>2. eventOf \in Seq(1 .. MaxEvents) /\ sequence \in Nat
        BY DEF IInv, MainOK
      <3>3. eventOf \in Seq(Nat)
        BY <3>2
      <3> QED BY <1>4, <1>5, <2>8, <3>1, <3>2, <3>3, AppendProperties
    <2> QED BY <1>1, <2>7, <2>8, <2>9 DEF IInv, CorrelatorOK, queueVars
  <1>6. CASE DB!Reject(DB!EventRow(<<sequence + 1>>)) /\ UNCHANGED <<correlatorVars, eventOf>>
    <2>1. CorrelatorProofs!QueueInv'
      BY <1>2, <1>6, CorrelatorProofs!QueueNext DEF correlatorVars, CorrelatorProofs!vars
    <2>2. observed' = observed /\ arrived' = arrived /\ ~enabled'
      BY <1>6 DEF correlatorVars, DB!Reject, DB!Disable
    <2> QED BY <1>1, <1>6, <2>1, <2>2, HistoriesStay
  <1> QED BY <1>5, <1>6 DEF DrainPointerEvent

\* The correlator keeps its invariant, and its contexts stand for samples that
\* were taken, in every step.
LEMMA CorrelatorStep == ASSUME IInv, Next PROVE CorrelatorOK'
  <1> USE Numbers, ComponentAssumptions
  <1>1. CASE Start
    <2>1. UNCHANGED <<queueVars, samples, correlatorVars, eventOf>> /\ pc = "down"
      BY <1>1 DEF Start
    <2>2. observed = << >> /\ taken = << >>
      BY <2>1 DEF IInv, MemoryOK
    <2>3. CorrelatorProofs!QueueInv'
      BY <2>1, CorrelatorProofs!QueueNext DEF correlatorVars, CorrelatorProofs!vars, IInv, CorrelatorOK
    <2> QED BY <2>1, <2>2, <2>3 DEF IInv, CorrelatorOK, queueVars, correlatorVars
  <1>2. CASE DrainContext
    BY <1>2, ContextStep
  <1>3. CASE DrainPointerEvent
    BY <1>3, InputStep
  <1>4. CASE BridgeReply
    <2>1. UNCHANGED <<correlatorVars, databaseVars, eventOf>> /\ Queue!Push
      BY <1>4 DEF BridgeReply, mainVars
    <2>2. CorrelatorProofs!QueueInv'
      BY <2>1, CorrelatorProofs!QueueNext DEF correlatorVars, CorrelatorProofs!vars, IInv, CorrelatorOK
    <2>3. PICK e : samples' = Append(samples, e)
      BY <1>4 DEF BridgeReply
    <2>4. \A i \in 1 .. attempted : samples'[i] = samples[i]
      BY <2>3, QueueCounts DEF IInv, QueueOK
    <2>5. attempted' - Len(snapshots') >= attempted - Len(snapshots)
      <3>1. snapshots \in Seq(Nat) /\ Len(snapshots) <= Capacity
        BY DEF IInv, QueueOK, QueueProofs!IInv, QueueProofs!TypeOK, QueueProofs!Bounded
      <3>2. attempted' = attempted + 1 /\ Len(snapshots') \in Nat /\ Len(snapshots') <= Len(snapshots) + 1
        <4>1. CASE Queue!Full /\ snapshots' = Append(Tail(snapshots), attempted + 1)
          <5>1. snapshots # << >>
            BY <3>1, <4>1, ConstantsAssumption DEF Queue!Full
          <5>2. Tail(snapshots) \in Seq(Nat) /\ Len(Tail(snapshots)) = Len(snapshots) - 1
            BY <3>1, <5>1
          <5>3. attempted \in Nat
            BY QueueCounts
          <5>4. Len(Append(Tail(snapshots), attempted + 1)) = Len(Tail(snapshots)) + 1
            BY <5>2, <5>3, AppendProperties
          <5> QED BY <2>1, <3>1, <4>1, <5>2, <5>4 DEF Queue!Push
        <4>2. CASE snapshots' = Append(snapshots, attempted + 1)
          <5>1. attempted + 1 \in Nat
            BY QueueCounts
          <5>2. Len(snapshots') = Len(snapshots) + 1
            BY <3>1, <4>2, <5>1, AppendProperties
          <5> QED BY <2>1, <3>1, <4>2, <5>2 DEF Queue!Push
        <4>3. attempted' = attempted + 1 /\ Len(snapshots') \in Nat
          BY <2>1, <4>1, <4>2 DEF Queue!Push
        <4>4. Len(snapshots') <= Len(snapshots) + 1
          BY <2>1, <4>1, <4>2 DEF Queue!Push
        <4> QED BY <4>3, <4>4
      <3>3. Len(snapshots) \in Nat /\ attempted \in Nat
        BY QueueCounts
      <3> QED BY <3>2, <3>3
    <2>6. taken' = taken /\ enabled' = enabled
      BY <2>1 DEF Queue!Push, databaseVars
    <2>7. \A c \in 1 .. Len(observed') :
            \E i \in 1 .. attempted' - Len(snapshots') : observed'[c].time = samples'[i].time
      <3> SUFFICES ASSUME NEW c \in 1 .. Len(observed)
                   PROVE  \E i \in 1 .. attempted' - Len(snapshots') : observed[c].time = samples'[i].time
        BY <2>1 DEF correlatorVars
      <3>1. PICK i \in 1 .. attempted - Len(snapshots) : observed[c].time = samples[i].time
        BY DEF IInv, CorrelatorOK
      <3>2. i \in 1 .. attempted /\ i \in 1 .. attempted' - Len(snapshots')
        <4>1. attempted' \in Int /\ Len(snapshots') \in Int
          BY <1>4, QueueStep, LenProperties DEF Next, QueueOK, QueueProofs!IInv, QueueProofs!TypeOK
        <4>2. Len(snapshots) \in Nat /\ attempted \in Nat
          BY QueueCounts
        <4> QED BY <2>5, <4>1, <4>2
      <3> QED BY <2>4, <3>1, <3>2
    <2> QED BY <2>1, <2>2, <2>6, <2>7 DEF IInv, CorrelatorOK, correlatorVars
  <1>5. CASE Leave \/ Crash
    <2>1. Forget
      BY <1>5 DEF Leave, Crash
    <2>2. CorrelatorProofs!QueueInv'
      <3>1. CorrelatorProofs!Init'
        BY <2>1 DEF Forget, CorrelatorProofs!Init
      <3> QED BY <3>1, ForgottenCorrelator
    <2>3. /\ Len(observed') = 0 /\ Len(taken') = 0 /\ Len(arrived') = 0 /\ Len(eventOf') = 0
      BY <2>1 DEF Forget
    <2> QED BY <2>2, <2>3 DEF CorrelatorOK
  <1>6. CASE WriteMatch \/ MatchesWritten \/ LastContextsDrained \/ AllMatched
    <2>1. CorrelatorProofs!Next
      <3>1. CASE WriteMatch
        BY <3>1, SameCorrelator DEF WriteMatch, CorrelatorProofs!Next
      <3>2. CASE MatchesWritten \/ LastContextsDrained \/ AllMatched
        BY <3>2, SameCorrelator DEF MatchesWritten, LastContextsDrained, AllMatched,
                                    CorrelatorProofs!Next
      <3> QED BY <1>6, <3>1, <3>2
    <2>2. CorrelatorProofs!QueueInv'
      BY <2>1, CorrelatorProofs!QueueNext DEF IInv, CorrelatorOK
    <2>3. UNCHANGED <<queueVars, samples, observed, arrived, eventOf>>
      BY <1>6 DEF WriteMatch, MatchesWritten, LastContextsDrained, AllMatched, bridgeVars, mainVars,
                  Correlator!FinalizeReady, Correlator!FinalizePending, Correlator!FinalizeFront,
                  Correlator!ReadyDone, Correlator!StartFinish, Correlator!FinishDone
    <2>4. \/ \E row : DB!Record(row)
          \/ UNCHANGED databaseVars
      BY <1>6 DEF WriteMatch, MatchesWritten, LastContextsDrained, AllMatched
    <2> QED BY <2>2, <2>3, <2>4, OnlyOpenEnables, HistoriesStay
  <1>7. CASE FirstDispatch \/ DrainDeviceEvent \/ RecordDeviceEvent \/ DrainOtherEvent
             \/ EventsDrained \/ ContextsDrained \/ Poll \/ PollFails \/ Join \/ FinishDatabase
             \/ BridgeRequest \/ BridgeExit \/ Signal \/ Arrive \/ Tick
    <2>1. UNCHANGED <<queueVars, samples, correlatorVars, eventOf>>
      <3>1. CASE FirstDispatch \/ DrainDeviceEvent \/ RecordDeviceEvent \/ DrainOtherEvent
                 \/ EventsDrained \/ ContextsDrained
        BY <3>1 DEF FirstDispatch, DrainDeviceEvent, RecordDeviceEvent, DrainOtherEvent,
                    EventsDrained, ContextsDrained, bridgeVars
      <3>2. CASE Poll \/ PollFails \/ Join \/ FinishDatabase
        BY <3>2 DEF Poll, PollFails, Join, FinishDatabase, bridgeVars, mainVars
      <3>3. CASE BridgeRequest \/ BridgeExit \/ Signal \/ Arrive \/ Tick
        BY <3>3 DEF BridgeRequest, BridgeExit, Signal, Arrive, Tick, bridgeVars, mainVars
      <3> QED BY <1>7, <3>1, <3>2, <3>3
    <2>2. \/ \E row : DB!Record(row)
          \/ DB!FinishCommit \/ DB!FinishUpdate
          \/ UNCHANGED databaseVars
      BY <1>7 DEF FirstDispatch, DrainDeviceEvent, RecordDeviceEvent, DrainOtherEvent,
                  EventsDrained, ContextsDrained, Poll, PollFails, Join, FinishDatabase,
                  BridgeRequest, BridgeExit, Signal, Arrive, Tick
    <2>3. CorrelatorProofs!QueueInv'
      BY <2>1, CorrelatorProofs!QueueNext DEF correlatorVars, CorrelatorProofs!vars, IInv, CorrelatorOK
    <2>4. UNCHANGED <<observed, arrived>>
      BY <2>1 DEF correlatorVars
    <2> QED BY <2>1, <2>2, <2>3, <2>4, OnlyOpenEnables, HistoriesStay
  <1> QED BY <1>1, <1>2, <1>3, <1>4, <1>5, <1>6, <1>7 DEF Next, Main

-----------------------------------------------------------------------------
\* The row that an iteration of the correlator's loops writes: of the next
\* input, about an event and a context that are known.
LEMMA NewMatch ==
  ASSUME IInv, WriteMatch
  PROVE  \E m : /\ Len(matches') = Len(matches) + 1 /\ matches'[Len(matches) + 1] = m
                /\ Len(matches) \in Nat
                /\ \A i \in 1 .. Len(matches) : matches'[i] = matches[i]
                /\ m.input \in 1 .. Len(eventOf) /\ eventOf[m.input] \in 1 .. MaxEvents
                /\ m.context \in 0 .. Len(observed) /\ m.status \in Correlator!Status
                /\ DB!Record(DB!MatchRow(<<eventOf[m.input], m.context, m.status>>))
                /\ UNCHANGED <<observed, arrived, eventOf>>
  <1> USE ComponentAssumptions
  <1>1. Correlator!FinalizeReady \/ Correlator!FinalizePending
    BY DEF WriteMatch
  <1>2. CorrelatorProofs!QueueInv
    BY DEF IInv, CorrelatorOK
  <1>3. pending # << >> /\ CorrelatorProofs!FinalizeFront
    <2>1. CorrelatorProofs!FinalizeReady \/ CorrelatorProofs!FinalizePending
      BY <1>1, SameCorrelator
    <2> QED BY <2>1 DEF CorrelatorProofs!FinalizeReady, CorrelatorProofs!FinalizePending,
                        CorrelatorProofs!FrontIsReady
  <1>4. PICK m : m = matches'[Len(matches')]
    OBVIOUS
  <1>5. /\ Len(matches') = Len(matches) + 1 /\ \A i \in 1 .. Len(matches) : matches'[i] = matches[i]
        /\ matches' \in Seq([input : 1 .. Len(arrived), status : CorrelatorProofs!Status,
                             context : 0 .. Len(observed)])
    BY <1>2, <1>3, CorrelatorProofs!FrontIsMatched DEF CorrelatorProofs!Matched
  <1>6. Len(matches) \in Nat
    BY <1>2 DEF CorrelatorProofs!QueueInv, CorrelatorProofs!TypeOK
  <1>7. matches'[Len(matches) + 1] = m /\ Len(matches') \in 1 .. Len(matches')
    BY <1>4, <1>5, <1>6
  <1>8. m.input \in 1 .. Len(arrived) /\ m.status \in CorrelatorProofs!Status /\ m.context \in 0 .. Len(observed)
    <2> DEFINE rows == [input : 1 .. Len(arrived), status : CorrelatorProofs!Status,
                        context : 0 .. Len(observed)]
    <2>1. m \in rows
      <3>1. matches' \in Seq(rows)
        BY <1>5
      <3> HIDE DEF rows
      <3> QED BY <1>4, <1>7, <3>1, ElementOfSeq
    <2> QED BY <2>1
  <1>9. m.input \in 1 .. Len(eventOf) /\ eventOf[m.input] \in 1 .. MaxEvents
    BY <1>8, QueueCounts, ElementOfSeq DEF IInv, MainOK
  <1>10. DB!Record(DB!MatchRow(<<eventOf[m.input], m.context, m.status>>))
    BY <1>4 DEF WriteMatch
  <1>11. UNCHANGED <<observed, arrived, eventOf>>
    BY <1>3 DEF WriteMatch, mainVars, CorrelatorProofs!FinalizeFront
  <1>12. Correlator!Status = CorrelatorProofs!Status
    BY DEF Correlator!Status, CorrelatorProofs!Status
  <1> QED BY <1>5, <1>6, <1>7, <1>8, <1>9, <1>10, <1>11, <1>12

\* What the main thread asks to be recorded, and by which step.
Asks(row) ==
  \/ DrainPointerEvent /\ row = DB!EventRow(<<sequence + 1>>)
  \/ DrainDeviceEvent /\ row = DB!DeviceRow(Device)
  \/ RecordDeviceEvent /\ row = DB!EventRow(<<sequence>>)
  \/ DrainContext /\ row = DB!ContextRow(<<Len(observed) + 1>>)
  \/ WriteMatch /\ \E m : /\ m = matches'[Len(matches')]
                          /\ row = DB!MatchRow(<<eventOf[m.input], m.context, m.status>>)

\* Every step is, for the database, a call, the death of the process or
\* nothing.
LEMMA DatabaseSees ==
  ASSUME IInv, Next
  PROVE  \/ Start /\ DB!Open
         \/ (Leave \/ Crash) /\ (DB!Close \/ DB!Crash)
         \/ FinishDatabase /\ (DB!FinishCommit \/ DB!FinishUpdate)
         \/ \E row \in DB!Row : DB!Record(row) /\ Asks(row)
         \/ UNCHANGED <<databaseVars, eventOf, observed, matches>>
  <1> USE Numbers
  <1>1. CASE Start
    BY <1>1 DEF Start
  <1>2. CASE Leave \/ Crash
    BY <1>2 DEF Leave, Crash
  <1>3. CASE FinishDatabase
    BY <1>3 DEF FinishDatabase
  <1>4. CASE DrainPointerEvent \/ DrainDeviceEvent \/ RecordDeviceEvent
    <2>1. /\ pc = "deviceEvent" => sequence \in 0 .. MaxEvents
          /\ dispatched # << >> => sequence + 1 \in 0 .. MaxEvents
      <3>1. dispatched \in Seq(Event) /\ kernel \in Seq(Event) /\ sequence \in Nat
            /\ sequence + Len(dispatched) + Len(kernel) <= MaxEvents
        BY DEF IInv, MainOK
      <3>2. Len(dispatched) \in Nat /\ Len(kernel) \in Nat /\ (dispatched # << >> => Len(dispatched) > 0)
        BY <3>1
      <3> QED BY <3>1, <3>2
    <2>2. 0 .. MaxEvents \subseteq 0 .. MaxEvents + MaxAttempts
      OBVIOUS
    <2>3. CASE DrainPointerEvent
      <3>1. DB!Record(DB!EventRow(<<sequence + 1>>)) /\ dispatched # << >>
        BY <2>3 DEF DrainPointerEvent, TakeEvent, DB!Record
      <3>2. DB!EventRow(<<sequence + 1>>) \in DB!Row
        BY <2>1, <2>2, <3>1 DEF DB!EventRow, DB!Row, Item
      <3> QED BY <2>3, <3>1, <3>2 DEF Asks
    <2>4. CASE DrainDeviceEvent
      <3>1. DB!Record(DB!DeviceRow(Device))
        BY <2>4 DEF DrainDeviceEvent
      <3>2. DB!DeviceRow(Device) \in DB!Row
        BY <2>1, <2>2 DEF DB!DeviceRow, DB!Row, Item, Device
      <3> QED BY <2>4, <3>1, <3>2 DEF Asks
    <2>5. CASE RecordDeviceEvent
      <3>1. DB!Record(DB!EventRow(<<sequence>>)) /\ pc = "deviceEvent"
        BY <2>5 DEF RecordDeviceEvent
      <3>2. DB!EventRow(<<sequence>>) \in DB!Row
        BY <2>1, <2>2, <3>1 DEF DB!EventRow, DB!Row, Item
      <3> QED BY <2>5, <3>1, <3>2 DEF Asks
    <2> QED BY <1>4, <2>3, <2>4, <2>5
  <1>5. CASE DrainContext
    <2>1. DB!Record(DB!ContextRow(<<Len(observed) + 1>>)) /\ Queue!Pop
      BY <1>5 DEF DrainContext, DB!Record
    <2>2. Len(observed) + 1 \in 0 .. MaxEvents + MaxAttempts
      <3>1. Len(observed) < MaxAttempts
        BY <2>1, PoppedIsNew
      <3>2. Len(observed) \in Nat
        BY QueueCounts
      <3> QED BY <3>1, <3>2
    <2>3. DB!ContextRow(<<Len(observed) + 1>>) \in DB!Row
      BY <2>2 DEF DB!ContextRow, DB!Row, Item
    <2> QED BY <1>5, <2>1, <2>3 DEF Asks
  <1>6. CASE WriteMatch
    <2>1. PICK m : /\ Len(matches') = Len(matches) + 1 /\ matches'[Len(matches) + 1] = m
                   /\ eventOf[m.input] \in 1 .. MaxEvents
                   /\ m.context \in 0 .. Len(observed) /\ m.status \in Correlator!Status
                   /\ DB!Record(DB!MatchRow(<<eventOf[m.input], m.context, m.status>>))
      BY <1>6, NewMatch
    <2>2. m.context \in 0 .. MaxAttempts
      BY <2>1, QueueCounts
    <2>3. <<eventOf[m.input], m.context, m.status>> \in Item
      BY <2>1, <2>2 DEF Item, Correlator!Status
    <2>4. DB!MatchRow(<<eventOf[m.input], m.context, m.status>>) \in DB!Row
      BY <2>3 DEF DB!MatchRow, DB!Row
    <2> QED BY <1>6, <2>1, <2>4 DEF Asks
  <1>7. CASE FirstDispatch \/ DrainOtherEvent \/ EventsDrained \/ ContextsDrained
             \/ Poll \/ PollFails \/ Join
    BY <1>7 DEF FirstDispatch, DrainOtherEvent, EventsDrained, ContextsDrained, Poll, PollFails,
                Join, correlatorVars
  <1>8. CASE LastContextsDrained \/ MatchesWritten \/ AllMatched
    BY <1>8 DEF LastContextsDrained, MatchesWritten, AllMatched, mainVars, Correlator!StartFinish,
                Correlator!ReadyDone, Correlator!FinishDone
  <1>9. CASE BridgeRequest \/ BridgeReply \/ BridgeExit \/ Signal \/ Arrive \/ Tick
    BY <1>9 DEF BridgeRequest, BridgeReply, BridgeExit, Signal, Arrive, Tick, mainVars,
                correlatorVars
  <1> QED BY <1>1, <1>2, <1>3, <1>4, <1>5, <1>6, <1>7, <1>8, <1>9 DEF Next, Main

\* The connection keeps its invariant, and the readers of the database see a
\* step of the evidence log, or none.
LEMMA DatabaseStep ==
  ASSUME IInv, [Next]_vars
  PROVE  DBProofs!IInv' /\ [DBProofs!Next]_DBProofs!vars
  <1> USE ComponentAssumptions
  <1>1. [DBProofs!Next]_DBProofs!vars
    <2>1. CASE UNCHANGED vars
      BY <2>1 DEF vars, databaseVars, DBProofs!vars, DBProofs!connection, DBProofs!file
    <2>2. CASE Next
      <3>1. CASE DB!Open \/ DB!Close \/ DB!Crash \/ DB!FinishCommit \/ DB!FinishUpdate
        BY <3>1, SameDatabase DEF DBProofs!Next
      <3>2. CASE UNCHANGED databaseVars
        BY <3>2 DEF databaseVars, DBProofs!vars, DBProofs!connection, DBProofs!file
      <3>3. CASE \E row \in DB!Row : DB!Record(row)
        <4>1. PICK row \in DB!Row : DBProofs!Record(row)
          BY <3>3, SameDatabase
        <4>2. \E item \in Item : \/ row = DBProofs!DeviceRow(item) \/ row = DBProofs!EventRow(item)
                                 \/ row = DBProofs!ContextRow(item) \/ row = DBProofs!MatchRow(item)
          BY DEF DB!Row, DBProofs!DeviceRow, DBProofs!EventRow, DBProofs!ContextRow, DBProofs!MatchRow
        <4> QED BY <4>1, <4>2 DEF DBProofs!Next, DBProofs!RecordDevice, DBProofs!RecordEvent,
                                  DBProofs!RecordContext, DBProofs!RecordMatch
      <3> QED BY <2>2, <3>1, <3>2, <3>3, DatabaseSees
    <2> QED BY <2>1, <2>2
  <1> QED BY <1>1, DBProofs!NextInvariant DEF IInv

-----------------------------------------------------------------------------
\* A call is remembered at the end of what was asked of its run.
LEMMA RecordAsks ==
  ASSUME IInv, NEW row \in DB!Row, DB!Record(row)
  PROVE  /\ runId' = runId
         /\ \A r \in DB!Run : /\ asked[r] \in Seq(DB!Row)
                              /\ r # runId => asked'[r] = asked[r]
                              /\ r = runId => asked'[r] = Append(asked[r], row)
  <1>1. asked \in [DB!Run -> Seq(DB!Row)]
    BY SameDatabase DEF IInv, DBProofs!IInv, DBProofs!TypeOK
  <1>2. /\ runId' = runId
        /\ IF runId \in DB!Run THEN asked' = [asked EXCEPT ![runId] = Append(@, row)]
                               ELSE asked' = asked
    BY DEF DB!Record, DB!Accept, DB!Reject, DB!Ask
  <1> QED BY <1>1, <1>2

\* The types of the match rows and of the list of contexts.
LEMMA MatchTypes ==
  ASSUME IInv
  PROVE  /\ \A m \in 1 .. Len(matches) : /\ matches[m].input \in 1 .. Len(arrived)
                                         /\ matches[m].context \in 0 .. Len(observed)
         /\ \A x : Len(Append(observed, x)) = Len(observed) + 1
  <1> DEFINE rows == [input : 1 .. Len(arrived), status : CorrelatorProofs!Status,
                      context : 0 .. Len(observed)]
             Context == [time : CorrelatorProofs!Time, valid : BOOLEAN]
  <1>1. matches \in Seq(rows) /\ observed \in Seq(Context)
    BY DEF IInv, CorrelatorOK, CorrelatorProofs!QueueInv, CorrelatorProofs!TypeOK
  <1>2. \A m \in 1 .. Len(matches) : matches[m] \in rows
    <2> HIDE DEF rows, Context
    <2> QED BY <1>1, ElementOfSeq
  <1>3. \A x : Len(Append(observed, x)) = Len(observed) + 1
    <2> HIDE DEF rows, Context
    <2> QED BY <1>1
  <1> QED BY <1>2, <1>3

\* What was asked for stays asked for.
LEMMA AmongMore ==
  ASSUME NEW S, NEW s \in Seq(S), NEW row \in S, NEW t, t = Append(s, row)
  PROVE  /\ \A x : Among(x, s) => Among(x, t)
         /\ Among(row, t)
         /\ Len(t) = Len(s) + 1 /\ Len(s) \in Nat
         /\ t[Len(s) + 1] = row
         /\ \A j \in 1 .. Len(s) : t[j] = s[j]
  <1>1. /\ Len(t) = Len(s) + 1 /\ Len(s) \in Nat /\ t[Len(s) + 1] = row
        /\ \A j \in 1 .. Len(s) : t[j] = s[j]
    BY AppendProperties, LenProperties
  <1> QED BY <1>1 DEF Among

\* A row asked for is known to the correlator only when it was stored, and a
\* match row that is written was asked for.
LEMMA AskedStep == ASSUME IInv, Next PROVE AskedOK'
  <1>1. CASE Start /\ DB!Open
    <2>1. eventOf' = << >> /\ observed' = << >> /\ matches' = << >>
      BY <1>1 DEF Start, correlatorVars, IInv, MemoryOK
    <2> QED BY <2>1 DEF AskedOK
  <1>2. CASE (Leave \/ Crash) /\ (DB!Close \/ DB!Crash)
    <2>1. runId' = 0
      BY <1>2 DEF DB!Close, DB!Crash, DB!Exit
    <2> QED BY <2>1 DEF AskedOK, DB!Run
  <1>3. CASE FinishDatabase /\ (DB!FinishCommit \/ DB!FinishUpdate)
    BY <1>3 DEF FinishDatabase, DB!FinishCommit, DB!FinishUpdate, mainVars, correlatorVars,
                AskedOK, IInv
  <1>4. CASE UNCHANGED <<databaseVars, eventOf, observed, matches>>
    BY <1>4 DEF databaseVars, AskedOK, IInv
  <1>5. CASE \E row \in DB!Row : DB!Record(row) /\ Asks(row)
    <2>1. PICK row \in DB!Row : DB!Record(row) /\ Asks(row)
      BY <1>5
    <2> SUFFICES ASSUME runId' \in DB!Run
                 PROVE  AskedOK'
      BY DEF AskedOK, DB!Run
    <2>2. PICK r \in DB!Run : r = runId
      BY <2>1, RecordAsks
    <2>3. runId' = r /\ asked[r] \in Seq(DB!Row) /\ asked'[r] = Append(asked[r], row)
      BY <2>1, <2>2, RecordAsks
    <2>4. PICK t : t = asked'[r]
      OBVIOUS
    <2>5. (\A x : Among(x, asked[r]) => Among(x, t)) /\ Among(row, t)
      <3>1. PICK s \in Seq(DB!Row) : s = asked[r]
        BY <2>3
      <3>2. t = Append(s, row)
        BY <2>3, <2>4, <3>1
      <3>3. (\A x : Among(x, s) => Among(x, t)) /\ Among(row, t)
        BY <3>2, AmongMore
      <3> QED BY <3>1, <3>3
    <2>6. /\ \A k \in 1 .. Len(eventOf) : Among(DB!EventRow(<<eventOf[k]>>), t)
          /\ \A c \in 1 .. Len(observed) : Among(DB!ContextRow(<<c>>), t)
          /\ \A m \in 1 .. Len(matches) :
               Among(DB!MatchRow(<<eventOf[matches[m].input], matches[m].context,
                                   matches[m].status>>), t)
      BY <2>2, <2>5 DEF IInv, AskedOK
    <2> SUFFICES
          /\ \A k \in 1 .. Len(eventOf') : Among(DB!EventRow(<<eventOf'[k]>>), t)
          /\ \A c \in 1 .. Len(observed') : Among(DB!ContextRow(<<c>>), t)
          /\ \A m \in 1 .. Len(matches') :
               Among(DB!MatchRow(<<eventOf'[matches'[m].input], matches'[m].context,
                                   matches'[m].status>>), t)
      BY <2>3, <2>4 DEF AskedOK
    <2>7. CASE eventOf' = eventOf /\ observed' = observed /\ matches' = matches
      BY <2>6, <2>7
    <2>8. CASE DrainPointerEvent /\ row = DB!EventRow(<<sequence + 1>>)
      <3>1. /\ observed' = observed /\ matches' = matches
            /\ eventOf' = eventOf \/ eventOf' = Append(eventOf, sequence + 1)
        BY <2>8 DEF DrainPointerEvent, correlatorVars, Correlator!AddInput
      <3>2. CASE eventOf' = Append(eventOf, sequence + 1)
        <4>1. /\ Len(eventOf') = Len(eventOf) + 1 /\ Len(eventOf) \in Nat
              /\ eventOf'[Len(eventOf) + 1] = sequence + 1
              /\ \A k \in 1 .. Len(eventOf) : eventOf'[k] = eventOf[k]
          <5>1. eventOf \in Seq(1 .. MaxEvents) /\ sequence + 1 \in Nat
            BY DEF IInv, MainOK
          <5>2. eventOf \in Seq(Nat)
            BY <5>1, Numbers
          <5> QED BY <3>2, <5>1, <5>2, AppendProperties, LenProperties
        <4>2. \A k \in 1 .. Len(eventOf') : Among(DB!EventRow(<<eventOf'[k]>>), t)
          BY <2>5, <2>6, <2>8, <4>1
        <4>3. \A m \in 1 .. Len(matches) : matches[m].input \in 1 .. Len(eventOf)
          BY QueueCounts, MatchTypes
        <4>4. \A m \in 1 .. Len(matches) : eventOf'[matches[m].input] = eventOf[matches[m].input]
          BY <4>1, <4>3
        <4> QED BY <2>6, <3>1, <4>2, <4>4
      <3> QED BY <2>7, <3>1, <3>2
    <2>9. CASE DrainContext /\ row = DB!ContextRow(<<Len(observed) + 1>>)
      <3>1. /\ eventOf' = eventOf /\ matches' = matches
            /\ observed' = observed \/ Len(observed') = Len(observed) + 1
        <4>1. eventOf' = eventOf
          BY <2>9 DEF DrainContext, mainVars
        <4>2. CASE UNCHANGED correlatorVars
          BY <4>1, <4>2 DEF correlatorVars
        <4>3. CASE \E time, valid : Correlator!AddContext(time, valid)
          BY <4>1, <4>3, MatchTypes DEF Correlator!AddContext
        <4> QED BY <2>9, <4>2, <4>3 DEF DrainContext
      <3>2. Len(observed) \in Nat
        BY QueueCounts
      <3>3. \A c \in 1 .. Len(observed') : Among(DB!ContextRow(<<c>>), t)
        <4> SUFFICES ASSUME NEW c \in 1 .. Len(observed') PROVE Among(DB!ContextRow(<<c>>), t)
          OBVIOUS
        <4>1. c \in 1 .. Len(observed) \/ c = Len(observed) + 1
          BY <3>1, <3>2
        <4> QED BY <2>5, <2>6, <2>9, <4>1
      <3> QED BY <2>6, <3>1, <3>3
    <2>10. CASE DrainDeviceEvent \/ RecordDeviceEvent
      <3>1. eventOf' = eventOf /\ observed' = observed /\ matches' = matches
        BY <2>10 DEF DrainDeviceEvent, RecordDeviceEvent, correlatorVars
      <3> QED BY <2>7, <3>1
    <2>11. CASE WriteMatch /\ \E m : /\ m = matches'[Len(matches')]
                                     /\ row = DB!MatchRow(<<eventOf[m.input], m.context, m.status>>)
      <3>1. PICK m : /\ Len(matches') = Len(matches) + 1 /\ matches'[Len(matches) + 1] = m
                     /\ Len(matches) \in Nat
                     /\ \A i \in 1 .. Len(matches) : matches'[i] = matches[i]
                     /\ observed' = observed /\ eventOf' = eventOf
        BY <2>11, NewMatch
      <3>2. row = DB!MatchRow(<<eventOf[m.input], m.context, m.status>>)
        BY <2>11, <3>1
      <3>3. \A n \in 1 .. Len(matches') :
              Among(DB!MatchRow(<<eventOf[matches'[n].input], matches'[n].context,
                                  matches'[n].status>>), t)
        <4> SUFFICES ASSUME NEW n \in 1 .. Len(matches) + 1
                     PROVE  Among(DB!MatchRow(<<eventOf[matches'[n].input],
                              matches'[n].context, matches'[n].status>>), t)
          BY <3>1
        <4>1. CASE n = Len(matches) + 1
          BY <2>5, <3>1, <3>2, <4>1
        <4>2. CASE n \in 1 .. Len(matches)
          BY <2>6, <3>1, <4>2
        <4> QED BY <3>1, <4>1, <4>2
      <3> QED BY <2>6, <3>1, <3>3
    <2> QED BY <2>1, <2>8, <2>9, <2>10, <2>11 DEF Asks
  <1> QED BY <1>1, <1>2, <1>3, <1>4, <1>5, DatabaseSees

\* A reference to a row that was asked for before is not lost by what is asked
\* for later, and a match row is asked for after the rows it refers to.
LEMMA ResolveStep == ASSUME IInv, Next PROVE AskedResolve'
  <1>1. CASE UNCHANGED asked
    BY <1>1 DEF IInv, AskedResolve, DB!Run
  <1>2. CASE \E row \in DB!Row : DB!Record(row) /\ Asks(row)
    <2>1. PICK row \in DB!Row : DB!Record(row) /\ Asks(row)
      BY <1>2
    <2> SUFFICES ASSUME NEW r \in DB!Run
                 PROVE  \A i \in 1 .. Len(asked'[r]) : Resolves(asked'[r], i)
      BY DEF AskedResolve, DB!Run
    <2>2. CASE r # runId
      BY <2>1, <2>2, RecordAsks DEF IInv, AskedResolve
    <2>3. CASE r = runId
      <3>1. PICK s \in Seq(DB!Row) : s = asked[r]
        BY <2>1, RecordAsks
      <3>2. PICK t : t = asked'[r]
        OBVIOUS
      <3>3. t = Append(s, row)
        BY <2>1, <2>3, <3>1, <3>2, RecordAsks
      <3>4. /\ Len(t) = Len(s) + 1 /\ Len(s) \in Nat
            /\ t[Len(s) + 1] = row
            /\ \A j \in 1 .. Len(s) : t[j] = s[j]
        BY <3>3, AmongMore
      <3>5. ASSUME NEW i \in 1 .. Len(s)
            PROVE  Resolves(t, i)
        <4>1. Resolves(s, i)
          BY <3>1 DEF IInv, AskedResolve
        <4>2. t[i] = s[i] /\ \A j \in 1 .. i - 1 : t[j] = s[j]
          BY <3>4
        <4> QED BY <4>1, <4>2 DEF Resolves
      <3>6. Resolves(t, Len(s) + 1)
        <4>1. PICK n : n = Len(s) + 1
          OBVIOUS
        <4>2. n - 1 = Len(s) /\ t[n] = row
          BY <3>4, <4>1
        <4>3. \A x : Among(x, s) => \E j \in 1 .. n - 1 : t[j] = x
          BY <3>4, <4>2 DEF Among
        <4>4. CASE row.table # "match"
          BY <4>1, <4>2, <4>4 DEF Resolves
        <4>5. CASE WriteMatch /\ \E m : /\ m = matches'[Len(matches')]
                                        /\ row = DB!MatchRow(<<eventOf[m.input], m.context, m.status>>)
          <5>1. PICK m : /\ Len(matches') = Len(matches) + 1 /\ matches'[Len(matches) + 1] = m
                         /\ m.input \in 1 .. Len(eventOf) /\ m.context \in 0 .. Len(observed)
            BY <4>5, NewMatch
          <5>2. row = DB!MatchRow(<<eventOf[m.input], m.context, m.status>>)
            BY <4>5, <5>1
          <5>3. row.of[1] = eventOf[m.input] /\ row.of[2] = m.context
            BY <5>2 DEF DB!MatchRow
          <5>4. Among(DB!EventRow(<<row.of[1]>>), s)
            BY <2>3, <3>1, <5>1, <5>3 DEF IInv, AskedOK
          <5>5. row.of[2] = 0 \/ Among(DB!ContextRow(<<row.of[2]>>), s)
            <6>1. CASE m.context # 0
              <7>1. m.context \in 1 .. Len(observed)
                BY <5>1, <6>1, QueueCounts
              <7> QED BY <2>3, <3>1, <5>3, <7>1 DEF IInv, AskedOK
            <6> QED BY <5>3, <6>1
          <5> QED BY <4>1, <4>2, <4>3, <5>4, <5>5 DEF Resolves
        <4>6. ASSUME NEW x, \/ row = DB!EventRow(x) \/ row = DB!DeviceRow(x)
                            \/ row = DB!ContextRow(x)
              PROVE  row.table # "match"
          BY <4>6 DEF DB!EventRow, DB!DeviceRow, DB!ContextRow
        <4> QED BY <2>1, <4>4, <4>5, <4>6 DEF Asks
      <3>7. \A i \in 1 .. Len(t) : i \in 1 .. Len(s) \/ i = Len(s) + 1
        BY <3>4
      <3> QED BY <3>2, <3>5, <3>6, <3>7
    <2> QED BY <2>2, <2>3
  <1>3. UNCHANGED asked \/ \E row \in DB!Row : DB!Record(row) /\ Asks(row)
    BY DatabaseSees DEF DB!Open, DB!Close, DB!Crash, DB!Exit, DB!FinishCommit, DB!FinishUpdate,
                        databaseVars
  <1> QED BY <1>1, <1>2, <1>3

-----------------------------------------------------------------------------
\* The invariant holds before the first process, and every step keeps it.
LEMMA InitInvariant == Init => IInv
  <1> SUFFICES ASSUME Init PROVE IInv
    OBVIOUS
  <1> USE ComponentAssumptions, Numbers
  <1>1. QueueProofs!Init /\ DBProofs!Init /\ CorrelatorProofs!Init
    BY SameQueue, SameDatabase, SameCorrelator DEF Init
  <1>2. QueueProofs!IInv /\ DBProofs!IInv /\ CorrelatorProofs!QueueInv
    BY <1>1, QueueProofs!InitInvariant, DBProofs!InitInvariant, CorrelatorProofs!QueueInit
  <1>3. /\ snapshots = << >> /\ attempted = 0 /\ taken = << >>
        /\ phase = "closed" /\ ~enabled /\ runId = 0 /\ asked = [r \in DB!Run |-> << >>]
        /\ observed = << >> /\ arrived = << >> /\ pending = << >> /\ mode = "idle" /\ matches = << >>
    BY DEF Init, Queue!Init, DB!Init, Correlator!Init
  <1>4. /\ pc = "down" /\ aborted = FALSE /\ sequence = 0 /\ dispatched = << >> /\ eventOf = << >>
        /\ bridge = "none" /\ samples = << >> /\ running = TRUE /\ stopRequested = FALSE
        /\ kernel = << >> /\ now = 0
    BY DEF Init
  <1>5. MainOK
    <2>1. kernel \in Seq(Event) /\ dispatched \in Seq(Event) /\ eventOf \in Seq(1 .. MaxEvents)
      BY <1>4
    <2>2. Len(kernel) = 0 /\ Len(dispatched) = 0 /\ Len(eventOf) = 0
      BY <1>4
    <2>3. now \in Time
      BY <1>4 DEF Time
    <2>4. running \in BOOLEAN /\ aborted \in BOOLEAN /\ stopRequested \in BOOLEAN
      BY <1>4
    <2>5. pc \in Place /\ pc # "deviceEvent" /\ sequence = 0
      BY <1>4 DEF Place
    <2> QED BY <2>1, <2>2, <2>3, <2>4, <2>5 DEF MainOK
  <1>6. ControlOK /\ AbortOK /\ MemoryOK /\ StartOK /\ BridgeOK
    BY <1>3, <1>4 DEF ControlOK, AbortOK, MemoryOK, StartOK, BridgeOK
  <1>7. QueueOK
    BY <1>2, <1>3, <1>4 DEF QueueOK
  <1>8. CorrelatorOK
    BY <1>2, <1>3, <1>4 DEF CorrelatorOK
  <1>9. AskedOK /\ AskedResolve
    BY <1>3 DEF AskedOK, AskedResolve, DB!Run
  <1> QED BY <1>2, <1>5, <1>6, <1>7, <1>8, <1>9 DEF IInv

\* Stuttering keeps it too.
LEMMA StutterInvariant == ASSUME IInv, UNCHANGED vars PROVE IInv'
  <1> USE ComponentAssumptions
  <1>1. UNCHANGED <<queueVars, databaseVars, correlatorVars, mainVars, bridgeVars,
                    environmentVars, running, stopRequested>>
    BY DEF vars
  <1>2. QueueProofs!IInv'
    BY <1>1, QueueProofs!StutterInvariant DEF queueVars, QueueProofs!vars, IInv, QueueOK
  <1>3. CorrelatorProofs!QueueInv'
    BY <1>1, CorrelatorProofs!QueueNext DEF correlatorVars, CorrelatorProofs!vars, IInv, CorrelatorOK
  <1>4. DBProofs!IInv'
    BY DatabaseStep
  <1>5. MainOK'
    BY <1>1 DEF IInv, MainOK, mainVars, environmentVars
  <1>6. ControlOK' /\ AbortOK' /\ MemoryOK' /\ StartOK' /\ BridgeOK'
    BY <1>1 DEF IInv, ControlOK, AbortOK, MemoryOK, StartOK, BridgeOK, mainVars, bridgeVars,
                queueVars, databaseVars, correlatorVars, environmentVars
  <1>7. QueueOK'
    BY <1>1, <1>2 DEF IInv, QueueOK, queueVars, bridgeVars
  <1>8. CorrelatorOK'
    BY <1>1, <1>3 DEF IInv, CorrelatorOK, queueVars, correlatorVars, databaseVars, mainVars,
                      bridgeVars
  <1>9. AskedOK' /\ AskedResolve'
    BY <1>1 DEF IInv, AskedOK, AskedResolve, databaseVars, correlatorVars, mainVars
  <1> QED BY <1>2, <1>3, <1>4, <1>5, <1>6, <1>7, <1>8, <1>9 DEF IInv

\* The invariant is inductive.
LEMMA Inductive == Spec => []IInv
  <1>1. IInv /\ [Next]_vars => IInv'
    <2>1. ASSUME IInv, Next
          PROVE  IInv'
      <3>1. MainOK'
        BY <2>1, MainStep DEF IInv
      <3>2. DBProofs!IInv'
        BY <2>1, DatabaseStep
      <3> QED BY <2>1, <3>1, <3>2, ControlStep, AbortStep, MemoryStep, BridgeStep, QueueStep,
                 CorrelatorStep, AskedStep, ResolveStep DEF IInv
    <2> QED BY <2>1, StutterInvariant
  <1> QED BY InitInvariant, <1>1, PTL DEF Spec

-----------------------------------------------------------------------------
\* Whatever is on disk at whatever moment, after any failure and any crash,
\* input_context_matches refers to rows of the same run that are on disk too.
THEOREM MatchRowsResolve == Spec => []ReferencesResolve
  <1>1. IInv => ReferencesResolve
    <2> SUFFICES ASSUME IInv, NEW r \in DB!Run, NEW i \in Positions(r, "match")
                 PROVE  LET match == stored[r][i].of
                        IN  /\ \E j \in Positions(r, "event") : j < i /\ stored[r][j].of = <<match[1]>>
                            /\ match[2] = 0 \/ \E j \in Positions(r, "context") :
                                                 j < i /\ stored[r][j].of = <<match[2]>>
      BY DEF ReferencesResolve
    <2>1. PICK s : s = stored[r]
      OBVIOUS
    <2>2. PICK t : t = asked[r]
      OBVIOUS
    <2>3. s \in Seq(DB!Row) /\ t \in Seq(DB!Row)
      BY <2>1, <2>2, SameDatabase DEF IInv, DBProofs!IInv, DBProofs!TypeOK
    <2>4. Len(s) <= Len(t) /\ s = SubSeq(t, 1, Len(s))
      BY <2>1, <2>2, SameDatabase DEF IInv, DBProofs!IInv, DBProofs!StoredIsPrefix, DBProofs!Prefix
    <2>5. Len(s) \in Nat /\ Len(t) \in Nat /\ \A j \in 1 .. Len(s) : s[j] = t[j]
      <3>1. Len(s) \in Nat /\ Len(t) \in Nat
        BY <2>3
      <3>2. \A j \in 1 .. Len(s) : SubSeq(t, 1, Len(s))[j] = t[j]
        BY <2>3, <2>4, <3>1
      <3> QED BY <2>4, <3>1, <3>2
    <2>6. i \in 1 .. Len(s) /\ s[i].table = "match"
      BY <2>1 DEF Positions
    <2>7. Resolves(t, i) /\ t[i] = s[i]
      BY <2>2, <2>4, <2>5, <2>6 DEF IInv, AskedResolve
    <2>8. PICK j \in 1 .. i - 1 : t[j] = DB!EventRow(<<s[i].of[1]>>)
      BY <2>6, <2>7 DEF Resolves
    <2>9. j \in Positions(r, "event") /\ j < i /\ stored[r][j].of = <<s[i].of[1]>>
      BY <2>1, <2>5, <2>6, <2>8 DEF Positions, DB!EventRow
    <2>10. ASSUME s[i].of[2] # 0
           PROVE  \E k \in Positions(r, "context") : k < i /\ stored[r][k].of = <<s[i].of[2]>>
      <3>1. PICK k \in 1 .. i - 1 : t[k] = DB!ContextRow(<<s[i].of[2]>>)
        BY <2>6, <2>7, <2>10 DEF Resolves
      <3>2. k \in Positions(r, "context") /\ k < i /\ stored[r][k].of = <<s[i].of[2]>>
        BY <2>1, <2>5, <2>6, <3>1 DEF Positions, DB!ContextRow
      <3> QED BY <3>2
    <2> QED BY <2>1, <2>9, <2>10
  <1> QED BY Inductive, <1>1, PTL

\* A run is marked ended only when every event the correlator was given has
\* its match row on disk, and every sample the bridge attempted is on disk or
\* counted as dropped, unless the initial dispatch failed.
THEOREM EndedRunsAreCorrelated == Spec => EndedRunIsCorrelated
  <1>1. IInv /\ [Next]_vars => [ended' # ended => RunIsCorrelated]_vars
    <2> SUFFICES ASSUME IInv, Next, ended' # ended
                 PROVE  RunIsCorrelated
      BY DEF vars, databaseVars
    <2>1. FinishDatabase /\ DB!FinishUpdate
      BY DatabaseSees DEF DB!Open, DB!Close, DB!Crash, DB!Exit, DB!file, DB!FinishCommit, DB!Record,
                          DB!Accept, DB!Reject, databaseVars
    <2>2. pc = "finish" /\ phase = "finishing"
      BY <2>1 DEF FinishDatabase, DB!FinishUpdate
    <2>3. enabled /\ pendingRows = 0 /\ runId \in DB!Run /\ Len(transaction) = 0
      BY <2>2, SameDatabase DEF IInv, DBProofs!IInv, DBProofs!ConnectionIsConsistent,
                                DBProofs!CounterTracksTransaction
    <2>4. PICK s \in Seq(DB!Row) : s = stored[runId] /\ s = asked[runId]
      <3>1. stored[runId] \in Seq(DB!Row) /\ transaction \in Seq(DB!Row)
        BY <2>3, SameDatabase DEF IInv, DBProofs!IInv, DBProofs!TypeOK
      <3>2. asked[runId] = stored[runId] \o transaction
        BY <2>3 DEF IInv, DBProofs!IInv, DBProofs!AskedIsStoredOrPending
      <3>3. transaction = << >>
        BY <2>3, <3>1
      <3>4. stored[runId] \o << >> = stored[runId]
        BY <3>1
      <3> QED BY <3>1, <3>2, <3>3, <3>4
    <2>5. \A c \in 1 .. Len(observed) : DB!ContextRow(<<c>>) \in Rows(runId)
      BY <2>3, <2>4 DEF IInv, AskedOK, Among, Rows
    <2>6. ASSUME NEW i \in 1 .. Len(eventOf)
          PROVE  \E j \in Positions(runId, "match") : stored[runId][j].of[1] = eventOf[i]
      <3>1. ~aborted
        BY <2>6, QueueCounts DEF IInv, AbortOK
      <3>2. mode = "finished" /\ pending = << >>
        BY <2>2, <3>1 DEF IInv, ControlOK
      <3>3. i \in 1 .. Len(matches) /\ matches[i].input = i
        <4>1. Len(matches) + Len(pending) = Len(arrived) /\ \A m \in 1 .. Len(matches) : matches[m].input = m
          BY DEF IInv, CorrelatorOK, CorrelatorProofs!QueueInv, CorrelatorProofs!QueueIsServedInOrder,
                 CorrelatorProofs!Matched
        <4>2. Len(matches) \in Nat /\ Len(pending) = 0
          BY <3>2, LenProperties DEF IInv, CorrelatorOK, CorrelatorProofs!QueueInv, CorrelatorProofs!TypeOK
        <4> QED BY <4>1, <4>2, QueueCounts
      <3>4. PICK j \in 1 .. Len(s) :
              s[j] = DB!MatchRow(<<eventOf[i], matches[i].context, matches[i].status>>)
        BY <2>3, <2>4, <3>3 DEF IInv, AskedOK, Among
      <3>5. s[j].table = "match" /\ s[j].of[1] = eventOf[i]
        BY <3>4 DEF DB!MatchRow
      <3> QED BY <2>4, <3>5 DEF Positions
    <2>7. ASSUME ~aborted
          PROVE  attempted = dropped + Len(observed)
      <3>1. Len(snapshots) = 0
        BY <2>2, <2>7 DEF IInv, BridgeOK
      <3>2. Len(observed) = Len(taken)
        BY <2>3 DEF IInv, CorrelatorOK
      <3> QED BY <3>1, <3>2, QueueCounts
    <2> QED BY <2>5, <2>6, <2>7 DEF RunIsCorrelated
  <1> QED BY Inductive, <1>1, PTL DEF Spec, EndedRunIsCorrelated

\* The process as a whole, with all its threads, failures and signals,
\* implements the evidence log.
THEOREM CollectorImplementsLog == Spec => ImplementsEvidenceLog
  <1> USE ComponentAssumptions
  <1>1. Init => DBProofs!Init
    BY SameDatabase DEF Init
  <1>2. IInv /\ [Next]_vars => [DBProofs!Next]_DBProofs!vars
    BY DatabaseStep
  <1>3. Spec => DBProofs!Spec
    BY <1>1, <1>2, Inductive, PTL DEF Spec, DBProofs!Spec
  <1>4. DBProofs!Spec => DBProofs!ImplementsEvidenceLog
    BY DBProofs!DatabaseImplementsLog
  <1>5. DBProofs!Log!Init => Log!Init
    BY SameDatabase DEF DBProofs!Log!Init, Log!Init, DBProofs!Log!Run, Log!Run
  <1>6. [DBProofs!Log!Next]_DBProofs!Log!vars => [Log!Next]_Log!vars
    BY SameDatabase DEF DBProofs!Log!Next, Log!Next, DBProofs!Log!vars, Log!vars,
       DBProofs!Log!StartRun, Log!StartRun, DBProofs!Log!Extend, Log!Extend,
       DBProofs!Log!EndRun, Log!EndRun, DBProofs!Log!Run, Log!Run
  <1> QED BY <1>3, <1>4, <1>5, <1>6, PTL
          DEF DBProofs!ImplementsEvidenceLog, DBProofs!Log!Spec, ImplementsEvidenceLog, Log!Spec
=============================================================================
