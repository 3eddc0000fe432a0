----------------------- MODULE HyprlandContextBridge ------------------------
(***************************************************************************)
(* The bridge thread (class HyprlandContextBridge, collector/src/main.cpp). *)
(* It keeps a copy of the compositor's state - monitors, active window,     *)
(* active workspace - that it asks for again whenever a line on Hyprland's  *)
(* event socket says that something changed, and stamps each cursor sample  *)
(* with that copy and with a status that says whether the copy is current.  *)
(*                                                                          *)
(* A line is the part of the state it announces a change of; the names that *)
(* do not make the state dirty are left out.  How recv cuts the stream into *)
(* pieces is invisible, since event_buffer_ puts the pieces together again, *)
(* except where the connection is lost in the middle of a line.  The timers *)
(* (16667 us per sample, 1 s per retry) only decide when a step is due.     *)
(***************************************************************************)
EXTENDS Integers, Sequences

CONSTANTS MaxChanges,   \* model bound on the changes of each part
          MaxLosses,    \* model bound on the times the event socket is lost
          MaxFailures   \* model bound on the requests that fail

ASSUME BoundsAssumption ==
  MaxChanges \in Nat /\ MaxLosses \in Nat /\ MaxFailures \in Nat

\* The requests of refresh_state(), in order; each brings one part.
Requests == <<"monitors", "window", "workspace">>
Part == {"monitors", "window", "workspace"}

\* The first half of a line whose rest never comes.
Cut == "cut"

VARIABLES
  pc,             \* "connect", "loop", "refresh", "sample", "poll" or "exited"
  stopRequested,  \* stop_requested_
  eventFd,        \* event_fd_: "none", "open", or "closed" by the peer
  eventBuffer,    \* event_buffer_ holds half a line
  stateDirty,     \* state_dirty_
  made,           \* refresh_state(): how many requests were made
  success,        \* refresh_state(): all of them worked
  cached,         \* monitors_, active_window_*_, focused_workspace_*_: the
                  \* version of each part; 0 before the first answer
  status,         \* sample_status of the last sample
  actual,         \* compositor: the version of each part
  socket,         \* compositor: the lines sent and not yet read
  hidden,         \* history: what the last sample was wrong about, unannounced
  missed,         \* history: the changed parts whose line was lost
  losses,         \* how often the event socket was lost
  failures        \* how many requests failed

refreshVars == <<made, success, failures>>
socketVars == <<eventFd, eventBuffer, socket>>
sampleVars == <<status, hidden>>
vars == <<pc, stopRequested, stateDirty, cached, actual, missed, losses,
          refreshVars, socketVars, sampleVars>>

Init == /\ pc = "connect"
        /\ stopRequested = FALSE
        /\ eventFd = "none" /\ eventBuffer = FALSE /\ socket = << >>
        /\ stateDirty = TRUE
        /\ made = 0 /\ success = TRUE
        /\ cached = [p \in Part |-> 0]
        /\ actual = [p \in Part |-> 1]
        /\ status = "none" /\ hidden = {}
        /\ missed = Part
        /\ losses = 0 /\ failures = 0

LinesOf(s) == {s[i] : i \in 1 .. Len(s)}
Announced == LinesOf(socket)

\* connect_socket(): a new connection carries what happens from now on.
Connect == \/ eventFd' = "open" /\ socket' = << >> /\ UNCHANGED eventBuffer
           \/ UNCHANGED socketVars

\* run(), before the loop: connect, then the first refresh_state().
FirstConnect ==
  /\ pc = "connect"
  /\ Connect
  /\ stateDirty' = TRUE
  /\ pc' = "refresh"
  /\ made' = 0
  /\ success' = TRUE
  /\ UNCHANGED <<stopRequested, cached, actual, missed, losses, failures, sampleVars>>

\* Faulty variant: refresh_state() returns at the first request that fails
\* without saying so.
RequestAbandoned ==
  /\ pc = "refresh"
  /\ made < Len(Requests)
  /\ \/ /\ cached' = [cached EXCEPT ![Requests[made + 1]] = actual[Requests[made + 1]]]
        /\ missed' = missed \ {Requests[made + 1]}
        /\ made' = made + 1
     \/ /\ made' = Len(Requests)
        /\ UNCHANGED <<cached, missed>>
  /\ UNCHANGED <<pc, stopRequested, stateDirty, success, failures, actual, losses, socketVars,
                 sampleVars>>

\* refresh_state(): one request, answered with the part's current version;
\* or it fails, in the socket or in the parser, and the others still follow.
Request ==
  /\ pc = "refresh"
  /\ made < Len(Requests)
  /\ made' = made + 1
  /\ LET p == Requests[made + 1]
     IN  \/ /\ cached' = [cached EXCEPT ![p] = actual[p]]
            /\ missed' = missed \ {p}
            /\ UNCHANGED <<success, failures>>
         \/ /\ failures < MaxFailures
            /\ failures' = failures + 1
            /\ success' = FALSE
            /\ UNCHANGED <<cached, missed>>
  /\ UNCHANGED <<pc, stopRequested, stateDirty, actual, losses, socketVars, sampleVars>>

\* refresh_state() returns; from the loop, a sample may be due next.
RefreshDone ==
  /\ pc = "refresh"
  /\ made = Len(Requests)
  /\ stateDirty' = ~success
  /\ pc' = "sample"
  /\ UNCHANGED <<stopRequested, cached, actual, missed, losses, refreshVars,
                 socketVars, sampleVars>>

\* A dirty state is refreshed at once, or a second after a refresh failed.
RefreshIsDue == stateDirty /\ success

\* The top of the loop: the flag; a reconnection, when it is due; a refresh,
\* when the state is dirty and its retry is due.
Loop ==
  /\ pc = "loop"
  /\ ~stopRequested
  /\ IF eventFd = "none" THEN Connect ELSE UNCHANGED socketVars
  /\ \/ /\ stateDirty
        /\ pc' = "refresh"
        /\ made' = 0
        /\ success' = TRUE
        /\ UNCHANGED failures
     \/ /\ ~RefreshIsDue
        /\ pc' = "sample"
        /\ UNCHANGED refreshVars
  /\ UNCHANGED <<stopRequested, stateDirty, cached, actual, missed, losses, sampleVars>>

\* The loop ends; the socket is closed.
Exit ==
  /\ pc = "loop"
  /\ stopRequested
  /\ pc' = "exited"
  /\ eventFd' = "none"
  /\ socket' = << >>
  /\ UNCHANGED <<stopRequested, stateDirty, cached, actual, missed, losses,
                 eventBuffer, refreshVars, sampleVars>>

\* Faulty variant: the status only says how the cursor request went.
StatusOfRequest(requestOk, parsed) ==
  IF ~requestOk THEN "cursor_request_failed"
  ELSE IF parsed THEN "ok" ELSE "cursor_response_invalid"

\* sample_status, from the cursor request, its parser and the dirty flag.
SampleStatus(requestOk, parsed) ==
  IF ~requestOk THEN "cursor_request_failed"
  ELSE IF ~parsed THEN "cursor_response_invalid"
  ELSE IF stateDirty THEN "cursor_ok_state_stale" ELSE "ok"

\* sample_cursor(): the snapshot takes the copy and a status.
Sample ==
  /\ pc = "sample"
  /\ pc' = "poll"
  /\ \E requestOk, parsed \in BOOLEAN : status' = SampleStatus(requestOk, parsed)
  /\ hidden' = {p \in Part : cached[p] # actual[p]} \ Announced
  /\ UNCHANGED <<stopRequested, stateDirty, cached, actual, missed, losses,
                 refreshVars, socketVars>>

\* No sample is due.
SkipSample ==
  /\ pc = "sample"
  /\ pc' = "poll"
  /\ UNCHANGED <<stopRequested, stateDirty, cached, actual, missed, losses,
                 refreshVars, socketVars, sampleVars>>

\* Faulty variant: lines are read but the flag is not raised.
LineIsIgnored ==
  /\ eventBuffer' = (Head(socket) = Cut)
  /\ UNCHANGED <<stateDirty, missed>>

\* A line is taken off event_buffer_.  What an earlier connection left there
\* is now glued to its front: if that half had no ">>" yet, the name is none
\* of those that raise the flag.
Line ==
  \/ /\ Head(socket) = Cut
     /\ eventBuffer' = TRUE
     /\ UNCHANGED <<stateDirty, missed>>
  \/ /\ Head(socket) # Cut
     /\ eventBuffer' = FALSE
     /\ stateDirty' = TRUE
     /\ UNCHANGED missed
  \/ /\ Head(socket) # Cut
     /\ eventBuffer
     /\ eventBuffer' = FALSE
     /\ missed' = missed \cup {Head(socket)}
     /\ UNCHANGED stateDirty

\* read_event_socket(), one line of its loops.
ReadLine ==
  /\ pc = "poll"
  /\ eventFd # "none"
  /\ socket # << >>
  /\ Line
  /\ socket' = Tail(socket)
  /\ UNCHANGED <<pc, stopRequested, cached, actual, losses, eventFd, refreshVars, sampleVars>>

\* Faulty variant: the descriptor is closed before all of it is read.
ReadEndEarly ==
  /\ pc = "poll"
  /\ eventFd = "closed"
  /\ eventFd' = "none"
  /\ pc' = "loop"
  /\ UNCHANGED <<stopRequested, stateDirty, cached, actual, missed, losses,
                 eventBuffer, socket, refreshVars, sampleVars>>

\* read_event_socket() finds the end of a connection the peer closed.
ReadEnd ==
  /\ pc = "poll"
  /\ eventFd = "closed"
  /\ socket = << >>
  /\ eventFd' = "none"
  /\ pc' = "loop"
  /\ UNCHANGED <<stopRequested, stateDirty, cached, actual, missed, losses,
                 eventBuffer, socket, refreshVars, sampleVars>>

\* poll or usleep times out, or nothing is left to read.
PollDone ==
  /\ pc = "poll"
  /\ socket = << >>
  /\ eventFd # "closed"
  /\ pc' = "loop"
  /\ UNCHANGED <<stopRequested, stateDirty, cached, actual, missed, losses,
                 refreshVars, socketVars, sampleVars>>

Thread == \/ FirstConnect \/ Request \/ RefreshDone \/ Loop \/ Exit
          \/ Sample \/ SkipSample \/ ReadLine \/ ReadEnd \/ PollDone

-----------------------------------------------------------------------------
\* stop(), from the main thread.
Stop == /\ ~stopRequested
        /\ stopRequested' = TRUE
        /\ UNCHANGED <<pc, stateDirty, cached, actual, missed, losses, refreshVars,
                       socketVars, sampleVars>>

\* Part p of the compositor's state changes; whoever is connected gets a line.
Change(p) ==
  /\ actual[p] <= MaxChanges
  /\ actual' = [actual EXCEPT ![p] = @ + 1]
  /\ IF eventFd = "open"
       THEN socket' = Append(socket, p) /\ UNCHANGED missed
       ELSE missed' = missed \cup {p} /\ UNCHANGED socket
  /\ UNCHANGED <<pc, stopRequested, stateDirty, cached, losses, eventFd, eventBuffer,
                 refreshVars, sampleVars>>

\* The connection is lost.  Some of the last lines may be lost with it, the
\* first of them perhaps in the middle.
Lose ==
  /\ eventFd = "open"
  /\ losses < MaxLosses
  /\ losses' = losses + 1
  /\ eventFd' = "closed"
  /\ \E n \in 0 .. Len(socket) :
       LET kept == SubSeq(socket, 1, n)
       IN  /\ missed' = missed \cup LinesOf(SubSeq(socket, n + 1, Len(socket)))
           /\ \/ socket' = kept
              \/ n < Len(socket) /\ socket' = Append(kept, Cut)
  /\ UNCHANGED <<pc, stopRequested, stateDirty, cached, actual, eventBuffer,
                 refreshVars, sampleVars>>

Next == Thread \/ Stop \/ (\E p \in Part : Change(p)) \/ Lose

Spec == Init /\ [][Next]_vars

\* The thread runs; the retry of a refresh comes due; requests do not fail
\* for ever (MaxFailures).
FairSpec == Spec /\ WF_vars(Thread) /\ SF_vars(Loop /\ pc' = "refresh")

-----------------------------------------------------------------------------
SampleStatuses == {"none", "ok", "cursor_ok_state_stale", "cursor_request_failed",
                   "cursor_response_invalid"}

\* Type invariant.
TypeOK == /\ pc \in {"connect", "loop", "refresh", "sample", "poll", "exited"}
          /\ {stopRequested, eventBuffer, stateDirty, success} \subseteq BOOLEAN
          /\ eventFd \in {"none", "open", "closed"}
          /\ made \in 0 .. Len(Requests)
          /\ cached \in [Part -> Nat]
          /\ actual \in [Part -> Nat]
          /\ status \in SampleStatuses
          /\ socket \in Seq(Part \cup {Cut})
          /\ eventFd = "none" => socket = << >>
          /\ hidden \subseteq Part
          /\ missed \subseteq Part
          /\ losses \in Nat
          /\ failures \in Nat

\* The requests the refresh in progress has made, when all of them worked.
Fetched == IF pc = "refresh" /\ success THEN {Requests[i] : i \in 1 .. made} ELSE {}

\* Wherever the thread is until it ends, a part its copy is wrong about is one it will ask
\* for again, one whose line it will read, or one whose line was lost: no
\* change slips between the requests of a refresh and the lines it reads.
NoChangeSlips ==
  pc # "exited" => \A p \in Part : cached[p] # actual[p] =>
    \/ stateDirty /\ p \notin Fetched
    \/ p \in Announced
    \/ p \in missed

\* A sample with status "ok" is wrong, without a line on its way that says
\* so, only about parts whose line was lost with a connection.
OkHidesOnlyLosses ==
  [][Sample /\ status' = "ok" => hidden' \subseteq missed]_vars

\* A change whose line is not lost reaches the copy, unless the thread is
\* stopped first.
CatchesUp ==
  \A p \in Part :
    cached[p] # actual[p] ~> cached[p] = actual[p] \/ p \in missed \/ stopRequested
=============================================================================
