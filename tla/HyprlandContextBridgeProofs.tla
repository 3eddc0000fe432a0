-------------------- MODULE HyprlandContextBridgeProofs ---------------------
(***************************************************************************)
(* Proofs, for any number of changes, lost connections and failing          *)
(* requests, that no change of the compositor's state slips between the     *)
(* requests of a refresh and the lines of the event socket, and that a      *)
(* sample stamped "ok" hides only changes whose line was lost.              *)
(***************************************************************************)
EXTENDS HyprlandContextBridge, TLAPS

\* The flag stays up until refresh_state() returns: a request that fails
\* takes back what the ones before it have fetched, and then nothing but the
\* flag remembers a change that has come since.
DirtyWhileRefreshing == pc = "refresh" => stateDirty

\* While the connection is open every line in it is whole: only what the
\* loss of a connection leaves behind ends in half a line.
OpenSocketIsWhole == eventFd = "open" => socket \in Seq(Part)

\* The inductive invariant.
IInv == TypeOK /\ OpenSocketIsWhole /\ DirtyWhileRefreshing /\ NoChangeSlips

\* What NoChangeSlips says of one part.
Caught(p) ==
  cached[p] # actual[p] =>
    \/ stateDirty /\ p \notin Fetched
    \/ p \in Announced
    \/ p \in missed

-----------------------------------------------------------------------------
\* The lines of a socket to which one is added.
LEMMA LinesOfAppend ==
  ASSUME NEW S, NEW s \in Seq(S), NEW e \in S
  PROVE  LinesOf(Append(s, e)) = LinesOf(s) \cup {e}
  <1>1. Len(Append(s, e)) = Len(s) + 1
    OBVIOUS
  <1>2. \A i \in 1 .. Len(s) : Append(s, e)[i] = s[i]
    OBVIOUS
  <1>3. Append(s, e)[Len(s) + 1] = e
    OBVIOUS
  <1>4. Len(s) \in Nat
    OBVIOUS
  <1> QED BY <1>1, <1>2, <1>3, <1>4 DEF LinesOf

\* The lines of a socket are the first one and the rest.
LEMMA LinesOfTail ==
  ASSUME NEW S, NEW s \in Seq(S), s # << >>
  PROVE  LinesOf(s) = LinesOf(Tail(s)) \cup {Head(s)}
  <1>1. Len(s) \in Nat /\ Len(s) > 0 /\ Len(Tail(s)) = Len(s) - 1
    OBVIOUS
  <1>2. \A i \in 1 .. Len(s) - 1 : Tail(s)[i] = s[i + 1]
    OBVIOUS
  <1>3. Head(s) = s[1]
    OBVIOUS
  <1>4. ASSUME NEW l \in LinesOf(s) PROVE l \in LinesOf(Tail(s)) \cup {Head(s)}
    <2>1. PICK i \in 1 .. Len(s) : l = s[i]
      BY <1>4 DEF LinesOf
    <2>2. CASE i = 1
      BY <2>1, <2>2, <1>3
    <2>3. CASE i # 1
      <3>1. i - 1 \in 1 .. Len(s) - 1 /\ i = (i - 1) + 1
        BY <1>1, <2>1, <2>3
      <3>2. l = Tail(s)[i - 1]
        BY <3>1, <2>1, <1>2
      <3> QED BY <3>1, <3>2, <1>1 DEF LinesOf
    <2> QED BY <2>2, <2>3
  <1>5. ASSUME NEW l \in LinesOf(Tail(s)) PROVE l \in LinesOf(s)
    <2>1. PICK i \in 1 .. Len(s) - 1 : l = Tail(s)[i]
      BY <1>5, <1>1 DEF LinesOf
    <2>2. i + 1 \in 1 .. Len(s)
      BY <1>1, <2>1
    <2> QED BY <2>1, <2>2, <1>2 DEF LinesOf
  <1>6. Head(s) \in LinesOf(s)
    BY <1>1, <1>3 DEF LinesOf
  <1> QED BY <1>4, <1>5, <1>6

\* The lines of a socket that is cut in two.
LEMMA LinesOfSplit ==
  ASSUME NEW S, NEW s \in Seq(S), NEW n \in 0 .. Len(s)
  PROVE  LinesOf(s) = LinesOf(SubSeq(s, 1, n)) \cup LinesOf(SubSeq(s, n + 1, Len(s)))
  <1>1. Len(s) \in Nat /\ Len(SubSeq(s, 1, n)) = n /\ Len(SubSeq(s, n + 1, Len(s))) = Len(s) - n
    OBVIOUS
  <1>2. \A i \in 1 .. n : SubSeq(s, 1, n)[i] = s[i]
    OBVIOUS
  <1>3. \A i \in 1 .. Len(s) - n : SubSeq(s, n + 1, Len(s))[i] = s[n + i]
    OBVIOUS
  <1>4. \A i \in 1 .. Len(s) : i \in 1 .. n \/ (i - n \in 1 .. Len(s) - n /\ i = n + (i - n))
    BY <1>1
  <1>5. ASSUME NEW l \in LinesOf(s)
        PROVE  l \in LinesOf(SubSeq(s, 1, n)) \/ l \in LinesOf(SubSeq(s, n + 1, Len(s)))
    <2>1. PICK i \in 1 .. Len(s) : l = s[i]
      BY <1>5 DEF LinesOf
    <2>2. CASE i \in 1 .. n
      BY <1>1, <1>2, <2>1, <2>2 DEF LinesOf
    <2>3. CASE i - n \in 1 .. Len(s) - n /\ i = n + (i - n)
      BY <1>1, <1>3, <2>1, <2>3 DEF LinesOf
    <2> QED BY <1>4, <2>2, <2>3
  <1>6. LinesOf(SubSeq(s, 1, n)) \subseteq LinesOf(s)
    BY <1>1, <1>2 DEF LinesOf
  <1>7. LinesOf(SubSeq(s, n + 1, Len(s))) \subseteq LinesOf(s)
    <2>1. \A i \in 1 .. Len(s) - n : n + i \in 1 .. Len(s)
      BY <1>1
    <2> QED BY <1>1, <1>3, <2>1 DEF LinesOf
  <1> QED BY <1>5, <1>6, <1>7

\* The lines of a socket are among the lines it may hold.
LEMMA LinesOfType ==
  ASSUME NEW S, NEW s \in Seq(S)
  PROVE  LinesOf(s) \subseteq S
  <1>1. \A i \in 1 .. Len(s) : s[i] \in S
    OBVIOUS
  <1> QED BY <1>1 DEF LinesOf

\* refresh_state() makes three requests, one for each part.
LEMMA RequestsFacts ==
  /\ Len(Requests) = 3
  /\ \A i \in 1 .. 3 : Requests[i] \in Part
  BY DEF Requests, Part

-----------------------------------------------------------------------------
\* The invariant holds before the first connection: nothing is known, and
\* everything counts as missed.
LEMMA InitInvariant == Init => IInv
  <1> SUFFICES ASSUME Init PROVE IInv
    OBVIOUS
  <1>1. TypeOK
    <2>1. cached \in [Part -> Nat] /\ actual \in [Part -> Nat]
      BY DEF Init
    <2>2. socket \in Seq(Part \cup {Cut}) /\ made \in 0 .. Len(Requests)
      BY RequestsFacts DEF Init
    <2> QED BY <2>1, <2>2 DEF Init, TypeOK, SampleStatuses
  <1>2. DirtyWhileRefreshing /\ OpenSocketIsWhole
    BY DEF Init, DirtyWhileRefreshing, OpenSocketIsWhole
  <1>3. NoChangeSlips
    BY DEF Init, NoChangeSlips
  <1> QED BY <1>1, <1>2, <1>3 DEF IInv

\* Every step keeps the types.
LEMMA TypeStep ==
  ASSUME TypeOK, OpenSocketIsWhole, [Next]_vars
  PROVE  TypeOK' /\ OpenSocketIsWhole'
  <1> USE DEF TypeOK, OpenSocketIsWhole, SampleStatuses
  <1> Len(Requests) = 3
    BY RequestsFacts
  <1> << >> \in Seq(Part) /\ << >> \in Seq(Part \cup {Cut})
    OBVIOUS
  <1>1. CASE FirstConnect
    <2>1. /\ eventFd' \in {"none", "open", "closed"} /\ eventBuffer' \in BOOLEAN
          /\ socket' \in Seq(Part \cup {Cut})
          /\ eventFd' = "none" => socket' = << >>
          /\ eventFd' = "open" => socket' \in Seq(Part)
      BY <1>1 DEF FirstConnect, Connect, socketVars
    <2> QED BY <1>1, <2>1 DEF FirstConnect, sampleVars
  <1>2. CASE Request
    <2>1. cached' \in [Part -> Nat]
      BY <1>2 DEF Request
    <2>2. made' \in 0 .. Len(Requests)
      BY <1>2 DEF Request
    <2>3. missed' \subseteq Part
      BY <1>2 DEF Request
    <2>4. success' \in BOOLEAN /\ failures' \in Nat
      <3>1. /\ success' = success \/ success' = FALSE
            /\ failures' = failures \/ failures' = failures + 1
        BY <1>2 DEF Request
      <3>2. failures' \in Nat
        BY <3>1
      <3>3. success \in BOOLEAN
        OBVIOUS
      <3> QED BY <3>1, <3>2, <3>3
    <2> QED BY <1>2, <2>1, <2>2, <2>3, <2>4 DEF Request, socketVars, sampleVars
  <1>3. CASE RefreshDone
    BY <1>3 DEF RefreshDone, refreshVars, socketVars, sampleVars
  <1>4. CASE Loop
    <2>1. /\ eventFd' \in {"none", "open", "closed"} /\ eventBuffer' \in BOOLEAN
          /\ socket' \in Seq(Part \cup {Cut})
          /\ eventFd' = "none" => socket' = << >>
          /\ eventFd' = "open" => socket' \in Seq(Part)
      BY <1>4 DEF Loop, Connect, socketVars
    <2>2. pc' \in {"refresh", "sample"} /\ made' \in 0 .. Len(Requests)
      BY <1>4 DEF Loop, refreshVars
    <2>3. success' \in BOOLEAN /\ failures' \in Nat
      BY <1>4 DEF Loop, refreshVars
    <2> QED BY <1>4, <2>1, <2>2, <2>3 DEF Loop, sampleVars
  <1>5. CASE Exit
    BY <1>5 DEF Exit, refreshVars, sampleVars
  <1>6. CASE Sample
    BY <1>6 DEF Sample, SampleStatus, refreshVars, socketVars
  <1>7. CASE SkipSample
    BY <1>7 DEF SkipSample, refreshVars, socketVars, sampleVars
  <1>8. CASE ReadLine
    <2>1. Tail(socket) \in Seq(Part \cup {Cut}) /\ Head(socket) \in Part \cup {Cut}
      BY <1>8 DEF ReadLine
    <2>2. eventFd' # "none" /\ missed' \subseteq Part
      BY <1>8, <2>1 DEF ReadLine, Line
    <2>3. OpenSocketIsWhole'
      BY <1>8 DEF ReadLine
    <2>4. eventBuffer' \in BOOLEAN /\ stateDirty' \in BOOLEAN
      BY <1>8 DEF ReadLine, Line
    <2>5. TypeOK'
      BY <1>8, <2>1, <2>2, <2>4 DEF ReadLine, refreshVars, sampleVars
    <2> QED BY <2>3, <2>5
  <1>9. CASE ReadEnd
    BY <1>9 DEF ReadEnd, refreshVars, sampleVars
  <1>10. CASE PollDone
    BY <1>10 DEF PollDone, refreshVars, socketVars, sampleVars
  <1>11. CASE Stop
    BY <1>11 DEF Stop, refreshVars, socketVars, sampleVars
  <1>12. ASSUME NEW p \in Part, Change(p) PROVE TypeOK' /\ OpenSocketIsWhole'
    <2>1. actual' \in [Part -> Nat]
      <3>1. actual' = [actual EXCEPT ![p] = actual[p] + 1] /\ actual \in [Part -> Nat]
        BY <1>12 DEF Change
      <3> QED BY <3>1
    <2>2. eventFd = "open" => socket' = Append(socket, p) /\ missed' = missed
      BY <1>12 DEF Change
    <2>3. eventFd # "open" => socket' = socket /\ missed' = missed \cup {p}
      BY <1>12 DEF Change
    <2>4. eventFd = "open" => Append(socket, p) \in Seq(Part)
      OBVIOUS
    <2>5. socket' \in Seq(Part \cup {Cut}) /\ missed' \subseteq Part
      <3>1. Append(socket, p) \in Seq(Part \cup {Cut})
        OBVIOUS
      <3> QED BY <2>2, <2>3, <3>1
    <2>6. eventFd' = eventFd
      BY <1>12 DEF Change
    <2>7. OpenSocketIsWhole' /\ (eventFd' = "none" => socket' = << >>)
      BY <2>2, <2>3, <2>4, <2>6
    <2> QED BY <1>12, <2>1, <2>5, <2>6, <2>7 DEF Change, refreshVars, socketVars, sampleVars
  <1>13. CASE Lose
    <2>1. PICK n \in 0 .. Len(socket) :
            /\ missed' = missed \cup LinesOf(SubSeq(socket, n + 1, Len(socket)))
            /\ \/ socket' = SubSeq(socket, 1, n)
               \/ n < Len(socket) /\ socket' = Append(SubSeq(socket, 1, n), Cut)
      BY <1>13 DEF Lose
    <2>2. socket \in Seq(Part)
      BY <1>13 DEF Lose
    <2>3. LinesOf(socket) \subseteq Part
      BY <2>2, LinesOfType
    <2>4. missed' \subseteq Part
      BY <2>1, <2>2, <2>3, LinesOfSplit
    <2>5. SubSeq(socket, 1, n) \in Seq(Part \cup {Cut})
      OBVIOUS
    <2>6. socket' \in Seq(Part \cup {Cut})
      BY <2>1, <2>5
    <2>7. eventFd' = "closed"
      BY <1>13 DEF Lose
    <2> QED BY <1>13, <2>4, <2>6, <2>7 DEF Lose, refreshVars, sampleVars
  <1>14. CASE UNCHANGED vars
    BY <1>14 DEF vars, refreshVars, socketVars, sampleVars
  <1> QED BY <1>1, <1>2, <1>3, <1>4, <1>5, <1>6, <1>7, <1>8, <1>9, <1>10, <1>11, <1>12,
             <1>13, <1>14 DEF Next, Thread

\* The flag is up from the step that starts a refresh to its last request.
LEMMA DirtyStep ==
  ASSUME TypeOK, DirtyWhileRefreshing, [Next]_vars
  PROVE  DirtyWhileRefreshing'
  <1> USE DEF DirtyWhileRefreshing
  <1>1. CASE FirstConnect
    BY <1>1 DEF FirstConnect
  <1>2. CASE Request
    BY <1>2 DEF Request
  <1>3. CASE RefreshDone
    BY <1>3 DEF RefreshDone
  <1>4. CASE Loop
    BY <1>4 DEF Loop
  <1>5. CASE Exit \/ Sample \/ SkipSample \/ ReadEnd \/ PollDone
    BY <1>5 DEF Exit, Sample, SkipSample, ReadEnd, PollDone
  <1>6. CASE ReadLine
    BY <1>6 DEF ReadLine
  <1>7. CASE Stop \/ Lose \/ \E p \in Part : Change(p)
    BY <1>7 DEF Stop, Lose, Change
  <1>8. CASE UNCHANGED vars
    BY <1>8 DEF vars
  <1> QED BY <1>1, <1>2, <1>3, <1>4, <1>5, <1>6, <1>7, <1>8 DEF Next, Thread

\* Every step keeps each part caught: the copy of it is right, or it will be
\* asked for, or its line will be read, or its line is lost.
LEMMA CaughtStep ==
  ASSUME TypeOK, OpenSocketIsWhole, DirtyWhileRefreshing, [Next]_vars,
         NEW p \in Part, Caught(p), pc # "exited", pc' # "exited"
  PROVE  Caught(p)'
  <1> USE DEF Caught
  <1>1. CASE FirstConnect
    BY <1>1 DEF FirstConnect, Fetched
  <1>2. CASE Request
    <2> DEFINE q == Requests[made + 1]
    <2>1. q \in Part /\ made \in 0 .. 2 /\ made' = made + 1 /\ pc = "refresh" /\ pc' = "refresh"
          /\ stateDirty' = stateDirty /\ actual' = actual /\ socket' = socket
      BY <1>2 DEF Request, Requests, TypeOK, Part, socketVars
    <2>2. CASE /\ cached' = [cached EXCEPT ![q] = actual[q]]
               /\ missed' = missed \ {q}
               /\ success' = success
      <3>1. CASE p = q
        BY <2>1, <2>2, <3>1 DEF TypeOK
      <3>2. CASE p # q
        <4>1. cached'[p] = cached[p] /\ (p \in missed' <=> p \in missed)
          BY <2>1, <2>2, <3>2 DEF TypeOK
        <4>2. Fetched' \subseteq Fetched \cup {q}
          BY <2>1, <2>2 DEF Fetched, Requests
        <4>3. Announced' = Announced
          BY <2>1 DEF Announced, LinesOf
        <4> QED BY <2>1, <3>2, <4>1, <4>2, <4>3
      <3> QED BY <3>1, <3>2
    <2>3. CASE success' = FALSE
      BY <2>1, <2>3 DEF Fetched, DirtyWhileRefreshing
    <2> QED BY <1>2, <2>2, <2>3 DEF Request
  <1>3. CASE RefreshDone
    <2>1. pc = "refresh" /\ made = 3 /\ stateDirty' = ~success /\ Fetched' = {}
      BY <1>3 DEF RefreshDone, Requests, Fetched
    <2>2. success => p \in Fetched
      BY <2>1 DEF Fetched, Requests, Part
    <2>3. cached' = cached /\ actual' = actual /\ missed' = missed /\ Announced' = Announced
      BY <1>3 DEF RefreshDone, Announced, LinesOf, socketVars
    <2> QED BY <2>1, <2>2, <2>3 DEF TypeOK
  <1>4. CASE Loop
    <2>1. Announced' = Announced
      BY <1>4 DEF Loop, Connect, socketVars, TypeOK, Announced, LinesOf
    <2>2. Fetched' = {}
      BY <1>4 DEF Loop, Fetched
    <2> QED BY <1>4, <2>1, <2>2 DEF Loop, Fetched
  <1>5. CASE Sample \/ SkipSample \/ ReadEnd \/ PollDone
    <2>1. Announced' = Announced
      BY <1>5 DEF Sample, SkipSample, ReadEnd, PollDone, socketVars, Announced, LinesOf
    <2>2. Fetched' = {}
      BY <1>5 DEF Sample, SkipSample, ReadEnd, PollDone, Fetched
    <2> QED BY <1>5, <2>1, <2>2 DEF Sample, SkipSample, ReadEnd, PollDone
  <1>6. CASE ReadLine
    <2>1. Announced = Announced' \cup {Head(socket)}
      BY <1>6, LinesOfTail DEF ReadLine, Announced, TypeOK, LinesOf
    <2>2. Fetched' = {} /\ Fetched = {}
      BY <1>6 DEF ReadLine, Fetched
    <2>3. Head(socket) = p => p # Cut
      BY DEF Part, Cut
    <2>4. CASE stateDirty'
      BY <2>2, <2>4
    <2>5. CASE ~stateDirty'
      <3>1. /\ ~stateDirty /\ missed \subseteq missed'
            /\ Head(socket) # Cut => Head(socket) \in missed'
        BY <1>6, <2>5 DEF ReadLine, Line
      <3> QED BY <1>6, <2>1, <2>3, <3>1 DEF ReadLine
    <2> QED BY <2>4, <2>5
  <1>7. CASE Stop
    <2>1. Announced' = Announced /\ Fetched' = Fetched
      BY <1>7 DEF Stop, socketVars, refreshVars, Announced, LinesOf, Fetched
    <2> QED BY <1>7, <2>1 DEF Stop
  <1>8. ASSUME NEW q \in Part, Change(q) PROVE Caught(p)'
    <2>1. Fetched' = Fetched
      BY <1>8 DEF Change, refreshVars, Fetched
    <2>2. CASE eventFd = "open"
      <3>1. socket' = Append(socket, q) /\ missed' = missed
        BY <1>8, <2>2 DEF Change
      <3>2. Announced' = Announced \cup {q}
        BY <3>1, LinesOfAppend, <2>2 DEF OpenSocketIsWhole, Announced, LinesOf
      <3>3. p # q => actual'[p] = actual[p]
        BY <1>8 DEF Change, TypeOK
      <3> QED BY <1>8, <2>1, <3>1, <3>2, <3>3 DEF Change
    <2>3. CASE eventFd # "open"
      <3>1. socket' = socket /\ missed' = missed \cup {q}
        BY <1>8, <2>3 DEF Change
      <3>2. Announced' = Announced
        BY <3>1 DEF Announced, LinesOf
      <3>3. p # q => actual'[p] = actual[p]
        BY <1>8 DEF Change, TypeOK
      <3> QED BY <1>8, <2>1, <3>1, <3>2, <3>3 DEF Change
    <2> QED BY <2>2, <2>3
  <1>9. CASE Lose
    <2>1. PICK n \in 0 .. Len(socket) :
            /\ missed' = missed \cup LinesOf(SubSeq(socket, n + 1, Len(socket)))
            /\ \/ socket' = SubSeq(socket, 1, n)
               \/ n < Len(socket) /\ socket' = Append(SubSeq(socket, 1, n), Cut)
      BY <1>9 DEF Lose
    <2>2. socket \in Seq(Part \cup {Cut})
      BY DEF TypeOK
    <2>3. SubSeq(socket, 1, n) \in Seq(Part \cup {Cut})
      BY <2>2
    <2>4. LinesOf(Append(SubSeq(socket, 1, n), Cut)) = LinesOf(SubSeq(socket, 1, n)) \cup {Cut}
      <3>1. \A s \in Seq(Part \cup {Cut}), e \in Part \cup {Cut} :
              LinesOf(Append(s, e)) = LinesOf(s) \cup {e}
        BY LinesOfAppend
      <3> QED BY <3>1, <2>3
    <2>5. LinesOf(SubSeq(socket, 1, n)) \subseteq Announced'
      BY <2>1, <2>4 DEF Announced, LinesOf
    <2>6. Announced \subseteq Announced' \cup missed'
      BY <2>1, <2>2, <2>5, LinesOfSplit DEF Announced
    <2>7. missed \subseteq missed' /\ Fetched' = Fetched
      BY <2>1, <1>9 DEF Lose, refreshVars, Fetched
    <2> QED BY <1>9, <2>6, <2>7 DEF Lose
  <1>10. CASE Exit
    BY <1>10 DEF Exit
  <1>11. CASE UNCHANGED vars
    <2>1. Announced' = Announced /\ Fetched' = Fetched
      BY <1>11 DEF vars, socketVars, refreshVars, Announced, LinesOf, Fetched
    <2> QED BY <1>11, <2>1 DEF vars
  <1> QED BY <1>1, <1>2, <1>3, <1>4, <1>5, <1>6, <1>7, <1>8, <1>9, <1>10, <1>11
          DEF Next, Thread

\* A thread that has ended stays so.
LEMMA ExitIsFinal == ASSUME TypeOK, [Next]_vars, pc' # "exited" PROVE pc # "exited"
  BY DEF TypeOK, Next, Thread, FirstConnect, Request, RefreshDone, Loop, Exit, Sample,
         SkipSample, ReadLine, ReadEnd, PollDone, Stop, Change, Lose, vars

\* Every step keeps the invariant.
LEMMA NextInvariant == IInv /\ [Next]_vars => IInv'
  <1> SUFFICES ASSUME IInv, [Next]_vars PROVE IInv'
    OBVIOUS
  <1>1. TypeOK' /\ OpenSocketIsWhole'
    BY TypeStep DEF IInv
  <1>2. DirtyWhileRefreshing'
    BY DirtyStep DEF IInv
  <1>3. ASSUME pc' # "exited", NEW p \in Part PROVE Caught(p)'
    <2>1. pc # "exited"
      BY <1>3, ExitIsFinal DEF IInv
    <2>2. Caught(p)
      BY <2>1 DEF IInv, NoChangeSlips, Caught
    <2> QED BY <1>3, <2>1, <2>2, CaughtStep DEF IInv
  <1>4. NoChangeSlips'
    BY <1>3 DEF NoChangeSlips, Caught
  <1> QED BY <1>1, <1>2, <1>4 DEF IInv

\* The invariant holds in every state the bridge can reach.
LEMMA Invariant == Spec => []IInv
  BY InitInvariant, NextInvariant, PTL DEF Spec

-----------------------------------------------------------------------------
\* The variables of the thread, the socket and the compositor keep their
\* types, whatever the requests and the socket do.
THEOREM BridgeTypeOK == Spec => []TypeOK
  <1>1. IInv => TypeOK
    BY DEF IInv
  <1> QED BY <1>1, Invariant, PTL

\* No change slips between the requests of refresh_state() and the lines of
\* the event socket, however many changes, losses and failures there are: a
\* part that the copy is wrong about will be asked for, or has a line that
\* will be read, or its line was lost.
THEOREM NoChangeIsForgotten == Spec => []NoChangeSlips
  <1>1. IInv => NoChangeSlips
    BY DEF IInv
  <1> QED BY <1>1, Invariant, PTL

\* sample_cursor() stamps "ok" only on a copy that is wrong, without a line
\* on its way that says so, about nothing but parts whose line was lost.
THEOREM OkSamplesHideOnlyLosses == Spec => OkHidesOnlyLosses
  <1>1. IInv /\ [Next]_vars => [Sample /\ status' = "ok" => hidden' \subseteq missed]_vars
    <2> SUFFICES ASSUME IInv, Sample, status' = "ok" PROVE hidden' \subseteq missed
      OBVIOUS
    <2>1. ~stateDirty
      BY DEF Sample, SampleStatus
    <2>2. NoChangeSlips /\ pc # "exited"
      BY DEF IInv, Sample
    <2> QED BY <2>1, <2>2 DEF NoChangeSlips, Sample
  <1> QED BY <1>1, Invariant, PTL DEF Spec, OkHidesOnlyLosses
=============================================================================
