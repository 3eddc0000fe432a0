----------------------- MODULE ContextCorrelatorProofs -----------------------
(***************************************************************************)
(* Proofs about the correlator for any number of contexts and inputs and    *)
(* any times: every input is matched once and in order, an input waits no   *)
(* longer than it must, and - when the retention is long enough - the row   *)
(* that is written for it is what the contexts of the whole run say.        *)
(***************************************************************************)
EXTENDS ContextCorrelator, TLAPS, SequenceTheorems, WellFoundedInduction

\* The numbers of the recorded contexts, and of the matched and waiting inputs.
Recorded == 1 .. Len(observed)
Matched == 1 .. Len(matches)
Waiting == 1 .. Len(pending)

\* The bridge's clock: contexts are recorded in the order of their times.
TimesIncrease ==
  \A c, d \in Recorded : c < d => observed[c].time < observed[d].time

\* An input is stored at most MaxLate behind the ones before it.
InputsAreTimely ==
  \A i, j \in 1 .. Len(arrived) : i <= j => arrived[j] + MaxLate >= arrived[i]

\* Since the times increase, eviction leaves the contexts that are not older
\* than the retention, and nothing but their cursor divides the two deques.
RetainedAreRecent ==
  /\ allContexts = {c \in Recorded : observed[c].time + Retention >= LastTime}
  /\ contexts = {c \in allContexts : observed[c].valid}

\* The matched inputs are the first ones, the waiting ones follow.
QueueIsServedInOrder ==
  /\ Len(matches) + Len(pending) = Len(arrived)
  /\ \A i \in Matched : matches[i].input = i
  /\ \A i \in Waiting : pending[i] = Len(matches) + i

\* finalize_ready() works with the time of the newest context.
ReadyKnowsNewest ==
  mode = "ready" => observed # << >> /\ newestTime = LastTime

\* A waiting input is not much older than the newest context.
WaitingAreRecent ==
  Len(observed) > 1 => \A i \in Waiting :
    arrived[pending[i]] + Tolerance + MaxLate + MaxGap >= LastTime

\* The inductive invariant that needs no assumption on the times.
QueueInv ==
  /\ TypeOK
  /\ TimesIncrease
  /\ InputsAreTimely
  /\ RetainedAreRecent
  /\ QueueIsServedInOrder
  /\ ReadyKnowsNewest
  /\ WaitingAreRecent
  /\ PendingIsUndecided

\* As long as contexts may still come, whatever is matched is out of their
\* reach.
MatchesAreSettled ==
  mode \in {"idle", "ready"} => \A i \in Matched :
    observed # << >> /\ arrived[matches[i].input] + Tolerance <= LastTime

\* The inductive invariant of the verdicts.
VerdictInv == MatchesAreSettled /\ VerdictsAreFinal

-----------------------------------------------------------------------------
\* A set of numbers that is not empty has a least one.
LEMMA LeastNumber ==
  ASSUME NEW S \in SUBSET Nat, S # {}
  PROVE  \E n \in S : \A m \in S : n <= m
  <1> DEFINE R == OpToRel(<, Nat)
  <1>1. IsWellFoundedOn(R, Nat)
    BY NatLessThanWellFounded
  <1>2. \A m, n \in Nat : m < n => <<m, n>> \in R
    BY DEF OpToRel
  <1> HIDE DEF R
  <1>3. PICK n \in S : \A m \in S : ~ (<<m, n>> \in R)
    BY <1>1, WFMin
  <1>4. \A m \in S : ~ (m < n)
    BY <1>2, <1>3, Zenon
  <1>5. \A m \in S : n <= m
    BY <1>4
  <1> QED BY <1>5

\* The sequence that counts.
LEMMA CountingSeq ==
  ASSUME NEW S, NEW s \in Seq(S), NEW n \in Nat, Len(s) = n,
         \A i \in 1 .. n : s[i] = i
  PROVE  s = [i \in 1 .. n |-> i]
  OBVIOUS

\* Times are numbers.
LEMMA TimesAreNumbers == Time \subseteq Nat
  BY TimesAssumption DEF Time

\* The types of a recorded context and of the distance to it.
LEMMA RecordedTypes ==
  ASSUME TypeOK, NEW c \in Recorded
  PROVE  /\ observed[c].time \in Time
         /\ observed[c].time \in Nat
         /\ observed[c].valid \in BOOLEAN
         /\ \A t \in Time : Delta(t, observed[c].time) \in Nat
  <1> DEFINE row == [time : Time, valid : BOOLEAN]
  <1>1. observed[c] \in row
    <2>1. observed \in Seq(row)
      BY DEF TypeOK
    <2>2. c \in 1 .. Len(observed)
      BY DEF Recorded
    <2> HIDE DEF row
    <2> QED BY <2>1, <2>2, ElementOfSeq
  <1>2. observed[c].time \in Time /\ observed[c].valid \in BOOLEAN
    BY <1>1
  <1>3. \A a, b \in Nat : Delta(a, b) \in Nat
    BY DEF Delta
  <1> QED BY <1>2, <1>3, TimesAreNumbers

\* The newest time, of which there is one when a context is recorded.
LEMMA LastTimeType ==
  ASSUME TypeOK
  PROVE  /\ LastTime \in Nat
         /\ observed # << >> => /\ Len(observed) \in Recorded
                                /\ LastTime = observed[Len(observed)].time
                                /\ LastTime \in Time
  <1>1. observed \in Seq([time : Time, valid : BOOLEAN])
    BY DEF TypeOK
  <1>2. observed # << >> => Len(observed) \in Recorded
    BY <1>1 DEF Recorded
  <1> QED BY <1>2, RecordedTypes DEF LastTime

\* The time of an input, and of the one at the front.
LEMMA WaitingTypes ==
  ASSUME TypeOK, NEW i \in Waiting
  PROVE  /\ pending[i] \in 1 .. Len(arrived)
         /\ arrived[pending[i]] \in Time
         /\ arrived[pending[i]] \in Nat
         /\ pending # << >> /\ 1 \in Waiting
         /\ FrontTime = arrived[pending[1]] /\ FrontTime \in Nat
  <1>1. arrived \in Seq(Time) /\ pending \in Seq(1 .. Len(arrived))
    BY DEF TypeOK
  <1>2. pending[i] \in 1 .. Len(arrived) /\ pending # << >> /\ 1 \in 1 .. Len(pending)
    BY <1>1 DEF Waiting
  <1>3. Head(pending) = pending[1] /\ pending[1] \in 1 .. Len(arrived)
    BY <1>1, <1>2
  <1> QED BY <1>1, <1>2, <1>3, ElementOfSeq, TimesAreNumbers DEF FrontTime, Waiting

\* Of any contexts that are recorded one is the nearest, so that the CHOOSE
\* of a match row has something to choose.
LEMMA NearestExists ==
  ASSUME TypeOK, NEW S \in SUBSET Recorded, S # {}, NEW t \in Time
  PROVE  IsNearest(Nearest(S, t), S, t)
  <1> DEFINE near(c) == Delta(t, observed[c].time)
             distances == {near(c) : c \in S}
  <1>1. \A c \in S : near(c) \in Nat
    BY RecordedTypes
  <1>2. distances \in SUBSET Nat /\ distances # {}
    BY <1>1
  <1>3. PICK n \in distances : \A m \in distances : n <= m
    BY <1>2, LeastNumber
  <1> DEFINE first == {c \in S : near(c) = n}
  <1>4. first \in SUBSET Nat /\ first # {}
    BY <1>3 DEF Recorded
  <1>5. PICK c \in first : \A d \in first : c <= d
    BY <1>4, LeastNumber
  <1>6. c \in S /\ near(c) = n
    BY <1>5
  <1>7. ASSUME NEW d \in S PROVE near(c) < near(d) \/ (near(c) = near(d) /\ c <= d)
    <2>1. near(d) \in Nat /\ n \in Nat /\ n <= near(d)
      BY <1>1, <1>2, <1>3
    <2>2. CASE near(d) = n
      BY <1>5, <1>6, <2>2
    <2>3. CASE near(d) # n
      BY <1>6, <2>1, <2>3
    <2> QED BY <2>2, <2>3
  <1>8. IsNearest(c, S, t)
    BY <1>6, <1>7 DEF IsNearest
  <1> QED BY <1>8 DEF Nearest

-----------------------------------------------------------------------------
\* The invariant holds at the start.
LEMMA QueueInit == Init => QueueInv
  <1> SUFFICES ASSUME Init PROVE QueueInv
    OBVIOUS
  <1>1. TypeOK
    <2>1. /\ observed \in Seq([time : Time, valid : BOOLEAN])
          /\ arrived \in Seq(Time)
          /\ pending \in Seq(1 .. Len(arrived))
          /\ matches \in Seq([input : 1 .. Len(arrived), status : Status,
                              context : 0 .. Len(observed)])
      BY DEF Init
    <2> QED BY <2>1, TimesAssumption DEF Init, TypeOK, Mode, Time
  <1>2. TimesIncrease /\ InputsAreTimely /\ RetainedAreRecent /\ QueueIsServedInOrder
    BY DEF Init, TimesIncrease, InputsAreTimely, RetainedAreRecent, QueueIsServedInOrder,
           Recorded, Matched, Waiting
  <1>3. ReadyKnowsNewest /\ WaitingAreRecent /\ PendingIsUndecided
    BY DEF Init, ReadyKnowsNewest, WaitingAreRecent, PendingIsUndecided
  <1> QED BY <1>1, <1>2, <1>3 DEF QueueInv

\* A context is recorded, and the deques are cut to the retention.
LEMMA ContextStep ==
  ASSUME QueueInv, NewContext
  PROVE  QueueInv'
  <1> DEFINE new == Len(observed) + 1
  <1>1. PICK time \in Time, valid \in BOOLEAN :
          /\ observed # << >> => time > LastTime /\ time <= LastTime + MaxGap
          /\ AddContext(time, valid)
    BY DEF NewContext
  <1> DEFINE all == allContexts \cup {new}
             cursors == IF valid THEN contexts \cup {new} ELSE contexts
  <1>2. observed \in Seq([time : Time, valid : BOOLEAN]) /\ Len(observed) \in Nat
    BY DEF QueueInv, TypeOK
  <1>3. /\ mode = "idle" /\ mode' = "ready" /\ newestTime' = time
        /\ observed' = Append(observed, [time |-> time, valid |-> valid])
        /\ allContexts' = Kept(all, observed', time)
        /\ contexts' = Kept(cursors, observed', time)
        /\ arrived' = arrived /\ pending' = pending /\ matches' = matches
    BY <1>1 DEF AddContext
  <1>4. /\ observed' \in Seq([time : Time, valid : BOOLEAN])
        /\ Len(observed') = new
        /\ observed'[new] = [time |-> time, valid |-> valid]
        /\ \A c \in Recorded : observed'[c] = observed[c]
    BY <1>2, <1>3 DEF Recorded
  <1>5. LastTime' = time /\ observed' # << >>
    BY <1>2, <1>4 DEF LastTime
  <1>6. Recorded' = Recorded \cup {new} /\ new \notin Recorded /\ new \in Nat /\ Recorded \subseteq Nat
    BY <1>2, <1>4 DEF Recorded
  <1>7. \A c \in Recorded' : observed'[c].time \in Nat
    <2>1. \A c \in Recorded : observed[c].time \in Nat
      BY RecordedTypes DEF QueueInv
    <2>2. time \in Nat
      BY TimesAreNumbers
    <2> QED BY <1>4, <1>6, <2>1, <2>2
  <1>8. \A c \in Recorded : observed[c].time <= LastTime /\ LastTime < time
    <2> SUFFICES ASSUME NEW c \in Recorded PROVE observed[c].time <= LastTime /\ LastTime < time
      OBVIOUS
    <2>1. observed # << >> /\ Len(observed) \in Recorded /\ c <= Len(observed)
      BY <1>2 DEF Recorded
    <2>2. LastTime = observed[Len(observed)].time /\ LastTime \in Nat
      BY <2>1, LastTimeType DEF QueueInv
    <2>3. c # Len(observed) => observed[c].time < observed[Len(observed)].time
      BY <2>1, <1>6 DEF QueueInv, TimesIncrease
    <2>4. observed[c].time \in Nat
      BY RecordedTypes DEF QueueInv
    <2>5. LastTime < time
      BY <1>1, <2>1, <2>2, TimesAreNumbers
    <2> QED BY <2>2, <2>3, <2>4, <2>5
  <1>9. TimesIncrease'
    <2> SUFFICES ASSUME NEW c \in Recorded', NEW d \in Recorded', c < d
                 PROVE  observed'[c].time < observed'[d].time
      BY DEF TimesIncrease
    <2>1. c \in Recorded
      BY <1>2, <1>4, <1>6 DEF Recorded
    <2>2. CASE d \in Recorded
      BY <1>4, <2>1, <2>2 DEF QueueInv, TimesIncrease
    <2>3. CASE d = new
      <3>1. observed[c].time \in Nat /\ observed[c].time <= LastTime /\ LastTime < time
        BY <1>8, <2>1, RecordedTypes DEF QueueInv
      <3>2. LastTime \in Nat /\ time \in Nat
        BY LastTimeType, TimesAreNumbers DEF QueueInv
      <3>3. observed[c].time < time
        BY <3>1, <3>2
      <3> QED BY <1>4, <2>1, <2>3, <3>3
    <2> QED BY <1>6, <2>2, <2>3
  <1>10. ASSUME NEW S \in SUBSET Recorded'
         PROVE  Kept(S, observed', time) = {c \in S : observed'[c].time + Retention >= time}
    <2>1. ASSUME NEW c \in S, NEW front \in S, front <= c,
                 observed'[front].time + Retention >= time
          PROVE  observed'[c].time + Retention >= time
      <3>1. front < c => observed'[front].time < observed'[c].time
        BY <1>9 DEF TimesIncrease
      <3>2. front \in Nat /\ c \in Nat /\ observed'[front].time \in Nat /\ observed'[c].time \in Nat
        BY <1>6, <1>7
      <3> QED BY <2>1, <3>1, <3>2, TimesAssumption DEF Time
    <2>2. \A c \in S : c <= c
      BY <1>6
    <2> QED BY <2>1, <2>2 DEF Kept
  <1>11. RetainedAreRecent'
    <2>1. RetainedAreRecent
      BY DEF QueueInv
    <2>2. \A c \in Recorded : observed'[c].time + Retention >= time
                                => observed[c].time + Retention >= LastTime
      <3> SUFFICES ASSUME NEW c \in Recorded, observed'[c].time + Retention >= time
                   PROVE  observed[c].time + Retention >= LastTime
        OBVIOUS
      <3>1. observed[c].time \in Nat /\ observed'[c] = observed[c] /\ LastTime < time
        BY <1>4, <1>6, <1>7, <1>8
      <3>2. LastTime \in Nat
        BY LastTimeType DEF QueueInv
      <3>3. Retention \in Nat /\ time \in Nat
        BY TimesAssumption, TimesAreNumbers
      <3> QED BY <3>1, <3>2, <3>3
    <2>3. observed'[new].time + Retention >= time
      BY <1>4, TimesAssumption DEF Time
    <2>4. all \subseteq Recorded' /\ cursors \subseteq Recorded'
      BY <1>6, <2>1 DEF RetainedAreRecent
    <2>5. allContexts' = {c \in all : observed'[c].time + Retention >= time}
      BY <1>3, <1>10, <2>4
    <2>6. contexts' = {c \in cursors : observed'[c].time + Retention >= time}
      BY <1>3, <1>10, <2>4
    <2>7. allContexts' = {c \in Recorded' : observed'[c].time + Retention >= LastTime'}
      BY <1>5, <1>6, <2>1, <2>2, <2>3, <2>5 DEF RetainedAreRecent
    <2>8. \A c \in allContexts : observed'[c] = observed[c]
      BY <1>4, <2>1 DEF RetainedAreRecent
    <2>9. observed'[new].valid = valid
      BY <1>4
    <2>10. contexts' = {c \in allContexts' : observed'[c].valid}
      BY <2>1, <2>5, <2>6, <2>8, <2>9, <1>6 DEF RetainedAreRecent
    <2> QED BY <2>7, <2>10 DEF RetainedAreRecent
  <1>12. TypeOK'
    <2>1. Len(observed') \in Nat /\ 0 .. Len(observed) \subseteq 0 .. Len(observed')
      BY <1>2, <1>4
    <2>2. matches' \in Seq([input : 1 .. Len(arrived'), status : Status,
                            context : 0 .. Len(observed')])
      <3> DEFINE rows(n) == [input : 1 .. Len(arrived), status : Status, context : 0 .. n]
      <3>1. rows(Len(observed)) \subseteq rows(Len(observed'))
        BY <2>1
      <3>2. matches \in Seq(rows(Len(observed)))
        BY DEF QueueInv, TypeOK
      <3> HIDE DEF rows
      <3>3. matches \in Seq(rows(Len(observed')))
        BY <3>1, <3>2, SeqMonotonic
      <3> QED BY <1>3, <3>3 DEF rows
    <2>3. contexts' \subseteq allContexts' /\ allContexts' \subseteq 1 .. Len(observed')
      BY <1>11 DEF RetainedAreRecent, Recorded
    <2>4. arrived' \in Seq(Time) /\ pending' \in Seq(1 .. Len(arrived'))
      BY <1>3 DEF QueueInv, TypeOK
    <2> QED BY <1>3, <1>4, <2>2, <2>3, <2>4 DEF TypeOK, Mode
  <1>13. InputsAreTimely' /\ QueueIsServedInOrder'
    BY <1>3 DEF QueueInv, InputsAreTimely, QueueIsServedInOrder, Matched, Waiting
  <1>14. ReadyKnowsNewest' /\ PendingIsUndecided'
    BY <1>3, <1>5 DEF ReadyKnowsNewest, PendingIsUndecided
  <1>15. WaitingAreRecent'
    <2> SUFFICES ASSUME Len(observed') > 1, NEW i \in Waiting'
                 PROVE  arrived'[pending'[i]] + Tolerance + MaxLate + MaxGap >= LastTime'
      BY DEF WaitingAreRecent
    <2>1. observed # << >> /\ pending # << >> /\ i \in Waiting
      BY <1>2, <1>3, <1>4 DEF Waiting
    <2>2. /\ FrontTime + Tolerance > LastTime
          /\ arrived[pending[i]] + MaxLate >= FrontTime
      BY <1>3, <2>1 DEF QueueInv, PendingIsUndecided, Waiting
    <2>3. time <= LastTime + MaxGap
      BY <1>1, <2>1
    <2>4. FrontTime \in Nat /\ arrived[pending[i]] \in Nat /\ LastTime \in Nat
      BY <2>1, WaitingTypes, LastTimeType DEF QueueInv
    <2>5. Tolerance \in Nat /\ MaxLate \in Nat /\ MaxGap \in Nat /\ time \in Nat
      BY TimesAssumption, TimesAreNumbers
    <2> QED BY <1>3, <1>5, <2>2, <2>3, <2>4, <2>5
  <1> QED BY <1>9, <1>11, <1>12, <1>13, <1>14, <1>15 DEF QueueInv

\* An input joins the end of the queue.
LEMMA InputStep ==
  ASSUME QueueInv, NewInput
  PROVE  QueueInv'
  <1> DEFINE new == Len(arrived) + 1
  <1>1. PICK time \in Time :
          /\ time + MaxLate >= LastTime
          /\ \A i \in 1 .. Len(arrived) : time + MaxLate >= arrived[i]
          /\ AddInput(time)
    BY DEF NewInput
  <1>2. /\ mode = "idle"
        /\ arrived' = Append(arrived, time) /\ pending' = Append(pending, new)
        /\ observed' = observed /\ matches' = matches
        /\ allContexts' = allContexts /\ contexts' = contexts
    BY <1>1 DEF AddInput
  <1>3. /\ arrived \in Seq(Time) /\ pending \in Seq(1 .. Len(arrived))
        /\ Len(arrived) \in Nat /\ Len(pending) \in Nat /\ Len(matches) \in Nat
    BY DEF QueueInv, TypeOK
  <1>4. /\ arrived' \in Seq(Time) /\ Len(arrived') = new /\ arrived'[new] = time
        /\ \A i \in 1 .. Len(arrived) : arrived'[i] = arrived[i]
    BY <1>2, <1>3
  <1>5. /\ Len(pending') = Len(pending) + 1 /\ pending'[Len(pending) + 1] = new
        /\ \A i \in Waiting : pending'[i] = pending[i]
    BY <1>2, <1>3 DEF Waiting
  <1>6. pending' \in Seq(1 .. Len(arrived'))
    <2>1. 1 .. Len(arrived) \subseteq 1 .. Len(arrived') /\ new \in 1 .. Len(arrived')
      BY <1>3, <1>4
    <2>2. pending \in Seq(1 .. Len(arrived'))
      BY <1>3, <2>1, SeqMonotonic
    <2> QED BY <1>2, <2>1, <2>2
  <1>7. LastTime' = LastTime /\ Recorded' = Recorded
    BY <1>2 DEF LastTime, Recorded
  <1>8. observed # << >> => allContexts # {}
    <2> SUFFICES ASSUME observed # << >> PROVE Len(observed) \in allContexts
      OBVIOUS
    <2>1. Len(observed) \in Recorded /\ LastTime = observed[Len(observed)].time /\ LastTime \in Nat
      BY LastTimeType DEF QueueInv
    <2> QED BY <2>1, TimesAssumption DEF QueueInv, RetainedAreRecent
  <1>9. ReadyKnowsNewest' /\ newestTime' \in Time /\ mode' \in Mode
         /\ (observed # << >> => mode' = "ready")
    <2>1. CASE allContexts # {}
      <3>1. mode' = "ready" /\ newestTime' = observed[Len(observed)].time
        BY <1>1, <2>1 DEF AddInput
      <3>2. observed # << >>
        <4>1. Len(observed) = 0 => allContexts = {}
          BY DEF QueueInv, TypeOK
        <4> QED BY <2>1, <4>1
      <3> QED BY <1>2, <1>7, <3>1, <3>2, LastTimeType DEF QueueInv, ReadyKnowsNewest, Mode
    <2>2. CASE allContexts = {}
      BY <1>1, <1>2, <1>8, <2>2 DEF AddInput, QueueInv, TypeOK, ReadyKnowsNewest, Mode
    <2> QED BY <2>1, <2>2
  <1>10. TypeOK'
    <2>1. matches' \in Seq([input : 1 .. Len(arrived'), status : Status,
                            context : 0 .. Len(observed')])
      <3> DEFINE rows(n) == [input : 1 .. n, status : Status, context : 0 .. Len(observed)]
      <3>1. rows(Len(arrived)) \subseteq rows(Len(arrived'))
        BY <1>3, <1>4
      <3>2. matches \in Seq(rows(Len(arrived)))
        BY DEF QueueInv, TypeOK
      <3> HIDE DEF rows
      <3>3. matches \in Seq(rows(Len(arrived')))
        BY <3>1, <3>2, SeqMonotonic
      <3> QED BY <1>2, <3>3 DEF rows
    <2>2. /\ observed' \in Seq([time : Time, valid : BOOLEAN])
          /\ contexts' \subseteq allContexts' /\ allContexts' \subseteq 1 .. Len(observed')
      BY <1>2 DEF QueueInv, TypeOK
    <2> QED BY <1>4, <1>6, <1>9, <2>1, <2>2 DEF TypeOK
  <1>11. TimesIncrease' /\ RetainedAreRecent'
    BY <1>2, <1>7 DEF QueueInv, TimesIncrease, RetainedAreRecent
  <1>12. InputsAreTimely'
    <2> SUFFICES ASSUME NEW i \in 1 .. new, NEW j \in 1 .. new, i <= j
                 PROVE  arrived'[j] + MaxLate >= arrived'[i]
      BY <1>4 DEF InputsAreTimely
    <2>1. CASE j = new
      <3>1. CASE i = new
        BY <1>4, <2>1, <3>1, TimesAreNumbers, TimesAssumption
      <3>2. CASE i # new
        <4>1. i \in 1 .. Len(arrived)
          BY <1>3, <3>2
        <4>2. time + MaxLate >= arrived[i]
          BY <1>1, <4>1
        <4> QED BY <1>4, <2>1, <4>1, <4>2
      <3> QED BY <3>1, <3>2
    <2>2. CASE j # new
      BY <1>3, <1>4, <2>2 DEF QueueInv, InputsAreTimely
    <2> QED BY <2>1, <2>2
  <1>13. QueueIsServedInOrder'
    <2>1. QueueIsServedInOrder
      BY DEF QueueInv
    <2>2. \A i \in 1 .. Len(pending') : i \in Waiting \/ i = Len(pending) + 1
      BY <1>3, <1>5 DEF Waiting
    <2>3. Len(matches') + Len(pending') = Len(arrived')
      BY <1>2, <1>3, <1>4, <1>5, <2>1 DEF QueueIsServedInOrder
    <2>4. Len(arrived) + 1 = Len(matches) + Len(pending) + 1
      BY <1>3, <2>1 DEF QueueIsServedInOrder
    <2>5. \A i \in Matched' : matches'[i].input = i
      BY <1>2, <2>1 DEF QueueIsServedInOrder, Matched
    <2>6. ASSUME NEW i \in Waiting'
          PROVE  pending'[i] = Len(matches') + i
      <3>1. CASE i = Len(pending) + 1
        BY <1>2, <1>3, <1>5, <2>4, <3>1
      <3>2. CASE i # Len(pending) + 1
        <4>1. i \in Waiting
          BY <2>2, <3>2 DEF Waiting
        <4> QED BY <1>2, <1>5, <2>1, <4>1 DEF QueueIsServedInOrder
      <3> QED BY <3>1, <3>2
    <2> QED BY <2>3, <2>5, <2>6 DEF QueueIsServedInOrder
  <1>14. WaitingAreRecent'
    <2> SUFFICES ASSUME Len(observed) > 1, NEW i \in Waiting'
                 PROVE  arrived'[pending'[i]] + Tolerance + MaxLate + MaxGap >= LastTime
      BY <1>2, <1>7 DEF WaitingAreRecent
    <2>1. CASE i = Len(pending) + 1
      <3>1. arrived'[pending'[i]] = time
        BY <1>4, <1>5, <2>1
      <3> QED BY <1>1, <3>1, LastTimeType, TimesAreNumbers, TimesAssumption DEF QueueInv
    <2>2. CASE i # Len(pending) + 1
      <3>1. i \in Waiting
        BY <1>3, <1>5, <2>2 DEF Waiting
      <3>2. arrived'[pending'[i]] = arrived[pending[i]]
        BY <1>4, <1>5, <3>1, WaitingTypes DEF QueueInv
      <3> QED BY <3>1, <3>2 DEF QueueInv, WaitingAreRecent
    <2> QED BY <2>1, <2>2
  <1>15. PendingIsUndecided'
    BY <1>2, <1>9 DEF PendingIsUndecided
  <1> QED BY <1>9, <1>10, <1>11, <1>12, <1>13, <1>14, <1>15 DEF QueueInv

\* The match row names a retained context, or none.
LEMMA VerdictType ==
  ASSUME TypeOK, NEW t \in Time
  PROVE  Verdict(t) \in [status : Status, context : 0 .. Len(observed)]
  <1>1. contexts \subseteq Recorded /\ allContexts \subseteq Recorded /\ Len(observed) \in Nat
    BY DEF TypeOK, Recorded
  <1>2. Within(contexts, t) # {} => contexts # {}
    BY DEF Within
  <1>3. contexts # {} => Nearest(contexts, t) \in contexts
    BY <1>1, NearestExists DEF IsNearest
  <1>4. Failed(allContexts, t) \subseteq Recorded
    BY <1>1 DEF Failed, Within
  <1>5. Failed(allContexts, t) # {} => Nearest(Failed(allContexts, t), t) \in Failed(allContexts, t)
    BY <1>4, NearestExists DEF IsNearest
  <1>6. Recorded \subseteq 0 .. Len(observed) /\ NoContext \in 0 .. Len(observed)
    BY <1>1 DEF Recorded, NoContext
  <1> DEFINE numbers == 0 .. Len(observed)
  <1>7. \A s \in Status, c \in numbers :
          [status |-> s, context |-> c] \in [status : Status, context : numbers]
    OBVIOUS
  <1>8. /\ {"matched", "unmatched_context_error"} \subseteq Status
        /\ {"unmatched_outside_tolerance", "unmatched_no_context"} \subseteq Status
    BY DEF Status
  <1>9. /\ contexts # {} => Nearest(contexts, t) \in numbers
        /\ Failed(allContexts, t) # {} => Nearest(Failed(allContexts, t), t) \in numbers
        /\ NoContext \in numbers
    BY <1>1, <1>3, <1>4, <1>5, <1>6
  <1> HIDE DEF numbers
  <1>10. CASE Within(contexts, t) # {}
    <2>1. Verdict(t) = [status |-> "matched", context |-> Nearest(contexts, t)]
      BY <1>10 DEF Verdict
    <2> QED BY <1>2, <1>7, <1>8, <1>9, <1>10, <2>1 DEF numbers
  <1>11. CASE Within(contexts, t) = {} /\ Failed(allContexts, t) # {}
    <2>1. Verdict(t) = [status |-> "unmatched_context_error",
                        context |-> Nearest(Failed(allContexts, t), t)]
      BY <1>11 DEF Verdict
    <2> QED BY <1>7, <1>8, <1>9, <1>11, <2>1 DEF numbers
  <1>12. CASE Within(contexts, t) = {} /\ Failed(allContexts, t) = {} /\ contexts # {}
    <2>1. Verdict(t) = [status |-> "unmatched_outside_tolerance", context |-> Nearest(contexts, t)]
      BY <1>12 DEF Verdict
    <2> QED BY <1>7, <1>8, <1>9, <1>12, <2>1 DEF numbers
  <1>13. CASE Within(contexts, t) = {} /\ Failed(allContexts, t) = {} /\ contexts = {}
    <2>1. PICK s \in Status : Verdict(t) = [status |-> s, context |-> NoContext]
      BY <1>8, <1>13 DEF Verdict
    <2> QED BY <1>7, <1>9, <2>1 DEF numbers
  <1> QED BY <1>10, <1>11, <1>12, <1>13

\* What one iteration of either loop does to the queue and the rows.
LEMMA FrontIsMatched ==
  ASSUME QueueInv, pending # << >>, FinalizeFront
  PROVE  /\ 1 \in Waiting /\ Head(pending) = Len(matches) + 1
         /\ Head(pending) \in 1 .. Len(arrived) /\ FrontTime \in Time
         /\ Len(pending') = Len(pending) - 1
         /\ \A i \in Waiting' : i + 1 \in Waiting /\ pending'[i] = pending[i + 1]
         /\ pending' \in Seq(1 .. Len(arrived))
         /\ Len(matches') = Len(matches) + 1
         /\ \A i \in Matched : matches'[i] = matches[i]
         /\ matches'[Len(matches) + 1].input = Head(pending)
         /\ matches'[Len(matches) + 1].status = Verdict(FrontTime).status
         /\ matches'[Len(matches) + 1].context = Verdict(FrontTime).context
         /\ matches' \in Seq([input : 1 .. Len(arrived), status : Status,
                              context : 0 .. Len(observed)])
  <1> DEFINE rows == [input : 1 .. Len(arrived), status : Status, context : 0 .. Len(observed)]
             row == [input |-> Head(pending), status |-> Verdict(FrontTime).status,
                     context |-> Verdict(FrontTime).context]
  <1>1. arrived \in Seq(Time) /\ pending \in Seq(1 .. Len(arrived)) /\ matches \in Seq(rows)
    BY DEF QueueInv, TypeOK
  <1>2. 1 \in Waiting /\ Head(pending) = pending[1] /\ Head(pending) \in 1 .. Len(arrived)
    BY <1>1 DEF Waiting
  <1>3. Head(pending) = Len(matches) + 1
    BY <1>1, <1>2 DEF QueueInv, QueueIsServedInOrder
  <1>4. FrontTime \in Time
    BY <1>1, <1>2 DEF FrontTime
  <1>5. matches' = Append(matches, row) /\ pending' = Tail(pending)
    BY DEF FinalizeFront
  <1>6. row \in rows
    <2>1. Verdict(FrontTime) \in [status : Status, context : 0 .. Len(observed)]
      BY <1>4, VerdictType DEF QueueInv
    <2>2. Verdict(FrontTime).status \in Status /\ Verdict(FrontTime).context \in 0 .. Len(observed)
      BY <2>1
    <2> QED BY <1>2, <2>2
  <1>7. /\ Len(pending') = Len(pending) - 1
        /\ \A i \in Waiting' : i + 1 \in Waiting /\ pending'[i] = pending[i + 1]
        /\ pending' \in Seq(1 .. Len(arrived))
    BY <1>1, <1>5 DEF Waiting
  <1> HIDE DEF rows
  <1>8. /\ Len(matches') = Len(matches) + 1
        /\ \A i \in Matched : matches'[i] = matches[i]
        /\ matches'[Len(matches) + 1] = row
        /\ matches' \in Seq(rows)
    <2> HIDE DEF row
    <2> QED BY <1>1, <1>5, <1>6 DEF Matched
  <1> QED BY <1>2, <1>3, <1>4, <1>7, <1>8 DEF rows

\* One iteration of a loop keeps the invariant; the queue is still in order.
LEMMA FrontStep ==
  ASSUME QueueInv, pending # << >>, FinalizeFront, mode' = mode, mode # "idle"
  PROVE  QueueInv'
  <1>1. /\ observed' = observed /\ arrived' = arrived /\ allContexts' = allContexts
        /\ contexts' = contexts /\ newestTime' = newestTime
    BY DEF FinalizeFront
  <1>2. LastTime' = LastTime /\ Recorded' = Recorded
    BY <1>1 DEF LastTime, Recorded
  <1>3. TypeOK'
    BY <1>1, FrontIsMatched DEF QueueInv, TypeOK
  <1>4. TimesIncrease' /\ InputsAreTimely' /\ RetainedAreRecent'
    BY <1>1, <1>2 DEF QueueInv, TimesIncrease, InputsAreTimely, RetainedAreRecent
  <1>5. QueueIsServedInOrder'
    <2>1. QueueIsServedInOrder /\ Len(matches) \in Nat /\ Len(pending) \in Nat
      BY DEF QueueInv, TypeOK
    <2>2. \A i \in Matched' : i \in Matched \/ i = Len(matches) + 1
      BY <2>1, FrontIsMatched DEF Matched
    <2>3. \A i \in Matched' : matches'[i].input = i
      BY <2>1, <2>2, FrontIsMatched DEF QueueIsServedInOrder
    <2>4. \A i \in Waiting' : pending'[i] = Len(matches') + i
      <3> SUFFICES ASSUME NEW i \in Waiting' PROVE pending'[i] = Len(matches') + i
        OBVIOUS
      <3>1. i + 1 \in Waiting /\ pending'[i] = pending[i + 1]
        BY FrontIsMatched
      <3>2. pending[i + 1] = Len(matches) + (i + 1) /\ Len(matches') = Len(matches) + 1
        BY <2>1, <3>1, FrontIsMatched DEF QueueIsServedInOrder
      <3>3. i \in Int
        BY DEF Waiting
      <3> QED BY <2>1, <3>1, <3>2, <3>3
    <2>5. Len(matches') + Len(pending') = Len(arrived')
      <3>1. Len(matches') = Len(matches) + 1 /\ Len(pending') = Len(pending) - 1
        BY FrontIsMatched
      <3>2. Len(matches) + Len(pending) = Len(arrived)
        BY <2>1 DEF QueueIsServedInOrder
      <3> QED BY <1>1, <2>1, <3>1, <3>2
    <2> QED BY <2>3, <2>4, <2>5 DEF QueueIsServedInOrder
  <1>6. ReadyKnowsNewest' /\ PendingIsUndecided'
    BY <1>1, <1>2 DEF QueueInv, ReadyKnowsNewest, PendingIsUndecided
  <1>7. WaitingAreRecent'
    <2>1. \A i \in Waiting' : i + 1 \in Waiting /\ pending'[i] = pending[i + 1]
      BY FrontIsMatched
    <2> QED BY <1>1, <1>2, <2>1 DEF QueueInv, WaitingAreRecent
  <1> QED BY <1>3, <1>4, <1>5, <1>6, <1>7 DEF QueueInv

\* Between the calls, and at the end of a loop, only the mode changes.
LEMMA ModeStep ==
  ASSUME QueueInv, ReadyDone \/ StartFinish \/ FinishDone \/ UNCHANGED vars
  PROVE  QueueInv'
  <1>1. /\ observed' = observed /\ arrived' = arrived /\ allContexts' = allContexts
        /\ contexts' = contexts /\ newestTime' = newestTime /\ pending' = pending
        /\ matches' = matches
    BY DEF ReadyDone, StartFinish, FinishDone, vars
  <1>2. LastTime' = LastTime /\ Recorded' = Recorded /\ FrontTime' = FrontTime
    BY <1>1 DEF LastTime, Recorded, FrontTime
  <1>3. mode' \in Mode
    BY DEF ReadyDone, StartFinish, FinishDone, vars, Mode, QueueInv, TypeOK
  <1>4. TypeOK'
    BY <1>1, <1>3 DEF QueueInv, TypeOK
  <1>5. TimesIncrease' /\ InputsAreTimely' /\ RetainedAreRecent' /\ QueueIsServedInOrder'
        /\ WaitingAreRecent'
    BY <1>1, <1>2 DEF QueueInv, TimesIncrease, InputsAreTimely, RetainedAreRecent,
                      QueueIsServedInOrder, WaitingAreRecent, Matched, Waiting
  <1>6. ReadyKnowsNewest'
    BY <1>1, <1>2 DEF QueueInv, ReadyKnowsNewest, ReadyDone, StartFinish, FinishDone, vars
  <1>7. PendingIsUndecided'
    <2>1. CASE ReadyDone
      <3> SUFFICES ASSUME pending # << >>
                   PROVE  /\ FrontTime + Tolerance > LastTime
                          /\ \A i \in Waiting : arrived[pending[i]] + MaxLate >= FrontTime
        BY <1>1, <1>2 DEF PendingIsUndecided, Waiting
      <3>1. 1 \in Waiting
        BY DEF QueueInv, TypeOK, Waiting
      <3>2. newestTime = LastTime /\ ~ (newestTime >= FrontTime + Tolerance)
        BY <2>1 DEF ReadyDone, FrontIsReady, QueueInv, ReadyKnowsNewest
      <3>3. FrontTime \in Nat /\ LastTime \in Nat /\ FrontTime = arrived[pending[1]]
        BY <3>1, WaitingTypes, LastTimeType DEF QueueInv
      <3>4. FrontTime + Tolerance > LastTime
        BY <3>2, <3>3, TimesAssumption
      <3>5. ASSUME NEW i \in Waiting PROVE arrived[pending[i]] + MaxLate >= FrontTime
        <4>1. pending[1] \in 1 .. Len(arrived) /\ pending[i] \in 1 .. Len(arrived)
          BY <3>1, WaitingTypes DEF QueueInv
        <4>2. pending[1] <= pending[i]
          BY <3>1 DEF QueueInv, QueueIsServedInOrder, TypeOK, Waiting
        <4> QED BY <3>3, <4>1, <4>2 DEF QueueInv, InputsAreTimely
      <3> QED BY <3>4, <3>5
    <2>2. CASE StartFinish \/ FinishDone
      BY <2>2 DEF StartFinish, FinishDone, PendingIsUndecided
    <2>3. CASE UNCHANGED vars
      BY <2>3, <1>1, <1>2 DEF QueueInv, PendingIsUndecided, vars
    <2> QED BY <2>1, <2>2, <2>3
  <1> QED BY <1>4, <1>5, <1>6, <1>7 DEF QueueInv

\* Every step keeps the invariant.
LEMMA QueueNext == QueueInv /\ [Next]_vars => QueueInv'
  <1> SUFFICES ASSUME QueueInv, [Next]_vars PROVE QueueInv'
    OBVIOUS
  <1>1. CASE NewContext
    BY <1>1, ContextStep
  <1>2. CASE NewInput
    BY <1>2, InputStep
  <1>3. CASE FinalizeReady \/ FinalizePending
    BY <1>3, FrontStep DEF FinalizeReady, FrontIsReady, FinalizePending
  <1>4. CASE ReadyDone \/ StartFinish \/ FinishDone \/ UNCHANGED vars
    BY <1>4, ModeStep
  <1> QED BY <1>1, <1>2, <1>3, <1>4 DEF Next

\* The invariant holds in every reachable state.
LEMMA QueueInvariant == Spec => []QueueInv
  BY QueueInit, QueueNext, PTL DEF Spec

-----------------------------------------------------------------------------
\* When some context is within the tolerance, the nearest one is.
LEMMA NearestIsWithin ==
  ASSUME TypeOK, NEW S \in SUBSET Recorded, NEW t \in Time, NEW c, IsNearest(c, S, t),
         Within(S, t) # {}
  PROVE  c \in Recorded /\ Delta(t, observed[c].time) <= Tolerance
  <1>1. PICK d \in S : Delta(t, observed[d].time) <= Tolerance
    BY DEF Within
  <1>2. c \in S /\ Delta(t, observed[c].time) <= Delta(t, observed[d].time)
    BY RecordedTypes DEF IsNearest
  <1> QED BY <1>1, <1>2, RecordedTypes, TimesAssumption

\* Contexts out of reach do not change which one is the nearest.
LEMMA NearestAmongMore ==
  ASSUME TypeOK, NEW T \in SUBSET Recorded, NEW S \in SUBSET T, NEW t \in Time,
         NEW c, IsNearest(c, S, t), Within(S, t) # {},
         \A d \in T \ S : ~ (Delta(t, observed[d].time) <= Tolerance)
  PROVE  IsNearest(c, T, t)
  <1>1. c \in S /\ Delta(t, observed[c].time) <= Tolerance
    BY NearestIsWithin DEF IsNearest
  <1>2. ASSUME NEW d \in T \ S
        PROVE  Delta(t, observed[c].time) < Delta(t, observed[d].time)
    <2>1. ~ (Delta(t, observed[d].time) <= Tolerance)
      OBVIOUS
    <2> QED BY <1>1, <2>1, RecordedTypes, TimesAssumption
  <1> QED BY <1>1, <1>2 DEF IsNearest

\* With enough retention, whatever is in reach of a recent input is retained,
\* and its match row says what all contexts of the run say.
LEMMA VerdictIsRight ==
  ASSUME QueueInv, EnoughRetention, NEW t \in Time,
         Len(observed) > 1 => t + Tolerance + MaxLate + MaxGap >= LastTime,
         NEW m, arrived[m.input] = t, m.status = Verdict(t).status,
         m.context = Verdict(t).context
  PROVE  Agrees(m)
  <1>1. TypeOK /\ RetainedAreRecent /\ Len(observed) \in Nat
    BY DEF QueueInv, TypeOK
  <1>2. ASSUME NEW c \in Recorded, Delta(t, observed[c].time) <= Tolerance
        PROVE  c \in allContexts
    <2>1. observed[c].time \in Nat /\ LastTime \in Nat /\ t \in Nat
      BY <1>1, RecordedTypes, LastTimeType, TimesAreNumbers
    <2>2. Tolerance \in Nat /\ MaxLate \in Nat /\ MaxGap \in Nat /\ Retention \in Nat
      BY TimesAssumption
    <2>3. observed[c].time + Tolerance >= t
      BY <1>2, <2>1, <2>2 DEF Delta
    <2>4. CASE Len(observed) > 1
      BY <1>1, <2>1, <2>2, <2>3, <2>4 DEF RetainedAreRecent, EnoughRetention
    <2>5. CASE ~ (Len(observed) > 1)
      <3>1. c = Len(observed) /\ observed # << >>
        BY <1>1, <2>5 DEF Recorded
      <3>2. observed[c].time = LastTime
        BY <1>1, <3>1, LastTimeType
      <3> QED BY <1>1, <2>1, <2>2, <3>2 DEF RetainedAreRecent
    <2> QED BY <2>4, <2>5
  <1>3. Valid \subseteq Recorded /\ Invalid \subseteq Recorded /\ contexts \subseteq Valid
        /\ allContexts \subseteq Recorded /\ Invalid = {c \in Recorded : ~ observed[c].valid}
    BY <1>1 DEF Valid, Invalid, Recorded, RetainedAreRecent
  <1>4. \A c \in Valid : Delta(t, observed[c].time) <= Tolerance => c \in contexts
    BY <1>1, <1>2 DEF Valid, Recorded, RetainedAreRecent
  <1>5. Within(Valid, t) = Within(contexts, t)
    BY <1>3, <1>4 DEF Within
  <1>6. Within(Invalid, t) = Failed(allContexts, t)
    BY <1>2, <1>3 DEF Within, Failed
  <1>7. CASE Within(contexts, t) # {}
    <2>1. contexts # {}
      BY <1>7 DEF Within
    <2>2. IsNearest(Nearest(contexts, t), contexts, t)
      BY <1>1, <1>3, <2>1, NearestExists
    <2>3. IsNearest(Nearest(contexts, t), Valid, t)
      BY <1>1, <1>3, <1>4, <1>7, <2>2, NearestAmongMore
    <2>4. m.status = "matched" /\ m.context = Nearest(contexts, t)
      BY <1>7 DEF Verdict
    <2> QED BY <1>5, <1>7, <2>3, <2>4 DEF Agrees
  <1>8. CASE Within(contexts, t) = {} /\ Failed(allContexts, t) # {}
    <2> DEFINE failed == Failed(allContexts, t)
    <2>1. /\ failed \subseteq Invalid /\ Within(failed, t) = failed
          /\ \A d \in Invalid \ failed : ~ (Delta(t, observed[d].time) <= Tolerance)
      BY <1>3, <1>6 DEF Within
    <2>2. IsNearest(Nearest(failed, t), failed, t)
      BY <1>1, <1>3, <1>8, <2>1, NearestExists
    <2>3. IsNearest(Nearest(failed, t), Invalid, t)
      BY <1>1, <1>3, <1>8, <2>1, <2>2, NearestAmongMore
    <2>4. m.status = "unmatched_context_error" /\ m.context = Nearest(failed, t)
      BY <1>8 DEF Verdict
    <2> QED BY <1>5, <1>6, <1>8, <2>3, <2>4 DEF Agrees
  <1>9. CASE Within(contexts, t) = {} /\ Failed(allContexts, t) = {}
    <2>1. allContexts = {} <=> observed = << >>
      <3>1. observed # << >> => Len(observed) \in allContexts
        <4> SUFFICES ASSUME observed # << >> PROVE Len(observed) \in allContexts
          OBVIOUS
        <4>1. Len(observed) \in Recorded /\ LastTime = observed[Len(observed)].time
              /\ LastTime \in Nat
          BY <1>1, LastTimeType
        <4> QED BY <1>1, <4>1, TimesAssumption DEF RetainedAreRecent
      <3>2. observed = << >> => Recorded = {}
        BY DEF Recorded
      <3> QED BY <1>3, <3>1, <3>2
    <2>2. contexts # {} => allContexts # {}
      BY <1>1 DEF RetainedAreRecent
    <2>3. m.status = IF observed = << >> THEN "unmatched_no_context"
                                         ELSE "unmatched_outside_tolerance"
      BY <1>9, <2>1, <2>2 DEF Verdict
    <2> QED BY <1>5, <1>6, <1>9, <2>3 DEF Agrees
  <1> QED BY <1>7, <1>8, <1>9

\* A context that is recorded later is out of reach of the inputs that are
\* matched, so that their rows stay right.
LEMMA VerdictStaysRight ==
  ASSUME QueueInv, NewContext, NEW m, arrived[m.input] \in Time, Agrees(m),
         observed # << >>, arrived[m.input] + Tolerance <= LastTime
  PROVE  Agrees(m)' /\ observed' # << >> /\ LastTime' \in Nat /\ LastTime <= LastTime'
  <1> DEFINE new == Len(observed) + 1
  <1>t. PICK t \in Time : t = arrived[m.input]
    OBVIOUS
  <1>1. PICK time \in Time, valid \in BOOLEAN :
          /\ time > LastTime
          /\ observed' = Append(observed, [time |-> time, valid |-> valid])
          /\ arrived' = arrived
    BY DEF NewContext, AddContext
  <1>2. observed \in Seq([time : Time, valid : BOOLEAN]) /\ Len(observed) \in Nat
    BY DEF QueueInv, TypeOK
  <1>3. /\ Len(observed') = new /\ observed' # << >>
        /\ observed'[new] = [time |-> time, valid |-> valid]
        /\ \A c \in Recorded : observed'[c] = observed[c]
    BY <1>1, <1>2 DEF Recorded
  <1>4. Recorded' = Recorded \cup {new} /\ new \notin Recorded
    BY <1>2, <1>3 DEF Recorded
  <1>5. LastTime \in Nat /\ time \in Nat /\ t \in Nat /\ Tolerance \in Nat /\ t + Tolerance <= LastTime
    BY <1>t, LastTimeType, TimesAreNumbers, TimesAssumption DEF QueueInv
  <1>6. Delta(t, time) \in Nat /\ Delta(t, time) > Tolerance
    BY <1>1, <1>5 DEF Delta
  <1>7. LastTime' \in Nat /\ LastTime <= LastTime'
    BY <1>1, <1>3, <1>5 DEF LastTime
  <1>8. /\ Valid \subseteq Recorded /\ Invalid \subseteq Recorded
        /\ Valid' \subseteq Valid \cup {new} /\ Valid \subseteq Valid'
        /\ Invalid' \subseteq Invalid \cup {new} /\ Invalid \subseteq Invalid'
    BY <1>3, <1>4 DEF Valid, Invalid, Recorded
  <1>9. ASSUME NEW S \in SUBSET Recorded, NEW T, S \subseteq T, T \subseteq S \cup {new}
        PROVE  /\ {c \in T : Delta(t, observed'[c].time) <= Tolerance} = Within(S, t)
               /\ \A c : IsNearest(c, S, t) /\ Within(S, t) # {}
                    => /\ c \in T
                       /\ \A d \in T : LET near == Delta(t, observed'[c].time)
                                           far == Delta(t, observed'[d].time)
                                       IN  near < far \/ (near = far /\ c <= d)
    <2>1. \A c \in S : observed'[c].time = observed[c].time
      BY <1>3
    <2>2. observed'[new].time = time
      BY <1>3
    <2>3. ~ (Delta(t, observed'[new].time) <= Tolerance)
      BY <1>5, <1>6, <2>2
    <2>4. {c \in T : Delta(t, observed'[c].time) <= Tolerance} = Within(S, t)
      BY <1>9, <2>1, <2>3 DEF Within
    <2>5. ASSUME NEW c, IsNearest(c, S, t), Within(S, t) # {}, NEW d \in T
          PROVE  LET near == Delta(t, observed'[c].time)
                     far == Delta(t, observed'[d].time)
                 IN  near < far \/ (near = far /\ c <= d)
      <3>1. c \in S /\ Delta(t, observed[c].time) <= Tolerance
        BY <2>5, NearestIsWithin DEF QueueInv, IsNearest
      <3>2. CASE d \in S
        BY <2>1, <2>5, <3>1, <3>2 DEF IsNearest
      <3>3. CASE d = new
        <4>1. Delta(t, observed[c].time) \in Nat
          BY <3>1, RecordedTypes DEF QueueInv
        <4>2. Delta(t, observed[c].time) < Delta(t, time)
          BY <1>5, <1>6, <3>1, <4>1
        <4>3. observed'[c].time = observed[c].time
          BY <2>1, <3>1
        <4> QED BY <2>2, <3>3, <4>2, <4>3
      <3> QED BY <1>9, <2>5, <3>2, <3>3
    <2>6. \A c : IsNearest(c, S, t) => c \in T
      BY <1>9 DEF IsNearest
    <2> QED BY <2>4, <2>5, <2>6
  <1>10. /\ Within(Valid, t)' = Within(Valid, t)
         /\ IsNearest(m.context, Valid, t) /\ Within(Valid, t) # {}
              => IsNearest(m.context, Valid, t)'
    <2>1. /\ {c \in Valid' : Delta(t, observed'[c].time) <= Tolerance} = Within(Valid, t)
          /\ \A c : IsNearest(c, Valid, t) /\ Within(Valid, t) # {}
               => /\ c \in Valid'
                  /\ \A d \in Valid' : LET near == Delta(t, observed'[c].time)
                                       far == Delta(t, observed'[d].time)
                                   IN  near < far \/ (near = far /\ c <= d)
      BY <1>8, <1>9
    <2>2. Within(Valid, t)' = {c \in Valid' : Delta(t, observed'[c].time) <= Tolerance}
      BY DEF Within
    <2>3. ASSUME IsNearest(m.context, Valid, t), Within(Valid, t) # {}
          PROVE  IsNearest(m.context, Valid, t)'
      BY <2>1, <2>3 DEF IsNearest
    <2> QED BY <2>1, <2>2, <2>3
  <1>11. /\ Within(Invalid, t)' = Within(Invalid, t)
         /\ IsNearest(m.context, Invalid, t) /\ Within(Invalid, t) # {}
              => IsNearest(m.context, Invalid, t)'
    <2>1. /\ {c \in Invalid' : Delta(t, observed'[c].time) <= Tolerance} = Within(Invalid, t)
          /\ \A c : IsNearest(c, Invalid, t) /\ Within(Invalid, t) # {}
               => /\ c \in Invalid'
                  /\ \A d \in Invalid' : LET near == Delta(t, observed'[c].time)
                                       far == Delta(t, observed'[d].time)
                                   IN  near < far \/ (near = far /\ c <= d)
      BY <1>8, <1>9
    <2>2. Within(Invalid, t)' = {c \in Invalid' : Delta(t, observed'[c].time) <= Tolerance}
      BY DEF Within
    <2>3. ASSUME IsNearest(m.context, Invalid, t), Within(Invalid, t) # {}
          PROVE  IsNearest(m.context, Invalid, t)'
      BY <2>1, <2>3 DEF IsNearest
    <2> QED BY <2>1, <2>2, <2>3
  <1>12. t = arrived'[m.input]
    BY <1>1, <1>t
  <1> QED BY <1>3, <1>7, <1>10, <1>11, <1>12, <1>t DEF Agrees

\* The types of a match row.
LEMMA MatchTypes ==
  ASSUME TypeOK, NEW i \in Matched
  PROVE  /\ matches[i].input \in 1 .. Len(arrived)
         /\ arrived[matches[i].input] \in Time
  <1> DEFINE rows == [input : 1 .. Len(arrived), status : Status, context : 0 .. Len(observed)]
  <1>1. matches \in Seq(rows) /\ arrived \in Seq(Time)
    BY DEF TypeOK
  <1>2. matches[i] \in rows
    <2> HIDE DEF rows
    <2> QED BY <1>1, ElementOfSeq DEF Matched
  <1>3. matches[i].input \in 1 .. Len(arrived)
    BY <1>2
  <1> QED BY <1>1, <1>3

\* A row says of the same contexts and inputs the same as before.
LEMMA AgreesSame ==
  ASSUME NEW m, Agrees(m), observed' = observed, arrived'[m.input] = arrived[m.input]
  PROVE  Agrees(m)'
  <1>1. Valid' = Valid /\ Invalid' = Invalid
    BY DEF Valid, Invalid
  <1>2. PICK t : t = arrived[m.input]
    OBVIOUS
  <1>3. Within(Valid, t)' = Within(Valid, t) /\ Within(Invalid, t)' = Within(Invalid, t)
    BY <1>1 DEF Within
  <1>4. /\ IsNearest(m.context, Valid, t)' <=> IsNearest(m.context, Valid, t)
        /\ IsNearest(m.context, Invalid, t)' <=> IsNearest(m.context, Invalid, t)
    BY <1>1 DEF IsNearest
  <1> QED BY <1>2, <1>3, <1>4 DEF Agrees

\* Every step keeps the rows right, and settled while contexts may come.
LEMMA VerdictNext ==
  ASSUME EnoughRetention, QueueInv, VerdictInv, [Next]_vars
  PROVE  VerdictInv'
  <1>1. TypeOK /\ Len(matches) \in Nat
    BY DEF QueueInv, TypeOK
  <1>2. CASE NewContext
    <2>1. mode = "idle" /\ mode' = "ready" /\ matches' = matches /\ arrived' = arrived
      BY <1>2 DEF NewContext, AddContext
    <2>2. ASSUME NEW i \in Matched
          PROVE  /\ Agrees(matches[i])'
                 /\ observed' # << >> /\ arrived[matches[i].input] + Tolerance <= LastTime'
      <3>1. PICK m : m = matches[i]
        OBVIOUS
      <3>2. arrived[m.input] \in Time /\ Agrees(m)
            /\ observed # << >> /\ arrived[m.input] + Tolerance <= LastTime
        BY <1>1, <2>1, <3>1, MatchTypes DEF VerdictInv, VerdictsAreFinal, MatchesAreSettled, Matched
      <3>3. Agrees(m)' /\ observed' # << >> /\ LastTime' \in Nat /\ LastTime <= LastTime'
        BY <1>2, <3>2, VerdictStaysRight
      <3>4. LastTime \in Nat
        BY <1>1, LastTimeType
      <3>5. matches'[i] = m /\ arrived[matches[i].input] \in Nat /\ Tolerance \in Nat
        BY <2>1, <3>1, <3>2, TimesAreNumbers, TimesAssumption
      <3>6. arrived[matches[i].input] + Tolerance <= LastTime'
        BY <3>1, <3>2, <3>3, <3>4, <3>5
      <3> QED BY <3>3, <3>5, <3>6
    <2> QED BY <2>1, <2>2 DEF VerdictInv, VerdictsAreFinal, MatchesAreSettled, Matched
  <1>3. CASE NewInput
    <2>1. PICK time \in Time : AddInput(time)
      BY <1>3 DEF NewInput
    <2>2. mode = "idle" /\ matches' = matches /\ arrived' = Append(arrived, time)
          /\ observed' = observed
      BY <2>1 DEF AddInput
    <2>3. \A j \in 1 .. Len(arrived) : arrived'[j] = arrived[j]
      BY <1>1, <2>2 DEF TypeOK
    <2>4. LastTime' = LastTime
      BY <2>2 DEF LastTime
    <2>5. ASSUME NEW i \in Matched
          PROVE  Agrees(matches[i])' /\ arrived'[matches[i].input] = arrived[matches[i].input]
      <3>1. PICK m : m = matches[i]
        OBVIOUS
      <3>2. arrived'[m.input] = arrived[m.input] /\ Agrees(m)
        BY <1>1, <2>3, <3>1, MatchTypes DEF VerdictInv, VerdictsAreFinal, Matched
      <3>3. Agrees(m)'
        BY <2>2, <3>2, AgreesSame
      <3> QED BY <2>2, <3>1, <3>2, <3>3
    <2> QED BY <2>2, <2>4, <2>5 DEF VerdictInv, VerdictsAreFinal, MatchesAreSettled, Matched
  <1>4. CASE FinalizeReady \/ FinalizePending
    <2>1. /\ pending # << >> /\ FinalizeFront /\ mode' = mode /\ mode \in {"ready", "finishing"}
          /\ observed' = observed /\ arrived' = arrived
      BY <1>4 DEF FinalizeReady, FinalizePending, FrontIsReady, FinalizeFront
    <2>2. LastTime' = LastTime
      BY <2>1 DEF LastTime
    <2>3. ASSUME NEW i \in Matched PROVE Agrees(matches[i])' /\ matches'[i] = matches[i]
      <3>1. PICK m : m = matches[i]
        OBVIOUS
      <3>2. Agrees(m)
        BY <3>1 DEF VerdictInv, VerdictsAreFinal, Matched
      <3>3. Agrees(m)' /\ matches'[i] = matches[i]
        BY <2>1, <3>2, AgreesSame, FrontIsMatched
      <3> QED BY <3>1, <3>3
    <2>4. PICK m : m = matches'[Len(matches')]
      OBVIOUS
    <2>5. /\ m.input = Head(pending) /\ m.status = Verdict(FrontTime).status
          /\ m.context = Verdict(FrontTime).context
      BY <1>1, <2>1, <2>4, FrontIsMatched
    <2>6. arrived[m.input] = FrontTime /\ FrontTime \in Time
      BY <2>1, <2>5, FrontIsMatched DEF FrontTime
    <2>7. 1 \in Waiting /\ FrontTime = arrived[pending[1]] /\ FrontTime \in Nat
      BY <1>1, <2>1, FrontIsMatched, WaitingTypes
    <2>8. Agrees(m)'
      <3>1. Len(observed) > 1 => FrontTime + Tolerance + MaxLate + MaxGap >= LastTime
        BY <2>7 DEF QueueInv, WaitingAreRecent
      <3>2. Agrees(m)
        BY <2>5, <2>6, <3>1, VerdictIsRight
      <3> QED BY <2>1, <3>2, AgreesSame
    <2>9. ASSUME mode = "ready"
          PROVE  observed # << >> /\ FrontTime + Tolerance <= LastTime
      <3>1. newestTime >= FrontTime + Tolerance
        BY <1>4, <2>9 DEF FinalizeReady, FinalizePending, FrontIsReady
      <3>2. observed # << >> /\ newestTime = LastTime /\ LastTime \in Nat
        BY <1>1, <2>9, LastTimeType DEF QueueInv, ReadyKnowsNewest
      <3> QED BY <2>7, <3>1, <3>2, TimesAssumption
    <2>10. \A i \in Matched' : i \in Matched \/ i = Len(matches')
      BY <1>1, <2>1, FrontIsMatched DEF Matched
    <2>11. ASSUME NEW i \in Matched' PROVE Agrees(matches[i])'
      <3>1. CASE i \in Matched
        BY <2>3, <3>1
      <3>2. CASE i = Len(matches')
        <4>1. matches'[i] = m
          BY <2>4, <3>2
        <4> QED BY <2>8, <4>1
      <3> QED BY <2>10, <3>1, <3>2
    <2>12. MatchesAreSettled'
      <3> SUFFICES ASSUME mode' \in {"idle", "ready"}, NEW i \in Matched'
                   PROVE  /\ observed # << >>
                          /\ arrived[matches'[i].input] + Tolerance <= LastTime
        BY <2>1, <2>2 DEF MatchesAreSettled
      <3>1. mode = "ready"
        BY <2>1
      <3>2. CASE i \in Matched
        BY <2>3, <3>1, <3>2 DEF VerdictInv, MatchesAreSettled
      <3>3. CASE i = Len(matches')
        BY <2>4, <2>6, <2>9, <3>1, <3>3
      <3> QED BY <2>10, <3>2, <3>3
    <2> QED BY <2>11, <2>12 DEF VerdictInv, VerdictsAreFinal, Matched
  <1>5. CASE ReadyDone \/ StartFinish \/ FinishDone \/ UNCHANGED vars
    <2>1. /\ observed' = observed /\ arrived' = arrived /\ matches' = matches
          /\ mode' \in {"idle", "ready"} => mode \in {"idle", "ready"}
      BY <1>5 DEF ReadyDone, StartFinish, FinishDone, vars
    <2>2. LastTime' = LastTime
      BY <2>1 DEF LastTime
    <2>3. ASSUME NEW i \in Matched PROVE Agrees(matches[i])'
      <3>1. PICK m : m = matches[i]
        OBVIOUS
      <3>2. Agrees(m)'
        BY <2>1, <3>1, AgreesSame DEF VerdictInv, VerdictsAreFinal, Matched
      <3> QED BY <2>1, <3>1, <3>2
    <2> QED BY <2>1, <2>2, <2>3 DEF VerdictInv, VerdictsAreFinal, MatchesAreSettled, Matched
  <1> QED BY <1>2, <1>3, <1>4, <1>5 DEF Next

\* With enough retention the rows are right in every reachable state.
LEMMA VerdictInvariant == EnoughRetention => (Spec => []VerdictInv)
  <1> SUFFICES ASSUME EnoughRetention PROVE Spec => []VerdictInv
    OBVIOUS
  <1>1. Init => VerdictInv
    BY DEF Init, VerdictInv, MatchesAreSettled, VerdictsAreFinal, Matched
  <1>2. QueueInv /\ VerdictInv /\ [Next]_vars => VerdictInv'
    BY VerdictNext
  <1> QED BY <1>1, <1>2, QueueInvariant, PTL DEF Spec

\* Of two nearest contexts, the one of the later input is not the earlier:
\* the times of contexts increase, and of two equally near the first is taken.
LEMMA NearestKeepsOrder ==
  ASSUME TypeOK, TimesIncrease, NEW S \in SUBSET Recorded, NEW t \in Time, NEW u \in Time,
         t <= u, NEW c, IsNearest(c, S, t), NEW d, IsNearest(d, S, u)
  PROVE  c <= d
  <1>1. c \in S /\ d \in S /\ c \in Int /\ d \in Int
    BY DEF IsNearest, Recorded
  <1>2. SUFFICES ASSUME d < c PROVE FALSE
    BY <1>1
  <1>3. /\ observed[d].time < observed[c].time
        /\ observed[d].time \in Nat /\ observed[c].time \in Nat /\ t \in Nat /\ u \in Nat
    BY <1>1, <1>2, RecordedTypes, TimesAreNumbers DEF TimesIncrease
  <1>4. Delta(t, observed[c].time) < Delta(t, observed[d].time)
    BY <1>1, <1>2 DEF IsNearest
  <1>5. Delta(u, observed[d].time) <= Delta(u, observed[c].time)
    BY <1>1, <1>3 DEF IsNearest, Delta
  <1> QED BY <1>3, <1>4, <1>5 DEF Delta

-----------------------------------------------------------------------------
\* The deques hold recorded contexts and the rows name recorded contexts and
\* inputs, for every tolerance, retention and timing.
THEOREM CorrelatorTypeOK == Spec => []TypeOK
  <1>1. QueueInv => TypeOK
    BY DEF QueueInv
  <1> QED BY <1>1, QueueInvariant, PTL

\* record_match is called once for every recorded input, in the order of the
\* inputs, and whatever is not yet matched still waits in pending_.
THEOREM InputsAreMatchedOnce == Spec => []EachInputOnce
  <1>1. QueueInv => EachInputOnce
    <2> SUFFICES ASSUME QueueInv PROVE EachInputOnce
      OBVIOUS
    <2> DEFINE done == [i \in 1 .. Len(matches) |-> matches[i].input]
    <2>1. /\ Len(matches) \in Nat /\ Len(pending) \in Nat /\ Len(arrived) \in Nat
          /\ pending \in Seq(1 .. Len(arrived)) /\ QueueIsServedInOrder
      BY DEF QueueInv, TypeOK
    <2>2. done \in Seq(Nat) /\ Len(done) = Len(matches)
          /\ \A i \in 1 .. Len(matches) : done[i] = i
      BY <2>1 DEF QueueIsServedInOrder, Matched
    <2>3. pending \in Seq(Nat)
      <3>1. 1 .. Len(arrived) \subseteq Nat
        BY <2>1
      <3> QED BY <2>1, <3>1, SeqMonotonic
    <2> HIDE DEF done
    <2>4. /\ done \o pending \in Seq(Nat)
          /\ Len(done \o pending) = Len(arrived)
          /\ \A i \in 1 .. Len(done) + Len(pending) :
               (done \o pending)[i] = IF i <= Len(done) THEN done[i] ELSE pending[i - Len(done)]
      <3>1. /\ done \o pending \in Seq(Nat)
            /\ Len(done \o pending) = Len(done) + Len(pending)
            /\ \A i \in 1 .. Len(done) + Len(pending) :
                 (done \o pending)[i] = IF i <= Len(done) THEN done[i] ELSE pending[i - Len(done)]
        BY <2>2, <2>3, ConcatProperties
      <3>2. Len(done) + Len(pending) = Len(arrived)
        BY <2>1, <2>2 DEF QueueIsServedInOrder
      <3> QED BY <3>1, <3>2
    <2>5. ASSUME NEW i \in 1 .. Len(arrived) PROVE (done \o pending)[i] = i
      <3>1. /\ i \in 1 .. Len(done) + Len(pending) /\ Len(done) \in Nat
            /\ Len(done) = Len(matches)
        BY <2>1, <2>2 DEF QueueIsServedInOrder
      <3>2. CASE i <= Len(done)
        BY <2>2, <2>4, <3>1, <3>2
      <3>3. CASE ~ (i <= Len(done))
        <4>1. i - Len(matches) \in Waiting
          BY <2>1, <3>1, <3>3 DEF Waiting
        <4>2. pending[i - Len(matches)] = i
          BY <2>1, <3>1, <4>1 DEF QueueIsServedInOrder
        <4> QED BY <2>4, <3>1, <3>3, <4>2
      <3> QED BY <3>2, <3>3
    <2>6. done \o pending = [i \in 1 .. Len(arrived) |-> i]
      BY <2>1, <2>4, <2>5, CountingSeq
    <2> QED BY <2>6 DEF EachInputOnce, done
  <1> QED BY <1>1, QueueInvariant, PTL

\* Between two calls the front of pending_ is one that finalize_ready() had
\* to leave, and the inputs behind it are at most MaxLate older.
THEOREM WaitingIsNecessary == Spec => []PendingIsUndecided
  <1>1. QueueInv => PendingIsUndecided
    BY DEF QueueInv
  <1> QED BY <1>1, QueueInvariant, PTL

\* With enough retention no eviction and no later context changes what the
\* row of an input should have said.
THEOREM VerdictsNeverChange == EnoughRetention => (Spec => []VerdictsAreFinal)
  <1> SUFFICES ASSUME EnoughRetention PROVE Spec => []VerdictsAreFinal
    OBVIOUS
  <1>1. VerdictInv => VerdictsAreFinal
    BY DEF VerdictInv
  <1> QED BY <1>1, VerdictInvariant, PTL

\* With enough retention the matched contexts are in the order of the inputs'
\* times, which the derivation needs when it subtracts their times.
THEOREM MatchesAreOrdered == EnoughRetention => (Spec => []MatchesKeepOrder)
  <1> SUFFICES ASSUME EnoughRetention PROVE Spec => []MatchesKeepOrder
    OBVIOUS
  <1>1. QueueInv /\ VerdictsAreFinal => MatchesKeepOrder
    <2> SUFFICES ASSUME QueueInv, VerdictsAreFinal, NEW i \in Matched, NEW j \in Matched,
                        matches[i].status = "matched", matches[j].status = "matched",
                        arrived[matches[i].input] <= arrived[matches[j].input]
                 PROVE  matches[i].context <= matches[j].context
      BY DEF MatchesKeepOrder, Matched
    <2>1. \A k \in Matched : matches[k].status = "matched" =>
            IsNearest(matches[k].context, Valid, arrived[matches[k].input])
      <3> SUFFICES ASSUME NEW k \in Matched, matches[k].status = "matched"
                   PROVE  IsNearest(matches[k].context, Valid, arrived[matches[k].input])
        OBVIOUS
      <3>1. Agrees(matches[k])
        BY DEF VerdictsAreFinal, Matched
      <3> QED BY <3>1 DEF Agrees
    <2>2. arrived[matches[i].input] \in Time /\ arrived[matches[j].input] \in Time
      BY MatchTypes DEF QueueInv
    <2>3. Valid \subseteq Recorded
      BY DEF Valid, Recorded
    <2> QED BY <2>1, <2>2, <2>3, NearestKeepsOrder DEF QueueInv
  <1>2. VerdictInv => VerdictsAreFinal
    BY DEF VerdictInv
  <1> QED BY <1>1, <1>2, QueueInvariant, VerdictInvariant, PTL
=============================================================================
