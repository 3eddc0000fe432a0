------------------------- MODULE ContextQueueProofs -------------------------
(***************************************************************************)
(* Proofs, for every capacity, that the context queue stays bounded, loses  *)
(* only the oldest samples, accounts for each of them and delivers them in  *)
(* order.                                                                   *)
(***************************************************************************)
EXTENDS ContextQueue, TLAPS

\* What has been taken is older than what is queued: the missing link between
\* NewestKept and TakenInOrder.
TakenBeforeQueued ==
  \A i \in 1 .. Len(taken) : taken[i] <= attempted - Len(snapshots)

\* The inductive invariant.  Bounded is needed to know that an overflow drops
\* exactly one sample; Accounting keeps attempted - Len(snapshots) >= 0.
IInv == /\ TypeOK
        /\ Bounded
        /\ Accounting
        /\ NewestKept
        /\ TakenInOrder
        /\ TakenBeforeQueued

-----------------------------------------------------------------------------
\* Tail drops the first element and shifts the others down by one.
LEMMA TailOfSeq ==
  ASSUME NEW s \in Seq(Nat), s # << >>
  PROVE  /\ Tail(s) \in Seq(Nat)
         /\ Head(s) \in Nat
         /\ Head(s) = s[1]
         /\ Len(s) \in Nat \ {0}
         /\ Len(Tail(s)) = Len(s) - 1
         /\ \A i \in 1 .. Len(s) - 1 : Tail(s)[i] = s[i + 1]
  OBVIOUS

\* Append adds one element at the end and keeps the others.
LEMMA AppendToSeq ==
  ASSUME NEW s \in Seq(Nat), NEW e \in Nat
  PROVE  /\ Append(s, e) \in Seq(Nat)
         /\ Len(Append(s, e)) = Len(s) + 1
         /\ Append(s, e)[Len(s) + 1] = e
         /\ \A i \in 1 .. Len(s) : Append(s, e)[i] = s[i]
  OBVIOUS

\* The invariant holds of the empty queue.
LEMMA InitInvariant == Init => IInv
  BY CapacityAssumption
  DEF Init, IInv, TypeOK, Bounded, Accounting, NewestKept, TakenInOrder, TakenBeforeQueued

\* push preserves the invariant, whether the queue is full or not.
LEMMA PushInvariant == IInv /\ Push => IInv'
  <1> SUFFICES ASSUME IInv, Push PROVE IInv'
    OBVIOUS
  <1> USE DEF IInv, TypeOK
  <1>1. CASE /\ Full
             /\ snapshots' = Append(Tail(snapshots), attempted + 1)
             /\ dropped' = dropped + 1
    <2>1. Len(snapshots) = Capacity /\ snapshots # << >>
      BY <1>1, CapacityAssumption DEF Full, Bounded
    <2> DEFINE rest == Tail(snapshots)
    <2>2. /\ rest \in Seq(Nat)
          /\ Len(rest) = Len(snapshots) - 1
          /\ \A i \in 1 .. Len(snapshots) - 1 : rest[i] = snapshots[i + 1]
      BY <2>1, TailOfSeq
    <2>3. attempted + 1 \in Nat /\ attempted' = attempted + 1 /\ taken' = taken
      BY DEF Push
    <2> HIDE DEF rest
    <2>4. /\ snapshots' \in Seq(Nat)
          /\ Len(snapshots') = Len(snapshots)
          /\ snapshots'[Len(snapshots)] = attempted + 1
          /\ \A i \in 1 .. Len(snapshots) - 1 : snapshots'[i] = snapshots[i + 1]
      BY <1>1, <2>1, <2>2, <2>3, AppendToSeq, CapacityAssumption DEF rest
    <2>5. TypeOK' /\ Bounded' /\ Accounting'
      BY <1>1, <2>3, <2>4 DEF Bounded, Accounting
    <2>6. NewestKept'
      <3>1. ASSUME NEW i \in 1 .. Len(snapshots')
            PROVE snapshots'[i] = attempted' - Len(snapshots') + i
        <4>1. CASE i = Len(snapshots)
          BY <4>1, <2>3, <2>4
        <4>2. CASE i \in 1 .. Len(snapshots) - 1
          BY <4>2, <2>3, <2>4 DEF NewestKept
        <4> QED BY <4>1, <4>2, <2>4, <2>1, CapacityAssumption
      <3> QED BY <3>1 DEF NewestKept
    <2>7. TakenInOrder' /\ TakenBeforeQueued'
      BY <2>3, <2>4 DEF TakenInOrder, TakenBeforeQueued
    <2> QED BY <2>5, <2>6, <2>7
  <1>2. CASE /\ ~Full
             /\ snapshots' = Append(snapshots, attempted + 1)
             /\ dropped' = dropped
    <2>1. attempted + 1 \in Nat /\ attempted' = attempted + 1 /\ taken' = taken
      BY DEF Push
    <2>2. /\ snapshots' \in Seq(Nat)
          /\ Len(snapshots') = Len(snapshots) + 1
          /\ snapshots'[Len(snapshots) + 1] = attempted + 1
          /\ \A i \in 1 .. Len(snapshots) : snapshots'[i] = snapshots[i]
      BY <1>2, <2>1, AppendToSeq
    <2>3. TypeOK' /\ Bounded' /\ Accounting'
      BY <1>2, <2>1, <2>2, CapacityAssumption DEF Full, Bounded, Accounting
    <2>4. NewestKept'
      <3>1. ASSUME NEW i \in 1 .. Len(snapshots')
            PROVE snapshots'[i] = attempted' - Len(snapshots') + i
        <4>1. CASE i = Len(snapshots) + 1
          BY <4>1, <2>1, <2>2
        <4>2. CASE i \in 1 .. Len(snapshots)
          BY <4>2, <2>1, <2>2 DEF NewestKept
        <4> QED BY <4>1, <4>2, <2>2
      <3> QED BY <3>1 DEF NewestKept
    <2>5. TakenInOrder' /\ TakenBeforeQueued'
      BY <2>1, <2>2 DEF TakenInOrder, TakenBeforeQueued
    <2> QED BY <2>3, <2>4, <2>5
  <1> QED BY <1>1, <1>2 DEF Push

\* pop preserves the invariant.
LEMMA PopInvariant == IInv /\ Pop => IInv'
  <1> SUFFICES ASSUME IInv, Pop PROVE IInv'
    OBVIOUS
  <1> USE DEF IInv, TypeOK
  <1>1. /\ snapshots' \in Seq(Nat)
        /\ Head(snapshots) \in Nat
        /\ Head(snapshots) = attempted - Len(snapshots) + 1
        /\ Len(snapshots) \in Nat \ {0}
        /\ Len(snapshots') = Len(snapshots) - 1
        /\ \A i \in 1 .. Len(snapshots) - 1 : snapshots'[i] = snapshots[i + 1]
    BY TailOfSeq DEF Pop, NewestKept
  <1>2. /\ taken' \in Seq(Nat)
        /\ Len(taken') = Len(taken) + 1
        /\ taken'[Len(taken) + 1] = Head(snapshots)
        /\ \A i \in 1 .. Len(taken) : taken'[i] = taken[i]
    BY <1>1, AppendToSeq DEF Pop
  <1>3. attempted' = attempted /\ dropped' = dropped
    BY DEF Pop
  <1>4. TypeOK' /\ Bounded' /\ Accounting'
    BY <1>1, <1>2, <1>3, CapacityAssumption DEF Bounded, Accounting
  <1>5. NewestKept'
    BY <1>1, <1>3 DEF NewestKept
  <1>6. TakenInOrder'
    <2>1. ASSUME NEW i \in 1 .. Len(taken'), NEW j \in 1 .. Len(taken'), i < j
          PROVE  taken'[i] < taken'[j]
      <3>1. i \in 1 .. Len(taken)
        BY <2>1, <1>2
      <3>2. CASE j = Len(taken) + 1
        BY <3>1, <3>2, <1>1, <1>2 DEF TakenBeforeQueued
      <3>3. CASE j \in 1 .. Len(taken)
        BY <2>1, <3>1, <3>3, <1>2 DEF TakenInOrder
      <3> QED BY <3>2, <3>3, <1>2
    <2> QED BY <2>1 DEF TakenInOrder
  <1>7. TakenBeforeQueued'
    <2>1. ASSUME NEW i \in 1 .. Len(taken')
          PROVE  taken'[i] <= attempted' - Len(snapshots')
      <3>1. CASE i = Len(taken) + 1
        BY <3>1, <1>1, <1>2, <1>3
      <3>2. CASE i \in 1 .. Len(taken)
        <4>1. taken'[i] = taken[i] /\ taken[i] \in Nat
          BY <3>2, <1>2
        <4>2. taken[i] <= attempted - Len(snapshots)
          BY <3>2 DEF TakenBeforeQueued
        <4> QED BY <1>1, <1>3, <4>1, <4>2
      <3> QED BY <3>1, <3>2, <1>2
    <2> QED BY <2>1 DEF TakenBeforeQueued
  <1> QED BY <1>4, <1>5, <1>6, <1>7

\* A stuttering step preserves the invariant.
LEMMA StutterInvariant == IInv /\ UNCHANGED vars => IInv'
  BY DEF IInv, TypeOK, Bounded, Accounting, NewestKept, TakenInOrder, TakenBeforeQueued, vars

\* The invariant is inductive.
LEMMA Inductive == Spec => []IInv
  <1>1. IInv /\ [Next]_vars => IInv'
    BY PushInvariant, PopInvariant, StutterInvariant DEF Next
  <1> QED BY InitInvariant, <1>1, PTL DEF Spec

\* For every capacity, the queue and its counter keep their types and the
\* queue never exceeds its capacity.
THEOREM QueueBounded == Spec => [](TypeOK /\ Bounded)
  <1>1. IInv => TypeOK /\ Bounded
    BY DEF IInv
  <1> QED BY Inductive, <1>1, PTL

\* For every capacity, the queue's state is always of its types.
THEOREM QueueTypeOK == Spec => []TypeOK
  BY QueueBounded, PTL

\* For every capacity, each sample is popped, queued or counted as dropped.
THEOREM QueueAccounting == Spec => []Accounting
  <1>1. IInv => Accounting
    BY DEF IInv
  <1> QED BY Inductive, <1>1, PTL

\* For every capacity, overflow discards only the oldest samples and the
\* main thread sees the others in order, each once.
THEOREM QueueOrder == Spec => [](NewestKept /\ TakenInOrder)
  <1>1. IInv => NewestKept /\ TakenInOrder
    BY DEF IInv
  <1> QED BY Inductive, <1>1, PTL

\* For every capacity, a popped sample is one of the last Capacity attempts.
THEOREM QueueFreshness == Spec => TakenIsRecent
  <1>1. IInv /\ [Next]_vars
          => [taken' # taken => taken'[Len(taken')] > attempted - Capacity]_vars
    <2> SUFFICES ASSUME IInv, Next, taken' # taken
                 PROVE  taken'[Len(taken')] > attempted - Capacity
      OBVIOUS
    <2> USE DEF IInv, TypeOK
    <2>1. Pop
      BY DEF Next, Push
    <2>2. /\ Head(snapshots) \in Nat
          /\ Head(snapshots) = attempted - Len(snapshots) + 1
      BY <2>1, TailOfSeq DEF Pop, NewestKept
    <2>3. /\ Len(taken') = Len(taken) + 1
          /\ taken'[Len(taken) + 1] = Head(snapshots)
      BY <2>1, <2>2, AppendToSeq DEF Pop
    <2> QED BY <2>2, <2>3, CapacityAssumption DEF Bounded
  <1> QED BY Inductive, <1>1, PTL DEF Spec, TakenIsRecent
=============================================================================
