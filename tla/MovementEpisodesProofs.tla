----------------------- MODULE MovementEpisodesProofs -----------------------
(***************************************************************************)
(* Proofs about MovementEpisodes, for every number of devices, runs and     *)
(* rows and every idle gap: each motion is in exactly one episode, and each *)
(* episode is what the specification document asks for.                     *)
(*                                                                          *)
(* The open episode of a device is an unbroken sequence of motions, and no  *)
(* row of the device that matters comes after its last one.  Both are kept  *)
(* by every row, so that what a close pushes is an episode as specified;    *)
(* rows that come later leave it one.  The operators have the evidence as   *)
(* a parameter, so that the lemmas can speak of it before and after a row.  *)
(*                                                                          *)
(* The second part is about the metrics and the points of an episode in     *)
(* MovementMetrics.  The sums carried from point to point are those of the  *)
(* metrics as long as the flags say that no motion lacked its part, which   *)
(* needs the recursions over the motions; the reversals are counted from    *)
(* one motion that moved to the next, and so are the steps of the points.   *)
(***************************************************************************)
EXTENDS MovementEpisodes, MovementMetrics, FiniteSetTheorems, WellFoundedInduction, TLAPS

Reason == {"idle_gap", "button_down", "run_end"}

\* Row i is of the device in the run, and continues or ends episodes.
Matters(rows, key, i) ==
  /\ i \in 1 .. Len(rows)
  /\ KeyOf(rows[i]) = key
  /\ rows[i].kind \in {"MOTION", "BUTTON_DOWN"}

\* j is the first row after i that matters; none after i does.
Follows(rows, key, i, j) ==
  /\ Matters(rows, key, j)
  /\ j > i
  /\ \A k \in 1 .. Len(rows) : (Matters(rows, key, k) /\ k > i) => j <= k
Quiet(rows, key, i) == \A j \in 1 .. Len(rows) : Matters(rows, key, j) => j <= i

\* The members are motions of the device, each the next one and in time.
Unbroken(rows, key, members) ==
  /\ members \in Seq(1 .. Len(rows))
  /\ \A k \in 1 .. Len(members) :
       KeyOf(rows[members[k]]) = key /\ rows[members[k]].kind = "MOTION"
  /\ \A k \in 2 .. Len(members) :
       /\ Follows(rows, key, members[k - 1], members[k])
       /\ rows[members[k]].time - rows[members[k - 1]].time <= IdleGap

\* An open episode can go on: what came after its last motion is not its own.
CanGoOn(rows, key, members) ==
  /\ Unbroken(rows, key, members)
  /\ members # << >> => Quiet(rows, key, members[Len(members)])

EpisodeKey(e) == <<e.run, e.device>>

EndsInGap(rows, e) ==
  LET last == LastMotion(e)
  IN  /\ \E j \in 1 .. Len(rows) : /\ Follows(rows, EpisodeKey(e), last, j)
                                   /\ rows[j].time - rows[last].time > IdleGap
      /\ e.end = rows[last].time

EndsAtButton(rows, e) ==
  LET last == LastMotion(e)
  IN  \E j \in 1 .. Len(rows) : /\ Follows(rows, EpisodeKey(e), last, j)
                                /\ j = e.members[Len(e.members)]
                                /\ rows[j].kind = "BUTTON_DOWN"
                                /\ rows[j].time - rows[last].time <= IdleGap
                                /\ e.end = rows[j].time

EndsWithRun(rows, e) ==
  /\ Quiet(rows, EpisodeKey(e), LastMotion(e))
  /\ e.end = rows[LastMotion(e)].time

\* A closed episode: AsSpecified, with the types.
EpisodeOK(rows, e) ==
  /\ EpisodeKey(e) \in Key
  /\ e.reason \in Reason
  /\ Unbroken(rows, EpisodeKey(e), Motions(e))
  /\ Motions(e) # << >>
  /\ e.start = rows[Motions(e)[1]].time
  /\ e.reason = "idle_gap" => EndsInGap(rows, e)
  /\ e.reason = "button_down" => EndsAtButton(rows, e)
  /\ e.reason = "run_end" => EndsWithRun(rows, e)

Among(i, members) == \E k \in 1 .. Len(members) : members[k] = i

-----------------------------------------------------------------------------
TypeInv == /\ evidence \in Seq(Item)
           /\ DOMAIN active = Key
           /\ done \in BOOLEAN

\* Nothing is open once the pass is over, and only then is a run_end there.
DoneInv == IF done THEN \A key \in Key : active[key] = << >>
                   ELSE \A e \in episodes : e.reason # "run_end"

ActiveInv == \A key \in Key : CanGoOn(evidence, key, active[key])
EpisodeInv == \A e \in episodes : EpisodeOK(evidence, e)

\* Each motion is in the open episode of its device or in a closed one; no
\* two episodes share a motion.
Covered == \A i \in Positions : evidence[i].kind = "MOTION" =>
             \/ Among(i, active[KeyOf(evidence[i])])
             \/ \E e \in episodes : Among(i, Motions(e))
ClosedApart == \A e, f \in episodes : \A i \in Positions :
                 Among(i, Motions(e)) /\ Among(i, Motions(f)) => e = f
OpenApart == \A e \in episodes : \A key \in Key : \A i \in Positions :
               Among(i, Motions(e)) => ~Among(i, active[key])

\* The inductive invariant.
IInv == /\ TypeInv /\ DoneInv
        /\ ActiveInv /\ EpisodeInv
        /\ Covered /\ ClosedApart /\ OpenApart

-----------------------------------------------------------------------------
\* What appending to a sequence makes of it.
LEMMA Appended ==
  ASSUME NEW S, NEW s \in Seq(S), NEW x \in S
  PROVE  /\ Append(s, x) \in Seq(S)
         /\ Len(s) \in Nat
         /\ Len(Append(s, x)) = Len(s) + 1
         /\ \A i \in 1 .. Len(s) : Append(s, x)[i] = s[i]
         /\ Append(s, x)[Len(s) + 1] = x
  OBVIOUS

\* A row that is appended matters to its own device only, and only when it is
\* a motion or a button.
LEMMA MattersAppended ==
  ASSUME NEW rows \in Seq(Item), NEW item \in Item, NEW key, NEW i
  PROVE  Matters(Append(rows, item), key, i) <=>
           \/ Matters(rows, key, i)
           \/ /\ i = Len(rows) + 1 /\ KeyOf(item) = key
              /\ item.kind \in {"MOTION", "BUTTON_DOWN"}
  BY Appended DEF Matters

\* What follows a row goes on following it.
LEMMA FollowsAppended ==
  ASSUME NEW rows \in Seq(Item), NEW item \in Item, NEW key,
         NEW i \in Int, NEW j, Follows(rows, key, i, j)
  PROVE  Follows(Append(rows, item), key, i, j)
  <1>1. Matters(rows, key, j) /\ j \in 1 .. Len(rows) /\ j > i
    BY DEF Follows, Matters
  <1>2. ASSUME NEW k \in 1 .. Len(Append(rows, item)),
               Matters(Append(rows, item), key, k), k > i
        PROVE  j <= k
    <2>1. Matters(rows, key, k) \/ k = Len(rows) + 1
      BY <1>2, MattersAppended
    <2>2. CASE Matters(rows, key, k)
      BY <2>2, <1>2 DEF Follows, Matters
    <2>3. CASE k = Len(rows) + 1
      BY <2>3, <1>1, Appended
    <2> QED BY <2>1, <2>2, <2>3
  <1> QED BY <1>1, <1>2, MattersAppended DEF Follows

\* The members of an episode stay unbroken.
LEMMA UnbrokenAppended ==
  ASSUME NEW rows \in Seq(Item), NEW item \in Item, NEW key, NEW members,
         Unbroken(rows, key, members)
  PROVE  Unbroken(Append(rows, item), key, members)
  <1> DEFINE after == Append(rows, item)
  <1>1. members \in Seq(1 .. Len(rows)) /\ Len(members) \in Nat
    BY DEF Unbroken
  <1>2. \A k \in 1 .. Len(members) : members[k] \in 1 .. Len(rows) /\ after[members[k]] = rows[members[k]]
    BY <1>1, Appended
  <1>3. members \in Seq(1 .. Len(after))
    <2>1. Len(after) = Len(rows) + 1 /\ Len(rows) \in Nat
      BY Appended
    <2> HIDE DEF after
    <2>2. \A k \in 1 .. Len(members) : members[k] \in 1 .. Len(after)
      BY <1>2, <2>1
    <2> QED BY <1>1, <2>2, <2>1
  <1>4. ASSUME NEW k \in 2 .. Len(members)
        PROVE  /\ Follows(after, key, members[k - 1], members[k])
               /\ after[members[k]].time - after[members[k - 1]].time <= IdleGap
    <2>1. k \in 1 .. Len(members) /\ k - 1 \in 1 .. Len(members)
      BY <1>1
    <2>2. /\ Follows(rows, key, members[k - 1], members[k])
          /\ rows[members[k]].time - rows[members[k - 1]].time <= IdleGap
      BY DEF Unbroken
    <2>3. members[k - 1] \in Int
      BY <2>1, <1>2
    <2> QED BY <2>1, <2>2, <2>3, <1>2, FollowsAppended
  <1> QED BY <1>1, <1>2, <1>3, <1>4 DEF Unbroken

\* An episode closed before the end of the pass stays as it is specified.
LEMMA EpisodeAppended ==
  ASSUME NEW rows \in Seq(Item), NEW item \in Item, NEW e,
         EpisodeOK(rows, e), e.reason # "run_end"
  PROVE  EpisodeOK(Append(rows, item), e)
  <1> DEFINE after == Append(rows, item)
             last == LastMotion(e)
  <1>1. Motions(e) \in Seq(1 .. Len(rows)) /\ Motions(e) # << >> /\ Len(Motions(e)) \in Nat \ {0}
    BY DEF EpisodeOK, Unbroken
  <1>2. last \in 1 .. Len(rows) /\ Motions(e)[1] \in 1 .. Len(rows)
    BY <1>1 DEF LastMotion
  <1>3. \A i \in 1 .. Len(rows) : after[i] = rows[i] /\ i \in 1 .. Len(after)
    BY Appended
  <1> HIDE DEF after, last
  <1>4. \A j : Follows(rows, EpisodeKey(e), last, j) =>
                 /\ Follows(after, EpisodeKey(e), last, j)
                 /\ j \in 1 .. Len(rows)
    BY <1>2, FollowsAppended DEF after, Follows, Matters
  <1>5. e.reason = "idle_gap" => EndsInGap(after, e)
    BY <1>2, <1>3, <1>4 DEF EpisodeOK, EndsInGap, last
  <1>6. e.reason = "button_down" => EndsAtButton(after, e)
    BY <1>2, <1>3, <1>4 DEF EpisodeOK, EndsAtButton, last
  <1>7. Unbroken(after, EpisodeKey(e), Motions(e))
    BY UnbrokenAppended DEF EpisodeOK, after
  <1> QED BY <1>1, <1>2, <1>3, <1>5, <1>6, <1>7 DEF EpisodeOK, after

\* A row that is not the device's, or is passed over, lets its episode go on.
LEMMA StillOpen ==
  ASSUME NEW rows \in Seq(Item), NEW item \in Item, NEW key, NEW members,
         CanGoOn(rows, key, members),
         KeyOf(item) # key \/ item.kind = "OTHER"
  PROVE  CanGoOn(Append(rows, item), key, members)
  <1>1. \A j : Matters(Append(rows, item), key, j) => Matters(rows, key, j)
    BY MattersAppended
  <1>2. \A j : Matters(rows, key, j) => j \in 1 .. Len(rows)
    BY DEF Matters
  <1> QED BY <1>1, <1>2, UnbrokenAppended DEF CanGoOn, Quiet

\* A motion in time goes on with the open episode, or starts one.
LEMMA GoesOn ==
  ASSUME NEW rows \in Seq(Item), NEW item \in Item, NEW members,
         CanGoOn(rows, KeyOf(item), members),
         item.kind = "MOTION",
         members # << >> => item.time - rows[members[Len(members)]].time <= IdleGap
  PROVE  CanGoOn(Append(rows, item), KeyOf(item), Append(members, Len(rows) + 1))
  <1> DEFINE after == Append(rows, item)
             n == Len(rows) + 1
             longer == Append(members, n)
             key == KeyOf(item)
  <1>1. Unbroken(after, key, members)
    BY UnbrokenAppended DEF CanGoOn
  <1>2. /\ Len(after) = n /\ after[n] = item /\ n \in Nat \ {0}
        /\ \A i \in 1 .. Len(rows) : after[i] = rows[i]
    BY Appended
  <1>3. members \in Seq(1 .. Len(after)) /\ members \in Seq(1 .. Len(rows))
    BY <1>1 DEF Unbroken, CanGoOn
  <1>4. \A j : Matters(after, key, j) <=> Matters(rows, key, j) \/ j = n
    BY MattersAppended
  <1>5. \A j : Matters(rows, key, j) => j \in 1 .. Len(rows)
    BY DEF Matters
  <1> HIDE DEF after, n, key
  <1>6. /\ longer \in Seq(1 .. Len(after))
        /\ Len(members) \in Nat
        /\ Len(longer) = Len(members) + 1
        /\ \A i \in 1 .. Len(members) : longer[i] = members[i]
        /\ longer[Len(members) + 1] = n
    BY <1>2, <1>3, Appended
  <1> HIDE DEF longer
  <1>7. ASSUME NEW k \in 1 .. Len(longer)
        PROVE  KeyOf(after[longer[k]]) = key /\ after[longer[k]].kind = "MOTION"
    <2>1. CASE k = Len(members) + 1
      BY <2>1, <1>2, <1>6 DEF key
    <2>2. CASE k \in 1 .. Len(members)
      BY <2>2, <1>1, <1>6 DEF Unbroken
    <2> QED BY <2>1, <2>2, <1>6
  <1>8. ASSUME NEW k \in 2 .. Len(longer)
        PROVE  /\ Follows(after, key, longer[k - 1], longer[k])
               /\ after[longer[k]].time - after[longer[k - 1]].time <= IdleGap
    <2>1. CASE k \in 2 .. Len(members)
      <3>1. k \in 1 .. Len(members) /\ k - 1 \in 1 .. Len(members)
        BY <2>1, <1>6
      <3> QED BY <2>1, <3>1, <1>1, <1>6 DEF Unbroken
    <2>2. CASE k = Len(members) + 1
      <3>1. /\ members # << >> /\ k - 1 = Len(members) /\ Len(members) \in 1 .. Len(members)
            /\ members[Len(members)] \in 1 .. Len(rows)
        BY <2>2, <1>3, <1>6
      <3>2. longer[k - 1] = members[Len(members)] /\ longer[k] = n
        BY <2>2, <3>1, <1>6
      <3>3. Quiet(rows, key, members[Len(members)])
        BY <3>1 DEF CanGoOn, key
      <3>4. Follows(after, key, members[Len(members)], n)
        BY <3>1, <3>3, <1>2, <1>4, <1>5 DEF Follows, Quiet, n
      <3>5. after[n].time - after[members[Len(members)]].time <= IdleGap
        BY <3>1, <1>2
      <3> QED BY <3>2, <3>4, <3>5
    <2> QED BY <2>1, <2>2, <1>6
  <1>9. Quiet(after, key, longer[Len(longer)])
    BY <1>2, <1>6 DEF Quiet
  <1> QED BY <1>6, <1>7, <1>8, <1>9 DEF CanGoOn, Unbroken, after, key, longer, n

\* What the open episode of a device becomes when it is closed for its gap by
\* a motion or a button that came too late.
LEMMA ClosedInGap ==
  ASSUME NEW rows \in Seq(Item), NEW item \in Item, NEW members, NEW e,
         CanGoOn(rows, KeyOf(item), members), members # << >>,
         item.kind \in {"MOTION", "BUTTON_DOWN"},
         item.time - rows[members[Len(members)]].time > IdleGap,
         EpisodeKey(e) = KeyOf(item), e.members = members, e.reason = "idle_gap",
         e.start = rows[members[1]].time, e.end = rows[members[Len(members)]].time
  PROVE  EpisodeOK(Append(rows, item), e) /\ Motions(e) = members
  <1> DEFINE after == Append(rows, item)
             last == members[Len(members)]
  <1>1. Motions(e) = members /\ LastMotion(e) = last
    BY DEF Motions, LastMotion
  <1>2. Len(members) \in Nat \ {0} /\ last \in 1 .. Len(rows) /\ members[1] \in 1 .. Len(rows)
    BY DEF CanGoOn, Unbroken
  <1>3. /\ Len(after) = Len(rows) + 1 /\ after[Len(rows) + 1] = item /\ Len(rows) \in Nat
        /\ \A i \in 1 .. Len(rows) : after[i] = rows[i]
    BY Appended
  <1>4. \A j : Matters(after, KeyOf(item), j) <=> Matters(rows, KeyOf(item), j) \/ j = Len(rows) + 1
    BY MattersAppended
  <1>5. Unbroken(after, KeyOf(item), members)
    BY UnbrokenAppended DEF CanGoOn
  <1>6. Quiet(rows, KeyOf(item), last) /\ \A j : Matters(rows, KeyOf(item), j) => j \in 1 .. Len(rows)
    BY DEF CanGoOn, Matters
  <1> HIDE DEF after, last
  <1>7. Follows(after, KeyOf(item), last, Len(rows) + 1)
    BY <1>2, <1>3, <1>4, <1>6 DEF Follows, Quiet
  <1>8. EndsInGap(after, e)
    BY <1>1, <1>2, <1>3, <1>7 DEF EndsInGap, last
  <1>9. EpisodeKey(e) \in Key
    BY DEF KeyOf, Key, Item
  <1> QED BY <1>1, <1>2, <1>3, <1>5, <1>8, <1>9 DEF EpisodeOK, Reason, after

\* What it becomes when a button closes it in time, as its last member.
LEMMA ClosedAtButton ==
  ASSUME NEW rows \in Seq(Item), NEW item \in Item, NEW members, NEW e,
         CanGoOn(rows, KeyOf(item), members), members # << >>,
         item.kind = "BUTTON_DOWN",
         item.time - rows[members[Len(members)]].time <= IdleGap,
         EpisodeKey(e) = KeyOf(item), e.members = Append(members, Len(rows) + 1),
         e.reason = "button_down", e.start = rows[e.members[1]].time, e.end = item.time
  PROVE  EpisodeOK(Append(rows, item), e) /\ Motions(e) = members
  <1> DEFINE after == Append(rows, item)
             last == members[Len(members)]
  <1>1. /\ members \in Seq(1 .. Len(rows)) /\ Len(members) \in Nat \ {0}
        /\ last \in 1 .. Len(rows) /\ members[1] \in 1 .. Len(rows)
    BY DEF CanGoOn, Unbroken
  <1>2. /\ Len(after) = Len(rows) + 1 /\ after[Len(rows) + 1] = item /\ Len(rows) \in Nat
        /\ \A i \in 1 .. Len(rows) : after[i] = rows[i]
    BY Appended
  <1>3. /\ e.members \in Seq(Int)
        /\ Len(e.members) = Len(members) + 1
        /\ \A i \in 1 .. Len(members) : e.members[i] = members[i]
        /\ e.members[Len(members) + 1] = Len(rows) + 1
    BY <1>1, <1>2, Appended
  <1>4. Motions(e) = members
    <2>1. Motions(e) = SubSeq(e.members, 1, Len(members))
      BY <1>1, <1>3 DEF Motions
    <2>2. /\ Len(SubSeq(e.members, 1, Len(members))) = Len(members)
          /\ \A i \in 1 .. Len(members) : SubSeq(e.members, 1, Len(members))[i] = members[i]
          /\ SubSeq(e.members, 1, Len(members)) \in Seq(Int)
      BY <1>1, <1>3
    <2> QED BY <2>1, <2>2, <1>1
  <1>5. \A j : Matters(after, KeyOf(item), j) <=> Matters(rows, KeyOf(item), j) \/ j = Len(rows) + 1
    BY MattersAppended
  <1>6. Unbroken(after, KeyOf(item), members)
    BY UnbrokenAppended DEF CanGoOn
  <1>7. Quiet(rows, KeyOf(item), last) /\ \A j : Matters(rows, KeyOf(item), j) => j \in 1 .. Len(rows)
    BY <1>1 DEF CanGoOn, Matters
  <1>8. LastMotion(e) = last
    BY <1>4 DEF LastMotion
  <1> HIDE DEF after, last
  <1>9. Follows(after, KeyOf(item), last, Len(rows) + 1)
    <2>1. last \in 1 .. Len(rows) /\ Len(after) = Len(rows) + 1 /\ Len(rows) \in Nat
      BY <1>1, <1>2
    <2> QED BY <2>1, <1>5, <1>7 DEF Follows, Quiet
  <1>10. EndsAtButton(after, e)
    <2>1. Len(rows) + 1 \in 1 .. Len(after) /\ after[Len(rows) + 1] = item
      BY <1>2
    <2>2. e.members[Len(e.members)] = Len(rows) + 1
      BY <1>3
    <2>3. item.time - after[last].time <= IdleGap
      BY <1>1, <1>2 DEF last
    <2> QED BY <2>1, <2>2, <2>3, <1>8, <1>9 DEF EndsAtButton
  <1>11. EpisodeKey(e) \in Key
    BY DEF KeyOf, Key, Item
  <1> QED BY <1>1, <1>2, <1>3, <1>4, <1>6, <1>10, <1>11 DEF EpisodeOK, Reason, after

\* What it becomes at the end of the pass.
LEMMA ClosedWithRun ==
  ASSUME NEW rows \in Seq(Item), NEW key \in Key, NEW members, NEW e,
         CanGoOn(rows, key, members), members # << >>,
         EpisodeKey(e) = key, e.members = members, e.reason = "run_end",
         e.start = rows[members[1]].time, e.end = rows[members[Len(members)]].time
  PROVE  EpisodeOK(rows, e) /\ Motions(e) = members
  <1>1. Motions(e) = members /\ LastMotion(e) = members[Len(members)]
    BY DEF Motions, LastMotion
  <1>2. EndsWithRun(rows, e)
    BY <1>1 DEF EndsWithRun, CanGoOn
  <1> QED BY <1>1, <1>2 DEF EpisodeOK, Reason, CanGoOn

-----------------------------------------------------------------------------
\* The empty tables are as the invariant has them.
LEMMA InitInvariant == Init => IInv
  <1> SUFFICES ASSUME Init PROVE IInv
    OBVIOUS
  <1>1. ASSUME NEW key \in Key
        PROVE  CanGoOn(evidence, key, active[key])
    <2>1. active[key] = << >> /\ Len(<< >>) = 0 /\ << >> \in Seq(1 .. Len(evidence))
      BY DEF Init
    <2> QED BY <2>1 DEF CanGoOn, Unbroken
  <1>2. evidence = << >> /\ Len(<< >>) = 0 /\ << >> \in Seq(Item) /\ Positions = {}
    BY DEF Init, Positions
  <1>3. TypeInv /\ DoneInv /\ EpisodeInv
    BY <1>2 DEF Init, TypeInv, DoneInv, EpisodeInv
  <1> QED BY <1>1, <1>2, <1>3 DEF IInv, ActiveInv, Covered, ClosedApart, OpenApart

\* What every row does: it is appended, and the pass is not over.
LEMMA Taken ==
  ASSUME IInv, NEW item \in Item, Take(item)
  PROVE  /\ evidence' = Append(evidence, item) /\ evidence' \in Seq(Item)
         /\ ~done /\ done' = FALSE
         /\ Len(evidence) \in Nat
         /\ Positions' = 1 .. Len(evidence) + 1 /\ Positions = 1 .. Len(evidence)
         /\ \A i \in Positions : evidence'[i] = evidence[i] /\ i \in Positions' /\ i # Len(evidence) + 1
         /\ evidence'[Len(evidence) + 1] = item
         /\ \A i \in Positions' : i \in Positions \/ i = Len(evidence) + 1
         /\ KeyOf(item) \in Key
  <1>1. evidence \in Seq(Item) /\ done \in BOOLEAN
    BY DEF IInv, TypeInv
  <1>2. evidence' = Append(evidence, item) /\ ~done /\ done' = FALSE
    BY <1>1 DEF Take
  <1>3. /\ evidence' \in Seq(Item) /\ Len(evidence) \in Nat /\ Len(evidence') = Len(evidence) + 1
        /\ \A i \in 1 .. Len(evidence) : evidence'[i] = evidence[i]
        /\ evidence'[Len(evidence) + 1] = item
    BY <1>1, <1>2, Appended
  <1>4. KeyOf(item) \in Key
    BY DEF KeyOf, Key, Item
  <1> QED BY <1>2, <1>3, <1>4 DEF Positions

\* The rows so far are of a run and a device.
LEMMA KeysOfRows ==
  ASSUME IInv
  PROVE  \A i \in Positions : KeyOf(evidence[i]) \in Key
  <1>1. \A i \in Positions : evidence[i] \in Item
    BY DEF IInv, TypeInv, Positions
  <1> QED BY <1>1 DEF KeyOf, Key, Item

\* The closed episodes stay as specified when a row comes.
LEMMA EpisodesStay ==
  ASSUME IInv, NEW item \in Item, Take(item), NEW e \in episodes
  PROVE  EpisodeOK(evidence', e)
  <1>1. evidence \in Seq(Item) /\ EpisodeOK(evidence, e)
    BY DEF IInv, TypeInv, EpisodeInv
  <1>2. e.reason # "run_end" /\ evidence' = Append(evidence, item)
    BY Taken DEF IInv, DoneInv
  <1> QED BY <1>1, <1>2, EpisodeAppended

\* The members of the open and of the closed episodes are rows so far.
LEMMA MembersAreRows ==
  ASSUME IInv, NEW i
  PROVE  /\ \A key \in Key : Among(i, active[key]) => i \in Positions /\ KeyOf(evidence[i]) = key
         /\ \A e \in episodes : Among(i, Motions(e)) => i \in Positions
  BY DEF IInv, ActiveInv, CanGoOn, EpisodeInv, EpisodeOK, Unbroken, Among, Positions

\* A row that pushes no episode: the open episodes go on, and a motion is
\* appended to the one of its device.
LEMMA NothingClosed ==
  ASSUME IInv, NEW item \in Item, Take(item), UNCHANGED episodes, DOMAIN active' = Key,
         \A key \in Key : CanGoOn(evidence', key, active'[key]),
         \A key \in Key : \A i : Among(i, active'[key]) <=>
           \/ Among(i, active[key])
           \/ i = Len(evidence) + 1 /\ item.kind = "MOTION" /\ key = KeyOf(item)
  PROVE  IInv'
  <1>1. TypeInv' /\ DoneInv' /\ ActiveInv'
    BY Taken DEF IInv, TypeInv, DoneInv, ActiveInv
  <1>2. EpisodeInv'
    BY EpisodesStay DEF EpisodeInv
  <1>3. Covered'
    <2> SUFFICES ASSUME NEW i \in Positions', evidence'[i].kind = "MOTION"
                 PROVE  \/ Among(i, active'[KeyOf(evidence'[i])])
                        \/ \E f \in episodes : Among(i, Motions(f))
      BY DEF Covered, KeyOf
    <2>1. CASE i = Len(evidence) + 1
      BY <2>1, Taken
    <2>2. CASE i \in Positions
      <3>1. evidence'[i] = evidence[i] /\ KeyOf(evidence[i]) \in Key
        BY <2>2, Taken, KeysOfRows
      <3> QED BY <2>2, <3>1 DEF IInv, Covered
    <2> QED BY <2>1, <2>2, Taken
  <1>4. ClosedApart'
    BY Taken, MembersAreRows DEF IInv, ClosedApart
  <1>5. OpenApart'
    <2> SUFFICES ASSUME NEW e \in episodes, NEW key \in Key, NEW i, Among(i, Motions(e))
                 PROVE  ~Among(i, active'[key])
      BY DEF OpenApart
    <2>1. i \in Positions /\ i # Len(evidence) + 1
      BY MembersAreRows, Taken
    <2> QED BY <2>1 DEF IInv, OpenApart
  <1> QED BY <1>1, <1>2, <1>3, <1>4, <1>5 DEF IInv

\* A row that closes the open episode of its device: e has exactly its
\* motions, and nothing but the row itself, if it is a motion, is open now.
LEMMA OneClosed ==
  ASSUME IInv, NEW item \in Item, Take(item), NEW e,
         episodes' = episodes \cup {e}, DOMAIN active' = Key,
         EpisodeOK(evidence', e), e.reason # "run_end",
         Motions(e) = active[KeyOf(item)],
         \A key \in Key : CanGoOn(evidence', key, active'[key]),
         \A key \in Key : \A i : Among(i, active'[key]) <=>
           \/ key # KeyOf(item) /\ Among(i, active[key])
           \/ i = Len(evidence) + 1 /\ item.kind = "MOTION" /\ key = KeyOf(item)
  PROVE  IInv'
  <1>1. TypeInv' /\ DoneInv' /\ ActiveInv'
    BY Taken DEF IInv, TypeInv, DoneInv, ActiveInv
  <1>2. EpisodeInv'
    BY EpisodesStay DEF EpisodeInv
  <1>3. Covered'
    <2> SUFFICES ASSUME NEW i \in Positions', evidence'[i].kind = "MOTION"
                 PROVE  \/ Among(i, active'[KeyOf(evidence'[i])])
                        \/ \E f \in episodes' : Among(i, Motions(f))
      BY DEF Covered
    <2>1. CASE i = Len(evidence) + 1
      BY <2>1, Taken
    <2>2. CASE i \in Positions /\ KeyOf(evidence[i]) = KeyOf(item)
      BY <2>2, Taken DEF IInv, Covered
    <2>3. CASE i \in Positions /\ KeyOf(evidence[i]) # KeyOf(item)
      BY <2>3, KeysOfRows, Taken DEF IInv, Covered
    <2> QED BY <2>1, <2>2, <2>3, Taken
  <1>4. ClosedApart'
    <2> SUFFICES ASSUME NEW f \in episodes', NEW g \in episodes', NEW i,
                        Among(i, Motions(f)), Among(i, Motions(g))
                 PROVE  f = g
      BY DEF ClosedApart
    <2>1. i \in Positions /\ KeyOf(item) \in Key
      <3>1. KeyOf(item) \in Key
        BY Taken
      <3>2. CASE f \in episodes
        BY <3>1, <3>2, MembersAreRows
      <3>3. CASE f = e
        BY <3>1, <3>3, MembersAreRows
      <3> QED BY <3>1, <3>2, <3>3
    <2>2. \A h \in episodes : Among(i, Motions(h)) => ~Among(i, active[KeyOf(item)])
      BY <2>1 DEF IInv, OpenApart
    <2>3. CASE f \in episodes /\ g \in episodes
      BY <2>1, <2>3 DEF IInv, ClosedApart
    <2>4. CASE f \notin episodes
      BY <2>2, <2>4
    <2>5. CASE g \notin episodes
      BY <2>2, <2>5
    <2> QED BY <2>3, <2>4, <2>5
  <1>5. OpenApart'
    <2> SUFFICES ASSUME NEW f \in episodes', NEW key \in Key, NEW i, Among(i, Motions(f)),
                        Among(i, active'[key])
                 PROVE  FALSE
      BY DEF OpenApart
    <2>1. i \in Positions /\ i # Len(evidence) + 1 /\ KeyOf(item) \in Key
      <3>1. KeyOf(item) \in Key
        BY Taken
      <3>2. CASE f \in episodes
        BY <3>1, <3>2, MembersAreRows, Taken
      <3>3. CASE f = e
        <4>1. Among(i, active[KeyOf(item)])
          BY <3>3
        <4>2. i \in Positions
          BY <3>1, <4>1, MembersAreRows
        <4> QED BY <3>1, <4>2, Taken
      <3> QED BY <3>1, <3>2, <3>3
    <2>2. key # KeyOf(item) /\ Among(i, active[key])
      BY <2>1
    <2>3. CASE f \in episodes
      BY <2>1, <2>2, <2>3 DEF IInv, OpenApart
    <2>4. CASE f = e
      BY <2>1, <2>2, <2>4, MembersAreRows
    <2> QED BY <2>3, <2>4
  <1> QED BY <1>1, <1>2, <1>3, <1>4, <1>5 DEF IInv

\* Nothing open can go on, and starts with the first motion.
LEMMA NothingOpen ==
  ASSUME NEW rows \in Seq(Item), NEW key
  PROVE  CanGoOn(rows, key, << >>) /\ \A i : ~Among(i, << >>)
  <1>1. Len(<< >>) = 0 /\ << >> \in Seq(1 .. Len(rows))
    OBVIOUS
  <1> QED BY <1>1 DEF CanGoOn, Unbroken, Among

\* The members after one more.
LEMMA AmongAppended ==
  ASSUME NEW S, NEW members \in Seq(S), NEW n \in S
  PROVE  \A i : Among(i, Append(members, n)) <=> Among(i, members) \/ i = n
  <1>1. /\ Len(members) \in Nat /\ Len(Append(members, n)) = Len(members) + 1
        /\ \A i \in 1 .. Len(members) : Append(members, n)[i] = members[i]
        /\ Append(members, n)[Len(members) + 1] = n
    BY Appended
  <1>2. ASSUME NEW i, Among(i, Append(members, n))
        PROVE  Among(i, members) \/ i = n
    <2>1. PICK k \in 1 .. Len(members) + 1 : Append(members, n)[k] = i
      BY <1>1, <1>2 DEF Among
    <2>2. k \in 1 .. Len(members) \/ k = Len(members) + 1
      BY <1>1
    <2> QED BY <1>1, <2>1, <2>2 DEF Among
  <1>3. ASSUME NEW i, Among(i, members)
        PROVE  Among(i, Append(members, n))
    <2>1. PICK k \in 1 .. Len(members) : members[k] = i
      BY <1>3 DEF Among
    <2>2. k \in 1 .. Len(Append(members, n)) /\ Append(members, n)[k] = i
      BY <1>1, <2>1
    <2> QED BY <2>2 DEF Among
  <1>4. Among(n, Append(members, n))
    <2>1. Len(members) + 1 \in 1 .. Len(Append(members, n))
      BY <1>1
    <2> QED BY <1>1, <2>1 DEF Among
  <1> QED BY <1>2, <1>3, <1>4

\* What the action of a row finds: the open episode of its device.
LEMMA Found ==
  ASSUME IInv, NEW item \in Item
  PROVE  /\ KeyOf(item) \in Key
         /\ CanGoOn(evidence, KeyOf(item), active[KeyOf(item)])
         /\ active[KeyOf(item)] \in Seq(1 .. Len(evidence))
         /\ Open(KeyOf(item)) =>
              /\ LastMember(KeyOf(item)) \in 1 .. Len(evidence)
              /\ LastTime(KeyOf(item)) \in Int
  <1>1. KeyOf(item) \in Key
    BY DEF KeyOf, Key, Item
  <1>2. CanGoOn(evidence, KeyOf(item), active[KeyOf(item)])
    BY <1>1 DEF IInv, ActiveInv
  <1>3. active[KeyOf(item)] \in Seq(1 .. Len(evidence))
    BY <1>2 DEF CanGoOn, Unbroken
  <1>4. Open(KeyOf(item)) => LastMember(KeyOf(item)) \in 1 .. Len(evidence)
    BY <1>3 DEF Open, LastMember
  <1>5. \A i \in 1 .. Len(evidence) : evidence[i].time \in Int
    <2>1. \A i \in 1 .. Len(evidence) : evidence[i] \in Item
      BY DEF IInv, TypeInv
    <2> QED BY <2>1, BoundsAssumption DEF Item, Time
  <1> QED BY <1>1, <1>2, <1>3, <1>4, <1>5 DEF LastTime

\* The open episodes of the other devices go on.
LEMMA OthersGoOn ==
  ASSUME IInv, NEW item \in Item, Take(item), NEW key \in Key, key # KeyOf(item)
  PROVE  CanGoOn(evidence', key, active[key])
  <1>1. evidence \in Seq(Item) /\ CanGoOn(evidence, key, active[key])
    BY DEF IInv, TypeInv, ActiveInv
  <1> QED BY <1>1, StillOpen, Taken

\* A motion keeps the invariant.
LEMMA MotionInvariant ==
  ASSUME IInv, NEW item \in Item, Motion(item)
  PROVE  IInv'
  <1> DEFINE key == KeyOf(item)
             n == Len(evidence) + 1
  <1>1. Take(item) /\ item.kind = "MOTION"
    BY DEF Motion
  <1>2. evidence \in Seq(Item) /\ evidence' = Append(evidence, item) /\ n \in Nat /\ DOMAIN active = Key
    <2>1. evidence' = Append(evidence, item) /\ Len(evidence) \in Nat
      BY <1>1, Taken
    <2> QED BY <2>1 DEF IInv, TypeInv
  <1>3. /\ key \in Key /\ CanGoOn(evidence, key, active[key])
        /\ active[key] \in Seq(1 .. Len(evidence)) /\ active[key] \in Seq(Nat)
    BY Found
  <1>4. \A another \in Key : another # key => CanGoOn(evidence', another, active[another])
    BY <1>1, OthersGoOn
  <1>5. CASE /\ Idle(key, item.time)
             /\ episodes' = episodes \cup {Closed(key, active[key], LastTime(key), "idle_gap")}
             /\ active' = [active EXCEPT ![key] = <<n>>]
    <2>1. PICK e : e = Closed(key, active[key], LastTime(key), "idle_gap")
      OBVIOUS
    <2>2. /\ EpisodeKey(e) = key /\ e.members = active[key] /\ e.reason = "idle_gap"
          /\ e.start = evidence[active[key][1]].time /\ e.end = LastTime(key)
      <3>1. key = <<key[1], key[2]>>
        BY DEF KeyOf
      <3> HIDE DEF key
      <3> QED BY <2>1, <3>1 DEF Closed, EpisodeKey
    <2>3. active[key] # << >> /\ item.time - LastTime(key) > IdleGap
      BY <1>5 DEF Idle, Open
    <2>4. EpisodeOK(evidence', e) /\ Motions(e) = active[key]
      BY <1>1, <1>2, <1>3, <2>2, <2>3, ClosedInGap DEF LastTime, LastMember
    <2>5. CanGoOn(evidence', key, <<n>>) /\ \A i : Among(i, <<n>>) <=> i = n
      <3>1. Append(<< >>, n) = <<n>> /\ << >> \in Seq(Nat)
        OBVIOUS
      <3>2. CanGoOn(Append(evidence, item), key, Append(<< >>, n))
        BY <1>1, <1>2, NothingOpen, GoesOn
      <3>3. \A i : Among(i, Append(<< >>, n)) <=> Among(i, << >>) \/ i = n
        BY <1>2, <3>1, AmongAppended
      <3>4. \A i : ~Among(i, << >>)
        BY <1>2, NothingOpen
      <3> QED BY <1>2, <3>1, <3>2, <3>3, <3>4
    <2>6. /\ DOMAIN active' = Key /\ active'[key] = <<n>>
          /\ \A another \in Key : another # key => active'[another] = active[another]
      BY <1>2, <1>3, <1>5
    <2> HIDE DEF key
    <2>7. \A k \in Key : CanGoOn(evidence', k, active'[k])
      BY <1>4, <2>5, <2>6
    <2>8. \A k \in Key : \A i : Among(i, active'[k]) <=>
            \/ k # key /\ Among(i, active[k])
            \/ i = n /\ item.kind = "MOTION" /\ k = key
      BY <1>1, <2>5, <2>6
    <2> QED BY <1>1, <1>5, <2>1, <2>2, <2>4, <2>6, <2>7, <2>8, OneClosed DEF key
  <1>6. CASE /\ ~Idle(key, item.time)
             /\ active' = [active EXCEPT ![key] = Append(@, n)]
             /\ UNCHANGED episodes
    <2>1. active[key] # << >> => item.time - LastTime(key) <= IdleGap
      BY <1>6, Found, IdleGapAssumption, BoundsAssumption DEF Idle, Open, Item, Time
    <2>2. CanGoOn(evidence', key, Append(active[key], n))
      BY <1>1, <1>2, <1>3, <2>1, GoesOn DEF LastTime, LastMember
    <2>3. \A i : Among(i, Append(active[key], n)) <=> Among(i, active[key]) \/ i = n
      BY <1>2, <1>3, AmongAppended
    <2>4. /\ DOMAIN active' = Key /\ active'[key] = Append(active[key], n)
          /\ \A another \in Key : another # key => active'[another] = active[another]
      BY <1>2, <1>3, <1>6
    <2> HIDE DEF key
    <2>5. \A k \in Key : CanGoOn(evidence', k, active'[k])
      BY <1>4, <2>2, <2>4
    <2>6. \A k \in Key : \A i : Among(i, active'[k]) <=>
            \/ Among(i, active[k])
            \/ i = n /\ item.kind = "MOTION" /\ k = key
      BY <1>1, <2>3, <2>4
    <2> QED BY <1>1, <1>6, <2>4, <2>5, <2>6, NothingClosed DEF key
  <1> QED BY <1>5, <1>6 DEF Motion

\* A button keeps the invariant.
LEMMA ButtonInvariant ==
  ASSUME IInv, NEW item \in Item, ButtonDown(item)
  PROVE  IInv'
  <1> DEFINE key == KeyOf(item)
             n == Len(evidence) + 1
  <1>1. Take(item) /\ item.kind = "BUTTON_DOWN"
    BY DEF ButtonDown
  <1>2. evidence \in Seq(Item) /\ evidence' = Append(evidence, item) /\ n \in Nat /\ DOMAIN active = Key
    <2>1. evidence' = Append(evidence, item) /\ Len(evidence) \in Nat
      BY <1>1, Taken
    <2> QED BY <2>1 DEF IInv, TypeInv
  <1>3. /\ key \in Key /\ CanGoOn(evidence, key, active[key])
        /\ active[key] \in Seq(1 .. Len(evidence)) /\ active[key] \in Seq(Nat)
    BY Found
  <1>4. \A another \in Key : another # key => CanGoOn(evidence', another, active[another])
    BY <1>1, OthersGoOn
  <1>5. /\ DOMAIN active' = Key /\ active'[key] = << >>
        /\ \A another \in Key : another # key => active'[another] = active[another]
    BY <1>2, <1>3 DEF ButtonDown
  <1>6. \A k \in Key : CanGoOn(evidence', k, active'[k])
    <2>1. CanGoOn(evidence', key, << >>)
      BY <1>1, Taken, NothingOpen
    <2> HIDE DEF key
    <2> QED BY <1>4, <1>5, <2>1
  <1>7. \A k \in Key : \A i : Among(i, active'[k]) <=>
          \/ k # key /\ Among(i, active[k])
          \/ i = n /\ item.kind = "MOTION" /\ k = key
    <2> HIDE DEF key
    <2> QED BY <1>1, <1>2, <1>5, NothingOpen
  <1>8. CASE /\ Idle(key, item.time)
             /\ episodes' = episodes \cup {Closed(key, active[key], LastTime(key), "idle_gap")}
    <2>1. PICK e : e = Closed(key, active[key], LastTime(key), "idle_gap")
      OBVIOUS
    <2>2. /\ EpisodeKey(e) = key /\ e.members = active[key] /\ e.reason = "idle_gap"
          /\ e.start = evidence[active[key][1]].time /\ e.end = LastTime(key)
      <3>1. key = <<key[1], key[2]>>
        BY DEF KeyOf
      <3> HIDE DEF key
      <3> QED BY <2>1, <3>1 DEF Closed, EpisodeKey
    <2>3. active[key] # << >> /\ item.time - LastTime(key) > IdleGap
      BY <1>8 DEF Idle, Open
    <2>4. EpisodeOK(evidence', e) /\ Motions(e) = active[key]
      BY <1>1, <1>2, <1>3, <2>2, <2>3, ClosedInGap DEF LastTime, LastMember
    <2> HIDE DEF key
    <2> QED BY <1>1, <1>5, <1>6, <1>7, <1>8, <2>1, <2>2, <2>4, OneClosed DEF key
  <1>9. CASE /\ Open(key) /\ ~Idle(key, item.time)
             /\ episodes' = episodes \cup {Closed(key, Append(active[key], n), item.time,
                                                  "button_down")}
    <2>1. PICK e : e = Closed(key, Append(active[key], n), item.time, "button_down")
      OBVIOUS
    <2>2. /\ EpisodeKey(e) = key /\ e.members = Append(active[key], n)
          /\ e.reason = "button_down"
          /\ e.start = evidence[e.members[1]].time /\ e.end = item.time
      <3>1. key = <<key[1], key[2]>>
        BY DEF KeyOf
      <3> HIDE DEF key
      <3> QED BY <2>1, <3>1 DEF Closed, EpisodeKey
    <2>3. active[key] # << >> /\ item.time - LastTime(key) <= IdleGap
      BY <1>9, Found, IdleGapAssumption, BoundsAssumption DEF Idle, Open, Item, Time
    <2>4. EpisodeOK(evidence', e) /\ Motions(e) = active[key]
      BY <1>1, <1>2, <1>3, <2>2, <2>3, ClosedAtButton DEF LastTime, LastMember
    <2> HIDE DEF key
    <2> QED BY <1>1, <1>5, <1>6, <1>7, <1>9, <2>1, <2>2, <2>4, OneClosed DEF key
  <1>10. CASE ~Open(key) /\ UNCHANGED episodes
    <2>1. active[key] = << >>
      BY <1>10 DEF Open
    <2>2. \A k \in Key : \A i : Among(i, active'[k]) <=>
            \/ Among(i, active[k])
            \/ i = n /\ item.kind = "MOTION" /\ k = key
      <3> HIDE DEF key
      <3> QED BY <1>2, <1>7, <2>1, NothingOpen
    <2> HIDE DEF key
    <2> QED BY <1>1, <1>5, <1>6, <1>10, <2>2, NothingClosed DEF key
  <1> QED BY <1>8, <1>9, <1>10 DEF ButtonDown

\* A row that is passed over keeps the invariant.
LEMMA OtherInvariant ==
  ASSUME IInv, NEW item \in Item, Other(item)
  PROVE  IInv'
  <1>1. Take(item) /\ item.kind = "OTHER" /\ UNCHANGED <<active, episodes>>
    BY DEF Other
  <1>2. \A key \in Key : CanGoOn(evidence', key, active'[key])
    <2>1. evidence \in Seq(Item) /\ evidence' = Append(evidence, item)
      BY <1>1, Taken DEF IInv, TypeInv
    <2> QED BY <1>1, <2>1, StillOpen DEF IInv, ActiveInv
  <1> QED BY <1>1, <1>2, NothingClosed DEF IInv, TypeInv

\* The end of the pass keeps the invariant.
LEMMA RunEndInvariant ==
  ASSUME IInv, RunEnd
  PROVE  IInv'
  <1> DEFINE Final(key) == Closed(key, active[key], LastTime(key), "run_end")
  <1>1. /\ evidence' = evidence /\ done' = TRUE /\ ~done
        /\ DOMAIN active' = Key /\ \A key \in Key : active'[key] = << >>
    BY DEF RunEnd
  <1>2. /\ \A e \in episodes' : e \in episodes \/ \E key \in Key : Open(key) /\ e = Final(key)
        /\ episodes \subseteq episodes'
        /\ \A key \in Key : Open(key) => Final(key) \in episodes'
    BY DEF RunEnd
  <1>3. ASSUME NEW key \in Key, Open(key)
        PROVE  /\ EpisodeOK(evidence, Final(key))
               /\ Motions(Final(key)) = active[key] /\ EpisodeKey(Final(key)) = key
    <2>1. PICK e : e = Final(key)
      OBVIOUS
    <2>2. /\ EpisodeKey(e) = key /\ e.members = active[key] /\ e.reason = "run_end"
          /\ e.start = evidence[active[key][1]].time /\ e.end = LastTime(key)
      <3>1. key = <<key[1], key[2]>>
        BY DEF Key
      <3> QED BY <2>1, <3>1 DEF Closed, EpisodeKey
    <2>3. CanGoOn(evidence, key, active[key]) /\ active[key] # << >> /\ evidence \in Seq(Item)
      BY <1>3 DEF Open, IInv, ActiveInv, TypeInv
    <2>4. EpisodeOK(evidence, e) /\ Motions(e) = active[key]
      BY <2>2, <2>3, ClosedWithRun DEF LastTime, LastMember
    <2> QED BY <2>1, <2>2, <2>4
  <1> HIDE DEF Final
  <1>4. TypeInv' /\ DoneInv'
    BY <1>1 DEF IInv, TypeInv, DoneInv
  <1>5. ActiveInv'
    BY <1>1, NothingOpen DEF IInv, TypeInv, ActiveInv
  <1>6. EpisodeInv'
    BY <1>1, <1>2, <1>3 DEF IInv, EpisodeInv
  <1>7. Covered'
    <2> SUFFICES ASSUME NEW i \in Positions, evidence[i].kind = "MOTION"
                 PROVE  \E e \in episodes' : Among(i, Motions(e))
      BY <1>1 DEF Covered, Positions
    <2>1. CASE \E e \in episodes : Among(i, Motions(e))
      BY <1>2, <2>1
    <2>2. CASE Among(i, active[KeyOf(evidence[i])])
      <3>1. KeyOf(evidence[i]) \in Key
        BY KeysOfRows
      <3>2. Open(KeyOf(evidence[i]))
        BY <2>2, NothingOpen DEF Open, IInv, TypeInv
      <3> QED BY <1>2, <1>3, <2>2, <3>1, <3>2
    <2> QED BY <2>1, <2>2 DEF IInv, Covered
  <1>8. ClosedApart'
    <2> SUFFICES ASSUME NEW e \in episodes', NEW f \in episodes', NEW i \in Positions,
                        Among(i, Motions(e)), Among(i, Motions(f))
                 PROVE  e = f
      BY <1>1 DEF ClosedApart, Positions
    <2>1. \A g \in episodes : \A key \in Key : Among(i, Motions(g)) => ~Among(i, active[key])
      BY DEF IInv, OpenApart
    <2>2. CASE e \in episodes /\ f \in episodes
      BY <2>2 DEF IInv, ClosedApart
    <2>3. CASE e \in episodes /\ f \notin episodes
      BY <1>2, <1>3, <2>1, <2>3
    <2>4. CASE e \notin episodes /\ f \in episodes
      BY <1>2, <1>3, <2>1, <2>4
    <2>5. CASE e \notin episodes /\ f \notin episodes
      <3>1. PICK key \in Key : Open(key) /\ e = Final(key)
        BY <1>2, <2>5
      <3>2. PICK another \in Key : Open(another) /\ f = Final(another)
        BY <1>2, <2>5
      <3>3. Among(i, active[key]) /\ Among(i, active[another])
        BY <1>3, <3>1, <3>2
      <3>4. key = another
        BY <3>3, MembersAreRows
      <3> QED BY <3>1, <3>2, <3>4
    <2> QED BY <2>2, <2>3, <2>4, <2>5
  <1>9. OpenApart'
    BY <1>1, NothingOpen DEF IInv, TypeInv, OpenApart
  <1> QED BY <1>4, <1>5, <1>6, <1>7, <1>8, <1>9 DEF IInv

\* A stuttering step preserves the invariant.
LEMMA StutterInvariant == IInv /\ UNCHANGED vars => IInv'
  BY DEF IInv, vars, TypeInv, DoneInv, ActiveInv, EpisodeInv, Covered, ClosedApart, OpenApart, Positions

\* The invariant is inductive.
LEMMA Inductive == Spec => []IInv
  <1>1. IInv /\ [Next]_vars => IInv'
    BY MotionInvariant, ButtonInvariant, OtherInvariant, RunEndInvariant, StutterInvariant DEF Next
  <1> QED BY InitInvariant, <1>1, PTL DEF Spec

-----------------------------------------------------------------------------
\* However the rows of the devices and runs alternate, each motion is a member
\* of exactly one episode when the pass is over.
THEOREM EachMotionInOneEpisode == Spec => []MotionsArePartitioned
  <1>1. IInv => MotionsArePartitioned
    <2> SUFFICES ASSUME IInv, done, NEW i \in Positions, evidence[i].kind = "MOTION"
                 PROVE  Cardinality({e \in episodes : Among(i, Motions(e))}) = 1
      BY DEF MotionsArePartitioned, Among
    <2>1. KeyOf(evidence[i]) \in Key
      BY KeysOfRows
    <2>2. active[KeyOf(evidence[i])] = << >>
      BY <2>1 DEF IInv, DoneInv
    <2>3. PICK e \in episodes : Among(i, Motions(e))
      BY <2>2, NothingOpen DEF IInv, Covered, TypeInv
    <2>4. {f \in episodes : Among(i, Motions(f))} = {e}
      BY <2>3 DEF IInv, ClosedApart
    <2> QED BY <2>4, FS_Singleton
  <1> QED BY Inductive, <1>1, PTL

\* Each episode that is closed, at whatever row, is what SPEC.md section 16
\* asks for, and remains so whatever rows come after it.
THEOREM EpisodesMeetSpecification == Spec => []EpisodesAreAsSpecified
  <1>1. ASSUME NEW e, NEW i, NEW j, Follows(evidence, EpisodeKey(e), i, j)
        PROVE  IsNext(e, i, j)
    BY <1>1 DEF Follows, Matters, EpisodeKey, IsNext, After, Relevant, Positions
  <1>2. ASSUME IInv, NEW e \in episodes
        PROVE  AsSpecified(e)
    <2>1. EpisodeOK(evidence, e)
      BY <1>2 DEF IInv, EpisodeInv
    <2>2. \A k \in 2 .. Len(Motions(e)) :
            /\ IsNext(e, Motions(e)[k - 1], Motions(e)[k])
            /\ Rest(Motions(e)[k - 1], Motions(e)[k]) <= IdleGap
      BY <1>1, <2>1 DEF EpisodeOK, Unbroken, Rest
    <2>3. e.start = evidence[Motions(e)[1]].time
      BY <2>1 DEF EpisodeOK
    <2>4. CASE e.reason = "idle_gap"
      BY <1>1, <2>1, <2>2, <2>3, <2>4 DEF EpisodeOK, EndsInGap, AsSpecified, Rest, Positions
    <2>5. CASE e.reason = "button_down"
      BY <1>1, <2>1, <2>2, <2>3, <2>5 DEF EpisodeOK, EndsAtButton, AsSpecified, Rest, Positions
    <2>6. CASE e.reason = "run_end"
      <3>1. After(e, LastMotion(e)) = {}
        <4>1. Motions(e) \in Seq(1 .. Len(evidence)) /\ Motions(e) # << >> /\ Len(evidence) \in Nat
          BY <1>2, <2>1 DEF EpisodeOK, Unbroken, IInv, TypeInv
        <4>2. LastMotion(e) \in Nat
          BY <4>1 DEF LastMotion
        <4> QED BY <2>1, <2>6, <4>1, <4>2 DEF EpisodeOK, EndsWithRun, Quiet, Matters, EpisodeKey,
                                              After, Relevant, Positions
      <3> QED BY <2>1, <2>2, <2>3, <2>6, <3>1 DEF EpisodeOK, EndsWithRun, AsSpecified
    <2> QED BY <2>1, <2>4, <2>5, <2>6 DEF EpisodeOK, Reason
  <1>3. IInv => EpisodesAreAsSpecified
    BY <1>2 DEF EpisodesAreAsSpecified
  <1> QED BY Inductive, <1>3, PTL

-----------------------------------------------------------------------------
\* The trajectory points and the metrics of an episode: the other half of the
\* derivation.  Numbers up to n first, and recursions over them.

\* A set of numbers that is not empty has a least one.
LEMMA LeastNumber ==
  ASSUME NEW S \in SUBSET Nat, S # {}
  PROVE  \E n \in S : \A m \in S : n <= m
  <1> DEFINE R == OpToRel(<, Nat)
  <1>1. IsWellFoundedOn(R, Nat)
    BY NatLessThanWellFounded
  <1>2. \A m, n \in Nat : m < n => <<m, n>> \in R
    BY DEF OpToRel
  <1> HIDE DEF R
  <1>3. PICK n \in S : \A m \in S : ~ (<<m, n>> \in R)
    BY <1>1, WFMin
  <1>4. \A m \in S : ~ (m < n)
    BY <1>2, <1>3, Zenon
  <1> QED BY <1>4

\* Induction up to n, with the set of the numbers for which it holds.
LEMMA UpToNumber ==
  ASSUME NEW n \in Nat, NEW T, 0 \in T, \A i \in 1 .. n : i - 1 \in T => i \in T
  PROVE  \A i \in 0 .. n : i \in T
  <1> DEFINE Wrong == {i \in 0 .. n : i \notin T}
  <1>1. Wrong \in SUBSET Nat /\ \A i : i \in Wrong <=> i \in 0 .. n /\ i \notin T
    OBVIOUS
  <1> HIDE DEF Wrong
  <1> SUFFICES ASSUME Wrong # {}
               PROVE  FALSE
    BY <1>1
  <1>2. PICK i \in Wrong : \A j \in Wrong : i <= j
    BY <1>1, LeastNumber
  <1>3. i \in 1 .. n /\ i - 1 \in 0 .. n /\ ~ (i <= i - 1)
    BY <1>1, <1>2
  <1>4. i - 1 \in T
    BY <1>1, <1>2, <1>3
  <1> QED BY <1>1, <1>2, <1>3, <1>4

\* A recursion over the numbers up to n: step makes the next value from the
\* one before and from an element of s.
CanRecur(A, B, base, step, n, s) ==
  base \in A /\ step \in [A \X B -> A] /\ n \in Nat /\ s \in [1 .. n -> B]
Recurs(g, base, step, n, s) ==
  g[0] = base /\ \A i \in 1 .. n : g[i] = step[<<g[i - 1], s[i]>>]

\* It has a result.
LEMMA Recursion ==
  ASSUME NEW A, NEW B, NEW base, NEW step, NEW n, NEW s, CanRecur(A, B, base, step, n, s)
  PROVE  \E g \in [0 .. n -> A] : Recurs(g, base, step, n, s)
  <1> USE DEF CanRecur
  <1> DEFINE Good(m, g) == g[0] = base /\ \A i \in 1 .. m : g[i] = step[<<g[i - 1], s[i]>>]
             T == {m \in 0 .. n : \E g \in [0 .. n -> A] : Good(m, g)}
  <1>1. 0 \in T
    <2>1. PICK g : g = [i \in 0 .. n |-> base]
      OBVIOUS
    <2>2. g \in [0 .. n -> A] /\ Good(0, g)
      BY <2>1
    <2> HIDE DEF Good
    <2> QED BY <2>2
  <1>2. ASSUME NEW m \in 1 .. n, m - 1 \in T
        PROVE  m \in T
    <2>1. PICK g \in [0 .. n -> A] : Good(m - 1, g)
      <3> HIDE DEF Good
      <3> QED BY <1>2
    <2>2. PICK a \in A : a = step[<<g[m - 1], s[m]>>]
      <3>1. g[m - 1] \in A /\ s[m] \in B
        OBVIOUS
      <3> QED BY <3>1
    <2>3. PICK h : h = [g EXCEPT ![m] = a]
      OBVIOUS
    <2>4. h \in [0 .. n -> A] /\ h[m] = a /\ \A i \in 0 .. n : i # m => h[i] = g[i]
      BY <2>3
    <2>5. ASSUME NEW i \in 1 .. m
          PROVE  h[i] = step[<<h[i - 1], s[i]>>]
      <3>1. i - 1 \in 0 .. n /\ i - 1 # m /\ h[i - 1] = g[i - 1]
        BY <2>4
      <3>2. CASE i = m
        BY <2>2, <2>4, <3>1, <3>2
      <3>3. CASE i # m
        <4>1. i \in 1 .. m - 1 /\ i \in 0 .. n
          BY <3>3
        <4> QED BY <2>1, <2>4, <3>1, <3>3, <4>1
      <3> QED BY <3>2, <3>3
    <2>6. h[0] = base
      <3>1. 0 \in 0 .. n /\ 0 # m
        OBVIOUS
      <3> QED BY <2>1, <2>4, <3>1
    <2>7. Good(m, h)
      BY <2>5, <2>6
    <2> HIDE DEF Good
    <2> QED BY <2>4, <2>7
  <1>3. n \in T
    <2>1. \A m \in 1 .. n : m - 1 \in T => m \in T
      <3> HIDE DEF T
      <3> QED BY <1>2
    <2> HIDE DEF T
    <2>2. \A m \in 0 .. n : m \in T
      BY <1>1, <2>1, UpToNumber
    <2> QED BY <2>2
  <1>4. PICK g \in [0 .. n -> A] : Good(n, g)
    <2> HIDE DEF Good
    <2> QED BY <1>3
  <1> QED BY <1>4 DEF Recurs

\* Two recursions that start alike and go on alike have the same values.
Alike(g, h, n) == g[0] = h[0] /\ \A i \in 1 .. n : g[i - 1] = h[i - 1] => g[i] = h[i]

LEMMA SameValues ==
  ASSUME NEW n \in Nat, NEW g, NEW h, Alike(g, h, n)
  PROVE  \A i \in 0 .. n : g[i] = h[i]
  <1> DEFINE T == {i \in 0 .. n : g[i] = h[i]}
  <1>1. 0 \in T
    BY DEF Alike
  <1>2. \A i \in 1 .. n : i - 1 \in T => i \in T
    BY DEF Alike
  <1>3. \A i \in T : g[i] = h[i]
    OBVIOUS
  <1> HIDE DEF T
  <1> QED BY <1>1, <1>2, <1>3, UpToNumber

\* What Total computes: the last of the sums g[0], g[1], ...
LEMMA Sums ==
  ASSUME NEW n \in Nat, NEW s \in [1 .. n -> Int]
  PROVE  \E g \in [0 .. n -> Int] : /\ g[0] = 0
                                    /\ \A i \in 1 .. n : g[i] = g[i - 1] + s[i]
                                    /\ Total(s) = g[n]
  <1> DEFINE IsSum(g) == g = [i \in 0 .. n |-> IF i = 0 THEN 0 ELSE g[i - 1] + s[i]]
             sum == CHOOSE g : IsSum(g)
             plus == [p \in Int \X Int |-> p[1] + p[2]]
  <1>1. Total(s) = sum[n]
    <2>1. Len(s) = n
      OBVIOUS
    <2> QED BY <2>1 DEF Total
  <1>2. PICK g \in [0 .. n -> Int] : /\ g[0] = 0
                                     /\ \A i \in 1 .. n : g[i] = g[i - 1] + s[i]
    <2>1. plus \in [Int \X Int -> Int] /\ \A a, b \in Int : plus[<<a, b>>] = a + b
      OBVIOUS
    <2> HIDE DEF plus
    <2>2. PICK g \in [0 .. n -> Int] : /\ g[0] = 0
                                       /\ \A i \in 1 .. n : g[i] = plus[<<g[i - 1], s[i]>>]
      <3>1. CanRecur(Int, Int, 0, plus, n, s)
        BY <2>1 DEF CanRecur
      <3>2. PICK g \in [0 .. n -> Int] : Recurs(g, 0, plus, n, s)
        BY <3>1, Recursion
      <3> QED BY <3>2 DEF Recurs
    <2>3. ASSUME NEW i \in 1 .. n
          PROVE  g[i] = g[i - 1] + s[i]
      <3>1. PICK a \in Int, b \in Int : a = g[i - 1] /\ b = s[i]
        OBVIOUS
      <3>2. g[i] = plus[<<a, b>>]
        BY <2>2, <3>1
      <3> QED BY <2>1, <3>1, <3>2
    <2> QED BY <2>2, <2>3
  <1>3. IsSum(g)
    <2>1. PICK f : f = [i \in 0 .. n |-> IF i = 0 THEN 0 ELSE g[i - 1] + s[i]]
      OBVIOUS
    <2>2. \A i \in 0 .. n : f[i] = g[i]
      BY <1>2, <2>1
    <2>3. f = g
      BY <2>1, <2>2
    <2> QED BY <2>1, <2>3
  <1>4. IsSum(sum)
    <2> HIDE DEF IsSum
    <2> QED BY <1>3
  <1>5. PICK h : h = sum
    OBVIOUS
  <1>6. IsSum(h)
    <2> HIDE DEF IsSum, sum
    <2> QED BY <1>4, <1>5
  <1>7. h[0] = 0 /\ \A i \in 1 .. n : h[i] = h[i - 1] + s[i]
    <2>1. h = [i \in 0 .. n |-> IF i = 0 THEN 0 ELSE h[i - 1] + s[i]]
      BY <1>6
    <2>2. ASSUME NEW i \in 0 .. n
          PROVE  h[i] = IF i = 0 THEN 0 ELSE h[i - 1] + s[i]
      BY <2>1
    <2> QED BY <2>2
  <1> HIDE DEF IsSum, sum
  <1>8. h[n] = g[n]
    <2>1. Alike(g, h, n)
      BY <1>2, <1>7 DEF Alike
    <2>2. \A i \in 0 .. n : g[i] = h[i]
      BY <2>1, SameValues
    <2> QED BY <2>2
  <1> QED BY <1>1, <1>2, <1>5, <1>8

\* One more number is added to the total.
LEMMA TotalAppended ==
  ASSUME NEW n \in Nat, NEW s \in [1 .. n -> Int], NEW t \in [1 .. n + 1 -> Int],
         \A i \in 1 .. n : t[i] = s[i]
  PROVE  Total(s) \in Int /\ Total(t) = Total(s) + t[n + 1]
  <1>1. PICK g \in [0 .. n -> Int] : /\ g[0] = 0
                                     /\ \A i \in 1 .. n : g[i] = g[i - 1] + s[i]
                                     /\ Total(s) = g[n]
    BY Sums
  <1>2. PICK h \in [0 .. n + 1 -> Int] : /\ h[0] = 0
                                         /\ \A i \in 1 .. n + 1 : h[i] = h[i - 1] + t[i]
                                         /\ Total(t) = h[n + 1]
    <2>1. n + 1 \in Nat
      OBVIOUS
    <2> QED BY <2>1, Sums
  <1>3. \A i \in 1 .. n : i \in 1 .. n + 1
    OBVIOUS
  <1>4. \A i \in 0 .. n : g[i] = h[i]
    <2>1. Alike(g, h, n)
      BY <1>1, <1>2, <1>3 DEF Alike
    <2>2. PICK a, b : a = g /\ b = h
      OBVIOUS
    <2>3. Alike(a, b, n)
      BY <2>1, <2>2
    <2>4. \A i \in 0 .. n : a[i] = b[i]
      BY <2>3, SameValues
    <2> QED BY <2>2, <2>4
  <1>5. h[n + 1] = h[n] + t[n + 1]
    BY <1>2
  <1> QED BY <1>1, <1>2, <1>4, <1>5

\* Nothing is added to zero.
LEMMA TotalOfNone == Total(<< >>) = 0
  <1>1. << >> \in [1 .. 0 -> Int]
    OBVIOUS
  <1>2. PICK g \in [0 .. 0 -> Int] : g[0] = 0 /\ Total(<< >>) = g[0]
    BY <1>1, Sums
  <1> QED BY <1>2

-----------------------------------------------------------------------------
\* The rows of the three tables that are read and written.
SampleRow == [cursor : Cursors, monitor : {place[1] : place \in Places},
              workspace : {place[2] : place \in Places}]
MotionRow == [delta : Deltas, status : Statuses, context : Nat]
PointRow == [x : Int \cup {Null}, y : Int \cup {Null},
             devicePath : Int \cup {Null}, path : Int \cup {Null}]

\* What collecting one more motion does to the contexts collected so far.
LEMMA CollectFacts ==
  ASSUME NEW seen \in Seq(Nat), NEW m \in MotionRow
  PROVE  Collect(seen, m) \in Seq(Nat)
  <1>1. m.context \in Nat
    BY DEF MotionRow
  <1>2. Append(seen, m.context) \in Seq(Nat)
    BY <1>1
  <1> QED BY <1>2 DEF Collect

\* What Collected computes: the last of the lists g[0], g[1], ...
LEMMA Lists ==
  ASSUME NEW rows \in Seq(MotionRow)
  PROVE  \E g \in [0 .. Len(rows) -> Seq(Nat)] :
           /\ g[0] = << >>
           /\ \A i \in 1 .. Len(rows) : g[i] = Collect(g[i - 1], rows[i])
           /\ Collected(rows) = g[Len(rows)]
  <1> DEFINE IsList(g) == g = [i \in 0 .. Len(rows) |-> IF i = 0 THEN << >>
                                                         ELSE Collect(g[i - 1], rows[i])]
             list == CHOOSE g : IsList(g)
             add == [p \in Seq(Nat) \X MotionRow |-> Collect(p[1], p[2])]
  <1>1. Collected(rows) = list[Len(rows)]
    BY DEF Collected
  <1>2. PICK g \in [0 .. Len(rows) -> Seq(Nat)] :
          /\ g[0] = << >>
          /\ \A i \in 1 .. Len(rows) : g[i] = Collect(g[i - 1], rows[i])
    <2>1. add \in [Seq(Nat) \X MotionRow -> Seq(Nat)]
          /\ \A a \in Seq(Nat), b \in MotionRow : add[<<a, b>>] = Collect(a, b)
      BY CollectFacts
    <2> HIDE DEF add
    <2>2. CanRecur(Seq(Nat), MotionRow, << >>, add, Len(rows), rows)
      <3>1. Len(rows) \in Nat /\ rows \in [1 .. Len(rows) -> MotionRow] /\ << >> \in Seq(Nat)
        OBVIOUS
      <3> QED BY <2>1, <3>1 DEF CanRecur
    <2>3. PICK g \in [0 .. Len(rows) -> Seq(Nat)] : Recurs(g, << >>, add, Len(rows), rows)
      BY <2>2, Recursion
    <2>4. ASSUME NEW i \in 1 .. Len(rows)
          PROVE  g[i] = Collect(g[i - 1], rows[i])
      <3>1. PICK a \in Seq(Nat), b \in MotionRow : a = g[i - 1] /\ b = rows[i]
        OBVIOUS
      <3>2. g[i] = add[<<a, b>>]
        BY <2>3, <3>1 DEF Recurs
      <3> QED BY <2>1, <3>1, <3>2
    <2> QED BY <2>3, <2>4 DEF Recurs
  <1>3. IsList(g)
    <2>1. PICK f : f = [i \in 0 .. Len(rows) |-> IF i = 0 THEN << >> ELSE Collect(g[i - 1], rows[i])]
      OBVIOUS
    <2>2. \A i \in 0 .. Len(rows) : f[i] = g[i]
      BY <1>2, <2>1
    <2>3. f = g
      BY <2>1, <2>2
    <2> QED BY <2>1, <2>3
  <1>4. IsList(list)
    <2> HIDE DEF IsList
    <2> QED BY <1>3
  <1>5. PICK h : h = list
    OBVIOUS
  <1>6. IsList(h)
    <2> HIDE DEF IsList, list
    <2> QED BY <1>4, <1>5
  <1>7. h[0] = << >> /\ \A i \in 1 .. Len(rows) : h[i] = Collect(h[i - 1], rows[i])
    <2>1. h = [i \in 0 .. Len(rows) |-> IF i = 0 THEN << >> ELSE Collect(h[i - 1], rows[i])]
      BY <1>6
    <2>2. \A i \in 0 .. Len(rows) : h[i] = IF i = 0 THEN << >> ELSE Collect(h[i - 1], rows[i])
      BY <2>1
    <2>3. Len(rows) \in Nat
      OBVIOUS
    <2> QED BY <2>2, <2>3
  <1> HIDE DEF IsList, list
  <1>8. h[Len(rows)] = g[Len(rows)]
    <2>1. Alike(g, h, Len(rows))
      BY <1>2, <1>7 DEF Alike
    <2>2. PICK n \in Nat : n = Len(rows)
      OBVIOUS
    <2>3. \A i \in 0 .. n : g[i] = h[i]
      BY <2>1, <2>2, SameValues
    <2> QED BY <2>2, <2>3
  <1> QED BY <1>1, <1>2, <1>5, <1>8

\* One more motion is collected; none gives no contexts.
LEMMA CollectedAppended ==
  ASSUME NEW rows \in Seq(MotionRow), NEW m \in MotionRow
  PROVE  /\ Collected(rows) \in Seq(Nat)
         /\ Collected(Append(rows, m)) = Collect(Collected(rows), m)
  <1>1. PICK more : more = Append(rows, m)
    OBVIOUS
  <1>2. PICK n \in Nat : n = Len(rows)
    OBVIOUS
  <1>3. /\ more \in Seq(MotionRow) /\ Len(more) = n + 1 /\ more[n + 1] = m
        /\ \A i \in 1 .. n : more[i] = rows[i]
    BY <1>1, <1>2, Appended
  <1>4. PICK g \in [0 .. n -> Seq(Nat)] :
          /\ g[0] = << >>
          /\ \A i \in 1 .. n : g[i] = Collect(g[i - 1], rows[i])
          /\ Collected(rows) = g[n]
    BY <1>2, Lists
  <1>5. PICK h \in [0 .. n + 1 -> Seq(Nat)] :
          /\ h[0] = << >>
          /\ \A i \in 1 .. n + 1 : h[i] = Collect(h[i - 1], more[i])
          /\ Collected(more) = h[n + 1]
    BY <1>3, Lists
  <1>6. \A i \in 1 .. n : i \in 1 .. n + 1
    OBVIOUS
  <1>7. g[n] = h[n]
    <2>1. Alike(g, h, n)
      BY <1>3, <1>4, <1>5, <1>6 DEF Alike
    <2>2. PICK a, b : a = g /\ b = h
      OBVIOUS
    <2>3. Alike(a, b, n)
      BY <2>1, <2>2
    <2>4. \A i \in 0 .. n : a[i] = b[i]
      BY <2>3, SameValues
    <2> QED BY <2>2, <2>4
  <1>8. h[n + 1] = Collect(h[n], m)
    <2>1. n + 1 \in 1 .. n + 1 /\ (n + 1) - 1 = n
      OBVIOUS
    <2>2. h[n + 1] = Collect(h[(n + 1) - 1], more[n + 1])
      BY <1>5, <2>1
    <2> QED BY <1>3, <2>1, <2>2
  <1> QED BY <1>1, <1>4, <1>5, <1>7, <1>8

LEMMA CollectedNone == Collected(<< >>) = << >>
  <1>1. << >> \in Seq(MotionRow) /\ Len(<< >>) = 0
    OBVIOUS
  <1>2. PICK g : g[0] = << >> /\ Collected(<< >>) = g[0]
    BY <1>1, Lists
  <1> QED BY <1>2

\* The same for the reversals.
TurnsRow == [count : Nat, previous : Vector \cup {Null}]
NoTurns == [count |-> 0, previous |-> Null]

LEMMA TurnFacts ==
  ASSUME NEW turns \in TurnsRow, NEW m \in MotionRow
  PROVE  Turn(turns, m.delta) \in TurnsRow
  <1>1. m.delta \in Vector \cup {Null}
    BY VectorsAssumption DEF MotionRow
  <1>2. PICK count \in Nat :
          count = IF turns.previous # Null /\ m.delta # Zero /\ Dot(turns.previous, m.delta) < 0
                    THEN turns.count + 1 ELSE turns.count
    BY DEF TurnsRow
  <1>3. PICK previous \in Vector \cup {Null} :
          previous = IF m.delta # Zero THEN m.delta ELSE turns.previous
    BY <1>1 DEF TurnsRow
  <1>4. Turn(turns, m.delta) = [count |-> count, previous |-> previous]
    BY <1>2, <1>3 DEF Turn
  <1> QED BY <1>4 DEF TurnsRow

\* What Turned computes: the last of the counts g[0], g[1], ...
LEMMA Turnings ==
  ASSUME NEW rows \in Seq(MotionRow)
  PROVE  \E g \in [0 .. Len(rows) -> TurnsRow] :
           /\ g[0] = NoTurns
           /\ \A i \in 1 .. Len(rows) : g[i] = Turn(g[i - 1], rows[i].delta)
           /\ Turned(rows) = g[Len(rows)]
  <1> DEFINE IsTurns(g) == g = [i \in 0 .. Len(rows) |-> IF i = 0 THEN NoTurns
                                                         ELSE Turn(g[i - 1], rows[i].delta)]
             turns == CHOOSE g : IsTurns(g)
             add == [p \in TurnsRow \X MotionRow |-> Turn(p[1], p[2].delta)]
  <1>1. Turned(rows) = turns[Len(rows)]
    BY DEF Turned, NoTurns
  <1>2. PICK g \in [0 .. Len(rows) -> TurnsRow] :
          /\ g[0] = NoTurns
          /\ \A i \in 1 .. Len(rows) : g[i] = Turn(g[i - 1], rows[i].delta)
    <2>1. add \in [TurnsRow \X MotionRow -> TurnsRow]
          /\ \A a \in TurnsRow, b \in MotionRow : add[<<a, b>>] = Turn(a, b.delta)
      BY TurnFacts
    <2> HIDE DEF add
    <2>2. CanRecur(TurnsRow, MotionRow, NoTurns, add, Len(rows), rows)
      <3>1. Len(rows) \in Nat /\ rows \in [1 .. Len(rows) -> MotionRow] /\ NoTurns \in TurnsRow
        BY DEF NoTurns, TurnsRow
      <3> QED BY <2>1, <3>1 DEF CanRecur
    <2>3. PICK g \in [0 .. Len(rows) -> TurnsRow] : Recurs(g, NoTurns, add, Len(rows), rows)
      BY <2>2, Recursion
    <2>4. ASSUME NEW i \in 1 .. Len(rows)
          PROVE  g[i] = Turn(g[i - 1], rows[i].delta)
      <3>1. PICK a \in TurnsRow, b \in MotionRow : a = g[i - 1] /\ b = rows[i]
        OBVIOUS
      <3>2. g[i] = add[<<a, b>>]
        BY <2>3, <3>1 DEF Recurs
      <3> QED BY <2>1, <3>1, <3>2
    <2> QED BY <2>3, <2>4 DEF Recurs
  <1>3. IsTurns(g)
    <2>1. PICK f : f = [i \in 0 .. Len(rows) |-> IF i = 0 THEN NoTurns
                                                 ELSE Turn(g[i - 1], rows[i].delta)]
      OBVIOUS
    <2>2. \A i \in 0 .. Len(rows) : f[i] = g[i]
      BY <1>2, <2>1
    <2>3. f = g
      BY <2>1, <2>2
    <2> QED BY <2>1, <2>3
  <1>4. IsTurns(turns)
    <2> HIDE DEF IsTurns
    <2> QED BY <1>3
  <1>5. PICK h : h = turns
    OBVIOUS
  <1>6. IsTurns(h)
    <2> HIDE DEF IsTurns, turns
    <2> QED BY <1>4, <1>5
  <1>7. h[0] = NoTurns /\ \A i \in 1 .. Len(rows) : h[i] = Turn(h[i - 1], rows[i].delta)
    <2>1. h = [i \in 0 .. Len(rows) |-> IF i = 0 THEN NoTurns ELSE Turn(h[i - 1], rows[i].delta)]
      BY <1>6
    <2>2. \A i \in 0 .. Len(rows) : h[i] = IF i = 0 THEN NoTurns ELSE Turn(h[i - 1], rows[i].delta)
      BY <2>1
    <2>3. Len(rows) \in Nat
      OBVIOUS
    <2> QED BY <2>2, <2>3
  <1> HIDE DEF IsTurns, turns
  <1>8. h[Len(rows)] = g[Len(rows)]
    <2>1. Alike(g, h, Len(rows))
      BY <1>2, <1>7 DEF Alike
    <2>2. PICK n \in Nat : n = Len(rows)
      OBVIOUS
    <2>3. \A i \in 0 .. n : g[i] = h[i]
      BY <2>1, <2>2, SameValues
    <2> QED BY <2>2, <2>3
  <1> QED BY <1>1, <1>2, <1>5, <1>8

\* One more motion is compared.
LEMMA TurnedAppended ==
  ASSUME NEW rows \in Seq(MotionRow), NEW m \in MotionRow
  PROVE  /\ Turned(rows) \in TurnsRow
         /\ Turned(Append(rows, m)) = Turn(Turned(rows), m.delta)
  <1>1. PICK more : more = Append(rows, m)
    OBVIOUS
  <1>2. PICK n \in Nat : n = Len(rows)
    OBVIOUS
  <1>3. /\ more \in Seq(MotionRow) /\ Len(more) = n + 1 /\ more[n + 1] = m
        /\ \A i \in 1 .. n : more[i] = rows[i]
    BY <1>1, <1>2, Appended
  <1>4. PICK g \in [0 .. n -> TurnsRow] :
          /\ g[0] = NoTurns
          /\ \A i \in 1 .. n : g[i] = Turn(g[i - 1], rows[i].delta)
          /\ Turned(rows) = g[n]
    BY <1>2, Turnings
  <1>5. PICK h \in [0 .. n + 1 -> TurnsRow] :
          /\ h[0] = NoTurns
          /\ \A i \in 1 .. n + 1 : h[i] = Turn(h[i - 1], more[i].delta)
          /\ Turned(more) = h[n + 1]
    BY <1>3, Turnings
  <1>6. \A i \in 1 .. n : i \in 1 .. n + 1
    OBVIOUS
  <1>7. g[n] = h[n]
    <2>1. Alike(g, h, n)
      BY <1>3, <1>4, <1>5, <1>6 DEF Alike
    <2>2. PICK a, b : a = g /\ b = h
      OBVIOUS
    <2>3. Alike(a, b, n)
      BY <2>1, <2>2
    <2>4. \A i \in 0 .. n : a[i] = b[i]
      BY <2>3, SameValues
    <2> QED BY <2>2, <2>4
  <1>8. h[n + 1] = Turn(h[n], m.delta)
    <2>1. n + 1 \in 1 .. n + 1 /\ (n + 1) - 1 = n
      OBVIOUS
    <2>2. h[n + 1] = Turn(h[(n + 1) - 1], more[n + 1].delta)
      BY <1>5, <2>1
    <2> QED BY <1>3, <2>1, <2>2
  <1> QED BY <1>1, <1>4, <1>5, <1>7, <1>8

\* No motion, no reversal.
LEMMA TurnedNone == Turned(<< >>) = NoTurns
  <1>1. << >> \in Seq(MotionRow) /\ Len(<< >>) = 0
    OBVIOUS
  <1>2. PICK g : g[0] = NoTurns /\ Turned(<< >>) = g[0]
    BY <1>1, Turnings
  <1> QED BY <1>2

\* The types, of the sums in particular.
MetricsTypeOK ==
  /\ samples \in Seq(SampleRow)
  /\ motions \in Seq(MotionRow)
  /\ device \in [available : BOOLEAN, x : Int, y : Int, path : Int]
  /\ compositor \in [available : BOOLEAN, continuous : BOOLEAN, path : Int,
                     previous : Nat, cursor : Vector]
  /\ points \in Seq(PointRow)
  /\ Len(points) = Len(motions)

\* The two flags remember whether there was a gap.
FlagsRemember ==
  /\ device.available <=> \A k \in 1 .. Len(motions) : motions[k].delta # Null
  /\ compositor.continuous <=> \A k \in 1 .. Len(motions) : motions[k].status = "matched"

\* Until then the sums carried along are those of calculate(), and the last
\* position is that of the last context it collects.
DeviceSum == device.available => /\ device.path = DevicePath
                                 /\ Len(motions) = 0 => device.x = 0 /\ device.y = 0
CompositorSum ==
  compositor.continuous =>
    /\ compositor.available <=> Contexts # << >>
    /\ compositor.path = Path
    /\ Contexts # << >> => /\ compositor.previous = Last(Contexts)
                           /\ compositor.cursor = samples[Last(Contexts)].cursor
                           /\ Displacement <= Path

ContextsResolve == Contexts \in Seq(1 .. Len(samples))

\* The last point shows what is carried along, and the steps between the
\* points are the motions.
LastPointShows ==
  motions # << >> =>
    /\ device.available => Last(points).x = device.x /\ Last(points).y = device.y
    /\ Last(points).devicePath = IF device.available THEN device.path ELSE Null
    /\ Last(points).path = IF compositor.continuous THEN compositor.path ELSE Null

StepsShow ==
  device.available =>
    \A i \in 1 .. Len(motions) : /\ points[i].x \in Int /\ points[i].y \in Int
                                 /\ Step(i) = motions[i].delta

\* The motions that compare, and those that reverse the one of them before.
Moves == {i \in 1 .. Len(motions) : motions[i].delta # Zero}
Turns == {j \in 1 .. Len(motions) :
            \E i \in 1 .. j - 1 : /\ Dot(motions[i].delta, motions[j].delta) < 0
                                  /\ \A k \in i + 1 .. j - 1 : motions[k].delta = Zero}

\* The loop has counted them, and remembers the last motion that moved.
TurnsCounted ==
  DeviceComplete =>
    /\ Turned(motions).count = Cardinality(Turns)
    /\ Turned(motions).previous = IF Moves = {} THEN Null ELSE motions[Max(Moves)].delta

\* The inductive invariant of the metrics.
MetricsInv == /\ MetricsTypeOK /\ FlagsRemember /\ GapsStayGaps
              /\ DeviceSum /\ CompositorSum /\ ContextsResolve /\ LastPointShows
              /\ StepsShow /\ TurnsCounted

-----------------------------------------------------------------------------
\* What the rows hold.
LEMMA Numbers ==
  ASSUME MetricsInv
  PROVE  /\ \A i \in 1 .. Len(samples) : samples[i] \in SampleRow /\ samples[i].cursor \in Cursors
         /\ \A i \in 1 .. Len(motions) : motions[i] \in MotionRow /\ motions[i].delta \in Deltas
         /\ Len(samples) \in Nat /\ Len(motions) \in Nat
  <1>1. samples \in Seq(SampleRow) /\ motions \in Seq(MotionRow)
    BY DEF MetricsInv, MetricsTypeOK
  <1>2. Len(samples) \in Nat /\ Len(motions) \in Nat
    BY <1>1
  <1>3. \A r \in SampleRow : r.cursor \in Cursors
    BY DEF SampleRow
  <1>4. \A r \in MotionRow : r.delta \in Deltas
    BY DEF MotionRow
  <1> QED BY <1>1, <1>2, <1>3, <1>4

\* A delta that is there is a vector, and has a length.
LEMMA DeltaFacts ==
  ASSUME NEW d \in Deltas, d # Null
  PROVE  /\ d \in Vector /\ d.x \in Int /\ d.y \in Int /\ d = [x |-> d.x, y |-> d.y]
         /\ Hypot(d.x, d.y) \in Int
  <1>1. d \in Vector
    BY VectorsAssumption
  <1>2. Hypot(d.x, d.y) \in Nat
    BY HypotAssumption
  <1> QED BY <1>1, <1>2 DEF Vector

\* Distances between cursor positions are numbers, and no detour is shorter.
LEMMA DistanceFacts ==
  /\ \A a, b \in Cursors : Distance(a, b) \in Int
  /\ \A a, b, c \in Cursors : Distance(c, a) <= Distance(b, a) + Distance(c, b)
  <1>1. \A a, b \in Cursors : Distance(a, b) \in Nat
    BY HypotAssumption
  <1>2. \A a, b, c \in Cursors : Distance(c, a) <= Distance(b, a) + Distance(c, b)
    BY HypotAssumption
  <1> QED BY <1>1, <1>2

\* A vector that turns is none at rest.
LEMMA DotFacts ==
  ASSUME NEW a \in Vector, NEW b \in Vector, Dot(a, b) < 0
  PROVE  a # Zero /\ b # Zero
  <1>1. CASE a = Zero
    <2>1. a.x = 0 /\ a.y = 0 /\ b.x \in Int /\ b.y \in Int
      BY <1>1 DEF Zero, Vector
    <2>2. Dot(a, b) = 0
      BY <2>1 DEF Dot
    <2> QED BY <2>2
  <1>2. CASE b = Zero
    <2>1. b.x = 0 /\ b.y = 0 /\ a.x \in Int /\ a.y \in Int
      BY <1>2 DEF Zero, Vector
    <2>2. Dot(a, b) = 0
      BY <2>1 DEF Dot
    <2> QED BY <2>2
  <1> QED BY <1>1, <1>2

\* The sums of the device stay numbers, and its flag falls at a missing delta.
LEMMA DeviceStepFacts ==
  ASSUME MetricsInv, NEW m \in MotionRow
  PROVE  /\ DeviceStep(m) \in [available : BOOLEAN, x : Int, y : Int, path : Int]
         /\ DeviceStep(m).available <=> device.available /\ m.delta # Null
         /\ DeviceStep(m).available =>
              /\ DeviceStep(m).x = device.x + m.delta.x
              /\ DeviceStep(m).y = device.y + m.delta.y
              /\ DeviceStep(m).path = device.path + Hypot(m.delta.x, m.delta.y)
  <1>1. device \in [available : BOOLEAN, x : Int, y : Int, path : Int]
    BY DEF MetricsInv, MetricsTypeOK
  <1>2. CASE m.delta = Null
    <2>1. DeviceStep(m) = [device EXCEPT !.available = FALSE]
      BY <1>2 DEF DeviceStep
    <2>2. ~DeviceStep(m).available
      BY <1>1, <2>1
    <2> QED BY <1>1, <1>2, <2>1, <2>2
  <1>3. CASE m.delta # Null /\ device.available
    <2>1. m.delta.x \in Int /\ m.delta.y \in Int /\ Hypot(m.delta.x, m.delta.y) \in Int
      <3>1. m.delta \in Deltas
        BY DEF MotionRow
      <3> QED BY <1>3, <3>1, DeltaFacts
    <2>2. PICK x \in Int, y \in Int, path \in Int :
            /\ x = device.x + m.delta.x /\ y = device.y + m.delta.y
            /\ path = device.path + Hypot(m.delta.x, m.delta.y)
      BY <1>1, <2>1
    <2>3. DeviceStep(m) = [device EXCEPT !.x = x, !.y = y, !.path = path]
      BY <1>3, <2>2 DEF DeviceStep
    <2>4. /\ DeviceStep(m) \in [available : BOOLEAN, x : Int, y : Int, path : Int]
          /\ DeviceStep(m).x = x /\ DeviceStep(m).y = y /\ DeviceStep(m).path = path
      BY <1>1, <2>3
    <2>5. DeviceStep(m).available
      <3>1. DeviceStep(m).available = device.available
        BY <1>1, <2>3
      <3> QED BY <1>3, <3>1, Zenon
    <2> QED BY <1>3, <2>2, <2>4, <2>5
  <1>4. CASE m.delta # Null /\ ~device.available
    <2>1. DeviceStep(m) = device
      BY <1>4 DEF DeviceStep
    <2> QED BY <1>1, <1>4, <2>1
  <1> QED BY <1>2, <1>3, <1>4

\* These samples have a position.
Located(seen) == seen \in Seq(Nat) /\ \A i \in 1 .. Len(seen) : samples[seen[i]].cursor \in Cursors

\* The positions of the contexts collected are known.
LEMMA ContextsLocated ==
  ASSUME MetricsInv
  PROVE  Located(Contexts) /\ Len(Contexts) \in Nat /\ Contexts \in Seq(1 .. Len(samples))
  <1>1. Contexts \in Seq(1 .. Len(samples)) /\ Len(samples) \in Nat
    BY Numbers DEF MetricsInv, ContextsResolve
  <1>2. Contexts \in Seq(Nat)
    BY <1>1
  <1>3. \A i \in 1 .. Len(Contexts) : Contexts[i] \in 1 .. Len(samples)
    BY <1>1
  <1> QED BY <1>1, <1>2, <1>3, Numbers DEF Located

LEMMA LastContext ==
  ASSUME MetricsInv, Contexts # << >>
  PROVE  samples[Last(Contexts)].cursor \in Cursors
  <1>1. Len(Contexts) \in 1 .. Len(Contexts)
    BY ContextsLocated
  <1> QED BY <1>1, ContextsLocated DEF Located, Last

\* So do the path and the flag of the compositor at an unmatched motion; a
\* matched one adds the step from the position before, if there is a new one.
LEMMA CompositorStepFacts ==
  ASSUME MetricsInv, NEW m \in MotionRow,
         m.status = "matched" => m.context \in 1 .. Len(samples)
  PROVE  /\ CompositorStep(m) \in [available : BOOLEAN, continuous : BOOLEAN, path : Int,
                                   previous : Nat, cursor : Vector]
         /\ CompositorStep(m).continuous <=> compositor.continuous /\ m.status = "matched"
         /\ m.status = "matched" =>
              /\ CompositorStep(m).available <=> compositor.available \/ compositor.continuous
              /\ CompositorStep(m).previous = m.context
              /\ CompositorStep(m).cursor = samples[m.context].cursor
              /\ CompositorStep(m).path =
                   IF /\ compositor.continuous
                      /\ compositor.available
                      /\ m.context # compositor.previous
                     THEN compositor.path + Distance(samples[m.context].cursor, compositor.cursor)
                     ELSE compositor.path
  <1>1. compositor \in [available : BOOLEAN, continuous : BOOLEAN, path : Int,
                        previous : Nat, cursor : Vector]
    BY DEF MetricsInv, MetricsTypeOK
  <1>2. CASE m.status # "matched"
    <2>1. CompositorStep(m) = [compositor EXCEPT !.continuous = FALSE]
      BY <1>2 DEF CompositorStep
    <2>2. ~CompositorStep(m).continuous
      BY <1>1, <2>1
    <2> QED BY <1>1, <1>2, <2>1, <2>2
  <1>3. CASE m.status = "matched"
    <2> DEFINE onward == /\ compositor.continuous
                         /\ compositor.available
                         /\ m.context # compositor.previous
               length == compositor.path + Distance(samples[m.context].cursor, compositor.cursor)
    <2>1. /\ samples[m.context].cursor \in Cursors /\ m.context \in Nat
          /\ samples[m.context].cursor \in Vector
      BY <1>3, Numbers, VectorsAssumption DEF MotionRow
    <2>2. onward => length \in Int
      <3> SUFFICES ASSUME onward PROVE length \in Int
        OBVIOUS
      <3>1. compositor.cursor = samples[Last(Contexts)].cursor /\ Contexts # << >>
        BY DEF MetricsInv, CompositorSum
      <3>2. compositor.cursor \in Cursors
        BY <3>1, LastContext
      <3>3. Distance(samples[m.context].cursor, compositor.cursor) \in Int
        BY <2>1, <3>2, DistanceFacts
      <3> QED BY <1>1, <3>3
    <2>3. PICK path \in Int : path = IF onward THEN length ELSE compositor.path
      <3> HIDE DEF onward, length
      <3> QED BY <1>1, <2>2
    <2>4. PICK available \in BOOLEAN : available = (compositor.available \/ compositor.continuous)
      OBVIOUS
    <2>5. CompositorStep(m) = [compositor EXCEPT !.available = available, !.path = path,
                                                 !.previous = m.context,
                                                 !.cursor = samples[m.context].cursor]
      BY <1>3, <2>3, <2>4 DEF CompositorStep
    <2>6. CompositorStep(m) \in [available : BOOLEAN, continuous : BOOLEAN, path : Int,
                                 previous : Nat, cursor : Vector]
      BY <1>1, <2>1, <2>5
    <2>7. /\ CompositorStep(m).continuous = compositor.continuous
          /\ CompositorStep(m).available = available
          /\ CompositorStep(m).path = path
          /\ CompositorStep(m).previous = m.context
          /\ CompositorStep(m).cursor = samples[m.context].cursor
      BY <1>1, <2>5
    <2>8. CompositorStep(m).continuous <=> compositor.continuous /\ m.status = "matched"
      BY <1>3, <2>7, Zenon
    <2>9. CompositorStep(m).available <=> compositor.available \/ compositor.continuous
      BY <2>4, <2>7, Zenon
    <2> QED BY <2>3, <2>6, <2>7, <2>8, <2>9
  <1> QED BY <1>2, <1>3

\* The device path of the metrics grows by the step of the motion.
LEMMA DevicePathGrows ==
  ASSUME MetricsInv, NEW m \in MotionRow, motions' = Append(motions, m), DeviceComplete'
  PROVE  /\ DeviceComplete /\ m.delta \in Vector /\ m.delta \in Deltas /\ m.delta # Null
         /\ DevicePath' = DevicePath + Hypot(m.delta.x, m.delta.y)
  <1>1. PICK n \in Nat : n = Len(motions)
    BY Numbers
  <1>2. /\ Len(motions') = n + 1 /\ motions'[n + 1] = m
        /\ \A i \in 1 .. n : motions'[i] = motions[i]
    BY <1>1, Appended DEF MetricsInv, MetricsTypeOK
  <1>3. \A i \in 1 .. n + 1 : motions'[i].delta # Null
    BY <1>2 DEF DeviceComplete
  <1>4. m.delta \in Deltas /\ m.delta # Null /\ m.delta \in Vector
    <2>1. m.delta # Null
      BY <1>2, <1>3
    <2> QED BY <2>1, DeltaFacts DEF MotionRow
  <1>5. \A i \in 1 .. n : motions[i].delta # Null /\ motions[i].delta \in Deltas
    BY <1>1, <1>2, <1>3, Numbers
  <1>6. PICK s : s = [i \in 1 .. n |-> Hypot(motions[i].delta.x, motions[i].delta.y)]
    OBVIOUS
  <1>7. PICK t : t = [i \in 1 .. n + 1 |-> Hypot(motions'[i].delta.x, motions'[i].delta.y)]
    OBVIOUS
  <1>8. \A d \in Deltas : d # Null => Hypot(d.x, d.y) \in Int
    BY DeltaFacts
  <1>9. s \in [1 .. n -> Int]
    BY <1>5, <1>6, <1>8
  <1>10. t[n + 1] = Hypot(m.delta.x, m.delta.y) /\ \A i \in 1 .. n : t[i] = s[i]
    BY <1>2, <1>6, <1>7
  <1>11. t \in [1 .. n + 1 -> Int]
    <2>1. \A i \in 1 .. n + 1 : motions'[i].delta \in Deltas /\ motions'[i].delta # Null
      BY <1>2, <1>4, <1>5
    <2> QED BY <1>7, <1>8, <2>1
  <1>12. Total(t) = Total(s) + t[n + 1]
    BY <1>9, <1>10, <1>11, TotalAppended
  <1>13. DevicePath = Total(s) /\ DevicePath' = Total(t)
    BY <1>1, <1>2, <1>6, <1>7 DEF DevicePath
  <1> QED BY <1>1, <1>4, <1>5, <1>10, <1>12, <1>13 DEF DeviceComplete

-----------------------------------------------------------------------------
\* The path of the metrics along any contexts seen.
PathAlong(seen) ==
  Total([i \in 1 .. Len(seen) |->
           IF i = 1 THEN 0 ELSE Distance(samples[seen[i]].cursor, samples[seen[i - 1]].cursor)])

\* One more context adds the way to it from the last one.
LEMMA PathGrows ==
  ASSUME NEW n \in Nat, NEW seen, Located(seen), Len(seen) = n,
         NEW c \in Nat, samples[c].cursor \in Cursors
  PROVE  /\ PathAlong(seen) \in Int
         /\ PathAlong(Append(seen, c)) =
              IF n = 0 THEN PathAlong(seen)
              ELSE PathAlong(seen) + Distance(samples[c].cursor, samples[seen[n]].cursor)
  <1> USE DEF Located
  <1>1. PICK more : more = Append(seen, c)
    OBVIOUS
  <1>2. /\ Len(more) = n + 1 /\ more[n + 1] = c
        /\ \A i \in 1 .. n : more[i] = seen[i]
    BY <1>1, Appended
  <1>3. \A a, b \in Cursors : Distance(a, b) \in Int
    BY HypotAssumption
  <1>4. PICK s : s = [i \in 1 .. n |->
                        IF i = 1 THEN 0 ELSE Distance(samples[seen[i]].cursor, samples[seen[i - 1]].cursor)]
    OBVIOUS
  <1>5. PICK t : t = [i \in 1 .. n + 1 |->
                        IF i = 1 THEN 0 ELSE Distance(samples[more[i]].cursor, samples[more[i - 1]].cursor)]
    OBVIOUS
  <1>6. s \in [1 .. n -> Int]
    <2>1. \A i \in 1 .. n : i # 1 => i - 1 \in 1 .. n
      OBVIOUS
    <2>2. \A i \in 1 .. n : i # 1 => Distance(samples[seen[i]].cursor, samples[seen[i - 1]].cursor) \in Int
      BY <1>3, <2>1
    <2> QED BY <1>4, <2>2
  <1>7. \A i \in 1 .. n : t[i] = s[i]
    <2>1. \A i \in 1 .. n : i \in 1 .. n + 1 /\ (i # 1 => i - 1 \in 1 .. n)
      OBVIOUS
    <2> QED BY <1>2, <1>4, <1>5, <2>1
  <1>8. t[n + 1] = IF n = 0 THEN 0 ELSE Distance(samples[c].cursor, samples[seen[n]].cursor)
    <2>1. n + 1 \in 1 .. n + 1 /\ (n + 1) - 1 = n /\ (n + 1 = 1 <=> n = 0)
      OBVIOUS
    <2>2. n # 0 => n \in 1 .. n
      OBVIOUS
    <2> QED BY <1>2, <1>5, <2>1, <2>2
  <1>9. t \in [1 .. n + 1 -> Int]
    <2>1. t[n + 1] \in Int
      <3>1. n # 0 => Distance(samples[c].cursor, samples[seen[n]].cursor) \in Int
        <4>1. n # 0 => n \in 1 .. n
          OBVIOUS
        <4> QED BY <1>3, <4>1
      <3> QED BY <1>8, <3>1
    <2>2. \A i \in 1 .. n + 1 : t[i] \in Int
      <3>1. \A i \in 1 .. n + 1 : i \in 1 .. n \/ i = n + 1
        OBVIOUS
      <3> QED BY <1>6, <1>7, <2>1, <3>1
    <2> QED BY <1>5, <2>2
  <1>10. Total(s) \in Int /\ Total(t) = Total(s) + t[n + 1]
    BY <1>6, <1>7, <1>9, TotalAppended
  <1>11. PathAlong(seen) = Total(s) /\ PathAlong(more) = Total(t)
    BY <1>2, <1>4, <1>5 DEF PathAlong
  <1> QED BY <1>1, <1>8, <1>10, <1>11

\* No context and a first one are no way.
LEMMA PathOfNone == PathAlong(<< >>) = 0
  <1>1. PICK s : s = [i \in 1 .. 0 |->
                        IF i = 1 THEN 0
                        ELSE Distance(samples[<< >>[i]].cursor, samples[<< >>[i - 1]].cursor)]
    OBVIOUS
  <1>2. s = << >>
    BY <1>1
  <1>3. PathAlong(<< >>) = Total(s)
    BY <1>1 DEF PathAlong
  <1> QED BY <1>2, <1>3, TotalOfNone

LEMMA PathOfOne ==
  ASSUME NEW c \in Nat, samples[c].cursor \in Cursors
  PROVE  PathAlong(Append(<< >>, c)) = 0
  <1>1. << >> \in Seq(Nat) /\ Len(<< >>) = 0
    OBVIOUS
  <1>2. Located(<< >>)
    BY <1>1 DEF Located
  <1> QED BY <1>1, <1>2, PathGrows, PathOfNone

\* What a motion does to the contexts collected.
LEMMA ContextsStep ==
  ASSUME MetricsInv, NEW m \in MotionRow, m.status = "matched" => m.context \in 1 .. Len(samples),
         motions' = Append(motions, m), samples' = samples
  PROVE  /\ Contexts' = Collect(Contexts, m)
         /\ ContextsResolve'
  <1>1. motions \in Seq(MotionRow) /\ Contexts \in Seq(1 .. Len(samples))
    BY DEF MetricsInv, MetricsTypeOK, ContextsResolve
  <1>2. Contexts' = Collect(Contexts, m)
    BY <1>1, CollectedAppended DEF Contexts
  <1>3. Collect(Contexts, m) \in Seq(1 .. Len(samples))
    <2>1. m.status = "matched" => Append(Contexts, m.context) \in Seq(1 .. Len(samples))
      BY <1>1
    <2> QED BY <1>1, <2>1 DEF Collect
  <1> QED BY <1>2, <1>3 DEF ContextsResolve

\* The path carried along stays that of the metrics, and no displacement is
\* longer: a step of the path is at most what it adds to the displacement.
LEMMA CompositorSumStep ==
  ASSUME MetricsInv, NEW m \in MotionRow, m.status = "matched" => m.context \in 1 .. Len(samples),
         motions' = Append(motions, m), samples' = samples, compositor' = CompositorStep(m)
  PROVE  CompositorSum'
  <1> SUFFICES ASSUME compositor'.continuous
               PROVE  /\ compositor'.available <=> Contexts' # << >>
                      /\ compositor'.path = Path'
                      /\ Contexts' # << >> =>
                           /\ compositor'.previous = Last(Contexts')
                           /\ compositor'.cursor = samples[Last(Contexts')].cursor
                           /\ Displacement' <= Path'
    BY DEF CompositorSum
  <1>1. m.status = "matched" /\ compositor.continuous
    BY CompositorStepFacts
  <1>2. /\ compositor.available <=> Contexts # << >>
        /\ compositor.path = Path
        /\ Contexts # << >> => /\ compositor.previous = Last(Contexts)
                               /\ compositor.cursor = samples[Last(Contexts)].cursor
                               /\ Displacement <= Path
    BY <1>1 DEF MetricsInv, CompositorSum
  <1>3. /\ compositor'.available
        /\ compositor'.previous = m.context
        /\ compositor'.cursor = samples[m.context].cursor
        /\ compositor'.path =
             IF compositor.available /\ m.context # compositor.previous
               THEN compositor.path + Distance(samples[m.context].cursor, compositor.cursor)
               ELSE compositor.path
    BY <1>1, CompositorStepFacts
  <1>4. m.context \in Nat /\ m.context \in 1 .. Len(samples) /\ samples[m.context].cursor \in Cursors
    BY <1>1, Numbers
  <1>5. Located(Contexts) /\ Contexts \in Seq(Nat)
    BY ContextsLocated DEF Located
  <1>6. Path = PathAlong(Contexts) /\ Path' = PathAlong(Contexts')
    BY DEF Path, PathAlong
  <1>7. Displacement' = Distance(samples[Last(Contexts')].cursor, samples[Contexts'[1]].cursor)
    BY DEF Displacement
  <1>8. CASE Contexts = << >>
    <2>1. Contexts' = Append(<< >>, m.context)
      BY <1>1, <1>8, ContextsStep DEF Collect
    <2>2. Contexts' # << >> /\ Contexts'[1] = m.context /\ Last(Contexts') = m.context
      BY <1>4, <2>1 DEF Last
    <2>3. Path' = 0
      BY <1>4, <1>6, <2>1, PathOfOne
    <2>4. Path = 0
      BY <1>6, <1>8, PathOfNone
    <2>5. Displacement' = 0
      BY <1>4, <1>7, <2>2, HypotAssumption
    <2> QED BY <1>2, <1>3, <1>8, <2>2, <2>3, <2>4, <2>5
  <1>9. CASE Contexts # << >> /\ Last(Contexts) = m.context
    <2>1. Contexts' = Contexts
      BY <1>9, ContextsStep DEF Collect
    <2>2. Displacement' = Displacement /\ Path' = Path
      BY <1>6, <1>7, <2>1 DEF Displacement
    <2> QED BY <1>2, <1>3, <1>9, <2>1, <2>2
  <1>10. CASE Contexts # << >> /\ Last(Contexts) # m.context
    <2>1. Contexts' = Append(Contexts, m.context)
      BY <1>1, <1>10, ContextsStep DEF Collect
    <2>2. PICK n \in Nat : n = Len(Contexts) /\ n # 0
      BY <1>5, <1>10
    <2>3. /\ Contexts' # << >> /\ Last(Contexts') = m.context
          /\ Last(Contexts) = Contexts[n] /\ Contexts'[1] = Contexts[1]
      BY <1>4, <1>5, <2>1, <2>2 DEF Last
    <2>4. samples[Contexts[n]].cursor \in Cursors /\ samples[Contexts[1]].cursor \in Cursors
      BY <1>5, <2>2 DEF Located
    <2>5. /\ PathAlong(Contexts) \in Int
          /\ Path' = PathAlong(Contexts) + Distance(samples[m.context].cursor, samples[Contexts[n]].cursor)
      BY <1>4, <1>5, <1>6, <2>1, <2>2, PathGrows
    <2>6. Displacement' <= Path'
      <3>1. Displacement = Distance(samples[Contexts[n]].cursor, samples[Contexts[1]].cursor)
        BY <2>3 DEF Displacement
      <3>2. Displacement' = Distance(samples[m.context].cursor, samples[Contexts[1]].cursor)
        BY <1>7, <2>3
      <3>3. Displacement' <= Displacement + Distance(samples[m.context].cursor, samples[Contexts[n]].cursor)
        BY <1>4, <2>4, <3>1, <3>2, DistanceFacts
      <3>4. /\ Displacement \in Int /\ Displacement' \in Int
            /\ Distance(samples[m.context].cursor, samples[Contexts[n]].cursor) \in Int
        BY <1>4, <2>4, <3>1, <3>2, DistanceFacts
      <3> QED BY <1>2, <1>6, <1>10, <2>5, <3>3, <3>4
    <2> QED BY <1>2, <1>3, <1>6, <1>10, <2>3, <2>5, <2>6
  <1> QED BY <1>8, <1>9, <1>10

-----------------------------------------------------------------------------
\* The ends of a set of indices.
LEMMA Ends ==
  ASSUME NEW n \in Nat, NEW S \in SUBSET (1 .. n), S # {}
  PROVE  /\ Min(S) \in S /\ \A i \in S : Min(S) <= i
         /\ Max(S) \in S /\ \A i \in S : i <= Max(S)
  <1>1. Min(S) \in S /\ \A i \in S : Min(S) <= i
    <2>1. S \in SUBSET Nat
      OBVIOUS
    <2>2. \E i \in S : \A j \in S : i <= j
      BY <2>1, LeastNumber
    <2> QED BY <2>2 DEF Min
  <1>2. Max(S) \in S /\ \A i \in S : i <= Max(S)
    <2> DEFINE Bounds == {k \in 0 .. n : \A i \in S : i <= k}
    <2>1. n \in Bounds /\ Bounds \in SUBSET Nat
      OBVIOUS
    <2>2. \A k : k \in Bounds <=> k \in 0 .. n /\ \A i \in S : i <= k
      OBVIOUS
    <2> HIDE DEF Bounds
    <2>3. PICK k \in Bounds : \A l \in Bounds : k <= l
      BY <2>1, LeastNumber
    <2>4. k \in Nat /\ k \in 0 .. n
      BY <2>1, <2>2
    <2>5. k \in S
      <3> SUFFICES ASSUME k \notin S PROVE FALSE
        OBVIOUS
      <3>1. \A i \in S : i <= k /\ i # k /\ i \in 1 .. n
        BY <2>2
      <3>2. \A i \in S : i <= k - 1 /\ 1 <= k
        BY <2>4, <3>1
      <3>3. k - 1 \in 0 .. n
        <4>1. PICK i : i \in S
          OBVIOUS
        <4>2. 1 <= k
          BY <3>2, <4>1
        <4> QED BY <2>4, <4>2
      <3>4. k - 1 \in Bounds
        BY <2>2, <3>2, <3>3
      <3> QED BY <2>3, <2>4, <3>4
    <2>6. \E i \in S : \A j \in S : i >= j
      BY <2>2, <2>4, <2>5
    <2>7. /\ Max(S) \in S /\ \A i \in S : Max(S) >= i
      BY <2>6 DEF Max
    <2> QED BY <2>7
  <1> QED BY <1>1, <1>2

\* Turns among the first n motions, and one more.
LEMMA TurnsAreFinite ==
  ASSUME NEW n \in Nat, NEW S \in SUBSET (1 .. n)
  PROVE  /\ IsFiniteSet(S) /\ Cardinality(S) \in Nat
         /\ Cardinality(S \cup {n + 1}) = Cardinality(S) + 1
  <1>1. IsFiniteSet(1 .. n)
    BY FS_Interval
  <1>2. IsFiniteSet(S)
    BY <1>1, FS_Subset
  <1>3. n + 1 \notin S
    OBVIOUS
  <1> QED BY <1>2, <1>3, FS_CardinalityType, FS_AddElement

\* The last motion that moved is the one a new motion is compared with.
LEMMA TurnsStep ==
  ASSUME MetricsInv, NEW m \in MotionRow, motions' = Append(motions, m)
  PROVE  TurnsCounted'
  <1> SUFFICES ASSUME DeviceComplete'
               PROVE  /\ Turned(motions').count = Cardinality(Turns')
                      /\ Turned(motions').previous =
                           IF Moves' = {} THEN Null ELSE motions'[Max(Moves')].delta
    BY DEF TurnsCounted
  <1>1. PICK n \in Nat : n = Len(motions)
    BY Numbers
  <1>2. /\ Len(motions') = n + 1 /\ motions'[n + 1] = m
        /\ \A i \in 1 .. n : motions'[i] = motions[i]
    BY <1>1, Appended DEF MetricsInv, MetricsTypeOK
  <1>3. DeviceComplete /\ m.delta \in Vector
    BY DevicePathGrows
  <1>4. \A i \in 1 .. n : motions[i].delta \in Vector
    BY <1>1, <1>3, Numbers, DeltaFacts DEF DeviceComplete
  <1>5. /\ Turned(motions).count = Cardinality(Turns)
        /\ Turned(motions).previous = IF Moves = {} THEN Null ELSE motions[Max(Moves)].delta
    BY <1>3 DEF MetricsInv, TurnsCounted
  <1>6. Turned(motions') = Turn(Turned(motions), m.delta)
    BY TurnedAppended DEF MetricsInv, MetricsTypeOK
  <1>7. /\ Turned(motions').count =
             IF Turned(motions).previous # Null /\ m.delta # Zero
                /\ Dot(Turned(motions).previous, m.delta) < 0
               THEN Turned(motions).count + 1 ELSE Turned(motions).count
        /\ Turned(motions').previous = IF m.delta # Zero THEN m.delta ELSE Turned(motions).previous
    BY <1>6 DEF Turn
  <1>8. \A i : i \in 1 .. n + 1 <=> i \in 1 .. n \/ i = n + 1
    OBVIOUS
  <1>9. /\ Moves \in SUBSET (1 .. n) /\ Turns \in SUBSET (1 .. n)
        /\ \A i : i \in Moves <=> i \in 1 .. n /\ motions[i].delta # Zero
    BY <1>1 DEF Moves, Turns
  <1>10. Moves' = IF m.delta = Zero THEN Moves ELSE Moves \cup {n + 1}
    <2>1. \A i : i \in Moves' <=> i \in 1 .. n + 1 /\ motions'[i].delta # Zero
      BY <1>2 DEF Moves
    <2>2. \A i : i \in Moves' <=> i \in Moves \/ (i = n + 1 /\ m.delta # Zero)
      BY <1>2, <1>8, <1>9, <2>1
    <2> QED BY <2>2
  <1>11. \A j \in 1 .. n : j \in Turns' <=> j \in Turns
    <2> TAKE j \in 1 .. n
    <2>1. \A i \in 1 .. j - 1 : i \in 1 .. n /\ i + 1 \in Nat
      OBVIOUS
    <2>2. \A i \in 1 .. j - 1 : \A k \in i + 1 .. j - 1 : k \in 1 .. n
      OBVIOUS
    <2>3. j \in Turns <=> \E i \in 1 .. j - 1 :
                            /\ Dot(motions[i].delta, motions[j].delta) < 0
                            /\ \A k \in i + 1 .. j - 1 : motions[k].delta = Zero
      BY <1>1 DEF Turns
    <2>4. j \in Turns' <=> \E i \in 1 .. j - 1 :
                             /\ Dot(motions'[i].delta, motions'[j].delta) < 0
                             /\ \A k \in i + 1 .. j - 1 : motions'[k].delta = Zero
      BY <1>2, <1>8 DEF Turns
    <2> QED BY <1>2, <2>1, <2>2, <2>3, <2>4
  <1>12. n + 1 \in Turns' <=> \E i \in 1 .. n : /\ Dot(motions[i].delta, m.delta) < 0
                                                /\ \A k \in i + 1 .. n : motions[k].delta = Zero
    <2>1. n + 1 \in Turns' <=> \E i \in 1 .. n :
                                 /\ Dot(motions'[i].delta, motions'[n + 1].delta) < 0
                                 /\ \A k \in i + 1 .. n : motions'[k].delta = Zero
      <3>1. n + 1 \in 1 .. n + 1 /\ (n + 1) - 1 = n
        OBVIOUS
      <3> QED BY <1>2, <3>1 DEF Turns
    <2>2. \A i \in 1 .. n : \A k \in i + 1 .. n : k \in 1 .. n
      OBVIOUS
    <2> QED BY <1>2, <2>1, <2>2
  <1>13. \A j : j \in Turns' => j \in 1 .. n + 1
    BY <1>2 DEF Turns
  <1>14. n + 1 \notin Turns' => Turns' = Turns
    BY <1>8, <1>9, <1>11, <1>13
  <1>15. CASE m.delta = Zero
    <2>1. n + 1 \notin Turns'
      BY <1>3, <1>4, <1>12, <1>15, DotFacts
    <2>2. Turns' = Turns /\ Moves' = Moves
      BY <1>10, <1>14, <1>15, <2>1
    <2>3. Moves # {} => motions'[Max(Moves)] = motions[Max(Moves)]
      BY <1>2, <1>9, Ends
    <2> QED BY <1>5, <1>7, <1>15, <2>2, <2>3
  <1>16. CASE m.delta # Zero /\ Moves = {}
    <2>1. \A i \in 1 .. n : motions[i].delta = Zero
      BY <1>9, <1>16
    <2>2. n + 1 \notin Turns'
      BY <1>3, <1>4, <1>12, <2>1, DotFacts
    <2>3. Turns' = Turns
      BY <1>14, <2>2
    <2>4. Moves' = {n + 1} /\ Max(Moves') = n + 1
      <3>1. Moves' = {n + 1}
        BY <1>10, <1>16
      <3>2. Moves' \in SUBSET (1 .. n + 1) /\ Moves' # {} /\ n + 1 \in Nat
        BY <3>1
      <3>3. Max(Moves') \in Moves'
        BY <3>2, Ends
      <3> QED BY <3>1, <3>3
    <2> QED BY <1>2, <1>5, <1>7, <1>16, <2>3, <2>4
  <1>17. CASE m.delta # Zero /\ Moves # {}
    <2>1. PICK last \in Moves : last = Max(Moves) /\ \A i \in Moves : i <= last
      BY <1>9, <1>17, Ends
    <2>2. last \in 1 .. n
      BY <1>9
    <2>3. Moves' = Moves \cup {n + 1}
      BY <1>10, <1>17
    <2>4. Max(Moves') = n + 1
      <3>1. Moves' \in SUBSET (1 .. n + 1) /\ Moves' # {} /\ n + 1 \in Nat
        BY <1>8, <1>9, <2>3
      <3>2. Max(Moves') \in Moves' /\ \A i \in Moves' : i <= Max(Moves')
        BY <3>1, Ends
      <3>3. n + 1 <= Max(Moves') /\ Max(Moves') \in 1 .. n + 1
        BY <2>3, <3>1, <3>2
      <3> QED BY <3>3
    <2>5. n + 1 \in Turns' <=> Dot(motions[last].delta, m.delta) < 0
      <3>1. ASSUME NEW i \in 1 .. n, Dot(motions[i].delta, m.delta) < 0,
                   \A k \in i + 1 .. n : motions[k].delta = Zero
            PROVE  i = last
        <4>1. motions[i].delta # Zero
          BY <1>3, <1>4, <3>1, DotFacts
        <4>2. i <= last
          BY <1>9, <2>1, <4>1
        <4>3. ~ (i < last)
          BY <1>9, <2>2, <3>1
        <4> QED BY <2>2, <4>2, <4>3
      <3>2. \A k \in last + 1 .. n : motions[k].delta = Zero
        <4>1. \A k \in last + 1 .. n : k \in 1 .. n /\ ~ (k <= last)
          BY <2>2
        <4> QED BY <1>9, <2>1, <4>1
      <3> QED BY <1>12, <2>2, <3>1, <3>2
    <2>6. Turned(motions).previous = motions[last].delta /\ motions[last].delta # Null
      <3>1. motions[last].delta # Null
        BY <1>4, <2>2, VectorsAssumption
      <3> QED BY <1>5, <1>17, <2>1, <3>1
    <2>7. Turned(motions').previous = motions'[Max(Moves')].delta
      BY <1>2, <1>7, <1>17, <2>4
    <2>8. CASE Dot(motions[last].delta, m.delta) < 0
      <3>1. Turns' = Turns \cup {n + 1}
        BY <1>8, <1>9, <1>11, <1>13, <2>5, <2>8
      <3>2. Cardinality(Turns') = Cardinality(Turns) + 1
        BY <1>9, <3>1, TurnsAreFinite
      <3>3. Turned(motions').count = Turned(motions).count + 1
        BY <1>7, <1>17, <2>6, <2>8
      <3> QED BY <1>5, <2>3, <2>7, <3>2, <3>3
    <2>9. CASE ~ (Dot(motions[last].delta, m.delta) < 0)
      <3>1. Turns' = Turns
        BY <1>14, <2>5, <2>9
      <3>2. Turned(motions').count = Turned(motions).count
        BY <1>7, <2>6, <2>9
      <3> QED BY <1>5, <2>3, <2>7, <3>1, <3>2
    <2> QED BY <2>8, <2>9
  <1> QED BY <1>15, <1>16, <1>17

-----------------------------------------------------------------------------
\* No motion, no gap and nothing to sum.
LEMMA MetricsStart == MetricsInit => MetricsInv
  <1> SUFFICES ASSUME MetricsInit PROVE MetricsInv
    OBVIOUS
  <1>1. samples = << >> /\ motions = << >> /\ points = << >>
    BY DEF MetricsInit
  <1>2. /\ device \in [available : BOOLEAN, x : Int, y : Int, path : Int]
        /\ device.available /\ device.path = 0 /\ device.x = 0 /\ device.y = 0
    BY DEF MetricsInit
  <1>3. /\ compositor \in [available : BOOLEAN, continuous : BOOLEAN, path : Int,
                           previous : Nat, cursor : Vector]
        /\ compositor.continuous /\ ~compositor.available /\ compositor.path = 0
    <2>1. Zero \in Vector
      BY DEF Zero, Vector
    <2> QED BY <2>1 DEF MetricsInit
  <1>4. 1 .. Len(<< >>) = {}
    OBVIOUS
  <1>5. Contexts = << >>
    BY <1>1, CollectedNone DEF Contexts
  <1>6. MetricsTypeOK
    BY <1>1, <1>2, <1>3 DEF MetricsTypeOK
  <1>7. FlagsRemember
    BY <1>1, <1>2, <1>3, <1>4 DEF FlagsRemember
  <1>8. GapsStayGaps
    BY <1>1, <1>4 DEF GapsStayGaps
  <1>9. DeviceSum
    <2>1. PICK s : s = [i \in 1 .. Len(motions) |->
                          Hypot(motions[i].delta.x, motions[i].delta.y)]
      OBVIOUS
    <2>2. s = << >>
      BY <1>1, <1>4, <2>1
    <2>3. DevicePath = 0
      BY <2>1, <2>2, TotalOfNone DEF DevicePath
    <2> QED BY <1>2, <2>3 DEF DeviceSum
  <1>10. CompositorSum
    <2>1. Path = 0
      <3>1. Path = PathAlong(Contexts)
        BY DEF Path, PathAlong
      <3> QED BY <1>5, <3>1, PathOfNone
    <2> QED BY <1>3, <1>5, <2>1 DEF CompositorSum
  <1>11. ContextsResolve
    BY <1>5 DEF ContextsResolve
  <1>12. LastPointShows
    BY <1>1 DEF LastPointShows
  <1>13. StepsShow
    BY <1>1, <1>4 DEF StepsShow
  <1>14. TurnsCounted
    <2>1. Turned(motions).count = 0 /\ Turned(motions).previous = Null
      BY <1>1, TurnedNone DEF NoTurns
    <2>2. Moves = {} /\ Turns = {}
      BY <1>1, <1>4 DEF Moves, Turns
    <2>3. Cardinality(Turns) = 0
      BY <2>2, FS_EmptySet
    <2> QED BY <2>1, <2>2, <2>3 DEF TurnsCounted
  <1> QED BY <1>6, <1>7, <1>8, <1>9, <1>10, <1>11, <1>12, <1>13, <1>14 DEF MetricsInv

\* A sample is stored before the motions that are matched with it: those there
\* are keep theirs.
LEMMA SampleInvariant ==
  ASSUME MetricsInv, NEW cursor \in Cursors, NEW place \in Places, Sample(cursor, place)
  PROVE  MetricsInv'
  <1>1. /\ samples' = Append(samples, [cursor |-> cursor, monitor |-> place[1], workspace |-> place[2]])
        /\ motions' = motions /\ device' = device /\ compositor' = compositor
        /\ points' = points
    BY DEF Sample
  <1>2. [cursor |-> cursor, monitor |-> place[1], workspace |-> place[2]] \in SampleRow
    BY DEF SampleRow
  <1>3. samples \in Seq(SampleRow) /\ Contexts \in Seq(1 .. Len(samples))
    BY DEF MetricsInv, MetricsTypeOK, ContextsResolve
  <1>4. /\ samples' \in Seq(SampleRow) /\ Len(samples') = Len(samples) + 1
        /\ \A c \in 1 .. Len(samples) : samples'[c] = samples[c]
    BY <1>1, <1>2, <1>3, Appended
  <1>5. Contexts' = Contexts
    BY <1>1 DEF Contexts
  <1>6. \A i \in 1 .. Len(Contexts) : samples'[Contexts[i]] = samples[Contexts[i]]
    <2>1. \A i \in 1 .. Len(Contexts) : Contexts[i] \in 1 .. Len(samples)
      BY <1>3
    <2> QED BY <1>4, <2>1
  <1>7. Path' = Path
    <2>1. PICK s : s = [i \in 1 .. Len(Contexts) |->
                          IF i = 1 THEN 0
                          ELSE Distance(samples[Contexts[i]].cursor, samples[Contexts[i - 1]].cursor)]
      OBVIOUS
    <2>2. PICK t : t = [i \in 1 .. Len(Contexts) |->
                          IF i = 1 THEN 0
                          ELSE Distance(samples'[Contexts[i]].cursor, samples'[Contexts[i - 1]].cursor)]
      OBVIOUS
    <2>3. \A i \in 1 .. Len(Contexts) : i # 1 => i - 1 \in 1 .. Len(Contexts)
      BY <1>3
    <2>4. s = t
      BY <1>6, <2>1, <2>2, <2>3
    <2>5. Path = Total(s) /\ Path' = Total(t)
      BY <1>5, <2>1, <2>2 DEF Path
    <2> QED BY <2>4, <2>5
  <1>8. CompositorSum'
    <2>1. Contexts # << >> => 1 \in 1 .. Len(Contexts) /\ Len(Contexts) \in 1 .. Len(Contexts)
      BY <1>3
    <2>2. Contexts # << >> => /\ samples'[Last(Contexts)] = samples[Last(Contexts)]
                              /\ Displacement' = Displacement
      BY <1>5, <1>6, <2>1 DEF Displacement, Last
    <2> QED BY <1>1, <1>5, <1>7, <2>2 DEF MetricsInv, CompositorSum
  <1>9. ContextsResolve'
    <2>1. \A c \in 1 .. Len(samples) : c \in 1 .. Len(samples')
      BY <1>3, <1>4
    <2>2. \A i \in 1 .. Len(Contexts) : Contexts[i] \in 1 .. Len(samples')
      BY <1>3, <2>1
    <2>3. Contexts \in Seq(1 .. Len(samples'))
      BY <1>3, <2>2
    <2> QED BY <1>5, <2>3 DEF ContextsResolve
  <1>10. MetricsTypeOK'
    BY <1>1, <1>4 DEF MetricsInv, MetricsTypeOK
  <1>11. FlagsRemember' /\ GapsStayGaps' /\ DeviceSum' /\ LastPointShows'
    BY <1>1 DEF MetricsInv, FlagsRemember, GapsStayGaps, DeviceSum, DevicePath, LastPointShows
  <1>12. StepsShow' /\ TurnsCounted'
    <2>1. \A i \in 1 .. Len(motions) : Step(i)' = Step(i)
      BY <1>1 DEF Step
    <2>2. DeviceComplete' = DeviceComplete /\ Moves' = Moves /\ Turns' = Turns
      BY <1>1 DEF DeviceComplete, Moves, Turns
    <2> QED BY <1>1, <2>1, <2>2 DEF MetricsInv, StepsShow, TurnsCounted
  <1> QED BY <1>8, <1>9, <1>10, <1>11, <1>12 DEF MetricsInv

\* One iteration of persist_trajectory.
LEMMA TakeMotionInvariant ==
  ASSUME MetricsInv, NEW m \in NextMotion, TakeMotion(m)
  PROVE  MetricsInv'
  <1> DEFINE point == [x |-> IF device'.available THEN device'.x ELSE Null,
                       y |-> IF device'.available THEN device'.y ELSE Null,
                       devicePath |-> IF device'.available THEN device'.path ELSE Null,
                       path |-> IF compositor'.continuous THEN compositor'.path ELSE Null]
  <1>1. /\ motions' = Append(motions, m) /\ points' = Append(points, point)
        /\ device' = DeviceStep(m) /\ compositor' = CompositorStep(m) /\ samples' = samples
    BY DEF TakeMotion
  <1>2. m \in MotionRow /\ (m.status = "matched" => m.context \in 1 .. Len(samples))
    <2>1. Len(samples) \in Nat
      BY DEF MetricsInv, MetricsTypeOK
    <2>2. m \in [delta : Deltas, status : Statuses, context : 0 .. Len(samples)]
          /\ (m.status = "matched" => m.context > 0)
      BY DEF NextMotion
    <2> QED BY <2>1, <2>2 DEF MotionRow
  <1>3. /\ device' \in [available : BOOLEAN, x : Int, y : Int, path : Int]
        /\ device'.available <=> device.available /\ m.delta # Null
        /\ device'.available => /\ device'.x = device.x + m.delta.x
                                /\ device'.y = device.y + m.delta.y
                                /\ device'.path = device.path + Hypot(m.delta.x, m.delta.y)
    BY <1>1, <1>2, DeviceStepFacts
  <1>4. /\ compositor' \in [available : BOOLEAN, continuous : BOOLEAN, path : Int,
                            previous : Nat, cursor : Vector]
        /\ compositor'.continuous <=> compositor.continuous /\ m.status = "matched"
    BY <1>1, <1>2, CompositorStepFacts
  <1>5. /\ point \in PointRow
        /\ point.devicePath = Null <=> ~device'.available
        /\ point.path = Null <=> ~compositor'.continuous
    <2>1. /\ device'.x \in Int /\ device'.y \in Int /\ device'.path \in Int
          /\ compositor'.path \in Int
      BY <1>3, <1>4
    <2>2. device'.path # Null /\ compositor'.path # Null
      BY <2>1, VectorsAssumption
    <2>3. point.devicePath = Null <=> ~device'.available
      BY <2>2
    <2>4. point.path = Null <=> ~compositor'.continuous
      BY <2>2
    <2>5. point \in PointRow
      BY <2>1 DEF PointRow
    <2> QED BY <2>3, <2>4, <2>5
  <1> HIDE DEF point
  <1>6. PICK n \in Nat : n = Len(motions) /\ n = Len(points)
    BY DEF MetricsInv, MetricsTypeOK
  <1>7. /\ motions' \in Seq(MotionRow) /\ Len(motions') = n + 1 /\ motions'[n + 1] = m
        /\ \A i \in 1 .. n : motions'[i] = motions[i]
    BY <1>1, <1>2, <1>6, Appended DEF MetricsInv, MetricsTypeOK
  <1>8. /\ points' \in Seq(PointRow) /\ Len(points') = n + 1 /\ points'[n + 1] = point
        /\ \A i \in 1 .. n : points'[i] = points[i]
    BY <1>1, <1>5, <1>6, Appended DEF MetricsInv, MetricsTypeOK
  <1>9. MetricsTypeOK'
    BY <1>1, <1>3, <1>4, <1>7, <1>8 DEF MetricsInv, MetricsTypeOK
  <1>10. \A k : k \in 1 .. n + 1 <=> k \in 1 .. n \/ k = n + 1
    OBVIOUS
  <1>11. FlagsRemember'
    <2>1. device'.available <=> \A k \in 1 .. n + 1 : motions'[k].delta # Null
      <3>1. device.available <=> \A k \in 1 .. n : motions[k].delta # Null
        BY <1>6 DEF MetricsInv, FlagsRemember
      <3>2. (\A k \in 1 .. n + 1 : motions'[k].delta # Null)
              <=> (\A k \in 1 .. n : motions[k].delta # Null) /\ m.delta # Null
        BY <1>7, <1>10
      <3> QED BY <1>3, <3>1, <3>2
    <2>2. compositor'.continuous <=> \A k \in 1 .. n + 1 : motions'[k].status = "matched"
      <3>1. compositor.continuous <=> \A k \in 1 .. n : motions[k].status = "matched"
        BY <1>6 DEF MetricsInv, FlagsRemember
      <3>2. (\A k \in 1 .. n + 1 : motions'[k].status = "matched")
              <=> (\A k \in 1 .. n : motions[k].status = "matched") /\ m.status = "matched"
        BY <1>7, <1>10
      <3> QED BY <1>4, <3>1, <3>2
    <2> QED BY <1>7, <2>1, <2>2 DEF FlagsRemember
  <1>12. GapsStayGaps'
    <2>1. ASSUME NEW i \in 1 .. n
          PROVE  /\ points'[i].devicePath = Null <=> \E k \in 1 .. i : motions'[k].delta = Null
                 /\ points'[i].path = Null <=> \E k \in 1 .. i : motions'[k].status # "matched"
      <3>1. \A k \in 1 .. i : k \in 1 .. n /\ motions'[k] = motions[k]
        BY <1>7
      <3>2. points'[i] = points[i]
        BY <1>8
      <3>3. /\ points[i].devicePath = Null <=> \E k \in 1 .. i : motions[k].delta = Null
            /\ points[i].path = Null <=> \E k \in 1 .. i : motions[k].status # "matched"
        BY <1>6 DEF MetricsInv, GapsStayGaps
      <3> QED BY <3>1, <3>2, <3>3
    <2>2. /\ points'[n + 1].devicePath = Null <=> \E k \in 1 .. n + 1 : motions'[k].delta = Null
          /\ points'[n + 1].path = Null <=> \E k \in 1 .. n + 1 : motions'[k].status # "matched"
      BY <1>5, <1>7, <1>8, <1>11 DEF FlagsRemember
    <2> QED BY <1>8, <1>10, <2>1, <2>2 DEF GapsStayGaps
  <1>13. DeviceSum'
    <2> SUFFICES ASSUME device'.available PROVE device'.path = DevicePath'
      BY <1>7 DEF DeviceSum
    <2>1. DeviceComplete'
      BY <1>11 DEF FlagsRemember, DeviceComplete
    <2>2. DevicePath' = DevicePath + Hypot(m.delta.x, m.delta.y)
      BY <1>1, <1>2, <2>1, DevicePathGrows
    <2>3. device.path = DevicePath
      BY <1>3 DEF MetricsInv, DeviceSum
    <2> QED BY <1>3, <2>2, <2>3
  <1>14. CompositorSum'
    BY <1>1, <1>2, CompositorSumStep
  <1>15. ContextsResolve'
    BY <1>1, <1>2, ContextsStep
  <1>16. LastPointShows'
    <2>1. Last(points') = point
      BY <1>8 DEF Last
    <2> QED BY <2>1 DEF LastPointShows, point
  <1>17. StepsShow'
    <2> SUFFICES ASSUME device'.available
                 PROVE  \A i \in 1 .. n + 1 : /\ points'[i].x \in Int /\ points'[i].y \in Int
                                              /\ Step(i)' = motions'[i].delta
      BY <1>7 DEF StepsShow
    <2>1. device.available /\ m.delta # Null
      BY <1>3
    <2>2. \A i \in 1 .. n : /\ points[i].x \in Int /\ points[i].y \in Int
                            /\ Step(i) = motions[i].delta
      BY <1>6, <2>1 DEF MetricsInv, StepsShow
    <2>3. ASSUME NEW i \in 1 .. n
          PROVE  /\ points'[i].x \in Int /\ points'[i].y \in Int
                 /\ Step(i)' = motions'[i].delta
      <3>1. i # 1 => i - 1 \in 1 .. n
        OBVIOUS
      <3>2. 1 \in 1 .. n
        OBVIOUS
      <3>3. Step(i)' = Step(i)
        BY <1>8, <3>1, <3>2 DEF Step
      <3> QED BY <1>7, <1>8, <2>2, <3>3
    <2>4. /\ points'[n + 1].x = device.x + m.delta.x /\ points'[n + 1].x \in Int
          /\ points'[n + 1].y = device.y + m.delta.y /\ points'[n + 1].y \in Int
      <3>1. point.x = device'.x /\ point.y = device'.y
        BY DEF point
      <3> QED BY <1>3, <1>8, <3>1
    <2>5. /\ m.delta.x \in Int /\ m.delta.y \in Int
          /\ m.delta = [x |-> m.delta.x, y |-> m.delta.y]
      BY <1>2, <2>1, DeltaFacts DEF MotionRow
    <2>6. device.x \in Int /\ device.y \in Int
      BY DEF MetricsInv, MetricsTypeOK
    <2>7. CASE n = 0
      <3>1. device.x = 0 /\ device.y = 0
        BY <1>6, <2>1, <2>7 DEF MetricsInv, DeviceSum
      <3>2. Step(n + 1)' = [x |-> m.delta.x, y |-> m.delta.y]
        BY <2>4, <2>5, <2>7, <3>1 DEF Step
      <3> QED BY <1>7, <1>10, <2>3, <2>4, <2>5, <3>2
    <2>8. CASE n # 0
      <3>1. points[n].x = device.x /\ points[n].y = device.y
        <4>1. motions # << >>
          BY <1>6, <2>8
        <4> QED BY <1>6, <2>1, <4>1 DEF MetricsInv, LastPointShows, Last
      <3>2. points'[n] = points[n] /\ (n + 1) - 1 = n /\ n + 1 # 1
        BY <1>8, <2>8
      <3>3. Step(n + 1)' = [x |-> points'[n + 1].x - points'[n].x, y |-> points'[n + 1].y - points'[n].y]
        BY <3>2 DEF Step
      <3>4. /\ points'[n + 1].x - points'[n].x = m.delta.x
            /\ points'[n + 1].y - points'[n].y = m.delta.y
        BY <2>4, <2>5, <2>6, <3>1, <3>2
      <3>5. Step(n + 1)' = m.delta
        BY <2>5, <3>3, <3>4
      <3> QED BY <1>7, <1>10, <2>3, <2>4, <3>5
    <2> QED BY <2>7, <2>8
  <1>18. TurnsCounted'
    BY <1>1, <1>2, TurnsStep
  <1> QED BY <1>9, <1>11, <1>12, <1>13, <1>14, <1>15, <1>16, <1>17, <1>18 DEF MetricsInv

LEMMA MetricsInductive == MetricsSpec => []MetricsInv
  <1>1. MetricsInv /\ [MetricsNext]_metricsVars => MetricsInv'
    <2> SUFFICES ASSUME MetricsInv, [MetricsNext]_metricsVars PROVE MetricsInv'
      OBVIOUS
    <2>1. CASE UNCHANGED metricsVars
      <3>1. /\ samples' = samples /\ motions' = motions /\ device' = device
            /\ compositor' = compositor /\ points' = points
        BY <2>1 DEF metricsVars
      <3>2. MetricsTypeOK' /\ FlagsRemember' /\ GapsStayGaps' /\ LastPointShows'
        BY <3>1 DEF MetricsInv, MetricsTypeOK, FlagsRemember, GapsStayGaps, LastPointShows
      <3>3. DeviceSum' /\ StepsShow' /\ TurnsCounted'
        <4>1. \A i \in 1 .. Len(motions) : Step(i)' = Step(i)
          BY <3>1 DEF Step
        <4>2. DeviceComplete' = DeviceComplete /\ Moves' = Moves /\ Turns' = Turns
          BY <3>1 DEF DeviceComplete, Moves, Turns
        <4> QED BY <3>1, <4>1, <4>2 DEF MetricsInv, DeviceSum, DevicePath, StepsShow, TurnsCounted
      <3>4. Contexts' = Contexts
        BY <3>1 DEF Contexts
      <3>5. CompositorSum' /\ ContextsResolve'
        BY <3>1, <3>4 DEF MetricsInv, CompositorSum, ContextsResolve, Path, Displacement
      <3> QED BY <3>2, <3>3, <3>5 DEF MetricsInv
    <2> QED BY <2>1, SampleInvariant, TakeMotionInvariant DEF MetricsNext
  <1> QED BY <1>1, MetricsStart, PTL DEF MetricsSpec

\* No continuity is fabricated across a gap, whatever motions come before and
\* after it: a trajectory point has a cumulative value exactly until the first
\* motion that lacks one.
THEOREM NoValueBehindGap == MetricsSpec => []GapsStayGaps
  <1>1. MetricsInv => GapsStayGaps
    BY DEF MetricsInv
  <1> QED BY <1>1, MetricsInductive, PTL

\* calculate() and persist_trajectory() give one answer for every episode: the
\* sums carried from point to point end at the path distances of the metrics,
\* and a displacement is never longer than its path.
THEOREM OneAnswer == MetricsSpec => []PathsAgree
  <1>1. MetricsInv => PathsAgree
    <2> SUFFICES ASSUME MetricsInv PROVE PathsAgree
      OBVIOUS
    <2>1. DevicePathsAgree
      <3>1. device.available <=> DeviceComplete
        BY DEF MetricsInv, FlagsRemember, DeviceComplete
      <3> QED BY <3>1 DEF DevicePathsAgree, MetricsInv, DeviceSum, LastPointShows
    <2>2. CompositorPathsAgree
      <3> SUFFICES ASSUME Available PROVE Last(points).path = Path /\ Displacement <= Path
        BY DEF CompositorPathsAgree
      <3>1. Unmatched = {} /\ Contexts # << >>
        BY DEF Available, CompositorStatus
      <3>2. motions # << >>
        BY <3>1, CollectedNone DEF Contexts
      <3>3. compositor.continuous
        BY <3>1 DEF MetricsInv, FlagsRemember, Unmatched
      <3> QED BY <3>1, <3>2, <3>3 DEF MetricsInv, CompositorSum, LastPointShows
    <2> QED BY <2>1, <2>2 DEF PathsAgree
  <1> QED BY <1>1, MetricsInductive, PTL

\* The reversals of an episode's row, counted over its motions, are those a
\* reader finds in the steps of its trajectory, whose points persist_trajectory
\* sums up on its own.
THEOREM ReversalsAreInTrajectory == MetricsSpec => []ReversalsShow
  <1>1. MetricsInv => ReversalsShow
    <2> SUFFICES ASSUME MetricsInv, DeviceComplete
                 PROVE  Reversals =
                          Cardinality({j \in 1 .. Len(points) :
                                         \E i \in 1 .. j - 1 :
                                           /\ Dot(Step(i), Step(j)) < 0
                                           /\ \A k \in i + 1 .. j - 1 : Step(k) = Zero})
      BY DEF ReversalsShow
    <2>1. PICK n \in Nat : n = Len(motions) /\ n = Len(points)
      BY DEF MetricsInv, MetricsTypeOK
    <2>2. \A i \in 1 .. n : Step(i) = motions[i].delta
      <3>1. device.available
        BY DEF MetricsInv, FlagsRemember, DeviceComplete
      <3> QED BY <2>1, <3>1 DEF MetricsInv, StepsShow
    <2>3. \A j \in 1 .. n : \A i \in 1 .. j - 1 : i \in 1 .. n /\ \A k \in i + 1 .. j - 1 : k \in 1 .. n
      OBVIOUS
    <2>4. Turns = {j \in 1 .. n : \E i \in 1 .. j - 1 :
                                    /\ Dot(Step(i), Step(j)) < 0
                                    /\ \A k \in i + 1 .. j - 1 : Step(k) = Zero}
      BY <2>1, <2>2, <2>3 DEF Turns
    <2>5. Reversals = Cardinality(Turns)
      BY DEF Reversals, MetricsInv, TurnsCounted
    <2> QED BY <2>1, <2>4, <2>5
  <1> QED BY <1>1, MetricsInductive, PTL

\* The monitor and the workspace of every context collected are known.
KnownMonitors ==
  \A i \in 1 .. Len(Contexts) :
    samples[Contexts[i]].monitor # Null /\ samples[Contexts[i]].workspace # Null

\* A monitor or workspace transition does invalidate the compositor metrics
\* where every monitor is known: a position on no monitor between two of them is
\* the one way past it.
THEOREM KnownTransitionsInvalidate ==
  MetricsSpec => [](KnownMonitors => TransitionsInvalidate)
  <1>1. MetricsInv => (KnownMonitors => TransitionsInvalidate)
    <2> SUFFICES ASSUME MetricsInv, KnownMonitors, Available
                 PROVE  \A i, j \in 1 .. Len(Contexts) :
                          /\ samples[Contexts[i]].monitor = samples[Contexts[j]].monitor
                          /\ samples[Contexts[i]].workspace = samples[Contexts[j]].workspace
      BY DEF TransitionsInvalidate
    <2>1. PICK n \in Nat : n = Len(Contexts)
      BY ContextsLocated
    <2>2. Transitions = {}
      BY DEF Available, CompositorStatus
    <2>3. ASSUME NEW i \in 2 .. n
          PROVE  /\ samples[Contexts[i]].monitor = samples[Contexts[i - 1]].monitor
                 /\ samples[Contexts[i]].workspace = samples[Contexts[i - 1]].workspace
      <3>1. i \in 1 .. n /\ i - 1 \in 1 .. n
        OBVIOUS
      <3>2. ~Changes("monitor", i) /\ ~Changes("workspace", i)
        BY <2>1, <2>2 DEF Transitions
      <3> QED BY <2>1, <3>1, <3>2 DEF KnownMonitors, Changes
    <2> DEFINE Like1(i) == /\ samples[Contexts[i]].monitor = samples[Contexts[1]].monitor
                           /\ samples[Contexts[i]].workspace = samples[Contexts[1]].workspace
               T == {i \in 0 .. n : i = 0 \/ Like1(i)}
    <2>4. 0 \in T /\ \A i \in 1 .. n : i \in T <=> Like1(i)
      OBVIOUS
    <2>5. ASSUME NEW i \in 1 .. n, i - 1 \in T
          PROVE  i \in T
      <3>1. CASE i = 1
        BY <2>4, <3>1
      <3>2. CASE i # 1
        <4>1. i \in 2 .. n /\ i - 1 \in 1 .. n
          BY <3>2
        <4>2. Like1(i - 1)
          BY <2>4, <2>5, <4>1
        <4>3. Like1(i)
          BY <2>3, <4>1, <4>2
        <4> QED BY <2>4, <4>3
      <3> QED BY <3>1, <3>2
    <2> HIDE DEF T
    <2>6. \A i \in 0 .. n : i \in T
      BY <2>4, <2>5, UpToNumber
    <2>7. \A i \in 1 .. n : Like1(i)
      BY <2>4, <2>6
    <2> QED BY <2>1, <2>7
  <1> QED BY <1>1, MetricsInductive, PTL
=============================================================================
