----------------------- MODULE InspectionBrowserProofs ----------------------
(***************************************************************************)
(* Proofs about InspectionBrowser, for every number of devices, runs and    *)
(* motions.  What the inspector keeps was read by several statements at     *)
(* several moments, while collectors go on writing.  Two facts carry it:    *)
(*   - an ended run has all its evidence;                                   *)
(*   - the derived tables are what a derivation made of evidence f that the *)
(*     evidence of now extends, and while collectors run one after the      *)
(*     other f is all evidence of the first m runs, and of no other.        *)
(* From the second: a derivation that comes later repeats the episodes of   *)
(* those runs under their ids.  The first part shows it of Episodes, which  *)
(* counts positions and concatenates the sequences of the runs.             *)
(***************************************************************************)
EXTENDS InspectionBrowser, FiniteSetTheorems, SequenceTheorems, WellFoundedInduction, TLAPS

\* A set of numbers that is not empty has a least one.
LEMMA LeastNumber ==
  ASSUME NEW S \in SUBSET Nat, S # {}
  PROVE  \E n \in S : \A m \in S : n <= m
  <1> DEFINE R == OpToRel(<, Nat)
  <1>1. IsWellFoundedOn(R, Nat)
    BY NatLessThanWellFounded
  <1>2. \A m, n \in Nat : m < n => <<m, n>> \in R
    BY DEF OpToRel
  <1> HIDE DEF R
  <1>3. PICK n \in S : \A m \in S : ~ (<<m, n>> \in R)
    BY <1>1, WFMin
  <1>4. \A m \in S : ~ (m < n)
    BY <1>2, <1>3, Zenon
  <1> QED BY <1>4

\* Induction up to n, with the set of the numbers for which it holds.
LEMMA UpToNumber ==
  ASSUME NEW n \in Nat, NEW T, 0 \in T, \A i \in 1 .. n : i - 1 \in T => i \in T
  PROVE  \A i \in 0 .. n : i \in T
  <1> DEFINE Wrong == {i \in 0 .. n : i \notin T}
  <1>1. Wrong \in SUBSET Nat /\ \A i : i \in Wrong <=> i \in 0 .. n /\ i \notin T
    OBVIOUS
  <1> HIDE DEF Wrong
  <1> SUFFICES ASSUME Wrong # {}
               PROVE  FALSE
    BY <1>1
  <1>2. PICK i \in Wrong : \A j \in Wrong : i <= j
    BY <1>1, LeastNumber
  <1>3. i \in 1 .. n /\ i - 1 \in 0 .. n /\ ~ (i <= i - 1)
    BY <1>1, <1>2
  <1>4. i - 1 \in T
    BY <1>1, <1>2, <1>3
  <1> QED BY <1>1, <1>2, <1>3, <1>4

\* A set of numbers has an n-th one.
LEMMA NthExists ==
  ASSUME NEW N \in Nat, NEW S \in SUBSET (1 .. N), NEW n \in 1 .. Cardinality(S)
  PROVE  \E i \in S : Cardinality({j \in S : j <= i}) = n
  <1> DEFINE To(i) == {j \in S : j <= i}
             Found == \E k \in S : Cardinality(To(k)) = n
             T == {i \in 0 .. N : Cardinality(To(i)) < n \/ Found}
  <1>0. \A j \in S : j \in 1 .. N
    OBVIOUS
  <1>1. \A i : IsFiniteSet(To(i)) /\ Cardinality(To(i)) \in Nat
    <2> SUFFICES ASSUME NEW i PROVE IsFiniteSet(To(i)) /\ Cardinality(To(i)) \in Nat
      OBVIOUS
    <2>1. IsFiniteSet(1 .. N)
      BY FS_Interval
    <2>2. To(i) \in SUBSET (1 .. N)
      BY <1>0
    <2> QED BY <2>1, <2>2, FS_Subset, FS_CardinalityType
  <1>2. Cardinality(To(0)) = 0
    <2>1. \A j \in S : ~ (j <= 0)
      BY <1>0
    <2>2. To(0) = {}
      BY <2>1
    <2> QED BY <2>2, FS_EmptySet
  <1>3. To(N) = S
    <2>1. \A j \in S : j <= N
      BY <1>0
    <2> QED BY <2>1
  <1>4. n \in Nat /\ n >= 1
    <2>1. Cardinality(S) \in Nat
      BY <1>1, <1>3
    <2> QED BY <2>1
  <1>5. \A i \in 1 .. N : /\ i \in S => Cardinality(To(i)) = Cardinality(To(i - 1)) + 1
                          /\ i \notin S => To(i) = To(i - 1)
    <2> SUFFICES ASSUME NEW i \in 1 .. N
                 PROVE  /\ i \in S => Cardinality(To(i)) = Cardinality(To(i - 1)) + 1
                        /\ i \notin S => To(i) = To(i - 1)
      OBVIOUS
    <2>1. (\A j \in S : j <= i <=> j <= i - 1 \/ j = i) /\ ~ (i <= i - 1)
      BY <1>0
    <2>2. ASSUME i \in S
          PROVE  Cardinality(To(i)) = Cardinality(To(i - 1)) + 1
      <3>1. To(i) = To(i - 1) \cup {i} /\ i \notin To(i - 1)
        BY <2>1, <2>2
      <3> HIDE DEF To
      <3> QED BY <1>1, <3>1, FS_AddElement
    <2>3. i \notin S => To(i) = To(i - 1)
      BY <2>1
    <2> QED BY <2>2, <2>3
  <1>6. 0 \in T
    BY <1>2, <1>4
  <1>7. ASSUME NEW i \in 1 .. N, i - 1 \in T
        PROVE  i \in T
    <2> HIDE DEF To
    <2>1. Cardinality(To(i - 1)) < n \/ Found
      BY <1>7
    <2>2. CASE Found
      BY <2>2
    <2>3. CASE Cardinality(To(i - 1)) < n /\ i \notin S
      BY <1>5, <2>3
    <2>4. CASE Cardinality(To(i - 1)) < n /\ i \in S
      <3>1. Cardinality(To(i)) < n \/ Cardinality(To(i)) = n
        BY <1>1, <1>4, <1>5, <2>4
      <3> QED BY <2>4, <3>1
    <2> QED BY <2>1, <2>2, <2>3, <2>4
  <1>8. N \in T
    <2> HIDE DEF T
    <2> QED BY <1>6, <1>7, UpToNumber
  <1>9. Found
    <2> HIDE DEF To
    <2>1. Cardinality(To(N)) < n \/ Found
      BY <1>8
    <2>2. ~ (Cardinality(S) < n) 
      BY <1>1, <1>3
    <2> QED BY <1>3, <2>1, <2>2
  <1> QED BY <1>9

\* Sequences one after the other: g[i] is what the first i make.
LEMMA Flattened ==
  ASSUME NEW S, NEW n \in Nat, NEW s \in [1 .. n -> Seq(S)]
  PROVE  \E g \in [0 .. n -> Seq(S)] : /\ g[0] = << >>
                                       /\ \A i \in 1 .. n : g[i] = g[i - 1] \o s[i]
                                       /\ FlattenSeq(s) = g[n]
  <1> DEFINE Good(m, g) == g[0] = << >> /\ \A i \in 1 .. m : g[i] = g[i - 1] \o s[i]
             T == {m \in 0 .. n : \E g \in [0 .. n -> Seq(S)] : Good(m, g)}
             IsFlatten(g) == g = [i \in 1 .. n |-> IF i = 1 THEN s[i] ELSE g[i - 1] \o s[i]]
             flatten == CHOOSE g : IsFlatten(g)
  <1>1. 0 \in T
    <2>1. PICK g : g = [i \in 0 .. n |-> << >>]
      OBVIOUS
    <2>2. g \in [0 .. n -> Seq(S)] /\ Good(0, g)
      BY <2>1
    <2> HIDE DEF Good
    <2> QED BY <2>2
  <1>2. ASSUME NEW m \in 1 .. n, m - 1 \in T
        PROVE  m \in T
    <2>1. PICK g \in [0 .. n -> Seq(S)] : Good(m - 1, g)
      <3> HIDE DEF Good
      <3> QED BY <1>2
    <2>2. PICK h : h = [g EXCEPT ![m] = g[m - 1] \o s[m]]
      OBVIOUS
    <2>3. g[m - 1] \o s[m] \in Seq(S)
      BY ConcatProperties
    <2>4. h \in [0 .. n -> Seq(S)]
      BY <2>2, <2>3
    <2>5. h[m] = g[m - 1] \o s[m] /\ \A i \in 0 .. n : i # m => h[i] = g[i]
      BY <2>2
    <2>6. \A i \in 1 .. m : h[i] = h[i - 1] \o s[i]
      <3> SUFFICES ASSUME NEW i \in 1 .. m PROVE h[i] = h[i - 1] \o s[i]
        OBVIOUS
      <3>1. i - 1 \in 0 .. n /\ i - 1 # m /\ h[i - 1] = g[i - 1]
        BY <2>5
      <3>2. CASE i = m
        BY <2>5, <3>1, <3>2
      <3>3. CASE i # m
        <4>1. i \in 1 .. m - 1 /\ i \in 0 .. n
          BY <3>3
        <4> QED BY <2>1, <2>5, <3>1, <3>3, <4>1
      <3> QED BY <3>2, <3>3
    <2>7. h[0] = << >>
      <3>1. 0 \in 0 .. n /\ 0 # m
        OBVIOUS
      <3> QED BY <2>1, <2>5, <3>1
    <2>8. Good(m, h)
      BY <2>6, <2>7
    <2> HIDE DEF Good
    <2> QED BY <2>4, <2>8
  <1>3. n \in T
    <2>1. \A m \in 1 .. n : m - 1 \in T => m \in T
      <3> HIDE DEF T
      <3> QED BY <1>2
    <2> HIDE DEF T
    <2>2. \A m \in 0 .. n : m \in T
      BY <1>1, <2>1, UpToNumber
    <2> QED BY <2>2
  <1>4. PICK g \in [0 .. n -> Seq(S)] : Good(n, g)
    <2> HIDE DEF Good
    <2> QED BY <1>3
  <1>5. /\ Len(s) = n /\ g[0] = << >>
        /\ \A i \in 1 .. n : g[i] = g[i - 1] \o s[i]
    <2>1. Len(s) = n
      OBVIOUS
    <2>2. g[0] = << >>
      BY <1>4
    <2>3. \A i \in 1 .. n : g[i] = g[i - 1] \o s[i]
      BY <1>4
    <2> QED BY <2>1, <2>2, <2>3
  <1> HIDE DEF Good
  <1>6. FlattenSeq(s) = g[n]
    <2>1. CASE n = 0
      BY <1>5, <2>1 DEF FlattenSeq
    <2>2. CASE n # 0
      <3>1. FlattenSeq(s) = flatten[n]
        BY <1>5, <2>2 DEF FlattenSeq
      <3>2. \E h : IsFlatten(h)
        <4>1. PICK h : h = [i \in 1 .. n |-> g[i]]
          OBVIOUS
        <4>2. ASSUME NEW i \in 1 .. n
              PROVE  h[i] = IF i = 1 THEN s[i] ELSE h[i - 1] \o s[i]
          <5>1. CASE i = 1
            <6>0. i - 1 = 0
              BY <5>1
            <6>1. g[i] = g[i - 1] \o s[i]
              BY <1>5, Zenon
            <6>2. s[i] \in Seq(S)
              OBVIOUS
            <6>3. << >> \o s[i] = s[i]
              BY <6>2
            <6>4. g[i] = s[i]
              BY <1>5, <6>0, <6>1, <6>3, Zenon
            <6> QED BY <4>1, <5>1, <6>4
          <5>2. CASE i # 1
            <6>1. i - 1 \in 1 .. n
              BY <5>2
            <6> QED BY <1>5, <4>1, <5>2, <6>1
          <5> QED BY <5>1, <5>2
        <4>3. IsFlatten(h)
          BY <4>1, <4>2
        <4> HIDE DEF IsFlatten
        <4> QED BY <4>3
      <3>3. IsFlatten(flatten)
        <4> HIDE DEF IsFlatten
        <4> QED BY <3>2
      <3>4. PICK h : h = flatten
        OBVIOUS
      <3>5. \A i \in 1 .. n : h[i] = IF i = 1 THEN s[i] ELSE h[i - 1] \o s[i]
        <4>1. IsFlatten(h)
          <5> HIDE DEF IsFlatten, flatten
          <5> QED BY <3>3, <3>4
        <4>2. h = [i \in 1 .. n |-> IF i = 1 THEN s[i] ELSE h[i - 1] \o s[i]]
          BY <4>1
        <4> QED BY <4>2
      <3> HIDE DEF flatten, IsFlatten
      <3> DEFINE Same == {i \in 0 .. n : i = 0 \/ h[i] = g[i]}
      <3>6. ASSUME NEW i \in 1 .. n, i - 1 \in Same
            PROVE  i \in Same
        <4>1. CASE i = 1
          <5>0. i - 1 = 0
            BY <4>1
          <5>1. g[i] = g[i - 1] \o s[i]
            BY <1>5, Zenon
          <5>2. s[i] \in Seq(S)
            OBVIOUS
          <5>3. << >> \o s[i] = s[i]
            BY <5>2
          <5>4. h[i] = s[i]
            BY <3>5, <4>1
          <5>5. g[i] = s[i]
            BY <1>5, <5>0, <5>1, <5>3, Zenon
          <5> QED BY <5>4, <5>5
        <4>2. CASE i # 1
          <5>1. i - 1 \in 1 .. n /\ h[i - 1] = g[i - 1]
            BY <3>6, <4>2
          <5>2. h[i] = h[i - 1] \o s[i]
            BY <3>5, <4>2
          <5>3. g[i] = g[i - 1] \o s[i]
            BY <1>5, Zenon
          <5>4. h[i] = g[i]
            BY <5>1, <5>2, <5>3, Zenon
          <5> QED BY <5>4
        <4> QED BY <4>1, <4>2
      <3>7. 0 \in Same
        OBVIOUS
      <3>8. n \in Same
        <4>1. \A i \in 1 .. n : i - 1 \in Same => i \in Same
          <5> HIDE DEF Same
          <5> QED BY <3>6
        <4> HIDE DEF Same
        <4>2. \A i \in 0 .. n : i \in Same
          BY <3>7, <4>1, UpToNumber
        <4> QED BY <4>2
      <3> QED BY <2>2, <3>1, <3>4, <3>8
    <2> QED BY <2>1, <2>2
  <1> QED BY <1>5, <1>6

-----------------------------------------------------------------------------
Prefix(s, t) == /\ Len(s) <= Len(t)
                /\ \A i \in 1 .. Len(s) : s[i] = t[i]

\* The evidence of a file: no run is too long.
EvidenceOK(e) == /\ e \in [Run -> Seq(Motion)]
                 /\ \A r \in Run : Len(e[r]) <= MaxMotions

\* The episodes that evidence e can have: of a device with a motion in the run.
EpisodeFrom(e) ==
  {x \in [run : Run, device : Device, motions : SUBSET (1 .. MaxMotions)] :
     \E i \in DOMAIN e[x.run] : x.device = e[x.run][i].device}

\* g[r]: the episodes of the first r runs.
ArePartsOf(e, g) ==
  /\ g \in [0 .. MaxRuns -> Seq(EpisodeFrom(e))]
  /\ g[0] = << >>
  /\ \A r \in Run : g[r] = g[r - 1] \o RunEpisodes(r, e[r])
  /\ Episodes(e) = g[MaxRuns]
PartsOf(e) == CHOOSE g : ArePartsOf(e, g)

\* The number of the episodes of one run.
LEMMA EpisodeCount ==
  ASSUME NEW rows \in Seq(Motion), NEW r
  PROVE  /\ Cardinality(OpeningTo(rows, Len(rows))) \in Nat
         /\ Cardinality(OpeningTo(rows, Len(rows))) <= Len(rows)
         /\ Len(RunEpisodes(r, rows)) = Cardinality(OpeningTo(rows, Len(rows)))
         /\ rows = << >> => RunEpisodes(r, rows) = << >>
  <1> DEFINE count == Cardinality(OpeningTo(rows, Len(rows)))
  <1>1. OpeningTo(rows, Len(rows)) \in SUBSET (1 .. Len(rows)) /\ Len(rows) \in Nat
    BY LenProperties DEF OpeningTo
  <1>2. IsFiniteSet(1 .. Len(rows)) /\ Cardinality(1 .. Len(rows)) = Len(rows)
    <2>1. PICK n \in Nat : n = Len(rows)
      BY <1>1
    <2>2. IsFiniteSet(1 .. n) /\ Cardinality(1 .. n) = IF 1 > n THEN 0 ELSE n - 1 + 1
      BY FS_Interval
    <2> QED BY <2>1, <2>2
  <1>3. count \in Nat /\ count <= Len(rows)
    BY <1>1, <1>2, FS_Subset, FS_CardinalityType
  <1> HIDE DEF count
  <1>4. RunEpisodes(r, rows) =
          [n \in 1 .. count |->
             [run |-> r, device |-> rows[Opening(rows, n)].device,
              motions |-> Members(rows, Opening(rows, n))]]
    BY DEF RunEpisodes, count
  <1>5. Len(RunEpisodes(r, rows)) = count
    BY <1>3, <1>4
  <1>6. ASSUME rows = << >>
        PROVE  RunEpisodes(r, rows) = << >>
    <2>1. Len(rows) = 0
      BY <1>6
    <2>2. count = 0
      BY <1>3, <2>1
    <2> QED BY <1>4, <2>2
  <1> QED BY <1>3, <1>5, <1>6 DEF count

\* The episodes of one run of evidence e.
LEMMA RunEpisodesType ==
  ASSUME NEW e, EvidenceOK(e), NEW r \in Run
  PROVE  /\ RunEpisodes(r, e[r]) \in Seq(EpisodeFrom(e))
         /\ \A n \in 1 .. Len(RunEpisodes(r, e[r])) : RunEpisodes(r, e[r])[n].run = r
  <1> DEFINE rows == e[r]
             count == Cardinality(OpeningTo(rows, Len(rows)))
             at(n) == Opening(rows, n)
             row(n) == [run |-> r, device |-> rows[at(n)].device, motions |-> Members(rows, at(n))]
  <1>1. rows \in Seq(Motion) /\ Len(rows) <= MaxMotions /\ Len(rows) \in Nat
    BY LenProperties DEF EvidenceOK
  <1>2. count \in Nat
    BY <1>1, EpisodeCount
  <1>3. ASSUME NEW n \in 1 .. count
        PROVE  row(n) \in EpisodeFrom(e)
    <2>1. OpeningTo(rows, Len(rows)) \in SUBSET (1 .. Len(rows))
      BY DEF OpeningTo
    <2>2. PICK i \in OpeningTo(rows, Len(rows)) :
            Cardinality({j \in OpeningTo(rows, Len(rows)) : j <= i}) = n
      <3> HIDE DEF rows
      <3> QED BY <1>1, <2>1, NthExists DEF count
    <2>3. {j \in OpeningTo(rows, Len(rows)) : j <= i} = OpeningTo(rows, i)
      <3>1. i \in 1 .. Len(rows)
        BY <2>1, <2>2
      <3>2. \A j : j \in 1 .. Len(rows) /\ j <= i <=> j \in 1 .. i
        BY <1>1, <3>1
      <3> HIDE DEF rows
      <3> QED BY <3>2 DEF OpeningTo
    <2>4. at(n) \in 1 .. Len(rows)
      <3>1. i \in 1 .. Len(rows) /\ Opens(rows, i) /\ Cardinality(OpeningTo(rows, i)) = n
        BY <2>2, <2>3 DEF OpeningTo
      <3> HIDE DEF rows
      <3> QED BY <3>1 DEF Opening
    <2>5. rows[at(n)] \in Motion
      <3> HIDE DEF rows
      <3> QED BY <1>1, <2>4, ElementOfSeq
    <2>6. Members(rows, at(n)) \subseteq 1 .. MaxMotions
      <3>1. Members(rows, at(n)) \subseteq at(n) .. Len(rows)
        BY DEF Members
      <3> HIDE DEF rows, at
      <3>2. at(n) .. Len(rows) \subseteq 1 .. MaxMotions
        BY <1>1, <2>4, MaxMotionsAssumption
      <3> QED BY <3>1, <3>2
    <2>7. at(n) \in DOMAIN rows
      <3> HIDE DEF rows
      <3> QED BY <1>1, <2>4, LenProperties
    <2> HIDE DEF at
    <2> QED BY <2>5, <2>6, <2>7 DEF EpisodeFrom, Motion
  <1>4. RunEpisodes(r, rows) = [n \in 1 .. count |-> row(n)]
    BY DEF RunEpisodes
  <1>5. \A n \in 1 .. count : row(n).run = r
    OBVIOUS
  <1> HIDE DEF row, count
  <1>6. RunEpisodes(r, rows) \in [1 .. count -> EpisodeFrom(e)]
    BY <1>3, <1>4
  <1>7. Len(RunEpisodes(r, rows)) = count
    BY <1>2, <1>4
  <1> QED BY <1>2, <1>4, <1>5, <1>6, <1>7

\* Evidence has parts.
LEMMA PartsExist ==
  ASSUME NEW e, EvidenceOK(e)
  PROVE  ArePartsOf(e, PartsOf(e))
  <1> DEFINE s == [r \in Run |-> RunEpisodes(r, e[r])]
  <1>1. \A r \in Run : RunEpisodes(r, e[r]) \in Seq(EpisodeFrom(e))
    BY RunEpisodesType
  <1>2. s \in [1 .. MaxRuns -> Seq(EpisodeFrom(e))]
    BY <1>1 DEF Run
  <1>3. Episodes(e) = FlattenSeq(s)
    BY DEF Episodes
  <1>4. \A r \in Run : s[r] = RunEpisodes(r, e[r])
    OBVIOUS
  <1> HIDE DEF s
  <1>5. PICK g \in [0 .. MaxRuns -> Seq(EpisodeFrom(e))] :
          /\ g[0] = << >>
          /\ \A i \in 1 .. MaxRuns : g[i] = g[i - 1] \o s[i]
          /\ FlattenSeq(s) = g[MaxRuns]
    BY <1>2, MaxRunsAssumption, Flattened
  <1>6. \A r \in Run : g[r] = g[r - 1] \o RunEpisodes(r, e[r])
    BY <1>4, <1>5, Zenon DEF Run
  <1>7. ArePartsOf(e, g)
    BY <1>3, <1>5, <1>6, Zenon DEF ArePartsOf
  <1> QED BY <1>7 DEF PartsOf

\* One part after the other.
LEMMA NextPart ==
  ASSUME NEW e, EvidenceOK(e), NEW r \in Run
  PROVE  /\ r \in 1 .. MaxRuns /\ r - 1 \in 0 .. MaxRuns /\ r \in 0 .. MaxRuns
         /\ PartsOf(e)[r - 1] \in Seq(EpisodeFrom(e)) /\ PartsOf(e)[r] \in Seq(EpisodeFrom(e))
         /\ RunEpisodes(r, e[r]) \in Seq(EpisodeFrom(e))
         /\ Len(PartsOf(e)[r]) = Len(PartsOf(e)[r - 1]) + Len(RunEpisodes(r, e[r]))
         /\ Prefix(PartsOf(e)[r - 1], PartsOf(e)[r])
         /\ \A n \in 1 .. Len(RunEpisodes(r, e[r])) :
              PartsOf(e)[r][Len(PartsOf(e)[r - 1]) + n] = RunEpisodes(r, e[r])[n]
  <1>1. r \in 1 .. MaxRuns /\ r - 1 \in 0 .. MaxRuns /\ r \in 0 .. MaxRuns
    BY MaxRunsAssumption DEF Run
  <1>2. PICK g : g = PartsOf(e)
    OBVIOUS
  <1>3. /\ g \in [0 .. MaxRuns -> Seq(EpisodeFrom(e))]
        /\ g[r] = g[r - 1] \o RunEpisodes(r, e[r])
    BY <1>2, PartsExist DEF ArePartsOf
  <1>4. PICK s \in Seq(EpisodeFrom(e)) : s = g[r - 1]
    BY <1>1, <1>3
  <1>5. PICK t \in Seq(EpisodeFrom(e)) : t = RunEpisodes(r, e[r])
    BY RunEpisodesType
  <1>6. /\ s \o t \in Seq(EpisodeFrom(e)) /\ Len(s \o t) = Len(s) + Len(t)
        /\ Len(s) \in Nat /\ Len(t) \in Nat
    BY ConcatProperties, LenProperties
  <1>7. \A n \in 1 .. Len(t) : (s \o t)[Len(s) + n] = t[n]
    BY <1>6
  <1>8. \A n \in 1 .. Len(s) : (s \o t)[n] = s[n]
    BY <1>6
  <1>9. PICK u : u = s \o t
    OBVIOUS
  <1>10. Len(s) <= Len(u)
    BY <1>6, <1>9
  <1>11. Prefix(s, u)
    BY <1>8, <1>9, <1>10 DEF Prefix
  <1>12. u = PartsOf(e)[r]
    BY <1>2, <1>3, <1>4, <1>5, <1>9
  <1>13. /\ u \in Seq(EpisodeFrom(e)) /\ Len(u) = Len(s) + Len(t)
         /\ \A n \in 1 .. Len(t) : u[Len(s) + n] = t[n]
    BY <1>6, <1>7, <1>9
  <1> QED BY <1>1, <1>2, <1>4, <1>5, <1>11, <1>12, <1>13

\* Evidence that agrees on the first m runs has the same episodes of them.
LEMMA PartsAgree ==
  ASSUME NEW e, NEW f, EvidenceOK(e), EvidenceOK(f),
         NEW m \in 0 .. MaxRuns, \A r \in Run : r <= m => e[r] = f[r]
  PROVE  \A i \in 0 .. m : PartsOf(e)[i] = PartsOf(f)[i]
  <1> DEFINE T == {i \in 0 .. m : PartsOf(e)[i] = PartsOf(f)[i]}
  <1>1. PartsOf(e)[0] = << >> /\ PartsOf(f)[0] = << >>
    BY PartsExist DEF ArePartsOf
  <1>2. ASSUME NEW i \in 1 .. m, i - 1 \in T
        PROVE  i \in T
    <2>1. i \in Run /\ i <= m
      BY MaxRunsAssumption DEF Run
    <2>2. /\ PartsOf(e)[i] = PartsOf(e)[i - 1] \o RunEpisodes(i, e[i])
          /\ PartsOf(f)[i] = PartsOf(f)[i - 1] \o RunEpisodes(i, f[i])
      BY <2>1, PartsExist, Zenon DEF ArePartsOf
    <2>3. e[i] = f[i] /\ PartsOf(e)[i - 1] = PartsOf(f)[i - 1]
      BY <1>2, <2>1
    <2>4. PartsOf(e)[i] = PartsOf(f)[i]
      BY <2>2, <2>3, Zenon
    <2>5. i \in 0 .. m
      BY <1>2
    <2> QED BY <2>4, <2>5
  <1>3. \A i \in 1 .. m : i - 1 \in T => i \in T
    <2> HIDE DEF T
    <2> QED BY <1>2
  <1>4. 0 \in T /\ m \in Nat
    BY <1>1
  <1>5. \A i \in 0 .. m : i \in T
    <2> HIDE DEF T
    <2> QED BY <1>3, <1>4, UpToNumber
  <1> QED BY <1>5

\* A part is a prefix of the later ones.
LEMMA PartsGrow ==
  ASSUME NEW e, EvidenceOK(e), NEW m \in 0 .. MaxRuns
  PROVE  \A i \in 0 .. MaxRuns : m <= i => Prefix(PartsOf(e)[m], PartsOf(e)[i])
  <1> DEFINE T == {i \in 0 .. MaxRuns : m <= i => Prefix(PartsOf(e)[m], PartsOf(e)[i])}
  <1>1. \A i \in 0 .. MaxRuns : PartsOf(e)[i] \in Seq(EpisodeFrom(e))
    BY PartsExist DEF ArePartsOf
  <1>2. \A i \in 0 .. MaxRuns : Len(PartsOf(e)[i]) \in Nat
    BY <1>1, LenProperties
  <1>3. Prefix(PartsOf(e)[m], PartsOf(e)[m])
    BY <1>2 DEF Prefix
  <1>4. ASSUME NEW i \in 1 .. MaxRuns, i - 1 \in T
        PROVE  i \in T
    <2>1. i \in Run /\ i \in 0 .. MaxRuns /\ i - 1 \in 0 .. MaxRuns
      BY MaxRunsAssumption DEF Run
    <2>2. CASE m = i
      BY <1>3, <2>1, <2>2
    <2>3. CASE m < i
      <3>1. Prefix(PartsOf(e)[m], PartsOf(e)[i - 1])
        BY <1>4, <2>3
      <3>2. Prefix(PartsOf(e)[i - 1], PartsOf(e)[i])
        BY <2>1, NextPart
      <3>3. Prefix(PartsOf(e)[m], PartsOf(e)[i])
        BY <1>2, <2>1, <3>1, <3>2 DEF Prefix
      <3> QED BY <2>1, <3>3
    <2>4. CASE m > i
      BY <2>1, <2>4
    <2> QED BY <2>2, <2>3, <2>4
  <1>5. \A i \in 1 .. MaxRuns : i - 1 \in T => i \in T
    <2> HIDE DEF T
    <2> QED BY <1>4
  <1>6. 0 \in T
    BY <1>3, MaxRunsAssumption
  <1>7. \A i \in 0 .. MaxRuns : i \in T
    <2> HIDE DEF T
    <2> QED BY <1>5, <1>6, MaxRunsAssumption, UpToNumber
  <1> QED BY <1>7

\* Runs without evidence add no episodes.
LEMMA PartsEnd ==
  ASSUME NEW e, EvidenceOK(e), NEW m \in 0 .. MaxRuns, \A r \in Run : r > m => e[r] = << >>
  PROVE  Episodes(e) = PartsOf(e)[m]
  <1> DEFINE T == {i \in 0 .. MaxRuns : m <= i => PartsOf(e)[i] = PartsOf(e)[m]}
  <1>1. ASSUME NEW i \in 1 .. MaxRuns, i - 1 \in T
        PROVE  i \in T
    <2>1. i \in Run /\ i \in 0 .. MaxRuns
      BY MaxRunsAssumption DEF Run
    <2>2. CASE m < i
      <3>1. PartsOf(e)[i - 1] = PartsOf(e)[m]
        BY <1>1, <2>2
      <3>2. e[i] = << >> /\ e[i] \in Seq(Motion)
        BY <2>1, <2>2 DEF EvidenceOK
      <3>3. RunEpisodes(i, e[i]) = << >>
        BY <3>2, EpisodeCount
      <3>4. /\ PartsOf(e)[i] = PartsOf(e)[i - 1] \o RunEpisodes(i, e[i])
            /\ PartsOf(e)[i - 1] \in Seq(EpisodeFrom(e))
        <4>1. PartsOf(e)[i - 1] \in Seq(EpisodeFrom(e))
          BY <2>1, NextPart
        <4> QED BY <2>1, <4>1, PartsExist, Zenon DEF ArePartsOf
      <3>5. PartsOf(e)[i] = PartsOf(e)[i - 1]
        BY <3>3, <3>4
      <3> QED BY <2>1, <3>1, <3>5
    <2>3. CASE ~ (m < i)
      BY <2>1, <2>3
    <2> QED BY <2>2, <2>3
  <1>2. \A i \in 1 .. MaxRuns : i - 1 \in T => i \in T
    <2> HIDE DEF T
    <2> QED BY <1>1
  <1>3. 0 \in T
    BY MaxRunsAssumption
  <1>4. MaxRuns \in T
    <2> HIDE DEF T
    <2>1. \A i \in 0 .. MaxRuns : i \in T
      BY <1>2, <1>3, MaxRunsAssumption, UpToNumber
    <2> QED BY <2>1, MaxRunsAssumption
  <1>5. PartsOf(e)[MaxRuns] = PartsOf(e)[m]
    BY <1>4, MaxRunsAssumption
  <1>6. Episodes(e) = PartsOf(e)[MaxRuns]
    BY PartsExist DEF ArePartsOf
  <1> QED BY <1>5, <1>6

\* The ids of the episodes of run r.
IdsIn(all, r) == {id \in DOMAIN all : all[id].run = r}

\* The ids of a run follow those of the runs before it, without a gap.
LEMMA EpisodePlaces ==
  ASSUME NEW e, EvidenceOK(e)
  PROVE  /\ Episodes(e) \in Seq(EpisodeFrom(e))
         /\ \A r \in Run : /\ IdsIn(Episodes(e), r) =
                                Len(PartsOf(e)[r - 1]) + 1 .. Len(PartsOf(e)[r])
                           /\ Cardinality(IdsIn(Episodes(e), r)) = Len(RunEpisodes(r, e[r]))
  <1> DEFINE In(id, r) == Len(PartsOf(e)[r - 1]) < id /\ id <= Len(PartsOf(e)[r])
             T == {i \in 0 .. MaxRuns : \A id \in 1 .. Len(PartsOf(e)[i]) : \E r \in Run : In(id, r)}
  <1>1. /\ \A i \in 0 .. MaxRuns : PartsOf(e)[i] \in Seq(EpisodeFrom(e))
        /\ PartsOf(e)[0] = << >> /\ Episodes(e) = PartsOf(e)[MaxRuns]
    BY PartsExist DEF ArePartsOf
  <1>2. \A i \in 0 .. MaxRuns : Len(PartsOf(e)[i]) \in Nat
    BY <1>1, LenProperties
  <1>3. Episodes(e) \in Seq(EpisodeFrom(e)) /\ MaxRuns \in 0 .. MaxRuns
    BY <1>1, MaxRunsAssumption
  <1>4. ASSUME NEW r \in Run, NEW id \in Nat, In(id, r)
        PROVE  id \in 1 .. Len(Episodes(e)) /\ Episodes(e)[id].run = r
    <2>1. /\ r - 1 \in 0 .. MaxRuns /\ r \in 0 .. MaxRuns
          /\ Len(PartsOf(e)[r]) = Len(PartsOf(e)[r - 1]) + Len(RunEpisodes(r, e[r]))
      BY NextPart
    <2>a. r <= MaxRuns
      BY MaxRunsAssumption DEF Run
    <2>b. \A n \in 1 .. Len(RunEpisodes(r, e[r])) :
            PartsOf(e)[r][Len(PartsOf(e)[r - 1]) + n] = RunEpisodes(r, e[r])[n]
      BY NextPart, Zenon
    <2>2. PICK count \in Nat : count = Len(RunEpisodes(r, e[r]))
      BY NextPart, LenProperties
    <2>3. PICK before \in Nat : before = Len(PartsOf(e)[r - 1])
      BY <1>2, <2>1
    <2>c. before < id /\ id <= before + count
      BY <1>4, <2>1, <2>2, <2>3
    <2>4. PICK n \in 1 .. count : id = before + n
      <3>1. id - before \in 1 .. count /\ id = before + (id - before)
        BY <2>c
      <3> QED BY <3>1
    <2>5. PartsOf(e)[r][id] = RunEpisodes(r, e[r])[n]
      BY <2>b, <2>2, <2>3, <2>4
    <2>6. RunEpisodes(r, e[r])[n].run = r
      BY <2>2, RunEpisodesType
    <2>7. Prefix(PartsOf(e)[r], Episodes(e))
      BY <1>1, <1>3, <2>1, <2>a, PartsGrow
    <2>8. id \in 1 .. Len(PartsOf(e)[r])
      <3>1. 1 <= id /\ Len(PartsOf(e)[r]) = before + count
        BY <2>c, <2>1, <2>2, <2>3
      <3> QED BY <2>c, <3>1
    <2>9. Len(PartsOf(e)[r]) \in Nat /\ Len(Episodes(e)) \in Nat
      BY <1>1, <1>2, <1>3, <2>1
    <2> QED BY <2>5, <2>6, <2>7, <2>8, <2>9 DEF Prefix
  <1>5. \A id \in 1 .. Len(Episodes(e)) : \E r \in Run : In(id, r)
    <2>1. ASSUME NEW i \in 1 .. MaxRuns, i - 1 \in T
          PROVE  i \in T
      <3>1. i \in Run /\ i \in 0 .. MaxRuns /\ i - 1 \in 0 .. MaxRuns
        BY MaxRunsAssumption DEF Run
      <3>2. ASSUME NEW id \in 1 .. Len(PartsOf(e)[i])
            PROVE  \E r \in Run : In(id, r)
        <4>1. CASE id \in 1 .. Len(PartsOf(e)[i - 1])
          BY <2>1, <4>1
        <4>2. CASE ~ (id <= Len(PartsOf(e)[i - 1]))
          <5>1. Len(PartsOf(e)[i - 1]) \in Nat /\ Len(PartsOf(e)[i]) \in Nat
            BY <1>2, <3>1
          <5>2. In(id, i)
            BY <3>2, <4>2, <5>1
          <5> HIDE DEF In
          <5> QED BY <3>1, <5>2
        <4>3. Len(PartsOf(e)[i - 1]) \in Nat /\ Len(PartsOf(e)[i]) \in Nat
          BY <1>2, <3>1
        <4> HIDE DEF In
        <4> QED BY <4>1, <4>2, <4>3
      <3> HIDE DEF In
      <3> QED BY <3>1, <3>2
    <2>2. \A i \in 1 .. MaxRuns : i - 1 \in T => i \in T
      <3> HIDE DEF T
      <3> QED BY <2>1
    <2>3. 0 \in T
      <3>1. 1 .. Len(PartsOf(e)[0]) = {} /\ 0 \in 0 .. MaxRuns
        BY <1>1, MaxRunsAssumption
      <3> HIDE DEF In
      <3> QED BY <3>1
    <2>4. MaxRuns \in T
      <3> HIDE DEF T
      <3>1. \A i \in 0 .. MaxRuns : i \in T
        BY <2>2, <2>3, MaxRunsAssumption, UpToNumber
      <3> QED BY <3>1, MaxRunsAssumption
    <2> HIDE DEF In
    <2> QED BY <1>1, <2>4
  <1>6. ASSUME NEW r \in Run
        PROVE  /\ IdsIn(Episodes(e), r) = Len(PartsOf(e)[r - 1]) + 1 .. Len(PartsOf(e)[r])
               /\ Cardinality(IdsIn(Episodes(e), r)) = Len(RunEpisodes(r, e[r]))
    <2>1. /\ r - 1 \in 0 .. MaxRuns /\ r \in 0 .. MaxRuns
          /\ Len(PartsOf(e)[r]) = Len(PartsOf(e)[r - 1]) + Len(RunEpisodes(r, e[r]))
          /\ Len(RunEpisodes(r, e[r])) \in Nat
      BY NextPart, LenProperties
    <2>2. PICK a \in Nat : a = Len(PartsOf(e)[r - 1])
      BY <1>2, <2>1
    <2>3. PICK b \in Nat : b = Len(PartsOf(e)[r])
      BY <1>2, <2>1
    <2>4. DOMAIN Episodes(e) = 1 .. Len(Episodes(e))
      BY <1>3
    <2>5. \A id : id \in IdsIn(Episodes(e), r) => id \in a + 1 .. b
      <3> SUFFICES ASSUME NEW id \in 1 .. Len(Episodes(e)), Episodes(e)[id].run = r
                   PROVE  id \in a + 1 .. b
        BY <2>4 DEF IdsIn
      <3>1. PICK q \in Run : In(id, q)
        <4> HIDE DEF In
        <4> QED BY <1>5
      <3>2. id \in Nat
        OBVIOUS
      <3>3. q = r
        <4> HIDE DEF In
        <4> QED BY <1>4, <3>1, <3>2
      <3> QED BY <2>2, <2>3, <3>1, <3>2, <3>3
    <2>6. \A id : id \in a + 1 .. b => id \in IdsIn(Episodes(e), r)
      <3> SUFFICES ASSUME NEW id \in a + 1 .. b
                   PROVE  id \in DOMAIN Episodes(e) /\ Episodes(e)[id].run = r
        BY DEF IdsIn
      <3>1. id \in Nat /\ In(id, r)
        BY <2>2, <2>3
      <3> HIDE DEF In
      <3> QED BY <1>4, <2>4, <3>1
    <2>7. IdsIn(Episodes(e), r) = a + 1 .. b
      BY <2>5, <2>6
    <2>8. Cardinality(a + 1 .. b) = IF a + 1 > b THEN 0 ELSE b - (a + 1) + 1
      <3>1. a + 1 \in Int /\ b \in Int
        OBVIOUS
      <3> QED BY <3>1, FS_Interval
    <2>9. Cardinality(a + 1 .. b) = Len(RunEpisodes(r, e[r]))
      <3>1. PICK count \in Nat : count = Len(RunEpisodes(r, e[r]))
        BY <2>1
      <3>2. b = a + count
        BY <2>1, <2>2, <2>3, <3>1
      <3>3. (IF a + 1 > b THEN 0 ELSE b - (a + 1) + 1) = count
        BY <3>2
      <3> QED BY <2>8, <3>1, <3>3
    <2> QED BY <2>2, <2>3, <2>7, <2>9
  <1> QED BY <1>3, <1>6

-----------------------------------------------------------------------------
\* The tables are made of evidence f, which the evidence of now extends.
TablesAreOf(f) ==
  /\ EvidenceOK(f)
  /\ \A r \in Run : Prefix(f[r], evidence[r])
  /\ tables.episodes = Episodes(f)
  /\ tables.points = MotionRows(Episodes(f))

\* f is the evidence of the first m runs, which will not grow any more unless
\* collectors overlap.
IsOfRuns(f, m) ==
  /\ \A r \in Run : r <= m => f[r] = evidence[r]
  /\ \A r \in Run : r > m => f[r] = << >>
  /\ m = newest /\ m # 0 => ended[m]

FileInv ==
  /\ newest \in 0 .. MaxRuns
  /\ EvidenceOK(evidence)
  /\ ended \in [Run -> BOOLEAN]
  /\ overlapped \in BOOLEAN
  /\ \A r \in Run : r > newest => ~ended[r] /\ evidence[r] = << >>

TablesInv ==
  /\ DOMAIN tables = {"created", "episodes", "members", "points"}
  /\ tables.created \in BOOLEAN
  /\ tables.created => \E r \in Run : ended[r]
  /\ \E f : /\ TablesAreOf(f)
            /\ ~overlapped => \E m \in 0 .. newest : IsOfRuns(f, m)

\* The tables have the episodes of all of run r's evidence.
IsDerived(r) == Cardinality(IdsOf(r)) = Len(RunEpisodes(r, evidence[r]))

\* A listed session is ended, and its counts tear at most once.
SessionOK(s) ==
  /\ s \in SessionRecords
  /\ ended[s.run]
  /\ s.motions = Len(evidence[s.run])
Torn(s, k) ==
  /\ s.counts = [i \in 1 .. Len(s.counts) |->
                   IF i <= k THEN 0 ELSE Len(RunEpisodes(s.run, evidence[s.run]))]
  /\ k < Len(s.counts) => IsDerived(s.run)
SessionsInv ==
  /\ sessions \in Seq(SessionRecords)
  /\ \A n \in 1 .. Len(sessions) :
       /\ SessionOK(sessions[n])
       /\ ~overlapped => \E k \in 0 .. Len(sessions[n].counts) : Torn(sessions[n], k)

\* The selected session's devices are listed, and its episodes as the tables
\* still have them.
Listed(x) ==
  /\ x.row.run = SelectedRun
  /\ x.row.device \in devices
  /\ ~overlapped => x.id \in DOMAIN tables.episodes /\ tables.episodes[x.id] = x.row
SelectionInv ==
  /\ hasRun \in BOOLEAN
  /\ session \in {0} \cup 1 .. Len(sessions)
  /\ hasRun => session # 0
  /\ devices \subseteq Device
  /\ hasRun /\ pc # "devices" =>
       \A i \in DOMAIN evidence[SelectedRun] : evidence[SelectedRun][i].device \in devices
  /\ episodes \in Seq(EpisodeRecords)
  /\ episode \in {0} \cup 1 .. Len(episodes)
  /\ trajectory \subseteq Run \X (1 .. MaxMotions)
  /\ \A n \in 1 .. Len(episodes) : hasRun /\ Listed(episodes[n])

\* What each place of the handlers has.
PlaceInv ==
  /\ pc \in {"open", "runs", "summaries", "devices", "episodes", "trajectory", "idle"}
  /\ repository \in BOOLEAN
  /\ message \in {"none", "error", "empty"}
  /\ pc \in {"open", "runs", "summaries"} \/ message = "error" =>
       selection = <<0, FALSE, {}, << >>, 0, {}>>
  /\ message = "error" => pc = "idle"
  /\ pc \in {"open", "runs"} => sessions = << >>
  /\ pc \in {"devices", "episodes", "trajectory"} => hasRun
  /\ pc \in {"devices", "episodes"} => episodes = << >> /\ episode = 0 /\ trajectory = {}
  /\ pc = "trajectory" => episode # 0

\* The inductive invariant.
IInv == /\ FileInv /\ TablesInv
        /\ SessionsInv /\ SelectionInv /\ PlaceInv
        /\ TrajectoryIsOfSelected

-----------------------------------------------------------------------------
\* What the tables can answer, whatever collectors have done.
LEMMA TablesFacts ==
  ASSUME FileInv, TablesInv
  PROVE  /\ Len(tables.episodes) \in Nat /\ DOMAIN tables.episodes = 1 .. Len(tables.episodes)
         /\ \A id \in DOMAIN tables.episodes :
              /\ tables.episodes[id] \in EpisodeFrom(evidence)
              /\ PointsOf(id) =
                   {<<tables.episodes[id].run, m>> : m \in tables.episodes[id].motions}
         /\ \A id : PointsOf(id) \subseteq Run \X (1 .. MaxMotions)
         /\ \A r \in Run : /\ Cardinality(IdsOf(r)) \in 0 .. MaxMotions
                           /\ IdsOf(r) \in SUBSET (1 .. Len(tables.episodes))
                           /\ ~overlapped => Cardinality(IdsOf(r)) = 0 \/ IsDerived(r)
  <1>1. PICK f : TablesAreOf(f) /\ (~overlapped => \E m \in 0 .. newest : IsOfRuns(f, m))
    BY DEF TablesInv
  <1>2. /\ EvidenceOK(f) /\ tables.episodes = Episodes(f) /\ tables.points = MotionRows(Episodes(f))
        /\ \A r \in Run : Prefix(f[r], evidence[r])
    BY <1>1 DEF TablesAreOf
  <1>3. PICK all \in Seq(EpisodeFrom(f)) : all = tables.episodes
    BY <1>2, EpisodePlaces
  <1>4. Len(all) \in Nat /\ DOMAIN all = 1 .. Len(all)
    OBVIOUS
  <1>5. ASSUME NEW id \in DOMAIN all
        PROVE  all[id] \in EpisodeFrom(evidence)
    <2>1. all[id] \in EpisodeFrom(f)
      BY <1>3, <1>4, <1>5
    <2>2. PICK r \in Run : r = all[id].run
      BY <2>1 DEF EpisodeFrom
    <2>3. PICK i \in DOMAIN f[r] : all[id].device = f[r][i].device
      BY <2>1, <2>2 DEF EpisodeFrom
    <2>4. Prefix(f[r], evidence[r]) /\ f[r] \in Seq(Motion) /\ evidence[r] \in Seq(Motion)
      BY <1>2 DEF FileInv, EvidenceOK
    <2>5. i \in DOMAIN evidence[r] /\ evidence[r][i] = f[r][i]
      <3>1. PICK s \in Seq(Motion) : s = f[r]
        BY <2>4
      <3>2. PICK u \in Seq(Motion) : u = evidence[r]
        BY <2>4
      <3>3. Prefix(s, u) /\ i \in DOMAIN s
        BY <2>3, <2>4, <3>1, <3>2
      <3>4. i \in DOMAIN u /\ u[i] = s[i]
        BY <3>1, <3>2, <3>3 DEF Prefix
      <3> QED BY <3>1, <3>2, <3>4
    <2> QED BY <2>1, <2>2, <2>3, <2>5 DEF EpisodeFrom
  <1>6. tables.points = UNION {{<<id, all[id].run, m>> : m \in all[id].motions} : id \in DOMAIN all}
    BY <1>2, <1>3 DEF MotionRows
  <1>7. ASSUME NEW id
        PROVE  /\ PointsOf(id) \subseteq Run \X (1 .. MaxMotions)
               /\ id \in DOMAIN all => PointsOf(id) = {<<all[id].run, m>> : m \in all[id].motions}
    <2>1. \A x : x \in PointsOf(id) <=>
            \E m : id \in DOMAIN all /\ m \in all[id].motions /\ x = <<all[id].run, m>>
      <3>1. ASSUME NEW x \in PointsOf(id)
            PROVE  \E m : id \in DOMAIN all /\ m \in all[id].motions /\ x = <<all[id].run, m>>
        <4>1. PICK q \in tables.points : q[1] = id /\ x = <<q[2], q[3]>>
          BY DEF PointsOf
        <4>2. PICK j \in DOMAIN all : q \in {<<j, all[j].run, m>> : m \in all[j].motions}
          BY <1>6, <4>1
        <4>3. PICK m \in all[j].motions : q = <<j, all[j].run, m>>
          BY <4>2
        <4> QED BY <4>1, <4>3
      <3>2. ASSUME id \in DOMAIN all, NEW m \in all[id].motions
            PROVE  <<all[id].run, m>> \in PointsOf(id)
        <4>1. <<id, all[id].run, m>> \in tables.points
          BY <1>6, <3>2
        <4>2. PICK q : q = <<id, all[id].run, m>>
          OBVIOUS
        <4>3. q \in tables.points /\ q[1] = id /\ <<q[2], q[3]>> = <<all[id].run, m>>
          BY <4>1, <4>2
        <4> QED BY <4>3 DEF PointsOf
      <3> QED BY <3>1, <3>2
    <2>2. id \in DOMAIN all => all[id].run \in Run /\ all[id].motions \subseteq 1 .. MaxMotions
      BY <1>5 DEF EpisodeFrom
    <2>3. PointsOf(id) \subseteq Run \X (1 .. MaxMotions)
      BY <2>1, <2>2
    <2>4. id \in DOMAIN all => PointsOf(id) = {<<all[id].run, m>> : m \in all[id].motions}
      BY <2>1
    <2> QED BY <2>3, <2>4
  <1>8. ASSUME NEW r \in Run
        PROVE  /\ Cardinality(IdsOf(r)) \in 0 .. MaxMotions
               /\ IdsOf(r) \in SUBSET (1 .. Len(all))
               /\ ~overlapped => Cardinality(IdsOf(r)) = 0 \/ IsDerived(r)
    <2>1. IdsOf(r) = IdsIn(Episodes(f), r)
      BY <1>2 DEF IdsOf, IdsIn
    <2>2. Cardinality(IdsOf(r)) = Len(RunEpisodes(r, f[r]))
      BY <1>2, <2>1, EpisodePlaces
    <2>3. f[r] \in Seq(Motion) /\ Len(f[r]) <= MaxMotions /\ Len(f[r]) \in Nat
      BY <1>2 DEF EvidenceOK
    <2>4. /\ Len(RunEpisodes(r, f[r])) \in Nat /\ Len(RunEpisodes(r, f[r])) <= Len(f[r])
          /\ f[r] = << >> => RunEpisodes(r, f[r]) = << >>
      BY <2>3, EpisodeCount
    <2>5. Cardinality(IdsOf(r)) \in 0 .. MaxMotions
      BY <2>2, <2>3, <2>4, MaxMotionsAssumption
    <2>6. IdsOf(r) \in SUBSET (1 .. Len(all))
      BY <1>3, <1>4 DEF IdsOf
    <2>7. ASSUME ~overlapped
          PROVE  Cardinality(IdsOf(r)) = 0 \/ IsDerived(r)
      <3>1. PICK m \in 0 .. newest : IsOfRuns(f, m)
        BY <1>1, <2>7
      <3>2. f[r] = evidence[r] \/ f[r] = << >>
        BY <3>1 DEF IsOfRuns, Run, FileInv
      <3>3. CASE f[r] = evidence[r]
        BY <2>2, <3>3 DEF IsDerived
      <3>4. CASE f[r] = << >>
        <4>1. RunEpisodes(r, f[r]) = << >>
          BY <2>4, <3>4
        <4>2. Len(RunEpisodes(r, f[r])) = 0
          BY <4>1
        <4> QED BY <2>2, <4>2
      <3> QED BY <3>2, <3>3, <3>4
    <2> QED BY <2>5, <2>6, <2>7
  <1> QED BY <1>3, <1>4, <1>5, <1>7, <1>8

\* A batch is appended to a run.
LEMMA ExtendFacts ==
  ASSUME FileInv, NEW r \in Run, Extend(r)
  PROVE  /\ EvidenceOK(evidence')
         /\ r <= newest /\ ~ended[r] /\ UNCHANGED <<newest, ended, tables>>
         /\ \A s \in Run : s # r => evidence'[s] = evidence[s]
         /\ Prefix(evidence[r], evidence'[r]) /\ evidence'[r] # evidence[r]
  <1>1. PICK n \in 1 .. MaxMotions - Len(evidence[r]) : \E batch \in [1 .. n -> Motion] :
          evidence' = [evidence EXCEPT ![r] = @ \o batch]
    BY DEF Extend
  <1>2. PICK batch \in [1 .. n -> Motion] : evidence' = [evidence EXCEPT ![r] = @ \o batch]
    BY <1>1
  <1>3. PICK rows \in Seq(Motion) : rows = evidence[r] /\ Len(rows) <= MaxMotions
    BY DEF FileInv, EvidenceOK
  <1>4. Len(rows) \in Nat /\ n \in Nat /\ n >= 1 /\ Len(rows) + n <= MaxMotions
    BY <1>3, MaxMotionsAssumption
  <1>5. batch \in Seq(Motion) /\ Len(batch) = n
    BY <1>4
  <1>6. PICK longer : longer = rows \o batch
    OBVIOUS
  <1>7. longer \in Seq(Motion) /\ Len(longer) = Len(rows) + n
    BY <1>5, <1>6, ConcatProperties
  <1>8. \A i \in 1 .. Len(rows) : longer[i] = rows[i]
    BY <1>5, <1>6
  <1>9. evidence \in [Run -> Seq(Motion)]
    BY DEF FileInv, EvidenceOK
  <1>10. evidence' = [evidence EXCEPT ![r] = longer]
    BY <1>2, <1>3, <1>6
  <1>11. /\ evidence' \in [Run -> Seq(Motion)] /\ evidence'[r] = longer
         /\ \A s \in Run : s # r => evidence'[s] = evidence[s]
    BY <1>7, <1>9, <1>10
  <1>12. Len(longer) <= MaxMotions /\ Len(rows) <= Len(longer) /\ longer # rows
    BY <1>4, <1>7
  <1>13. EvidenceOK(evidence')
    BY <1>11, <1>12 DEF EvidenceOK, FileInv
  <1>14. Prefix(evidence[r], evidence'[r])
    BY <1>3, <1>8, <1>11, <1>12 DEF Prefix
  <1> QED BY <1>3, <1>11, <1>12, <1>13, <1>14 DEF Extend

\* A prefix of a prefix is one.
LEMMA PrefixOfPrefix ==
  ASSUME NEW S, NEW s \in Seq(S), NEW t \in Seq(S), NEW u \in Seq(S), Prefix(s, t), Prefix(t, u)
  PROVE  Prefix(s, u)
  <1>1. Len(s) \in Nat /\ Len(t) \in Nat /\ Len(u) \in Nat
    BY LenProperties
  <1> QED BY <1>1 DEF Prefix

\* An ended run has all its evidence, and stays ended.
LEMMA RunsSettle ==
  ASSUME FileInv, Collect
  PROVE  /\ FileInv'
         /\ overlapped' = (overlapped \/ Overlapping)
         /\ \A r \in Run : ended[r] => ended'[r] /\ evidence'[r] = evidence[r]
  <1>1. Next /\ overlapped' = (overlapped \/ Overlapping)
    BY DEF Collect
  <1>2. overlapped' \in BOOLEAN
    BY <1>1 DEF Overlapping, FileInv
  <1>3. CASE StartRun
    <2>1. newest' \in 0 .. MaxRuns /\ newest' > newest
      BY <1>3, MaxRunsAssumption DEF StartRun, FileInv
    <2>2. \A r \in Run : r > newest' => r > newest
      BY <2>1 DEF FileInv, Run
    <2> QED BY <1>1, <1>2, <1>3, <2>1, <2>2 DEF StartRun, FileInv
  <1>4. ASSUME NEW r \in Run, Extend(r)
        PROVE  FileInv' /\ \A s \in Run : ended[s] => ended'[s] /\ evidence'[s] = evidence[s]
    <2>1. /\ EvidenceOK(evidence')
          /\ r <= newest /\ ~ended[r] /\ UNCHANGED <<newest, ended, tables>>
          /\ \A s \in Run : s # r => evidence'[s] = evidence[s]
      BY <1>4, ExtendFacts
    <2>2. \A s \in Run : s > newest => s # r
      BY <2>1 DEF FileInv, Run
    <2> QED BY <1>2, <2>1, <2>2 DEF FileInv
  <1>5. ASSUME NEW r \in Run, EndRun(r)
        PROVE  FileInv' /\ \A s \in Run : ended[s] => ended'[s] /\ evidence'[s] = evidence[s]
    <2>1. \A s \in Run : s > newest => s # r
      BY <1>5 DEF EndRun, FileInv, Run
    <2>2. ended' \in [Run -> BOOLEAN] /\ ended'[r] /\ \A s \in Run : s # r => ended'[s] = ended[s]
      BY <1>5 DEF EndRun, FileInv
    <2> QED BY <1>2, <1>5, <2>1, <2>2 DEF EndRun, FileInv
  <1>6. CASE Create \/ Replace
    BY <1>1, <1>2, <1>6 DEF Create, Replace, FileInv
  <1> QED BY <1>1, <1>3, <1>4, <1>5, <1>6 DEF Next

\* The tables stay what they are of, when the evidence grows at the end.
LEMMA TablesStay ==
  ASSUME FileInv, FileInv', NEW f, TablesAreOf(f),
         tables'.episodes = tables.episodes, tables'.points = tables.points,
         \A r \in Run : Prefix(evidence[r], evidence'[r])
  PROVE  TablesAreOf(f)'
  <1>1. EvidenceOK(f) /\ EvidenceOK(evidence) /\ EvidenceOK(evidence')
    BY DEF TablesAreOf, FileInv
  <1>2. \A r \in Run : f[r] \in Seq(Motion) /\ evidence[r] \in Seq(Motion) /\ evidence'[r] \in Seq(Motion)
    BY <1>1 DEF EvidenceOK
  <1>3. \A r \in Run : Prefix(f[r], evidence'[r])
    BY <1>2, PrefixOfPrefix DEF TablesAreOf
  <1> QED BY <1>1, <1>3 DEF TablesAreOf

\* Evidence that is the same is a prefix.
LEMMA PrefixOfSame ==
  ASSUME FileInv, NEW r \in Run
  PROVE  Prefix(evidence[r], evidence[r])
  <1>1. evidence[r] \in Seq(Motion)
    BY DEF FileInv, EvidenceOK
  <1>2. Len(evidence[r]) \in Nat
    BY <1>1
  <1> QED BY <1>2 DEF Prefix

\* Every step of a collector leaves the tables what a derivation made.
LEMMA TablesStep ==
  ASSUME FileInv, TablesInv, Collect
  PROVE  TablesInv'
  <1>1. /\ Next /\ overlapped' = (overlapped \/ Overlapping) /\ FileInv'
        /\ \A r \in Run : ended[r] => ended'[r] /\ evidence'[r] = evidence[r]
    BY RunsSettle DEF Collect
  <1>2. PICK f : TablesAreOf(f) /\ (~overlapped => \E m \in 0 .. newest : IsOfRuns(f, m))
    BY DEF TablesInv
  <1>3. ~overlapped' => ~overlapped /\ ~Overlapping
    BY <1>1 DEF FileInv
  <1>4. CASE StartRun
    <2>1. TablesAreOf(f)'
      BY <1>1, <1>2, <1>4, TablesStay, PrefixOfSame DEF StartRun
    <2>2. ASSUME ~overlapped'
          PROVE  \E m \in 0 .. newest' : IsOfRuns(f, m)'
      <3>1. PICK m \in 0 .. newest : IsOfRuns(f, m)
        BY <1>2, <1>3, <2>2
      <3>2. newest \in Nat /\ newest' = newest + 1 /\ m \in 0 .. newest' /\ m # newest'
        BY <1>4 DEF StartRun, FileInv
      <3>3. IsOfRuns(f, m)'
        BY <1>4, <3>1, <3>2 DEF StartRun, IsOfRuns
      <3> QED BY <3>2, <3>3
    <2> QED BY <1>4, <2>1, <2>2 DEF StartRun, TablesInv
  <1>5. ASSUME NEW r \in Run, Extend(r)
        PROVE  TablesInv'
    <2>1. /\ r <= newest /\ ~ended[r] /\ UNCHANGED <<newest, ended, tables>>
          /\ \A s \in Run : s # r => evidence'[s] = evidence[s]
          /\ Prefix(evidence[r], evidence'[r]) /\ evidence'[r] # evidence[r]
      BY <1>5, ExtendFacts
    <2>2. TablesAreOf(f)'
      BY <1>1, <1>2, <2>1, TablesStay, PrefixOfSame
    <2>3. ASSUME ~overlapped'
          PROVE  \E m \in 0 .. newest' : IsOfRuns(f, m)'
      <3>1. PICK m \in 0 .. newest : IsOfRuns(f, m)
        BY <1>2, <1>3, <2>3
      <3>2. r = newest /\ r # 0
        BY <1>3, <2>1, <2>3 DEF Overlapping, FileInv, Run
      <3>3. m # newest
        BY <2>1, <3>1, <3>2 DEF IsOfRuns
      <3>4. \A s \in Run : s <= m => s # r
        BY <3>1, <3>2, <3>3 DEF FileInv, Run
      <3>5. IsOfRuns(f, m)'
        BY <2>1, <3>1, <3>3, <3>4 DEF IsOfRuns
      <3> QED BY <2>1, <3>5
    <2> QED BY <2>1, <2>2, <2>3 DEF TablesInv
  <1>6. ASSUME NEW r \in Run, EndRun(r)
        PROVE  TablesInv'
    <2>1. /\ UNCHANGED <<newest, evidence, tables>>
          /\ \A s \in Run : ended[s] => ended'[s]
      BY <1>1, <1>6 DEF EndRun
    <2>2. TablesAreOf(f)'
      BY <1>2, <2>1 DEF TablesAreOf
    <2>3. ASSUME ~overlapped'
          PROVE  \E m \in 0 .. newest' : IsOfRuns(f, m)'
      <3>1. PICK m \in 0 .. newest : IsOfRuns(f, m)
        BY <1>2, <1>3, <2>3
      <3>2. m # 0 => m \in Run
        BY <3>1, MaxRunsAssumption DEF FileInv, Run
      <3>3. IsOfRuns(f, m)'
        BY <2>1, <3>1, <3>2 DEF IsOfRuns
      <3> QED BY <2>1, <3>3
    <2> QED BY <2>1, <2>2, <2>3 DEF TablesInv
  <1>7. CASE Create
    <2>1. /\ UNCHANGED <<newest, evidence, ended>> /\ \E r \in Run : ended[r]
          /\ tables' = [tables EXCEPT !.created = TRUE]
      BY <1>7 DEF Create
    <2>2. /\ DOMAIN tables' = DOMAIN tables /\ tables'.created = TRUE
          /\ tables'.episodes = tables.episodes /\ tables'.points = tables.points
      BY <2>1 DEF TablesInv
    <2>3. TablesAreOf(f)'
      BY <1>2, <2>1, <2>2 DEF TablesAreOf
    <2>4. \A m : IsOfRuns(f, m) => IsOfRuns(f, m)'
      BY <2>1 DEF IsOfRuns
    <2> QED BY <1>2, <1>3, <2>1, <2>2, <2>3, <2>4 DEF TablesInv
  <1>8. CASE Replace
    <2>1. /\ tables.created /\ tables' = TablesOf(evidence)
          /\ UNCHANGED <<newest, evidence, ended>>
      BY <1>8 DEF Replace
    <2>2. /\ DOMAIN tables' = {"created", "episodes", "members", "points"}
          /\ tables'.created = TRUE /\ tables'.episodes = Episodes(evidence)
          /\ tables'.points = MotionRows(Episodes(evidence))
      BY <2>1 DEF TablesOf
    <2>3. \E r \in Run : ended'[r]
      BY <2>1 DEF TablesInv
    <2>4. CASE tables' = tables
      <3>1. TablesAreOf(f)'
        BY <1>2, <2>1, <2>4 DEF TablesAreOf
      <3>2. \A m : IsOfRuns(f, m) => IsOfRuns(f, m)'
        BY <2>1 DEF IsOfRuns
      <3> QED BY <1>2, <1>3, <2>1, <2>2, <2>3, <3>1, <3>2 DEF TablesInv
    <2>5. CASE tables' # tables
      <3>1. TablesAreOf(evidence)'
        <4>1. \A r \in Run : Prefix(evidence[r], evidence[r])
          BY PrefixOfSame
        <4> QED BY <2>1, <2>2, <4>1 DEF TablesAreOf, FileInv
      <3>2. ASSUME ~overlapped'
            PROVE  IsOfRuns(evidence, newest)'
        <4>1. ended[newest]
          BY <1>3, <2>5, <3>2 DEF Overlapping
        <4> QED BY <2>1, <4>1 DEF IsOfRuns, FileInv
      <3>3. newest' \in 0 .. newest'
        BY <2>1 DEF FileInv
      <3> QED BY <2>2, <2>3, <3>1, <3>2, <3>3 DEF TablesInv
    <2> QED BY <2>4, <2>5
  <1> QED BY <1>1, <1>4, <1>5, <1>6, <1>7, <1>8 DEF Next

\* While collectors run one after the other a derivation repeats the episodes
\* it finds in the tables under their ids.
LEMMA EpisodesAreRepeated ==
  ASSUME FileInv, TablesInv, ~overlapped
  PROVE  Prefix(tables.episodes, Episodes(evidence))
  <1>1. PICK f : TablesAreOf(f) /\ \E m \in 0 .. newest : IsOfRuns(f, m)
    BY DEF TablesInv
  <1>2. PICK m \in 0 .. newest : IsOfRuns(f, m)
    BY <1>1
  <1>3. /\ EvidenceOK(f) /\ EvidenceOK(evidence) /\ m \in 0 .. MaxRuns
        /\ tables.episodes = Episodes(f) /\ MaxRuns \in 0 .. MaxRuns /\ m <= MaxRuns
    BY <1>1, <1>2, MaxRunsAssumption DEF TablesAreOf, FileInv
  <1>4. Episodes(f) = PartsOf(f)[m]
    BY <1>2, <1>3, PartsEnd DEF IsOfRuns
  <1>5. PartsOf(f)[m] = PartsOf(evidence)[m]
    <2>1. \A r \in Run : r <= m => f[r] = evidence[r]
      BY <1>2 DEF IsOfRuns
    <2>2. \A i \in 0 .. m : PartsOf(f)[i] = PartsOf(evidence)[i]
      BY <1>3, <2>1, PartsAgree
    <2>3. m \in 0 .. m
      BY <1>3
    <2> QED BY <2>2, <2>3
  <1>6. Prefix(PartsOf(evidence)[m], PartsOf(evidence)[MaxRuns])
    BY <1>3, PartsGrow
  <1>7. Episodes(evidence) = PartsOf(evidence)[MaxRuns]
    BY <1>3, PartsExist DEF ArePartsOf
  <1> QED BY <1>3, <1>4, <1>5, <1>6, <1>7

\* What the inspector has read is not undone while collectors run one after
\* the other: an id keeps its episode, and a derived run stays derived.
LEMMA ReadStays ==
  ASSUME FileInv, TablesInv, Collect, ~overlapped'
  PROVE  /\ ~overlapped
         /\ \A id \in DOMAIN tables.episodes :
              id \in DOMAIN tables'.episodes /\ tables'.episodes[id] = tables.episodes[id]
         /\ \A r \in Run : ended[r] /\ IsDerived(r) => IsDerived(r)'
  <1>1. /\ ~overlapped /\ Next /\ FileInv' /\ TablesInv'
        /\ \A r \in Run : ended[r] => evidence'[r] = evidence[r]
    BY RunsSettle, TablesStep DEF Collect, FileInv
  <1>2. CASE Replace
    <2>1. tables'.episodes = Episodes(evidence) /\ evidence' = evidence
      BY <1>2 DEF Replace, TablesOf
    <2>2. Prefix(tables.episodes, tables'.episodes)
      BY <1>1, <2>1, EpisodesAreRepeated
    <2>3. /\ Len(tables.episodes) \in Nat /\ DOMAIN tables.episodes = 1 .. Len(tables.episodes)
      BY TablesFacts
    <2>4. EvidenceOK(evidence)
      BY DEF FileInv
    <2>5. /\ Len(tables'.episodes) \in Nat /\ DOMAIN tables'.episodes = 1 .. Len(tables'.episodes)
      <3>1. Episodes(evidence) \in Seq(EpisodeFrom(evidence))
        BY <2>4, EpisodePlaces
      <3> QED BY <2>1, <3>1, LenProperties
    <2>6. \A r \in Run : IsDerived(r)'
      <3>1. \A r \in Run : Cardinality(IdsIn(Episodes(evidence), r)) = Len(RunEpisodes(r, evidence[r]))
        BY <2>4, EpisodePlaces
      <3> QED BY <2>1, <3>1 DEF IsDerived, IdsOf, IdsIn
    <2> QED BY <1>1, <2>2, <2>3, <2>5, <2>6 DEF Prefix
  <1>3. CASE ~Replace
    <2>1. tables'.episodes = tables.episodes
      BY <1>1, <1>3 DEF Next, StartRun, Extend, EndRun, Create, TablesInv
    <2>2. \A r \in Run : IdsOf(r)' = IdsOf(r)
      BY <2>1 DEF IdsOf
    <2> QED BY <1>1, <2>1, <2>2 DEF IsDerived
  <1> QED BY <1>2, <1>3

-----------------------------------------------------------------------------
\* Each session is listed as it is, its devices and episodes too.
BrowserInv == SessionsInv /\ SelectionInv /\ PlaceInv /\ TrajectoryIsOfSelected

\* The files as they were created, and the inspector before load().
LEMMA InitInvariant == BrowserInit => IInv
  <1> SUFFICES ASSUME BrowserInit
               PROVE  IInv
    OBVIOUS
  <1>1. FileInv
    <2>1. << >> \in Seq(Motion) /\ Len(<< >>) = 0
      OBVIOUS
    <2>2. CASE NewFile
      <3>1. \A r \in Run : evidence[r] = << >> /\ ended[r] = FALSE
        BY <2>2 DEF NewFile
      <3>2. evidence \in [Run -> Seq(Motion)] /\ ended \in [Run -> BOOLEAN]
        BY <2>1, <2>2 DEF NewFile
      <3>3. EvidenceOK(evidence)
        BY <2>1, <3>1, <3>2, MaxMotionsAssumption DEF EvidenceOK
      <3>4. newest \in 0 .. MaxRuns
        BY <2>2, MaxRunsAssumption DEF NewFile
      <3>5. overlapped \in BOOLEAN
        BY DEF BrowserInit
      <3> QED BY <3>1, <3>2, <3>3, <3>4, <3>5 DEF FileInv
    <2>3. CASE OldFile
      <3>1. PICK d \in Device :
              evidence = [r \in Run |-> IF r = 1 THEN <<[device |-> d, rested |-> TRUE]>> ELSE << >>]
        BY <2>3 DEF OldFile
      <3>2. [device |-> d, rested |-> TRUE] \in Motion
        BY DEF Motion
      <3>3. PICK one : one = <<[device |-> d, rested |-> TRUE]>>
        OBVIOUS
      <3>4. one \in Seq(Motion) /\ Len(one) = 1
        BY <3>2, <3>3
      <3>5. evidence = [r \in Run |-> IF r = 1 THEN one ELSE << >>]
        BY <3>1, <3>3
      <3>6. ASSUME NEW r \in Run
            PROVE  evidence[r] \in Seq(Motion) /\ Len(evidence[r]) <= 1
        <4>1. CASE r = 1
          <5>1. evidence[r] = one
            BY <3>5, <4>1
          <5>2. evidence[r] \in Seq(Motion)
            BY <3>4, <5>1, Zenon
          <5>3. Len(evidence[r]) = 1
            BY <3>4, <5>1, Zenon
          <5> QED BY <5>2, <5>3
        <4>2. CASE r # 1
          BY <2>1, <3>5, <4>2
        <4> QED BY <4>1, <4>2
      <3>7. Len(evidence[1]) <= MaxMotions /\ \A r \in Run : Len(evidence[r]) <= MaxMotions
        <4>1. 1 \in Run
          BY MaxRunsAssumption DEF Run
        <4>2. \A r \in Run : Len(evidence[r]) \in Nat
          BY <3>6, LenProperties
        <4> QED BY <3>6, <4>1, <4>2, MaxMotionsAssumption
      <3>8. evidence \in [Run -> Seq(Motion)]
        BY <3>5, <3>6
      <3>9. EvidenceOK(evidence)
        BY <3>7, <3>8 DEF EvidenceOK
      <3>10. \A r \in Run : r > 1 => ~ended[r] /\ evidence[r] = << >>
        <4> SUFFICES ASSUME NEW r \in Run, r > 1
                     PROVE  ~ended[r] /\ evidence[r] = << >>
          OBVIOUS
        <4>1. r # 1
          BY DEF Run
        <4>2. ended = [q \in Run |-> q = 1]
          BY <2>3 DEF OldFile
        <4>3. ~ended[r]
          BY <4>1, <4>2, Zenon
        <4>4. evidence[r] = << >>
          BY <3>5, <4>1
        <4> QED BY <4>3, <4>4
      <3>11. ended \in [Run -> BOOLEAN] /\ newest = 1
        BY <2>3 DEF OldFile
      <3>12. overlapped \in BOOLEAN
        BY DEF BrowserInit
      <3> QED BY <3>12, <3>9, <3>10, <3>11, MaxRunsAssumption DEF FileInv
    <2> QED BY <2>2, <2>3 DEF BrowserInit, Init
  <1>2. TablesInv
    <2>1. PICK f : f = [r \in Run |-> << >>]
      OBVIOUS
    <2>2. f \in [Run -> Seq(Motion)] /\ \A r \in Run : f[r] = << >> /\ Len(f[r]) = 0
      BY <2>1
    <2>3. EvidenceOK(f)
      BY <2>2, MaxMotionsAssumption DEF EvidenceOK
    <2>4. Episodes(f) = << >>
      <3>1. 0 \in 0 .. MaxRuns
        BY MaxRunsAssumption
      <3>2. Episodes(f) = PartsOf(f)[0]
        BY <2>2, <2>3, <3>1, PartsEnd
      <3> QED BY <2>3, <3>2, PartsExist DEF ArePartsOf
    <2>5. MotionRows(<< >>) = {}
      BY DEF MotionRows
    <2>6. tables = NoTables
      BY DEF BrowserInit, Init
    <2>7. \A r \in Run : Len(evidence[r]) \in Nat
      BY <1>1, LenProperties DEF FileInv, EvidenceOK
    <2>8. TablesAreOf(f)
      BY <2>2, <2>3, <2>4, <2>5, <2>6, <2>7 DEF TablesAreOf, NoTables, Prefix
    <2>9. IsOfRuns(f, 0) /\ 0 \in 0 .. newest
      BY <1>1, <2>2 DEF IsOfRuns, Run, FileInv
    <2> QED BY <2>6, <2>8, <2>9 DEF TablesInv, NoTables
  <1>3. sessions = << >> /\ episodes = << >> /\ Len(<< >>) = 0
    BY DEF BrowserInit
  <1>4. << >> \in Seq(SessionRecords) /\ << >> \in Seq(EpisodeRecords)
    OBVIOUS
  <1>5. SessionsInv
    BY <1>3, <1>4 DEF SessionsInv
  <1>6. SelectionInv
    <2>1. /\ hasRun = FALSE /\ session = 0 /\ devices = {} /\ episode = 0 /\ trajectory = {}
      BY DEF BrowserInit
    <2>2. 1 .. Len(episodes) = {} /\ episodes \in Seq(EpisodeRecords)
      BY <1>3, <1>4
    <2> QED BY <2>1, <2>2 DEF SelectionInv
  <1>7. PlaceInv
    BY DEF PlaceInv, BrowserInit, selection
  <1>8. TrajectoryIsOfSelected
    BY DEF TrajectoryIsOfSelected, BrowserInit
  <1> QED BY <1>1, <1>2, <1>5, <1>6, <1>7, <1>8 DEF IInv

\* Whatever the collectors write, what the inspector keeps stays as it is.
LEMMA CollectInvariant ==
  ASSUME IInv, Collect, UNCHANGED browser
  PROVE  IInv'
  <1>1. FileInv' /\ TablesInv'
    BY RunsSettle, TablesStep DEF IInv
  <1>2. /\ \A r \in Run : ended[r] => ended'[r] /\ evidence'[r] = evidence[r]
        /\ ~overlapped' =>
             /\ ~overlapped
             /\ \A id \in DOMAIN tables.episodes :
                  id \in DOMAIN tables'.episodes /\ tables'.episodes[id] = tables.episodes[id]
             /\ \A r \in Run : ended[r] /\ IsDerived(r) => IsDerived(r)'
    BY RunsSettle, ReadStays DEF IInv
  <1>3. UNCHANGED <<pc, repository, sessions, session, hasRun, devices, episodes, episode,
                    trajectory, message>>
    BY DEF browser, selection
  <1>4. \A n \in 1 .. Len(sessions) : sessions[n].run \in Run /\ ended[sessions[n].run]
    BY DEF IInv, SessionsInv, SessionOK, SessionRecords
  <1>5. SessionsInv'
    <2>1. ASSUME NEW n \in 1 .. Len(sessions)
          PROVE  SessionOK(sessions[n])'
      BY <1>2, <1>3, <1>4 DEF IInv, SessionsInv, SessionOK
    <2>2. ASSUME NEW n \in 1 .. Len(sessions), ~overlapped'
          PROVE  \E k \in 0 .. Len(sessions[n].counts) : Torn(sessions[n], k)'
      <3>1. PICK k \in 0 .. Len(sessions[n].counts) : Torn(sessions[n], k)
        BY <1>2, <2>2 DEF IInv, SessionsInv
      <3>2. PICK s : s = sessions[n] /\ s' = sessions[n]
        BY <1>3
      <3>3. evidence'[sessions[n].run] = evidence[sessions[n].run]
        BY <1>2, <1>4
      <3>4. IsDerived(sessions[n].run) => IsDerived(sessions[n].run)'
        BY <1>2, <1>3, <1>4, <2>2
      <3>5. Torn(sessions[n], k)'
        BY <1>3, <3>1, <3>3, <3>4 DEF Torn
      <3> QED BY <3>5
    <2> QED BY <1>3, <2>1, <2>2 DEF IInv, SessionsInv
  <1>6. SelectionInv'
    <2>1. hasRun => SelectedRun \in Run /\ ended[SelectedRun] /\ SelectedRun' = SelectedRun
                    /\ evidence'[SelectedRun] = evidence[SelectedRun]
      BY <1>2, <1>3, <1>4 DEF IInv, SelectionInv, SelectedRun
    <2>2. ASSUME NEW n \in 1 .. Len(episodes)
          PROVE  hasRun /\ Listed(episodes[n])'
      BY <1>2, <1>3, <2>1 DEF IInv, SelectionInv, Listed
    <2> QED BY <1>3, <2>1, <2>2 DEF IInv, SelectionInv
  <1>7. PlaceInv'
    BY <1>3 DEF IInv, PlaceInv, selection
  <1>8. TrajectoryIsOfSelected'
    BY <1>2, <1>3 DEF IInv, TrajectoryIsOfSelected
  <1> QED BY <1>1, <1>5, <1>6, <1>7, <1>8 DEF IInv

\* The n-th of a set of numbers is one of them.
LEMMA AtExists ==
  ASSUME NEW N \in Nat, NEW S \in SUBSET (1 .. N), NEW n \in 1 .. Cardinality(S)
  PROVE  At(S, n) \in S
  <1>1. \E i \in S : Cardinality({j \in S : j <= i}) = n
    BY NthExists
  <1> QED BY <1>1 DEF At

\* completed_runs() returns ended runs.
LEMMA CompletedRunsFacts ==
  ASSUME FileInv
  PROVE  /\ CompletedRuns \in Seq(Run)
         /\ \A n \in 1 .. Len(CompletedRuns) : ended[CompletedRuns[n]]
  <1> DEFINE runs == {r \in Run : ended[r]}
             count == Cardinality(runs)
  <1>1. runs \in SUBSET (1 .. MaxRuns)
    BY DEF Run
  <1>2. count \in Nat
    <2>1. IsFiniteSet(1 .. MaxRuns)
      BY MaxRunsAssumption, FS_Interval
    <2> QED BY <1>1, <2>1, FS_Subset, FS_CardinalityType
  <1>3. ASSUME NEW n \in 1 .. count
        PROVE  At(runs, count + 1 - n) \in runs
    <2>1. count + 1 - n \in 1 .. count
      BY <1>2
    <2> HIDE DEF runs
    <2> QED BY <1>1, <2>1, MaxRunsAssumption, AtExists
  <1>4. CompletedRuns = [n \in 1 .. count |-> At(runs, count + 1 - n)]
    BY DEF CompletedRuns
  <1> HIDE DEF count
  <1>5. \A n \in 1 .. count : At(runs, count + 1 - n) \in Run /\ ended[At(runs, count + 1 - n)]
    BY <1>3
  <1> HIDE DEF runs
  <1>6. CompletedRuns \in [1 .. count -> Run] /\ \A n \in 1 .. count : ended[CompletedRuns[n]]
    BY <1>4, <1>5
  <1>7. CompletedRuns \in Seq(Run) /\ Len(CompletedRuns) = count
    BY <1>2, <1>6
  <1> QED BY <1>6, <1>7

\* One more statement of a summary counts the episodes of now: it tears the
\* counts, when they are not torn yet and a derivation has been.
LEMMA TornOnce ==
  ASSUME FileInv, TablesInv, ~overlapped,
         NEW s \in SessionRecords, NEW k \in 0 .. Len(s.counts), Torn(s, k),
         NEW t \in SessionRecords, t.run = s.run,
         t.counts = Append(s.counts, Cardinality(IdsOf(s.run)))
  PROVE  \E j \in 0 .. Len(t.counts) : Torn(t, j)
  <1>1. PICK n \in Nat : n = Len(s.counts)
    BY LenProperties DEF SessionRecords
  <1>2. PICK c : c = Cardinality(IdsOf(s.run))
    OBVIOUS
  <1>3. PICK d : d = Len(RunEpisodes(s.run, evidence[s.run]))
    OBVIOUS
  <1>4. c = 0 \/ IsDerived(s.run)
    BY <1>2, TablesFacts DEF SessionRecords
  <1>5. s.counts \in Seq(0 .. MaxMotions) /\ c \in 0 .. MaxMotions
    BY <1>2, TablesFacts DEF SessionRecords
  <1>6. /\ Len(t.counts) = n + 1 /\ t.counts \in Seq(0 .. MaxMotions)
        /\ t.counts[n + 1] = c /\ \A i \in 1 .. n : t.counts[i] = s.counts[i]
    BY <1>1, <1>2, <1>5
  <1>7. \A i \in 1 .. n : s.counts[i] = IF i <= k THEN 0 ELSE d
    BY <1>1, <1>3 DEF Torn
  <1>12. k \in 0 .. n /\ k \in 0 .. n + 1
    BY <1>1
  <1>8. ASSUME NEW j \in 0 .. n + 1, j < n + 1 => IsDerived(s.run),
               \A i \in 1 .. n + 1 : t.counts[i] = IF i <= j THEN 0 ELSE d
        PROVE  Torn(t, j)
    <2>1. t.counts \in [1 .. n + 1 -> 0 .. MaxMotions]
      BY <1>6, LenProperties
    <2>2. t.counts = [i \in 1 .. n + 1 |-> IF i <= j THEN 0 ELSE d]
      BY <1>8, <2>1
    <2> QED BY <1>3, <1>6, <1>8, <2>2 DEF Torn
  <1>9. CASE IsDerived(s.run)
    <2>1. c = d
      BY <1>2, <1>3, <1>9 DEF IsDerived
    <2>2. \A i \in 1 .. n + 1 : t.counts[i] = IF i <= k THEN 0 ELSE d
      BY <1>6, <1>7, <1>12, <2>1
    <2>3. Torn(t, k)
      BY <1>8, <1>9, <1>12, <2>2
    <2> QED BY <1>6, <1>12, <2>3
  <1>10. CASE ~IsDerived(s.run)
    <2>1. ~ (k < n)
      BY <1>1, <1>10 DEF Torn
    <2>2. c = 0
      BY <1>4, <1>10, Zenon
    <2>3. \A i \in 1 .. n + 1 : t.counts[i] = IF i <= n + 1 THEN 0 ELSE d
      BY <1>6, <1>7, <1>12, <2>1, <2>2
    <2>4. n + 1 \in 0 .. n + 1 /\ ~ (n + 1 < n + 1)
      OBVIOUS
    <2>5. Torn(t, n + 1)
      BY <1>8, <2>3, <2>4
    <2> QED BY <1>6, <2>4, <2>5
  <1> QED BY <1>9, <1>10

\* A record of completed_runs(), with the count of its first statement.
LEMMA NewSession ==
  ASSUME FileInv, TablesInv, NEW r \in Run, ended[r]
  PROVE  /\ SessionOK(SessionRecord(r))
         /\ ~overlapped => \E k \in 0 .. Len(SessionRecord(r).counts) : Torn(SessionRecord(r), k)
  <1>1. Len(evidence[r]) \in 0 .. MaxMotions
    <2>1. evidence[r] \in Seq(Motion) /\ Len(evidence[r]) <= MaxMotions
      BY DEF FileInv, EvidenceOK
    <2>2. Len(evidence[r]) \in Nat
      BY <2>1, LenProperties
    <2> QED BY <2>1, <2>2, MaxMotionsAssumption
  <1>2. PICK c : c = Cardinality(IdsOf(r))
    OBVIOUS
  <1>3. c \in 0 .. MaxMotions
    BY <1>2, TablesFacts
  <1>4. SessionRecord(r) = [run |-> r, motions |-> Len(evidence[r]), counts |-> <<c>>]
    BY <1>2 DEF SessionRecord, MotionsOf
  <1>5. <<c>> \in Seq(0 .. MaxMotions) /\ << >> \in Seq(0 .. MaxMotions)
        /\ <<c>> = Append(<< >>, c) /\ Len(<< >>) = 0
    BY <1>3
  <1>6. SessionRecord(r) \in SessionRecords
    BY <1>1, <1>4, <1>5 DEF SessionRecords
  <1>7. SessionOK(SessionRecord(r))
    BY <1>4, <1>6 DEF SessionOK
  <1>8. ASSUME ~overlapped
        PROVE  \E k \in 0 .. Len(SessionRecord(r).counts) : Torn(SessionRecord(r), k)
    <2>1. PICK s : s = [run |-> r, motions |-> Len(evidence[r]), counts |-> << >>]
      OBVIOUS
    <2>2. s \in SessionRecords /\ s.run = r /\ s.counts = << >>
      BY <1>1, <1>5, <2>1 DEF SessionRecords
    <2>3. Torn(s, 0) /\ 0 \in 0 .. Len(s.counts)
      BY <1>5, <2>2 DEF Torn
    <2>4. SessionRecord(r).run = s.run
          /\ SessionRecord(r).counts = Append(s.counts, Cardinality(IdsOf(s.run)))
      BY <1>2, <1>4, <1>5, <2>2
    <2> QED BY <1>6, <1>8, <2>2, <2>3, <2>4, TornOnce
  <1> QED BY <1>7, <1>8

-----------------------------------------------------------------------------
\* A handler writes nothing: what holds of the files goes on to hold.
LEMMA FilesStay ==
  ASSUME IInv, UNCHANGED <<vars, overlapped>>
  PROVE  /\ FileInv' /\ TablesInv'
         /\ UNCHANGED <<newest, evidence, ended, tables, overlapped>>
         /\ \A r : IdsOf(r)' = IdsOf(r)
         /\ \A r : IsDerived(r)' <=> IsDerived(r)
  <1>1. UNCHANGED <<newest, evidence, ended, tables, overlapped>>
    BY DEF vars
  <1>2. FileInv'
    BY <1>1 DEF IInv, FileInv
  <1>3. \A f : TablesAreOf(f)' <=> TablesAreOf(f)
    BY <1>1 DEF TablesAreOf
  <1>4. \A f, m : IsOfRuns(f, m)' <=> IsOfRuns(f, m)
    BY <1>1 DEF IsOfRuns
  <1>5. TablesInv'
    <2>1. PICK f : TablesAreOf(f) /\ (~overlapped => \E m \in 0 .. newest : IsOfRuns(f, m))
      BY DEF IInv, TablesInv
    <2>2. TablesAreOf(f)' /\ (~overlapped' => \E m \in 0 .. newest' : IsOfRuns(f, m)')
      BY <1>1, <1>3, <1>4, <2>1
    <2> QED BY <1>1, <2>2 DEF IInv, TablesInv
  <1>6. \A r : IdsOf(r)' = IdsOf(r)
    BY <1>1 DEF IdsOf
  <1>7. \A r : IsDerived(r)' <=> IsDerived(r)
    BY <1>1, <1>6 DEF IsDerived
  <1> QED BY <1>1, <1>2, <1>5, <1>6, <1>7

\* A listed session stays one.
LEMMA SessionStays ==
  ASSUME IInv, UNCHANGED <<vars, overlapped>>, NEW s
  PROVE  /\ SessionOK(s)' <=> SessionOK(s)
         /\ \A k : Torn(s, k)' <=> Torn(s, k)
  <1>1. UNCHANGED <<evidence, ended>> /\ \A r : IsDerived(r)' <=> IsDerived(r)
    BY FilesStay
  <1> QED BY <1>1 DEF SessionOK, Torn

\* The list of sessions is kept.
LEMMA SessionsStay ==
  ASSUME IInv, UNCHANGED <<vars, overlapped>>, UNCHANGED sessions
  PROVE  SessionsInv'
  <1>1. ASSUME NEW n \in 1 .. Len(sessions)
        PROVE  /\ SessionOK(sessions[n])'
               /\ ~overlapped' => \E k \in 0 .. Len(sessions[n].counts) : Torn(sessions[n], k)'
    <2>1. PICK s : s = sessions[n] /\ s = sessions'[n]
      OBVIOUS
    <2>2. SessionOK(s) /\ (~overlapped => \E k \in 0 .. Len(s.counts) : Torn(s, k))
      BY <2>1 DEF IInv, SessionsInv
    <2>3. overlapped' = overlapped /\ SessionOK(s)'
          /\ (~overlapped => \E k \in 0 .. Len(s.counts) : Torn(s, k)')
      BY <2>2, SessionStays, FilesStay
    <2>4. SessionOK(sessions[n])'
      BY <2>1, <2>3 DEF SessionOK
    <2>5. ASSUME ~overlapped'
          PROVE  \E k \in 0 .. Len(sessions[n].counts) : Torn(sessions[n], k)'
      <3>1. PICK k \in 0 .. Len(s.counts) : Torn(s, k)'
        BY <2>3, <2>5
      <3>2. Torn(sessions[n], k)'
        BY <2>1, <3>1 DEF Torn
      <3> QED BY <2>1, <3>2
    <2> QED BY <2>4, <2>5
  <1> QED BY <1>1 DEF IInv, SessionsInv

\* Nothing is selected.
LEMMA Cleared ==
  ASSUME session' = 0, hasRun' = FALSE, devices' = {}, episodes' = << >>, episode' = 0,
         trajectory' = {}
  PROVE  /\ SelectionInv' /\ TrajectoryIsOfSelected'
         /\ selection' = <<0, FALSE, {}, << >>, 0, {}>>
  <1>1. episodes' \in Seq(EpisodeRecords) /\ 1 .. Len(episodes') = {}
    OBVIOUS
  <1> QED BY <1>1 DEF SelectionInv, TrajectoryIsOfSelected, selection

\* The selection stays.
LEMMA SelectionStays ==
  ASSUME IInv, UNCHANGED <<vars, overlapped>>,
         UNCHANGED <<sessions, session, hasRun, devices, episodes>>,
         hasRun => pc # "devices",
         episode' \in {0} \cup 1 .. Len(episodes), trajectory' \subseteq Run \X (1 .. MaxMotions)
  PROVE  SelectionInv'
  <1>1. UNCHANGED <<evidence, tables, overlapped>>
    BY FilesStay
  <1>2. SelectedRun' = SelectedRun
    BY DEF SelectedRun
  <1>3. ASSUME NEW n \in 1 .. Len(episodes)
        PROVE  hasRun /\ Listed(episodes[n])'
    BY <1>1, <1>2 DEF IInv, SelectionInv, Listed
  <1> QED BY <1>1, <1>2, <1>3 DEF IInv, SelectionInv

\* load() opens the file.
LEMMA OpenInvariant ==
  ASSUME IInv, UNCHANGED <<vars, overlapped>>, Open
  PROVE  BrowserInv'
  <1>1. /\ pc = "open" /\ pc' = "runs" /\ repository' = TRUE /\ UNCHANGED message
        /\ UNCHANGED sessions /\ UNCHANGED selection
    BY DEF Open
  <1>2. selection = <<0, FALSE, {}, << >>, 0, {}>> /\ sessions = << >> /\ message # "error"
    BY <1>1 DEF IInv, PlaceInv
  <1>3. SelectionInv' /\ TrajectoryIsOfSelected' /\ selection' = <<0, FALSE, {}, << >>, 0, {}>>
    BY <1>1, <1>2, Cleared DEF selection
  <1>4. SessionsInv'
    BY <1>1, SessionsStay
  <1>5. PlaceInv'
    BY <1>1, <1>2, <1>3 DEF IInv, PlaceInv
  <1> QED BY <1>3, <1>4, <1>5 DEF BrowserInv

\* The statement of completed_runs().
LEMMA ReadRunsInvariant ==
  ASSUME IInv, UNCHANGED <<vars, overlapped>>, ReadRuns
  PROVE  BrowserInv'
  <1>1. /\ pc = "runs" /\ pc' = "summaries" /\ UNCHANGED <<repository, message>>
        /\ sessions' = [n \in DOMAIN CompletedRuns |-> SessionRecord(CompletedRuns[n])]
        /\ UNCHANGED selection
    BY DEF ReadRuns
  <1>2. selection = <<0, FALSE, {}, << >>, 0, {}>> /\ message # "error"
    BY <1>1 DEF IInv, PlaceInv
  <1>3. SelectionInv' /\ TrajectoryIsOfSelected' /\ selection' = <<0, FALSE, {}, << >>, 0, {}>>
    BY <1>1, <1>2, Cleared DEF selection
  <1>4. SessionsInv'
    <2>1. PICK N \in Nat : N = Len(CompletedRuns)
      BY CompletedRunsFacts, LenProperties DEF IInv
    <2>2. DOMAIN CompletedRuns = 1 .. N
          /\ \A n \in 1 .. N : CompletedRuns[n] \in Run /\ ended[CompletedRuns[n]]
      BY <2>1, CompletedRunsFacts, LenProperties DEF IInv
    <2>3. ASSUME NEW n \in 1 .. N
          PROVE  /\ SessionOK(sessions[n])' /\ sessions'[n] \in SessionRecords
                 /\ ~overlapped' => \E k \in 0 .. Len(sessions'[n].counts) : Torn(sessions[n], k)'
      <3>1. PICK s : s = SessionRecord(CompletedRuns[n])
        OBVIOUS
      <3>2. sessions'[n] = s
        BY <1>1, <2>2, <3>1
      <3>3. SessionOK(s) /\ (~overlapped => \E k \in 0 .. Len(s.counts) : Torn(s, k))
        BY <2>2, <3>1, NewSession DEF IInv
      <3>4. overlapped' = overlapped /\ SessionOK(s)'
            /\ (~overlapped => \E k \in 0 .. Len(s.counts) : Torn(s, k)')
        BY <3>3, SessionStays, FilesStay
      <3>5. SessionOK(sessions[n])' /\ sessions'[n] \in SessionRecords
        BY <3>2, <3>4 DEF SessionOK
      <3>6. ASSUME ~overlapped'
            PROVE  \E k \in 0 .. Len(sessions'[n].counts) : Torn(sessions[n], k)'
        <4>1. PICK k \in 0 .. Len(s.counts) : Torn(s, k)'
          BY <3>4, <3>6
        <4>2. Torn(sessions[n], k)'
          BY <3>2, <4>1 DEF Torn
        <4> QED BY <3>2, <4>2
      <3> QED BY <3>5, <3>6
    <2>4. sessions' \in Seq(SessionRecords) /\ Len(sessions') = N
      <3>1. sessions' \in [1 .. N -> SessionRecords]
        BY <1>1, <2>2, <2>3
      <3> QED BY <3>1
    <2> QED BY <2>3, <2>4 DEF SessionsInv
  <1>5. PlaceInv'
    BY <1>1, <1>2, <1>3 DEF IInv, PlaceInv
  <1> QED BY <1>3, <1>4, <1>5 DEF BrowserInv

\* setError(): the list of sessions stays or is never made.
LEMMA ErrorInvariant ==
  ASSUME IInv, UNCHANGED <<vars, overlapped>>, SetError,
         sessions' = sessions \/ sessions' = << >>
  PROVE  BrowserInv'
  <1>1. SelectionInv' /\ TrajectoryIsOfSelected' /\ selection' = <<0, FALSE, {}, << >>, 0, {}>>
    BY Cleared DEF SetError, ClearActiveState
  <1>2. SessionsInv'
    <2>1. CASE sessions' = sessions
      BY <2>1, SessionsStay
    <2>2. CASE sessions' = << >>
      <3>1. sessions' \in Seq(SessionRecords) /\ 1 .. Len(sessions') = {}
        BY <2>2
      <3> QED BY <3>1 DEF SessionsInv
    <2> QED BY <2>1, <2>2
  <1>3. PlaceInv'
    BY <1>1 DEF SetError, IInv, PlaceInv
  <1> QED BY <1>1, <1>2, <1>3 DEF BrowserInv

\* One more statement of completed_sessions().
LEMMA ReadSummaryInvariant ==
  ASSUME IInv, UNCHANGED <<vars, overlapped>>, ReadSummary
  PROVE  BrowserInv'
  <1>1. /\ pc = "summaries" /\ pc' = pc /\ UNCHANGED <<repository, message>>
        /\ UNCHANGED selection /\ Unsummarized # {}
    BY DEF ReadSummary
  <1>2. selection = <<0, FALSE, {}, << >>, 0, {}>> /\ message # "error"
    BY <1>1 DEF IInv, PlaceInv
  <1>3. SelectionInv' /\ TrajectoryIsOfSelected' /\ selection' = <<0, FALSE, {}, << >>, 0, {}>>
    BY <1>1, <1>2, Cleared DEF selection
  <1>4. sessions \in Seq(SessionRecords) /\ Len(sessions) \in Nat /\ DOMAIN sessions = 1 .. Len(sessions)
    BY LenProperties DEF IInv, SessionsInv
  <1>5. PICK n \in 1 .. Len(sessions) :
          sessions' = [sessions EXCEPT ![n].counts = Append(@, Cardinality(IdsOf(sessions[n].run)))]
    <2>1. Unsummarized \in SUBSET Nat
      BY <1>4 DEF Unsummarized
    <2>2. \E n \in Unsummarized : \A m \in Unsummarized : n <= m
      BY <1>1, <2>1, LeastNumber
    <2> DEFINE n == CHOOSE n \in Unsummarized : \A m \in Unsummarized : n <= m
    <2>3. n \in Unsummarized
      BY <2>2
    <2>4. sessions' = [sessions EXCEPT ![n].counts = Append(@, Cardinality(IdsOf(sessions[n].run)))]
      BY DEF ReadSummary
    <2> HIDE DEF n
    <2> QED BY <1>4, <2>3, <2>4 DEF Unsummarized
  <1>6. PICK s : s = sessions[n]
    OBVIOUS
  <1>7. s \in SessionRecords /\ SessionOK(s)
        /\ (~overlapped => \E k \in 0 .. Len(s.counts) : Torn(s, k))
    BY <1>6 DEF IInv, SessionsInv
  <1>8. PICK t : t = [s EXCEPT !.counts = Append(s.counts, Cardinality(IdsOf(s.run)))]
    OBVIOUS
  <1>9. /\ t.run = s.run /\ t.motions = s.motions
        /\ t.counts = Append(s.counts, Cardinality(IdsOf(s.run)))
        /\ t \in SessionRecords
    <2>1. Cardinality(IdsOf(s.run)) \in 0 .. MaxMotions
      BY <1>7, TablesFacts DEF IInv, SessionRecords
    <2>2. PICK c : c = Cardinality(IdsOf(s.run))
      OBVIOUS
    <2>3. Append(s.counts, c) \in Seq(0 .. MaxMotions)
      BY <1>7, <2>1, <2>2 DEF SessionRecords
    <2> QED BY <1>7, <1>8, <2>2, <2>3 DEF SessionRecords
  <1>10. /\ sessions' = [sessions EXCEPT ![n] = t]
         /\ sessions'[n] = t /\ \A m \in 1 .. Len(sessions) : m # n => sessions'[m] = sessions[m]
    <2>1. sessions' = [sessions EXCEPT ![n] = t]
      BY <1>5, <1>6, <1>8
    <2> QED BY <1>4, <2>1
  <1>11. SessionOK(t) /\ (~overlapped => \E k \in 0 .. Len(t.counts) : Torn(t, k))
    <2>1. SessionOK(t)
      BY <1>7, <1>9 DEF SessionOK
    <2>2. ASSUME ~overlapped
          PROVE  \E k \in 0 .. Len(t.counts) : Torn(t, k)
      <3>1. PICK k \in 0 .. Len(s.counts) : Torn(s, k)
        BY <1>7, <2>2
      <3> QED BY <1>7, <1>9, <2>2, <3>1, TornOnce DEF IInv
    <2> QED BY <2>1, <2>2
  <1>12. SessionsInv'
    <2>1. ASSUME NEW m \in 1 .. Len(sessions)
          PROVE  /\ SessionOK(sessions[m])'
                 /\ ~overlapped' => \E k \in 0 .. Len(sessions'[m].counts) : Torn(sessions[m], k)'
      <3>1. PICK u : u = sessions'[m]
        OBVIOUS
      <3>2. SessionOK(u) /\ (~overlapped => \E k \in 0 .. Len(u.counts) : Torn(u, k))
        BY <1>10, <1>11, <3>1 DEF IInv, SessionsInv
      <3>3. overlapped' = overlapped /\ SessionOK(u)'
            /\ (~overlapped => \E k \in 0 .. Len(u.counts) : Torn(u, k)')
        BY <3>2, SessionStays, FilesStay
      <3>4. SessionOK(sessions[m])'
        BY <3>1, <3>3 DEF SessionOK
      <3>5. ASSUME ~overlapped'
            PROVE  \E k \in 0 .. Len(sessions'[m].counts) : Torn(sessions[m], k)'
        <4>1. PICK k \in 0 .. Len(u.counts) : Torn(u, k)'
          BY <3>3, <3>5
        <4>2. k \in 0 .. Len(sessions'[m].counts) /\ Torn(sessions[m], k)'
          BY <3>1, <4>1 DEF Torn
        <4> QED BY <4>2
      <3> QED BY <3>4, <3>5
    <2>2. sessions' \in Seq(SessionRecords) /\ Len(sessions') = Len(sessions)
      BY <1>4, <1>9, <1>10
    <2> QED BY <2>1, <2>2 DEF SessionsInv
  <1>13. PlaceInv'
    BY <1>1, <1>2, <1>3 DEF IInv, PlaceInv
  <1> QED BY <1>3, <1>12, <1>13 DEF BrowserInv

\* loadSelectedSession(), from Summarized or SelectSession.
LEMMA BeginSessionInvariant ==
  ASSUME IInv, UNCHANGED <<vars, overlapped>>, NEW n \in DOMAIN sessions, BeginSession(n)
  PROVE  BrowserInv'
  <1>1. n \in 1 .. Len(sessions) /\ Len(sessions) \in Nat
    BY LenProperties DEF IInv, SessionsInv
  <1>2. /\ session' = n /\ hasRun' = TRUE /\ devices' = {} /\ episodes' = << >> /\ episode' = 0
        /\ trajectory' = {} /\ message' = "none" /\ pc' = "devices"
        /\ UNCHANGED <<repository, sessions>>
    BY DEF BeginSession
  <1>3. SessionsInv'
    BY <1>2, SessionsStay
  <1>4. SelectionInv'
    <2>1. episodes' \in Seq(EpisodeRecords) /\ 1 .. Len(episodes') = {} /\ n # 0
      BY <1>1, <1>2
    <2> QED BY <1>1, <1>2, <2>1 DEF SelectionInv
  <1>5. PlaceInv'
    BY <1>2 DEF IInv, PlaceInv
  <1>6. TrajectoryIsOfSelected'
    BY <1>2 DEF TrajectoryIsOfSelected
  <1> QED BY <1>3, <1>4, <1>5, <1>6 DEF BrowserInv

\* completed_sessions() returns.
LEMMA SummarizedInvariant ==
  ASSUME IInv, UNCHANGED <<vars, overlapped>>, Summarized
  PROVE  BrowserInv'
  <1>1. CASE sessions # << >> /\ BeginSession(1)
    <2>1. 1 \in DOMAIN sessions
      BY <1>1, EmptySeq, LenProperties DEF IInv, SessionsInv
    <2> QED BY <1>1, <2>1, BeginSessionInvariant
  <1>2. CASE /\ message' = "empty" /\ pc' = "idle"
             /\ UNCHANGED <<repository, sessions, selection>>
    <2>1. pc = "summaries"
      BY DEF Summarized
    <2>2. selection = <<0, FALSE, {}, << >>, 0, {}>>
      BY <2>1 DEF IInv, PlaceInv
    <2>3. SelectionInv' /\ TrajectoryIsOfSelected' /\ selection' = <<0, FALSE, {}, << >>, 0, {}>>
      BY <1>2, <2>2, Cleared DEF selection
    <2>4. SessionsInv'
      BY <1>2, SessionsStay
    <2>5. PlaceInv'
      BY <1>2, <2>3 DEF IInv, PlaceInv
    <2> QED BY <2>3, <2>4, <2>5 DEF BrowserInv
  <1> QED BY <1>1, <1>2 DEF Summarized

\* device_summaries_for_session().
LEMMA ReadDevicesInvariant ==
  ASSUME IInv, UNCHANGED <<vars, overlapped>>, ReadDevices
  PROVE  BrowserInv'
  <1>1. /\ pc = "devices" /\ pc' = "episodes" /\ devices' = DevicesOf(SelectedRun)
        /\ UNCHANGED <<repository, sessions, session, hasRun, episodes, episode,
                       trajectory, message>>
    BY DEF ReadDevices
  <1>2. hasRun /\ episodes = << >> /\ episode = 0 /\ trajectory = {} /\ message # "error"
        /\ 1 .. Len(episodes) = {}
    BY <1>1 DEF IInv, PlaceInv
  <1>3. SelectedRun \in Run
    BY <1>2 DEF IInv, SelectionInv, SessionsInv, SessionOK, SessionRecords, SelectedRun
  <1>4. devices' \subseteq Device
        /\ \A i \in DOMAIN evidence[SelectedRun] : evidence[SelectedRun][i].device \in devices'
    <2>1. evidence[SelectedRun] \in Seq(Motion)
      BY <1>3 DEF IInv, FileInv, EvidenceOK
    <2>2. \A i \in DOMAIN evidence[SelectedRun] : evidence[SelectedRun][i].device \in Device
      <3> SUFFICES ASSUME NEW i \in DOMAIN evidence[SelectedRun]
                   PROVE  evidence[SelectedRun][i].device \in Device
        OBVIOUS
      <3>1. evidence[SelectedRun][i] \in Motion
        BY <2>1, ElementOfSeq, LenProperties
      <3> QED BY <3>1 DEF Motion
    <2>3. \A id \in IdsOf(SelectedRun) : tables.episodes[id].device \in Device
      BY TablesFacts DEF IInv, IdsOf, EpisodeFrom
    <2> QED BY <1>1, <2>2, <2>3 DEF DevicesOf
  <1>5. UNCHANGED <<evidence, tables, overlapped>> /\ SelectedRun' = SelectedRun
    BY <1>1, FilesStay DEF SelectedRun
  <1>6. SessionsInv'
    BY <1>1, SessionsStay
  <1>7. SelectionInv'
    BY <1>1, <1>2, <1>4, <1>5 DEF IInv, SelectionInv
  <1>8. PlaceInv'
    BY <1>1, <1>2 DEF IInv, PlaceInv
  <1>9. TrajectoryIsOfSelected'
    BY <1>1 DEF TrajectoryIsOfSelected
  <1> QED BY <1>6, <1>7, <1>8, <1>9 DEF BrowserInv

\* episodes_for_run() returns episodes of the run, as they are stored.
LEMMA EpisodesOfFacts ==
  ASSUME FileInv, TablesInv, NEW r \in Run
  PROVE  /\ EpisodesOf(r) \in Seq(EpisodeRecords)
         /\ \A n \in 1 .. Len(EpisodesOf(r)) :
              /\ EpisodesOf(r)[n].id \in IdsOf(r)
              /\ EpisodesOf(r)[n].row = tables.episodes[EpisodesOf(r)[n].id]
  <1>1. PICK N \in Nat : N = Len(tables.episodes)
    BY TablesFacts
  <1>2. PICK ids \in SUBSET (1 .. N) : ids = IdsOf(r)
    BY <1>1, TablesFacts
  <1>3. PICK count \in Nat : count = Cardinality(ids)
    BY <1>2, TablesFacts
  <1>4. \A n \in 1 .. count : At(ids, n) \in ids
    BY <1>3, AtExists
  <1>5. ids \subseteq DOMAIN tables.episodes
        /\ \A id \in ids : tables.episodes[id] \in
                              [run : Run, device : Device, motions : SUBSET (1 .. MaxMotions)]
    BY <1>1, <1>2, TablesFacts DEF EpisodeFrom
  <1>6. EpisodesOf(r) = [n \in 1 .. count |->
                           [id |-> At(ids, n), row |-> tables.episodes[At(ids, n)]]]
    BY <1>2, <1>3 DEF EpisodesOf
  <1>7. ASSUME NEW n \in 1 .. count
        PROVE  /\ EpisodesOf(r)[n] \in EpisodeRecords
               /\ EpisodesOf(r)[n].id \in ids
               /\ EpisodesOf(r)[n].row = tables.episodes[EpisodesOf(r)[n].id]
    <2>1. PICK id : id = At(ids, n)
      OBVIOUS
    <2>2. EpisodesOf(r)[n] = [id |-> id, row |-> tables.episodes[id]]
      BY <1>6, <2>1
    <2>3. id \in ids
      BY <1>4, <2>1, Zenon
    <2>4. id \in Nat
      <3>1. id \in 1 .. N
        BY <2>3
      <3> QED BY <3>1
    <2> QED BY <1>5, <2>2, <2>3, <2>4 DEF EpisodeRecords
  <1>8. EpisodesOf(r) \in [1 .. count -> EpisodeRecords]
    BY <1>6, <1>7
  <1>9. EpisodesOf(r) \in Seq(EpisodeRecords) /\ Len(EpisodesOf(r)) = count
    BY <1>8
  <1> QED BY <1>2, <1>7, <1>9

\* episodes_for_run(), by a later statement than the devices: the run is
\* ended, so that its episodes are of devices with motions in it.
LEMMA ReadEpisodesInvariant ==
  ASSUME IInv, UNCHANGED <<vars, overlapped>>, ReadEpisodes
  PROVE  BrowserInv'
  <1>1. /\ pc = "episodes" /\ episodes' = EpisodesOf(SelectedRun)
        /\ UNCHANGED <<repository, sessions, session, hasRun, devices, trajectory>>
        /\ \/ pc' = "idle" /\ message' = "empty" /\ episode' = episode
           \/ pc' = "trajectory" /\ message' = message /\ episode' = 1 /\ episodes' # << >>
    BY DEF ReadEpisodes
  <1>2. hasRun /\ episode = 0 /\ trajectory = {} /\ message # "error"
    BY <1>1 DEF IInv, PlaceInv
  <1>3. SelectedRun \in Run
    BY <1>2 DEF IInv, SelectionInv, SessionsInv, SessionOK, SessionRecords, SelectedRun
  <1>4. UNCHANGED <<evidence, tables, overlapped>> /\ SelectedRun' = SelectedRun
    BY <1>1, FilesStay DEF SelectedRun
  <1>5. /\ episodes' \in Seq(EpisodeRecords)
        /\ \A n \in 1 .. Len(episodes') :
             episodes'[n].id \in IdsOf(SelectedRun)
             /\ episodes'[n].row = tables.episodes[episodes'[n].id]
    BY <1>1, <1>3, EpisodesOfFacts DEF IInv
  <1>6. ASSUME NEW n \in 1 .. Len(episodes')
        PROVE  hasRun' /\ Listed(episodes[n])'
    <2>1. PICK id : id = episodes'[n].id
      OBVIOUS
    <2>2. /\ id \in DOMAIN tables.episodes /\ tables.episodes[id].run = SelectedRun
          /\ episodes'[n].row = tables.episodes[id]
      BY <1>5, <2>1 DEF IdsOf
    <2>3. tables.episodes[id] \in EpisodeFrom(evidence)
      BY <2>2, TablesFacts DEF IInv
    <2>4. PICK i \in DOMAIN evidence[SelectedRun] :
            tables.episodes[id].device = evidence[SelectedRun][i].device
      BY <2>2, <2>3 DEF EpisodeFrom
    <2>5. tables.episodes[id].device \in devices
      BY <1>1, <1>2, <2>4 DEF IInv, SelectionInv
    <2> QED BY <1>1, <1>2, <1>4, <2>1, <2>2, <2>5 DEF Listed
  <1>7. episode' \in {0} \cup 1 .. Len(episodes')
    <2>1. episodes' # << >> => 1 \in 1 .. Len(episodes')
      BY <1>5, EmptySeq, LenProperties
    <2> QED BY <1>1, <1>2, <2>1
  <1>8. SessionsInv'
    BY <1>1, SessionsStay
  <1>9. SelectionInv'
    BY <1>1, <1>2, <1>4, <1>5, <1>6, <1>7 DEF IInv, SelectionInv
  <1>10. PlaceInv'
    <2>1. CASE pc' = "idle" /\ message' = "empty"
      BY <1>1, <1>2, <2>1 DEF IInv, PlaceInv
    <2>2. CASE pc' = "trajectory" /\ message' = message /\ episode' = 1
      <3>1. pc' = "trajectory" /\ message' # "error" /\ episode' # 0 /\ hasRun'
        BY <1>1, <1>2, <2>2
      <3>2. repository' \in BOOLEAN /\ message' \in {"none", "error", "empty"}
        BY <1>1, <2>2 DEF IInv, PlaceInv
      <3> QED BY <3>1, <3>2 DEF PlaceInv
    <2> QED BY <1>1, <2>1, <2>2
  <1>11. TrajectoryIsOfSelected'
    BY <1>1, <1>2 DEF TrajectoryIsOfSelected
  <1> QED BY <1>8, <1>9, <1>10, <1>11 DEF BrowserInv

\* An episode of the list is selected.
LEMMA SelectEpisodeInvariant ==
  ASSUME IInv, UNCHANGED <<vars, overlapped>>, NEW n, SelectEpisode(n)
  PROVE  BrowserInv'
  <1>1. /\ pc = "idle" /\ pc' = "trajectory" /\ n \in DOMAIN episodes /\ episode' = n
        /\ trajectory' = {}
        /\ UNCHANGED <<repository, sessions, session, hasRun, devices, episodes, message>>
    BY DEF SelectEpisode
  <1>2. n \in 1 .. Len(episodes) /\ n # 0 /\ hasRun
    <2>1. n \in 1 .. Len(episodes) /\ Len(episodes) \in Nat
      BY <1>1, LenProperties DEF IInv, SelectionInv
    <2> QED BY <2>1 DEF IInv, SelectionInv
  <1>3. message # "error"
    BY <1>2 DEF IInv, PlaceInv, selection
  <1>4. SessionsInv'
    BY <1>1, SessionsStay
  <1>5. SelectionInv'
    BY <1>1, <1>2, SelectionStays
  <1>6. PlaceInv'
    BY <1>1, <1>2, <1>3 DEF IInv, PlaceInv
  <1>7. TrajectoryIsOfSelected'
    BY <1>1 DEF TrajectoryIsOfSelected
  <1> QED BY <1>4, <1>5, <1>6, <1>7 DEF BrowserInv

\* trajectory_for_episode(), by the id of the list: while collectors run one
\* after the other the id still names the episode of the list.
LEMMA ReadTrajectoryInvariant ==
  ASSUME IInv, UNCHANGED <<vars, overlapped>>, ReadTrajectory
  PROVE  BrowserInv'
  <1>1. /\ pc = "trajectory" /\ pc' = "idle" /\ trajectory' = PointsOf(episodes[episode].id)
        /\ UNCHANGED <<repository, sessions, session, hasRun, devices, episodes, episode, message>>
    BY DEF ReadTrajectory
  <1>2. hasRun /\ episode # 0 /\ message # "error" /\ episode \in 1 .. Len(episodes)
    BY <1>1 DEF IInv, PlaceInv, SelectionInv
  <1>3. UNCHANGED overlapped
    BY FilesStay
  <1>4. SessionsInv'
    BY <1>1, SessionsStay
  <1>5. SelectionInv'
    <2>1. trajectory' \subseteq Run \X (1 .. MaxMotions)
      BY <1>1, TablesFacts DEF IInv
    <2> QED BY <1>1, <1>2, <2>1, SelectionStays
  <1>6. PlaceInv'
    BY <1>1, <1>2 DEF IInv, PlaceInv
  <1>7. TrajectoryIsOfSelected'
    <2>1. ASSUME ~overlapped
          PROVE  trajectory' = {<<episodes[episode].row.run, m>> : m \in episodes[episode].row.motions}
      <3>1. /\ episodes[episode].id \in DOMAIN tables.episodes
            /\ tables.episodes[episodes[episode].id] = episodes[episode].row
        BY <1>2, <2>1 DEF IInv, SelectionInv, Listed
      <3>2. PICK id : id = episodes[episode].id
        OBVIOUS
      <3>3. PointsOf(id) = {<<tables.episodes[id].run, m>> : m \in tables.episodes[id].motions}
        BY <3>1, <3>2, TablesFacts DEF IInv
      <3> QED BY <1>1, <3>1, <3>2, <3>3
    <2> QED BY <1>1, <1>3, <2>1 DEF TrajectoryIsOfSelected
  <1> QED BY <1>4, <1>5, <1>6, <1>7 DEF BrowserInv

-----------------------------------------------------------------------------
\* Every step of a collector or of the inspector keeps the invariant.
LEMMA NextInvariant == IInv /\ [BrowserNext]_allVars => IInv'
  <1> SUFFICES ASSUME IInv, [BrowserNext]_allVars
               PROVE  IInv'
    OBVIOUS
  <1>1. ASSUME UNCHANGED <<vars, overlapped>>, BrowserInv'
        PROVE  IInv'
    BY <1>1, FilesStay DEF IInv, BrowserInv
  <1>2. CASE Collect /\ UNCHANGED browser
    BY <1>2, CollectInvariant
  <1>3. CASE Handler /\ UNCHANGED <<vars, overlapped>>
    <2>1. CASE Open
      BY <1>1, <1>3, <2>1, OpenInvariant
    <2>2. CASE ReadRuns
      BY <1>1, <1>3, <2>2, ReadRunsInvariant
    <2>3. CASE NoEpisodeTable
      BY <1>1, <1>3, <2>3, ErrorInvariant DEF NoEpisodeTable
    <2>4. CASE ReadSummary
      BY <1>1, <1>3, <2>4, ReadSummaryInvariant
    <2>5. CASE Summarized
      BY <1>1, <1>3, <2>5, SummarizedInvariant
    <2>6. CASE ReadDevices
      BY <1>1, <1>3, <2>6, ReadDevicesInvariant
    <2>7. CASE ReadEpisodes
      BY <1>1, <1>3, <2>7, ReadEpisodesInvariant
    <2>8. CASE ReadTrajectory
      BY <1>1, <1>3, <2>8, ReadTrajectoryInvariant
    <2>9. CASE Fail
      BY <1>1, <1>3, <2>9, ErrorInvariant DEF Fail
    <2>10. ASSUME NEW n \in Run, SelectSession(n)
           PROVE  IInv'
      BY <1>1, <1>3, <2>10, BeginSessionInvariant DEF SelectSession
    <2>11. ASSUME NEW n \in 1 .. MaxRuns * MaxMotions, SelectEpisode(n)
           PROVE  IInv'
      BY <1>1, <1>3, <2>11, SelectEpisodeInvariant
    <2> QED BY <1>3, <2>1, <2>2, <2>3, <2>4, <2>5, <2>6, <2>7, <2>8, <2>9, <2>10, <2>11
          DEF Handler
  <1>4. CASE UNCHANGED allVars
    <2>1. UNCHANGED <<vars, overlapped>> /\ UNCHANGED <<pc, repository, sessions, message>>
          /\ UNCHANGED selection
      BY <1>4 DEF allVars, browser
    <2>2. UNCHANGED <<session, hasRun, devices, episodes, episode, trajectory>>
      BY <2>1 DEF selection
    <2>3. UNCHANGED <<evidence, tables, overlapped>> /\ SelectedRun' = SelectedRun
      BY <2>1, <2>2, FilesStay DEF SelectedRun
    <2>4. SessionsInv'
      BY <2>1, SessionsStay
    <2>5. SelectionInv'
      BY <2>1, <2>2, <2>3 DEF IInv, SelectionInv, Listed
    <2>6. PlaceInv'
      BY <2>1, <2>2 DEF IInv, PlaceInv
    <2>7. TrajectoryIsOfSelected'
      BY <2>1, <2>2, <2>3 DEF IInv, TrajectoryIsOfSelected
    <2> QED BY <1>1, <2>1, <2>4, <2>5, <2>6, <2>7 DEF BrowserInv
  <1> QED BY <1>2, <1>3, <1>4 DEF BrowserNext

\* The invariant holds in every state of the specification.
LEMMA Inductive == BrowserSpec => []IInv
  BY InitInvariant, NextInvariant, PTL DEF BrowserSpec

\* The inspector's state is always of its types.
THEOREM BrowserTypeOK == BrowserSpec => []TypeOK
  <1>1. IInv => TypeOK
    <2> SUFFICES ASSUME IInv
                 PROVE  TypeOK
      OBVIOUS
    <2>1. DOMAIN sessions = 1 .. Len(sessions) /\ DOMAIN episodes = 1 .. Len(episodes)
      BY LenProperties DEF IInv, SessionsInv, SelectionInv
    <2>2. {repository, hasRun, overlapped} \subseteq BOOLEAN
      BY DEF IInv, FileInv, PlaceInv, SelectionInv
    <2> QED BY <2>1, <2>2 DEF IInv, PlaceInv, SessionsInv, SelectionInv, TypeOK
  <1> QED BY <1>1, Inductive, PTL

\* A listed session counts all the motions its run will ever have, however
\* long ago its record was read.
THEOREM ListedSessionsAreFinal == BrowserSpec => []SessionsAreFinal
  <1>1. IInv => SessionsAreFinal
    <2> SUFFICES ASSUME IInv, NEW n \in DOMAIN sessions
                 PROVE  sessions[n].motions = MotionsOf(sessions[n].run)
      BY DEF SessionsAreFinal
    <2>1. n \in 1 .. Len(sessions)
      BY LenProperties DEF IInv, SessionsInv
    <2> QED BY <2>1 DEF IInv, SessionsInv, SessionOK, MotionsOf
  <1> QED BY <1>1, Inductive, PTL

\* The four statements of a summary are torn by a derivation, in one way only.
THEOREM SummariesTearOnce == BrowserSpec => []CountsTearAtDerivationOnly
  <1>1. IInv => CountsTearAtDerivationOnly
    <2> SUFFICES ASSUME IInv
                 PROVE  CountsTearAtDerivationOnly
      OBVIOUS
    <2>1. DOMAIN sessions = 1 .. Len(sessions)
      BY LenProperties DEF IInv, SessionsInv
    <2>2. ASSUME ~overlapped, NEW n \in 1 .. Len(sessions)
          PROVE  \E k \in 0 .. Len(sessions[n].counts) : Torn(sessions[n], k)
      BY <2>2 DEF IInv, SessionsInv
    <2> QED BY <2>1, <2>2 DEF CountsTearAtDerivationOnly, Torn
  <1> QED BY <1>1, Inductive, PTL

\* Every listed episode is of a listed device.
THEOREM ListedEpisodesHaveDevices == BrowserSpec => []EpisodeDevicesAreListed
  <1>1. IInv => EpisodeDevicesAreListed
    <2> SUFFICES ASSUME IInv, NEW n \in DOMAIN episodes
                 PROVE  episodes[n].row.device \in devices
      BY DEF EpisodeDevicesAreListed
    <2>1. n \in 1 .. Len(episodes)
      BY LenProperties DEF IInv, SelectionInv
    <2> QED BY <2>1 DEF IInv, SelectionInv, Listed
  <1> QED BY <1>1, Inductive, PTL

\* After an error nothing is shown, and what is shown is of the selected run.
THEOREM ShownIsOfSelectedSession == BrowserSpec => []NothingStaleShown
  <1>1. IInv => NothingStaleShown
    <2> SUFFICES ASSUME IInv
                 PROVE  NothingStaleShown
      OBVIOUS
    <2>1. DOMAIN episodes = 1 .. Len(episodes)
      BY LenProperties DEF IInv, SelectionInv
    <2>2. \A n \in 1 .. Len(episodes) : hasRun /\ episodes[n].row.run = SelectedRun
      BY DEF IInv, SelectionInv, Listed
    <2>3. message = "error" => selection = <<0, FALSE, {}, << >>, 0, {}>>
      BY DEF IInv, PlaceInv
    <2> QED BY <2>1, <2>2, <2>3 DEF NothingStaleShown
  <1> QED BY <1>1, Inductive, PTL

\* As long as collectors run one after the other the trajectory on the screen
\* is the one of the selected episode, whatever derivations there were since
\* its id was read.
THEOREM SelectedTrajectoryIsShown == BrowserSpec => []TrajectoryIsOfSelected
  BY Inductive, PTL DEF IInv
=============================================================================
