---------------------------- MODULE MatchProofs ----------------------------
(***************************************************************************)
(* Proofs about Match, for any number of fields, any window of at least    *)
(* two ticks and any countdown.  The inductive invariant MatchInv joins    *)
(* the ranking (RankingIsCompetition) to what keeps the match tick moving  *)
(* (ScanTickAnchored); the rest follows from it.                           *)
(***************************************************************************)
EXTENDS Match, FiniteSetTheorems, WellFoundedInduction, TLAPS

USE FieldsAssumption, LagAssumption, BoundsAssumption

(* A set of ticks that is not empty has a least one.                       *)
LEMMA LeastNatural ==
  ASSUME NEW T \in SUBSET Nat, T # {}
  PROVE  \E x \in T : \A y \in T : x <= y
<1> DEFINE R == OpToRel(<, Nat)
<1>1. IsWellFoundedOn(R, Nat)
  BY NatLessThanWellFounded
<1>2. \A x, y \in Nat : y < x => <<y, x>> \in R
  BY DEF OpToRel
<1> HIDE DEF R
<1>3. PICK x \in T : \A y \in T : ~ (<<y, x>> \in R)
  BY <1>1, WFMin, Zenon
<1>4. ASSUME NEW y \in T PROVE x <= y
  <2>1. x \in Nat /\ y \in Nat
    OBVIOUS
  <2>2. ~ (y < x)
    BY <2>1, <1>2, <1>3
  <2>3. QED BY <2>1, <2>2
<1>5. QED BY <1>4

(* The ticks of the fields have a bound: by least counterexample over the  *)
(* fields 1..n, since the fields are finitely many.                        *)
LEMMA BoundedTicks ==
  ASSUME NEW t \in [Fields -> Nat]
  PROVE  \E m \in Nat : \A f \in Fields : t[f] <= m
<1> DEFINE Bounded(n) == \E m \in Nat : \A f \in 1..n : t[f] <= m
           Bad == {n \in 1..N : ~ Bounded(n)}
<1>1. SUFFICES ASSUME Bad # {} PROVE FALSE
  <2>1. SUFFICES Bounded(N)
    BY DEF Fields
  <2>2. QED BY <1>1
<1>2. Bad \in SUBSET Nat
  OBVIOUS
<1>3. PICK n \in Bad : \A y \in Bad : n <= y
  <2> HIDE DEF Bad
  <2>1. QED BY <1>1, <1>2, LeastNatural, Zenon
<1>4. n # 1
  <2>1. Bounded(1)
    BY DEF Fields
  <2>2. QED BY <1>3, <2>1
<1>5. n - 1 \in 1..N /\ n - 1 \notin Bad
  <2>1. n \in 1..N
    BY <1>3
  <2> HIDE DEF Bad
  <2>2. QED BY <2>1, <1>2, <1>3, <1>4
<1>6. PICK m \in Nat : \A f \in 1..(n-1) : t[f] <= m
  BY <1>5
<1>7. \A f \in 1..n : f = n \/ f \in 1..(n-1)
  BY <1>3
<1>8. t[n] \in Nat
  BY <1>3 DEF Fields
<1>9. Bounded(n)
  <2>1. CASE t[n] <= m
    BY <2>1, <1>6, <1>7
  <2>2. CASE m < t[n]
    <3>1. \A f \in 1..(n-1) : t[f] \in Nat
      BY <1>3 DEF Fields
    <3>2. \A f \in 1..n : t[f] <= t[n]
      BY <3>1, <2>2, <1>6, <1>7, <1>8
    <3>3. QED BY <3>2, <1>8
  <2>3. QED BY <2>1, <2>2, <1>8
<1>10. QED BY <1>9, <1>3

(* The maximum Match::updateTick falls back on is a tick no field is over. *)
LEMMA HighestTick ==
  ASSUME NEW t \in [Fields -> Nat]
  PROVE  LET h == Max({t[f] : f \in Fields})
         IN  h \in Nat /\ \A f \in Fields : t[f] <= h
<1> DEFINE U == {u \in Nat : \A f \in Fields : t[f] <= u}
<1>1. U \in SUBSET Nat /\ U # {}
  BY BoundedTicks
<1>2. PICK u \in U : \A y \in U : u <= y
  BY <1>1, LeastNatural
<1>3. \E f \in Fields : t[f] = u
  <2>1. SUFFICES ASSUME \A f \in Fields : t[f] # u PROVE FALSE
    OBVIOUS
  <2>2. \A f \in Fields : t[f] <= u - 1
    BY <1>2, <2>1
  <2>3. u - 1 \in Nat
    BY <2>2, <1>2 DEF Fields
  <2>4. u - 1 \in U
    BY <2>2, <2>3
  <2>5. QED BY <2>4, <1>2
<1>4. \E x \in {t[f] : f \in Fields} : \A y \in {t[f] : f \in Fields} : x >= y
  BY <1>2, <1>3
<1>5. /\ Max({t[f] : f \in Fields}) \in {t[f] : f \in Fields}
      /\ \A y \in {t[f] : f \in Fields} : Max({t[f] : f \in Fields}) >= y
  BY <1>4 DEF Max
<1>6. QED BY <1>5

(* What Match::updateTick guarantees in spite of its confusion of 0 with   *)
(* "none": its result is the tick of a living field, or no field is over   *)
(* it.                                                                     *)
LEMMA ScanTickAnchored ==
  ASSUME NEW t \in [Fields -> Nat], NEW l \in [Fields -> BOOLEAN]
  PROVE  /\ ScanTick(t, l) \in Nat
         /\ \/ \E f \in Fields : ~l[f] /\ t[f] = ScanTick(t, l)
            \/ \A f \in Fields : t[f] <= ScanTick(t, l)
<1> DEFINE alive == {f \in Fields : ~l[f]}
           seen == {f \in alive : \A g \in alive : g >= f => t[g] # 0}
           ticks == {t[f] : f \in seen}
<1>1. CASE seen = {}
  <2>1. ScanTick(t, l) = Max({t[f] : f \in Fields})
    BY <1>1 DEF ScanTick
  <2>2. QED BY <2>1, HighestTick
<1>2. CASE seen # {}
  <2>1. ScanTick(t, l) = Min(ticks)
    BY <1>2 DEF ScanTick
  <2>2. ticks \in SUBSET Nat /\ ticks # {}
    BY <1>2
  <2>3. \E x \in ticks : \A y \in ticks : x <= y
    BY <2>2, LeastNatural, Zenon
  <2>4. Min(ticks) \in ticks
    BY <2>3 DEF Min
  <2>5. PICK f \in seen : t[f] = Min(ticks)
    BY <2>4
  <2>6. f \in Fields /\ ~l[f] /\ t[f] \in Nat
    OBVIOUS
  <2>7. QED BY <2>1, <2>5, <2>6
<1>3. QED BY <1>1, <1>2

-----------------------------------------------------------------------------
(* Sets of fields are finite and have at most N members.                   *)
LEMMA FieldSets ==
  ASSUME NEW S \in SUBSET Fields
  PROVE  IsFiniteSet(S) /\ Cardinality(S) \in Nat /\ Cardinality(S) <= N
<1>1. IsFiniteSet(Fields) /\ Cardinality(Fields) = N
  BY FS_Interval DEF Fields
<1>2. QED BY <1>1, FS_Subset, FS_CardinalityType

(* Fields counted in two disjoint groups.                                  *)
LEMMA DisjointSum ==
  ASSUME NEW S \in SUBSET Fields, NEW T \in SUBSET Fields, S \cap T = {}
  PROVE  Cardinality(S \union T) = Cardinality(S) + Cardinality(T)
<1>1. IsFiniteSet(S) /\ IsFiniteSet(T)
  BY FieldSets
<1>2. Cardinality(S \union T) = Cardinality(S) + Cardinality(T) - Cardinality({})
  BY <1>1, FS_Union
<1>3. QED BY <1>2, FS_EmptySet, FieldSets

(* A group that lacks a member of another one it is part of is smaller.    *)
LEMMA StrictlySmaller ==
  ASSUME NEW S \in SUBSET Fields, NEW T \in SUBSET S, NEW x \in S, x \notin T
  PROVE  Cardinality(T) < Cardinality(S)
<1>1. IsFiniteSet(S) /\ T # S
  BY FieldSets
<1>2. Cardinality(T) <= Cardinality(S) /\ Cardinality(T) # Cardinality(S)
  BY <1>1, FS_Subset
<1>3. QED BY <1>2, FieldSets

(* One call of Match::updateRanks keeps the ranks a competition ranking:   *)
(* the ranks given before are above all the new ones, the new ones above   *)
(* the fields still unranked.                                              *)
LEMMA RankingIsCompetition ==
  ASSUME rank \in [Fields -> 0..N], CompetitionRanking,
         NEW t \in [Fields -> Nat], NEW l \in [Fields -> BOOLEAN], NEW m \in Nat
  PROVE  LET r == Ranking(t, l, m)
         IN  /\ r \in [Fields -> 0..N]
             /\ \A f \in Fields :
                  r[f] # 0 => r[f] = 1 + Cardinality({g \in Fields : r[g] < r[f]})
<1> DEFINE r == Ranking(t, l, m)
           dead == ToRank(t, l, m)
           left == Unranked(t, l, m)
           beaten(f) == {g \in dead : t[g] < t[f]}
           better(f) == {g \in Fields : r[g] < r[f]}
<1>1. /\ dead \in SUBSET Fields /\ left \in SUBSET Fields /\ dead \cap left = {}
      /\ \A f \in Fields : rank[f] = 0 <=> f \in dead \union left
  BY DEF ToRank, Unranked
<1>2. /\ Cardinality(left) \in Nat
      /\ Cardinality(dead) \in Nat
      /\ Cardinality(dead \union left) = Cardinality(dead) + Cardinality(left)
      /\ Cardinality(dead \union left) <= N
  BY <1>1, FieldSets, DisjointSum
<1>3. \A f \in dead : beaten(f) \in SUBSET dead /\ f \notin beaten(f)
  BY <1>1
<1>4. \A f \in dead : /\ Cardinality(beaten(f)) \in Nat
                      /\ Cardinality(beaten(f)) < Cardinality(dead)
  BY <1>1, <1>3, FieldSets, StrictlySmaller
<1>5. \A f \in Fields :
         r[f] = IF f \in dead THEN Cardinality(left) + 1 + Cardinality(beaten(f))
                ELSE IF left = {f} THEN 1 ELSE rank[f]
  BY DEF Ranking, RankingFrom
<1>b. \A f, g : g \in beaten(f) <=> g \in dead /\ t[g] < t[f]
  OBVIOUS
<1> HIDE DEF dead, left, beaten
<1>c. r = [f \in Fields |-> r[f]]
  BY DEF Ranking, RankingFrom
<1> HIDE DEF r
<1>6. r \in [Fields -> 0..N]
  <2>2. \A f \in Fields : r[f] \in 0..N
    <3> SUFFICES ASSUME NEW f \in Fields PROVE r[f] \in 0..N
      OBVIOUS
    <3>1. CASE f \in dead
      BY <3>1, <1>2, <1>4, <1>5
    <3>2. CASE f \notin dead
      BY <3>2, <1>5
    <3>3. QED BY <3>1, <3>2
  <2>3. QED BY <2>2, <1>c
<1>7. \A f \in Fields : rank[f] # 0 => r[f] = rank[f] /\ rank[f] > Cardinality(dead) + Cardinality(left)
  <2> SUFFICES ASSUME NEW f \in Fields, rank[f] # 0
               PROVE  r[f] = rank[f] /\ rank[f] > Cardinality(dead) + Cardinality(left)
    OBVIOUS
  <2>1. r[f] = rank[f]
    <3>1. f \notin dead /\ left # {f}
      BY <1>1
    <3>2. r[f] = IF f \in dead THEN Cardinality(left) + 1 + Cardinality(beaten(f))
                 ELSE IF left = {f} THEN 1 ELSE rank[f]
      BY <1>5
    <3>3. CASE f \in dead
      BY <3>1, <3>3
    <3>4. CASE f \notin dead
      <4>1. r[f] = IF left = {f} THEN 1 ELSE rank[f]
        BY <3>2, <3>4
      <4>2. QED BY <4>1, <3>1
    <3>5. QED BY <3>3, <3>4
  <2> DEFINE above == {g \in Fields : rank[g] < rank[f]}
  <2>2. dead \union left \in SUBSET above
    BY <1>1
  <2>3. IsFiniteSet(above) /\ Cardinality(above) \in Nat
    BY FieldSets
  <2>4. rank[f] = 1 + Cardinality(above)
    BY DEF CompetitionRanking
  <2> HIDE DEF above
  <2>5. Cardinality(dead \union left) <= Cardinality(above)
    BY <2>2, <2>3, FS_Subset
  <2>6. rank[f] > Cardinality(dead) + Cardinality(left)
    BY <2>3, <2>4, <2>5, <1>2
  <2>7. QED BY <2>1, <2>6
<1>8. \A f \in left : r[f] = 0 \/ (left = {f} /\ r[f] = 1)
  BY <1>1, <1>5
<1>9. \A f \in dead : r[f] = Cardinality(left) + 1 + Cardinality(beaten(f))
  BY <1>1, <1>5
<1>10. ASSUME NEW f \in Fields, r[f] # 0
       PROVE  r[f] = 1 + Cardinality(better(f))
  <2>1. CASE rank[f] # 0
    <3>1. better(f) = {g \in Fields : rank[g] < rank[f]}
      <4>1. ASSUME NEW g \in Fields PROVE r[g] < r[f] <=> rank[g] < rank[f]
        <5>1. CASE rank[g] # 0
          BY <5>1, <2>1, <1>7
        <5>2. CASE g \in dead
          <6>1. r[g] <= Cardinality(left) + Cardinality(dead)
            BY <5>2, <1>9, <1>4, <1>2
          <6>2. rank[g] = 0 /\ r[f] = rank[f] /\ rank[f] > Cardinality(dead) + Cardinality(left)
            BY <5>2, <2>1, <1>1, <1>7
          <6>3. r[g] \in 0..N /\ rank[f] \in 0..N
            BY <1>6
          <6>4. QED BY <6>1, <6>2, <6>3, <1>2
        <5>3. CASE g \in left
          <6>1. Cardinality(left) >= 1
            BY <5>3, <1>1, <1>2, FieldSets, FS_EmptySet
          <6>2. rank[g] = 0 /\ r[f] = rank[f] /\ rank[f] > 1
            BY <5>3, <6>1, <2>1, <1>1, <1>2, <1>7
          <6>3. QED BY <5>3, <6>2, <1>8
        <5>4. QED BY <5>1, <5>2, <5>3, <1>1
      <4>2. QED BY <4>1
    <3>2. QED BY <3>1, <2>1, <1>7 DEF CompetitionRanking
  <2>2. CASE f \in left
    <3>1. left = {f} /\ r[f] = 1
      BY <2>2, <1>8, <1>10
    <3>2. \A g \in Fields : r[g] >= 1
      <4>1. \A g \in dead : r[g] >= 1
        BY <1>2, <1>4, <1>9
      <4>2. \A g \in Fields : rank[g] # 0 => r[g] >= 1
        BY <1>6, <1>7
      <4>3. QED BY <4>1, <4>2, <3>1, <1>1
    <3>3. better(f) = {}
      BY <3>1, <3>2, <1>6
    <3>4. Cardinality(better(f)) = 0
      BY <3>3, FS_EmptySet, Zenon
    <3>5. QED BY <3>1, <3>4
  <2>3. CASE f \in dead
    <3>1. better(f) = left \union beaten(f)
      <4>1. ASSUME NEW g \in Fields, rank[g] # 0 PROVE ~(r[g] < r[f])
        <5>1. r[f] <= Cardinality(left) + Cardinality(dead)
          BY <2>3, <1>9, <1>4, <1>2
        <5>2. r[g] > Cardinality(dead) + Cardinality(left)
          BY <4>1, <1>7
        <5>3. r[g] \in 0..N /\ r[f] \in 0..N
          BY <1>6
        <5>4. QED BY <5>1, <5>2, <5>3, <1>2
      <4>2. ASSUME NEW g \in left PROVE r[g] < r[f]
        <5>1. Cardinality(left) >= 1
          BY <4>2, <1>1, <1>2, FieldSets, FS_EmptySet
        <5>2. r[f] >= 2
          BY <5>1, <2>3, <1>2, <1>4, <1>9
        <5>3. r[g] <= 1
          BY <4>2, <1>8
        <5>4. QED BY <5>2, <5>3, <1>1, <1>6
      <4>3. ASSUME NEW g \in dead, t[g] < t[f] PROVE r[g] < r[f]
        <5>1. beaten(g) \in SUBSET beaten(f) /\ g \in beaten(f) /\ g \notin beaten(g)
          BY <4>3, <2>3, <1>1, <1>b
        <5>2. Cardinality(beaten(g)) < Cardinality(beaten(f))
          BY <5>1, <2>3, <1>1, <1>3, StrictlySmaller
        <5>3. QED BY <5>2, <2>3, <4>3, <1>2, <1>4, <1>9
      <4>4. ASSUME NEW g \in dead, ~(t[g] < t[f]) PROVE ~(r[g] < r[f])
        <5>1. beaten(f) \in SUBSET beaten(g)
          BY <4>4, <2>3, <1>1, <1>b
        <5>2. Cardinality(beaten(f)) <= Cardinality(beaten(g))
          <6>1. IsFiniteSet(beaten(g))
            BY <1>1, <1>3, FieldSets
          <6>2. QED BY <5>1, <6>1, FS_Subset
        <5>3. QED BY <5>2, <2>3, <4>4, <1>2, <1>4, <1>9
      <4>5. QED BY <4>1, <4>2, <4>3, <4>4, <1>1, <1>b
    <3>2. Cardinality(better(f)) = Cardinality(left) + Cardinality(beaten(f))
      <4>1. beaten(f) \in SUBSET Fields /\ left \cap beaten(f) = {}
        BY <1>1, <1>3, <2>3
      <4>2. QED BY <3>1, <4>1, <1>1, DisjointSum
    <3>3. QED BY <3>2, <2>3, <1>2, <1>4, <1>9
  <2>4. QED BY <2>1, <2>2, <2>3, <1>1
<1>11. QED BY <1>6, <1>10 DEF r

-----------------------------------------------------------------------------
(* What ServerInstance::updateRanks leaves behind: ranks as above and, if  *)
(* the match goes on, a field without a rank and no dead one within the    *)
(* match tick.                                                             *)
LEMMA UpdateRanksStep ==
  ASSUME rank \in [Fields -> 0..N], CompetitionRanking,
         NEW t \in [Fields -> Nat], NEW l \in [Fields -> BOOLEAN], NEW m \in Nat,
         UpdateRanks(t, l, m)
  PROVE  /\ rank' \in [Fields -> 0..N]
         /\ CompetitionRanking'
         /\ phase' \in Phases
         /\ phase' = "GAME" =>
              /\ \E f \in Fields : rank'[f] = 0
              /\ \A f \in Fields : l[f] /\ rank'[f] = 0 => t[f] > m
<1>1. rank' = Ranking(t, l, m)
  BY DEF UpdateRanks
<1>2. rank' \in [Fields -> 0..N] /\ CompetitionRanking'
  <2>1. /\ rank' \in [Fields -> 0..N]
        /\ \A f \in Fields :
             rank'[f] # 0 => rank'[f] = 1 + Cardinality({g \in Fields : rank'[g] < rank'[f]})
    <3>1. LET r == Ranking(t, l, m)
          IN  /\ r \in [Fields -> 0..N]
              /\ \A f \in Fields :
                   r[f] # 0 => r[f] = 1 + Cardinality({g \in Fields : r[g] < r[f]})
      BY RankingIsCompetition
    <3>2. QED BY <1>1, <3>1, Zenon
  <2>2. QED BY <2>1 DEF CompetitionRanking
<1>3. phase' \in Phases
  BY DEF UpdateRanks, Phases
<1>4. ASSUME phase' = "GAME"
      PROVE  /\ \E f \in Fields : rank'[f] = 0
             /\ \A f \in Fields : l[f] /\ rank'[f] = 0 => t[f] > m
  <2> DEFINE left == Unranked(t, l, m)
  <2>1. left \in SUBSET Fields /\ ~(Cardinality(left) < 2)
    BY <1>4 DEF UpdateRanks, Unranked
  <2>2. left # {} /\ \A f : left # {f}
    <3>1. Cardinality({}) = 0 /\ \A f : Cardinality({f}) = 1
      BY FS_EmptySet, FS_Singleton
    <3> HIDE DEF left
    <3>2. left # {}
      BY <2>1, <3>1
    <3>3. ASSUME NEW f, left = {f} PROVE FALSE
      <4>1. Cardinality(left) = 1
        BY <3>1, <3>3, Zenon
      <4>2. QED BY <2>1, <4>1
    <3>4. QED BY <3>2, <3>3
  <2>3. \A f \in left : rank'[f] = 0
    BY <1>1, <2>2 DEF Ranking, RankingFrom, Unranked, ToRank
  <2>4. ASSUME NEW f \in Fields, l[f], rank'[f] = 0
        PROVE  t[f] > m
    <3>1. rank[f] = 0
      BY <1>1, <2>2, <2>4 DEF Ranking, RankingFrom, Unranked, ToRank
    <3>2. SUFFICES ASSUME t[f] <= m PROVE FALSE
      OBVIOUS
    <3>3. f \in ToRank(t, l, m)
      BY <3>1, <3>2, <2>4 DEF ToRank
    <3>4. rank'[f] = Cardinality(left) + 1
                     + Cardinality({g \in ToRank(t, l, m) : t[g] < t[f]})
      BY <1>1, <3>3 DEF Ranking, RankingFrom
    <3>5. /\ Cardinality(left) \in Nat
          /\ Cardinality({g \in ToRank(t, l, m) : t[g] < t[f]}) \in Nat
      BY <2>1, FieldSets DEF ToRank
    <3>6. QED BY <3>4, <3>5, <2>4
  <2>5. QED BY <2>1, <2>2, <2>3, <2>4
<1>5. QED BY <1>2, <1>3, <1>4

(* The inductive invariant: the ranking, and what keeps the clock moving.  *)
MatchInv ==
  /\ TypeOK
  /\ CompetitionRanking
  /\ ClockAnchored
  /\ RanksCurrent
  /\ phase = "GAME" => \E f \in Fields : rank[f] = 0
  /\ Alive \subseteq players

(* A match starts in the invariant (Match::start).                         *)
LEMMA MatchInvInit == Init => MatchInv
<1> SUFFICES ASSUME Init PROVE MatchInv
  OBVIOUS
<1>1. 1 \in Fields
  BY DEF Fields
<1>2. TypeOK
  BY DEF Init, TypeOK, Phases
<1>3. QED
  BY <1>1, <1>2 DEF Init, MatchInv, CompetitionRanking, ClockAnchored, RanksCurrent, Alive

(* doStepPlayer keeps the invariant: the delicate case is the clock, which *)
(* is left alone when the field stepped is not at it.                      *)
LEMMA StepFieldInv ==
  ASSUME MatchInv, NEW f \in Fields, StepField(f)
  PROVE  MatchInv'
<1>1. /\ tick' \in [Fields -> Nat]
      /\ lost' \in [Fields -> BOOLEAN]
      /\ tick'[f] = tick[f] + 1
      /\ \A g \in Fields : g # f => tick'[g] = tick[g] /\ lost'[g] = lost[g]
      /\ tick \in [Fields -> Nat]
      /\ matchTick \in Nat
  <2>1. /\ tick \in [Fields -> Nat]
        /\ lost \in [Fields -> BOOLEAN]
        /\ matchTick \in Nat
    BY DEF MatchInv, TypeOK
  <2>2. tick' = [tick EXCEPT ![f] = @ + 1]
    BY DEF StepField
  <2>3. lost' = lost \/ lost' = [lost EXCEPT ![f] = TRUE]
    BY DEF StepField
  <2>4. /\ tick' \in [Fields -> Nat]
        /\ tick'[f] = tick[f] + 1
        /\ \A g \in Fields : g # f => tick'[g] = tick[g]
    BY <2>1, <2>2
  <2>5. /\ lost' \in [Fields -> BOOLEAN]
        /\ \A g \in Fields : g # f => lost'[g] = lost[g]
    BY <2>1, <2>3, Zenon
  <2>6. QED BY <2>1, <2>4, <2>5, Zenon
<1>2. /\ matchTick' \in Nat
      /\ \/ \E g \in Fields : ~lost'[g] /\ tick'[g] = matchTick'
         \/ \A g \in Fields : tick'[g] <= matchTick'
  <2>1. CASE tick[f] = matchTick
    <3>1. matchTick' = ScanTick(tick', lost')
      BY <2>1 DEF StepField, AtMatchTick
    <3>2. QED BY <3>1, <1>1, ScanTickAnchored
  <2>2. CASE tick[f] # matchTick
    <3>1. matchTick' = matchTick
      BY <2>2 DEF StepField, AtMatchTick
    <3>2. CASE \E g \in Alive : tick[g] = matchTick
      BY <3>1, <3>2, <2>2, <1>1 DEF Alive
    <3>3. CASE \A g \in Fields : tick[g] <= matchTick
      BY <3>1, <3>3, <2>2, <1>1
    <3>4. QED BY <3>2, <3>3 DEF MatchInv, ClockAnchored, StepField
  <2>3. QED BY <2>1, <2>2
<1>3. UpdateRanks(tick', lost', matchTick')
  BY DEF StepField
<1>4. /\ rank' \in [Fields -> 0..N]
      /\ CompetitionRanking'
      /\ phase' \in Phases
      /\ phase' = "GAME" =>
           /\ \E g \in Fields : rank'[g] = 0
           /\ \A g \in Fields : lost'[g] /\ rank'[g] = 0 => tick'[g] > matchTick'
  BY <1>1, <1>2, <1>3, UpdateRanksStep DEF MatchInv, TypeOK
<1>5. players' = players /\ players \subseteq Fields /\ Alive' \subseteq Alive
  BY <1>1 DEF StepField, MayStep, MatchInv, TypeOK, Alive
<1>6. QED
  BY <1>1, <1>2, <1>4, <1>5 DEF MatchInv, TypeOK, ClockAnchored, RanksCurrent, Alive

(* removePlayer keeps the invariant: it always rescans the clock.          *)
LEMMA LeaveInv ==
  ASSUME MatchInv, NEW f \in Fields, Leave(f)
  PROVE  MatchInv'
<1>1. /\ tick' = tick
      /\ tick \in [Fields -> Nat]
      /\ lost' \in [Fields -> BOOLEAN]
      /\ lost'[f]
      /\ \A g \in Fields : g # f => lost'[g] = lost[g]
  BY DEF Leave, MatchInv, TypeOK
<1>2. /\ matchTick' \in Nat
      /\ \/ \E g \in Fields : ~lost'[g] /\ tick[g] = matchTick'
         \/ \A g \in Fields : tick[g] <= matchTick'
  BY <1>1, ScanTickAnchored DEF Leave
<1>3. UpdateRanks(tick, lost', matchTick')
  BY DEF Leave
<1>4. /\ rank' \in [Fields -> 0..N]
      /\ CompetitionRanking'
      /\ phase' \in Phases
      /\ phase' = "GAME" =>
           /\ \E g \in Fields : rank'[g] = 0
           /\ \A g \in Fields : lost'[g] /\ rank'[g] = 0 => tick[g] > matchTick'
  BY <1>1, <1>2, <1>3, UpdateRanksStep DEF MatchInv, TypeOK
<1>5. players' = players \ {f} /\ players \subseteq Fields /\ Alive' \subseteq Alive \ {f}
  BY <1>1 DEF Leave, MatchInv, TypeOK, Alive
<1>6. Alive' \subseteq players'
  BY <1>5 DEF MatchInv
<1>7. QED
  BY <1>1, <1>2, <1>4, <1>5, <1>6 DEF MatchInv, TypeOK, ClockAnchored, RanksCurrent, Alive

(* Every handler keeps the invariant.                                      *)
LEMMA MatchInvStep == MatchInv /\ [Next]_vars => MatchInv'
<1> SUFFICES ASSUME MatchInv, [Next]_vars PROVE MatchInv'
  OBVIOUS
<1>1. CASE UNCHANGED vars
  BY <1>1 DEF vars, MatchInv, TypeOK, CompetitionRanking, ClockAnchored, RanksCurrent, Alive
<1>2. CASE Over
  BY <1>1, <1>2 DEF Over
<1>3. ASSUME NEW f \in Fields, StepField(f) PROVE MatchInv'
  BY <1>3, StepFieldInv
<1>4. ASSUME NEW f \in Fields, Leave(f) PROVE MatchInv'
  BY <1>4, LeaveInv
<1>5. QED BY <1>1, <1>2, <1>3, <1>4 DEF Next

(* The inductive invariant holds of every reachable state of a match.      *)
THEOREM MatchInvariant == Spec => []MatchInv
<1>1. QED BY MatchInvInit, MatchInvStep, PTL DEF Spec

(* The types of the state, for any number of fields and any window.        *)
THEOREM TypeCorrect == Spec => []TypeOK
<1>1. MatchInv => TypeOK
  BY DEF MatchInv
<1>2. QED BY <1>1, MatchInvariant, PTL

(* Ranks form a competition ranking for any number of fields and whatever  *)
(* the order of steps, losses and departures (Match::updateRanks).         *)
THEOREM RankingCorrect == Spec => []CompetitionRanking
<1>1. MatchInv => CompetitionRanking
  BY DEF MatchInv
<1>2. QED BY <1>1, MatchInvariant, PTL

(* A running match is never stuck, provided the window is at least two     *)
(* ticks wide: Match::updateTick always leaves the match tick at a living  *)
(* field or ahead of all of them, even when it is not the lowest tick.     *)
THEOREM MatchProgress == Spec => []SomeoneMayStep
<1>1. MatchInv => SomeoneMayStep
  <2> SUFFICES ASSUME MatchInv, phase = "GAME"
               PROVE  \E f \in Fields : MayStep(f)
    BY DEF SomeoneMayStep
  <2>1. PICK u \in Fields : rank[u] = 0
    BY DEF MatchInv
  <2>2. \E f \in Alive : tick[f] <= matchTick
    <3>1. CASE \E f \in Alive : tick[f] = matchTick
      BY <3>1 DEF MatchInv, TypeOK
    <3>2. CASE \A f \in Fields : tick[f] <= matchTick
      <4>1. tick[u] \in Nat /\ matchTick \in Nat /\ tick[u] <= matchTick
        BY <3>2 DEF MatchInv, TypeOK
      <4>2. ~lost[u]
        BY <4>1, <2>1 DEF MatchInv, RanksCurrent
      <4>3. QED BY <4>1, <4>2 DEF Alive
    <3>3. QED BY <3>1, <3>2 DEF MatchInv, ClockAnchored
  <2>3. PICK f \in Alive : tick[f] <= matchTick
    BY <2>2
  <2>4. f \in Fields /\ f \in players /\ ~lost[f] /\ tick[f] \in Nat /\ matchTick \in Nat
    BY DEF MatchInv, TypeOK, Alive
  <2>5. tick[f] + 1 < matchTick + LagMax
    BY <2>3, <2>4
  <2>6. QED BY <2>4, <2>5 DEF MayStep
<1>2. QED BY <1>1, MatchInvariant, PTL

(* The clock stays anchored, whatever field moves it or does not.          *)
THEOREM ClockStaysAnchored == Spec => []ClockAnchored
<1>1. MatchInv => ClockAnchored
  BY DEF MatchInv
<1>2. QED BY <1>1, MatchInvariant, PTL

(* No dead field within the match tick is ever left without a rank.        *)
THEOREM RanksStayCurrent == Spec => []RanksCurrent
<1>1. MatchInv => RanksCurrent
  BY DEF MatchInv
<1>2. QED BY <1>1, MatchInvariant, PTL

-----------------------------------------------------------------------------
(* updateRanks ranks no living field but the last one left, which is first:*)
(* every other field has been ranked below it, now or before.              *)
LEMMA UpdateRanksSurvivor ==
  ASSUME rank \in [Fields -> 0..N], CompetitionRanking,
         NEW t \in [Fields -> Nat], NEW l \in [Fields -> BOOLEAN], NEW m \in Nat,
         UpdateRanks(t, l, m),
         NEW f \in Fields, ~l[f], rank[f] = 0
  PROVE  /\ phase' = "GAME" => rank'[f] = 0
         /\ phase' = "LOBBY" => rank'[f] = 1 /\ \A g \in Fields \ {f} : rank'[g] > 1
<1> DEFINE dead == ToRank(t, l, m)
           left == Unranked(t, l, m)
<1>1. f \notin dead /\ f \in left /\ left \in SUBSET Fields /\ dead \in SUBSET Fields
  BY DEF ToRank, Unranked
<1>2. /\ Cardinality({f}) = 1
      /\ Cardinality(left) \in Nat
      /\ \A g \in Fields : Cardinality({d \in dead : t[d] < t[g]}) \in Nat
  BY <1>1, FS_Singleton, FieldSets
<1>3. Cardinality(left) < 2 <=> left = {f}
  <2> HIDE DEF left
  <2>1. ASSUME NEW g \in left, g # f PROVE ~(Cardinality(left) < 2)
    <3>1. {f} \in SUBSET left /\ g \notin {f}
      BY <1>1, <2>1
    <3>2. Cardinality({f}) < Cardinality(left)
      BY <3>1, <2>1, <1>1, StrictlySmaller
    <3>3. QED BY <3>2, <1>2
  <2>2. ASSUME left = {f} PROVE Cardinality(left) < 2
    BY <2>2, <1>2
  <2>3. QED BY <2>1, <2>2, <1>1
<1>4. \A g \in Fields :
         rank'[g] = IF g \in dead
                    THEN Cardinality(left) + 1 + Cardinality({d \in dead : t[d] < t[g]})
                    ELSE IF left = {g} THEN 1 ELSE rank[g]
  BY DEF UpdateRanks, Ranking, RankingFrom
<1>5. /\ phase' = "GAME" => ~(Cardinality(left) < 2)
      /\ phase' = "LOBBY" => Cardinality(left) < 2
  BY DEF UpdateRanks
<1>6. \A g \in Fields : g \in dead \/ g \in left \/ rank[g] # 0
  BY DEF ToRank, Unranked
<1> HIDE DEF dead, left
<1>7. ASSUME phase' = "GAME" PROVE rank'[f] = 0
  BY <1>1, <1>3, <1>4, <1>5, <1>7
<1>8. ASSUME phase' = "LOBBY"
      PROVE  rank'[f] = 1 /\ \A g \in Fields \ {f} : rank'[g] > 1
  <2>1. left = {f} /\ Cardinality(left) = 1
    BY <1>2, <1>3, <1>5, <1>8
  <2>2. rank'[f] = 1
    BY <2>1, <1>1, <1>4
  <2>3. ASSUME NEW g \in Fields \ {f} PROVE rank'[g] > 1
    <3>1. CASE g \in dead
      <4> DEFINE below == Cardinality({d \in dead : t[d] < t[g]})
      <4>1. rank'[g] = Cardinality(left) + 1 + below /\ below \in Nat
        BY <3>1, <1>2, <1>4
      <4> HIDE DEF below
      <4>2. QED BY <4>1, <2>1
    <3>2. CASE g \notin dead
      <4>1. rank[g] # 0 /\ rank[g] \in 0..N
        BY <3>2, <2>1, <2>3, <1>6
      <4>2. rank'[g] = rank[g]
        BY <3>2, <2>1, <2>3, <1>4
      <4> DEFINE above == {h \in Fields : rank[h] < rank[g]}
      <4>3. rank[g] = 1 + Cardinality(above)
        BY <4>1 DEF CompetitionRanking
      <4>4. {f} \in SUBSET above
        BY <4>1
      <4>5. IsFiniteSet(above) /\ Cardinality(above) \in Nat
        BY FieldSets
      <4> HIDE DEF above
      <4>6. Cardinality({f}) <= Cardinality(above)
        BY <4>4, <4>5, FS_Subset
      <4>7. QED BY <4>2, <4>3, <4>5, <4>6, <1>2
    <3>3. QED BY <3>1, <3>2
  <2>4. QED BY <2>2, <2>3
<1>9. QED BY <1>7, <1>8

(* Adding to the invariant that the living are unranked until the match is *)
(* over makes the fate of the last one inductive.                          *)
SurvivorInv ==
  /\ MatchInv
  /\ phase = "GAME" => \A f \in Alive : rank[f] = 0
  /\ SurvivorWins

(* Every handler keeps it: nobody comes back to life.                      *)
LEMMA SurvivorInvStep == SurvivorInv /\ [Next]_vars => SurvivorInv'
<1> SUFFICES ASSUME SurvivorInv, [Next]_vars PROVE SurvivorInv'
  OBVIOUS
<1>1. MatchInv'
  BY MatchInvStep DEF SurvivorInv
<1>2. ASSUME phase = "GAME",
             NEW t \in [Fields -> Nat], NEW m \in Nat,
             lost' \in [Fields -> BOOLEAN], UpdateRanks(t, lost', m),
             \A f \in Fields : ~lost'[f] => ~lost[f]
      PROVE  SurvivorInv'
  <2>1. rank \in [Fields -> 0..N] /\ CompetitionRanking
    BY DEF SurvivorInv, MatchInv, TypeOK
  <2>2. \A f \in Fields : ~lost'[f] => rank[f] = 0
    BY <1>2 DEF SurvivorInv, Alive
  <2>3. ASSUME NEW f \in Fields, ~lost'[f]
        PROVE  /\ phase' = "GAME" => rank'[f] = 0
               /\ phase' = "LOBBY" => rank'[f] = 1 /\ \A g \in Fields \ {f} : rank'[g] > 1
    BY <2>1, <2>2, <2>3, <1>2, UpdateRanksSurvivor
  <2>4. QED BY <2>3, <1>1 DEF SurvivorInv, SurvivorWins, Alive
<1>3. CASE UNCHANGED vars \/ Over
  BY <1>1, <1>3 DEF SurvivorInv, SurvivorWins, Alive, Over, vars
<1>4. ASSUME NEW f \in Fields, StepField(f) PROVE SurvivorInv'
  <2>1. phase = "GAME" /\ UpdateRanks(tick', lost', matchTick')
    BY <1>4 DEF StepField
  <2>2. tick' \in [Fields -> Nat] /\ lost' \in [Fields -> BOOLEAN] /\ matchTick' \in Nat
    BY <1>1 DEF MatchInv, TypeOK
  <2>3. \A g \in Fields : ~lost'[g] => ~lost[g]
    BY <1>4 DEF StepField, SurvivorInv, MatchInv, TypeOK
  <2>4. QED BY <2>1, <2>2, <2>3, <1>2
<1>5. ASSUME NEW f \in Fields, Leave(f) PROVE SurvivorInv'
  <2>1. phase = "GAME" /\ UpdateRanks(tick, lost', matchTick')
    BY <1>5 DEF Leave
  <2>2. tick \in [Fields -> Nat] /\ lost' \in [Fields -> BOOLEAN] /\ matchTick' \in Nat
    BY <1>1 DEF SurvivorInv, MatchInv, TypeOK
  <2>3. \A g \in Fields : ~lost'[g] => ~lost[g]
    BY <1>5 DEF Leave, SurvivorInv, MatchInv, TypeOK
  <2>4. QED BY <2>1, <2>2, <2>3, <1>2
<1>6. QED BY <1>3, <1>4, <1>5 DEF Next

(* A field alive when the match stops is first, and alone in being first.  *)
THEOREM SurvivorIsFirst == Spec => []SurvivorWins
<1>1. Init => SurvivorInv
  BY MatchInvInit DEF Init, SurvivorInv, SurvivorWins, Alive
<1>2. SurvivorInv => SurvivorWins
  BY DEF SurvivorInv
<1>3. QED BY <1>1, <1>2, SurvivorInvStep, PTL DEF Spec

-----------------------------------------------------------------------------
(* What updateRanks does to the set of the ranked fields is a judgement of *)
(* Elimination, provided the match tick has reached every field when all   *)
(* are dead.                                                               *)
LEMMA UpdateRanksJudges ==
  ASSUME TypeOK,
         NEW t \in [Fields -> Nat], NEW l \in [Fields -> BOOLEAN], NEW m \in Nat,
         (\A f \in Fields : l[f]) => \A f \in Fields : t[f] <= m,
         UpdateRanks(t, l, m)
  PROVE  E!Judge({f \in Fields : ~l[f]}, players)
<1> DEFINE live == {f \in Fields : ~l[f]}
           dead == ToRank(t, l, m)
           left == Unranked(t, l, m)
           over == Cardinality(left) < 2
           told == dead \union (IF over THEN left ELSE {})
<1>1. dead \in SUBSET ((Fields \ live) \ Ranked) /\ dead \in SUBSET Fields
  BY DEF ToRank, Ranked
<1>2. left = (Fields \ Ranked) \ dead /\ left \in SUBSET Fields
  BY DEF Unranked, Ranked
<1>3. live = {} => left = {}
  BY DEF Unranked, ToRank
<1>4. Ranked' = Ranked \union told
  <2>1. \A f \in Fields :
           rank'[f] = IF f \in dead
                      THEN Cardinality(left) + 1 + Cardinality({g \in dead : t[g] < t[f]})
                      ELSE IF left = {f} THEN 1 ELSE rank[f]
    BY DEF UpdateRanks, Ranking, RankingFrom
  <2>2. /\ Cardinality(left) \in Nat
        /\ \A f \in Fields : Cardinality({g \in dead : t[g] < t[f]}) \in Nat
    BY <1>1, <1>2, FieldSets
  <2>3. \A f \in left : over <=> left = {f}
    <3> HIDE DEF left
    <3> SUFFICES ASSUME NEW f \in left PROVE over <=> left = {f}
      OBVIOUS
    <3>1. Cardinality({f}) = 1
      BY FS_Singleton
    <3>2. ASSUME NEW g \in left, g # f PROVE ~over
      <4>1. {f} \in SUBSET left /\ g \notin {f}
        BY <3>2
      <4>2. Cardinality({f}) < Cardinality(left)
        BY <4>1, <3>2, <1>2, StrictlySmaller
      <4>3. QED BY <4>2, <3>1, <2>2
    <3>3. QED BY <3>1, <3>2
  <2> HIDE DEF dead, left
  <2>4. ASSUME NEW f \in Fields
        PROVE  rank'[f] # 0 <=> rank[f] # 0 \/ f \in told
    <3>1. CASE f \in dead
      <4> DEFINE below == Cardinality({g \in dead : t[g] < t[f]})
      <4>1. rank'[f] = Cardinality(left) + 1 + below
        BY <3>1, <2>1
      <4>2. below \in Nat /\ Cardinality(left) \in Nat
        BY <2>2
      <4> HIDE DEF below
      <4>3. rank'[f] # 0
        BY <4>1, <4>2
      <4>4. f \in told
        BY <3>1
      <4>5. QED BY <4>3, <4>4
    <3>2. CASE f \in left /\ f \notin dead
      <4>1. rank[f] = 0
        BY <3>2, <1>2 DEF Ranked
      <4>2. rank'[f] = IF left = {f} THEN 1 ELSE rank[f]
        BY <3>2, <2>1
      <4>3. f \in told <=> left = {f}
        BY <3>2, <2>3
      <4>4. QED BY <4>1, <4>2, <4>3
    <3>3. CASE f \notin left /\ f \notin dead
      <4>1. rank'[f] = rank[f]
        <5>1. left # {f}
          BY <3>3
        <5>2. rank'[f] = IF left = {f} THEN 1 ELSE rank[f]
          BY <3>3, <2>1
        <5>3. QED BY <5>1, <5>2
      <4>2. QED BY <4>1, <3>3
    <3>4. QED BY <3>1, <3>2, <3>3
  <2>5. told \in SUBSET Fields
    BY <1>1, <1>2
  <2> HIDE DEF told
  <2>6. QED BY <2>4, <2>5 DEF Ranked
<1>5. phase' = CASE ~(told \subseteq players) -> "ABORTED"
                 [] told \subseteq players /\ over -> "LOBBY"
                 [] OTHER -> "GAME"
  BY DEF UpdateRanks
<1>6. over <=> \A f, g \in left : f = g
  <2> HIDE DEF left
  <2>1. \A f \in left : Cardinality({f}) = 1
    BY FS_Singleton
  <2>2. Cardinality(left) \in Nat
    BY <1>2, FieldSets
  <2>3. ASSUME NEW f \in left, NEW g \in left, f # g PROVE ~over
    <3>1. {f} \in SUBSET left /\ g \notin {f}
      BY <2>3
    <3>2. Cardinality({f}) < Cardinality(left)
      BY <3>1, <2>3, <1>2, StrictlySmaller
    <3>3. QED BY <3>2, <2>1, <2>2
  <2>4. CASE left = {}
    BY <2>4, FS_EmptySet
  <2>5. ASSUME NEW f \in left, \A g, h \in left : g = h PROVE over
    <3>1. left = {f}
      BY <2>5
    <3>2. QED BY <3>1, <2>1, <2>5
  <2>6. QED BY <2>3, <2>4, <2>5
<1> DEFINE alone == \A f, g \in left : f = g
<1>7. told = dead \union (IF alone THEN left ELSE {})
  BY <1>6
<1>8. phase' = CASE ~(told \subseteq players) -> "ABORTED"
                 [] told \subseteq players /\ alone -> "LOBBY"
                 [] OTHER -> "GAME"
  BY <1>5, <1>6
<1> DEFINE Rest(d) == (Fields \ Ranked) \ d
           Alone(d) == \A f, g \in Rest(d) : f = g
           Told(d) == d \union (IF Alone(d) THEN Rest(d) ELSE {})
<1>9. Rest(dead) = left /\ Told(dead) = told /\ (Alone(dead) <=> alone)
  BY <1>2, <1>7
<1> HIDE DEF dead, live, told, left, alone
<1>10. /\ live = {} => Rest(dead) = {}
       /\ Ranked' = Ranked \union Told(dead)
       /\ phase' = CASE ~(Told(dead) \subseteq players) -> "ABORTED"
                     [] Told(dead) \subseteq players /\ Alone(dead) -> "LOBBY"
                     [] OTHER -> "GAME"
  <2> HIDE DEF Rest, Told, Alone
  <2>1. QED BY <1>3, <1>4, <1>8, <1>9
<1>11. E!Judge(live, players)
  BY <1>1, <1>10, Zenon DEF E!Judge
<1>12. QED BY <1>11 DEF live

(* A step of a match is a step of Elimination.                             *)
LEMMA StepIsEliminationStep ==
  ASSUME MatchInv, NEW f \in Fields, StepField(f)
  PROVE  E!Step(f)
<1>1. /\ tick \in [Fields -> Nat] /\ lost \in [Fields -> BOOLEAN] /\ matchTick \in Nat
      /\ TypeOK /\ ClockAnchored /\ phase = "GAME"
  BY DEF MatchInv, TypeOK, StepField
<1>2. /\ tick' \in [Fields -> Nat]
      /\ tick'[f] = tick[f] + 1
      /\ \A g \in Fields : g # f => tick'[g] = tick[g]
  BY <1>1 DEF StepField
<1>3. /\ lost' \in [Fields -> BOOLEAN]
      /\ \A g \in Fields : g # f => lost'[g] = lost[g]
      /\ lost' = lost \/ Alive' = Alive \ {f}
  BY <1>1 DEF StepField, Alive
<1>4. matchTick' \in Nat
  BY <1>1, <1>2, <1>3, ScanTickAnchored DEF StepField
<1>5. ASSUME \A g \in Fields : lost'[g]
      PROVE  \A g \in Fields : tick'[g] <= matchTick'
  <2>1. CASE AtMatchTick(f)
    BY <2>1, <1>2, <1>3, <1>5, ScanTickAnchored DEF StepField
  <2>2. CASE ~AtMatchTick(f)
    <3>1. matchTick' = matchTick
      BY <2>2 DEF StepField
    <3>2. \A g \in Fields : tick[g] <= matchTick
      BY <1>1, <1>3, <1>5, <2>2 DEF ClockAnchored, AtMatchTick, Alive
    <3>3. QED BY <3>1, <3>2, <2>2, <1>1, <1>2 DEF AtMatchTick
  <2>3. QED BY <2>1, <2>2
<1>6. Alive' = {g \in Fields : ~lost'[g]}
  BY DEF Alive
<1>7. UpdateRanks(tick', lost', matchTick')
  BY DEF StepField
<1>8. E!Judge({g \in Fields : ~lost'[g]}, players)
  BY <1>1, <1>2, <1>3, <1>4, <1>5, <1>7, UpdateRanksJudges
<1>9. f \in Alive \intersect players /\ players' = players
  BY DEF StepField, MayStep, Alive
<1>10. Alive' = Alive \/ Alive' = Alive \ {f}
  BY <1>3 DEF Alive
<1>11. QED
  BY <1>1, <1>6, <1>8, <1>9, <1>10 DEF E!Step

(* A departure is one too.                                                 *)
LEMMA LeaveIsEliminationLeave ==
  ASSUME MatchInv, NEW f \in Fields, Leave(f)
  PROVE  E!Leave(f)
<1>1. /\ tick' = tick /\ tick \in [Fields -> Nat] /\ TypeOK
      /\ lost' \in [Fields -> BOOLEAN]
      /\ matchTick' = ScanTick(tick, lost')
      /\ UpdateRanks(tick, lost', matchTick')
  BY DEF Leave, MatchInv, TypeOK
<1>2. /\ matchTick' \in Nat
      /\ (\A g \in Fields : lost'[g]) => \A g \in Fields : tick[g] <= matchTick'
  BY <1>1, ScanTickAnchored
<1>3. E!Judge({g \in Fields : ~lost'[g]}, players)
  BY <1>1, <1>2, UpdateRanksJudges
<1>4. Alive' = {g \in Fields : ~lost'[g]} /\ Alive' = Alive \ {f}
  BY DEF Alive, Leave, MatchInv, TypeOK
<1>5. QED
  BY <1>3, <1>4 DEF E!Leave, Leave

(* A match implements Elimination: its clock, wrong as it may be, decides  *)
(* when the dead are ranked and nothing else, and it never withholds a     *)
(* rank once nobody is alive (Match::updateTick, Match::updateRanks).      *)
THEOREM MatchIsElimination == Spec => ImplementsElimination
<1>1. Init => E!Init
  BY DEF Init, E!Init, Alive, Ranked
<1>2. MatchInv /\ [Next]_vars => [E!Next]_(E!vars)
  <2> SUFFICES ASSUME MatchInv, [Next]_vars PROVE [E!Next]_(E!vars)
    OBVIOUS
  <2>1. CASE UNCHANGED vars \/ Over
    BY <2>1 DEF Over, vars, E!vars, Alive, Ranked
  <2>2. ASSUME NEW f \in Fields, StepField(f) PROVE E!Next
    BY <2>2, StepIsEliminationStep DEF E!Next
  <2>3. ASSUME NEW f \in Fields, Leave(f) PROVE E!Next
    BY <2>3, LeaveIsEliminationLeave DEF E!Next
  <2>4. QED BY <2>1, <2>2, <2>3 DEF Next
<1>3. QED BY <1>1, <1>2, MatchInvariant, PTL DEF Spec, E!Spec, ImplementsElimination
=============================================================================
