------------------------------- MODULE Loops -------------------------------
(***************************************************************************)
(* Induction over the loops of the handlers.  A handler that goes through  *)
(* players or peers in order is a fold of the library; what a fold keeps   *)
(* true is proved here once, for any step and any invariant of it, and     *)
(* taken by INSTANCE for each loop.                                        *)
(***************************************************************************)
EXTENDS Naturals, Folds, SequenceTheorems, WellFoundedInduction, TLAPS

CONSTANTS
  Step(_, _, _),   \* what the loop does, in a context, to a state, with an item
  Inv(_, _, _)     \* what holds, in a context, after so many items, of the state

\* FoldLeft of SequencesExt and the Max it takes the items by, from Folds alone: an
\* instance then brings in little else.
Max(S) == CHOOSE x \in S : \A y \in S : x >= y
Loop(c, b, q) ==
  MapThenFoldSet(LAMBDA x, s : Step(c, s, x), b, LAMBDA i : q[i], LAMBDA S : Max(S), DOMAIN q)

(* A set of naturals that is not empty has a least one.                    *)
LEMMA LeastNumber ==
  ASSUME NEW T \in SUBSET Nat, T # {}
  PROVE  \E x \in T : \A y \in T : x <= y
<1> DEFINE R == OpToRel(<, Nat)
<1>1. IsWellFoundedOn(R, Nat)
  BY NatLessThanWellFounded
<1>2. \A x, y \in Nat : y < x => <<y, x>> \in R
  BY DEF OpToRel
<1> HIDE DEF R
<1>3. PICK x \in T : \A y \in T : ~ (<<y, x>> \in R)
  BY <1>1, WFMin, Zenon
<1>4. \A y \in T : x \in Nat /\ y \in Nat /\ ~ (y < x)
  BY <1>2, <1>3
<1>5. QED BY <1>4

(* The greatest of some of the items 1..k is one of them.                  *)
LEMMA GreatestItem ==
  ASSUME NEW k \in Nat, NEW S \in SUBSET (1..k), S # {}
  PROVE  Max(S) \in S /\ \A y \in S : y <= Max(S)
<1> DEFINE U == {u \in Nat : \A y \in S : y <= u}
<1>1. U \in SUBSET Nat /\ k \in U
  OBVIOUS
<1>2. PICK u \in U : \A y \in U : u <= y
  BY <1>1, LeastNumber
<1>3. u \in S
  <2>1. SUFFICES ASSUME u \notin S PROVE FALSE
    OBVIOUS
  <2>2. \A y \in S : y \in Nat \ {0} /\ y <= u /\ y # u
    BY <2>1
  <2> u \in Nat
    OBVIOUS
  <2>3. ASSUME NEW y \in S PROVE y \in Nat /\ y <= u - 1 /\ u - 1 \in Nat
    <3>1. y \in Nat \ {0} /\ y <= u /\ y # u
      BY <2>2
    <3>2. QED BY <3>1
  <2>4. u - 1 \in Nat
    BY <2>3
  <2>5. u - 1 \in U
    BY <2>3, <2>4
  <2>6. QED BY <2>3, <2>5, <1>2
<1>4. \E x \in S : \A y \in S : x >= y
  BY <1>2, <1>3
<1>5. Max(S) \in S /\ \A y \in S : Max(S) >= y
  BY <1>4 DEF Max
<1>6. QED BY <1>5

(* The recursive function the fold is made of.                             *)
Folding(c, b, q, n, g) ==
  g = [s \in SUBSET (1..n) |-> IF s = {} THEN b ELSE Step(c, g[s \ {Max(s)}], q[Max(s)])]

(* It is there: on the items 1..k, for every k, by least counterexample.   *)
LEMMA LoopDefined ==
  ASSUME NEW c, NEW b, NEW q, NEW n \in Nat
  PROVE  \E g : Folding(c, b, q, n, g)
<1> DEFINE F(g, s) == IF s = {} THEN b ELSE Step(c, g[s \ {Max(s)}], q[Max(s)])
           Rec(g, k) == g = [s \in SUBSET (1..k) |-> F(g, s)]
           Bad == {k \in 0..n : ~ \E g : Rec(g, k)}
<1>1. SUFFICES Bad = {}
  <2>1. n \in 0..n
    OBVIOUS
  <2>2. QED BY <2>1 DEF Folding
<1>2. SUFFICES ASSUME Bad # {} PROVE FALSE
  OBVIOUS
<1>3. Bad \in SUBSET Nat
  OBVIOUS
<1>4. PICK m \in Bad : \A k \in Bad : m <= k
  <2> HIDE DEF Bad
  <2>1. QED BY <1>2, <1>3, LeastNumber, Zenon
<1>5. m \in 0..n
  BY <1>4
<1>6. m # 0
  <2>1. Rec([s \in SUBSET (1..0) |-> b], 0)
    <3>1. \A s \in SUBSET (1..0) : s = {}
      OBVIOUS
    <3>2. QED BY <3>1
  <2> HIDE DEF Rec
  <2>2. QED BY <2>1, <1>4
<1>7. PICK g : Rec(g, m - 1)
  <2>1. m - 1 \in 0..n /\ ~ (m <= m - 1)
    BY <1>5, <1>6
  <2>2. m - 1 \notin Bad
    <3> HIDE DEF Bad
    <3>1. QED BY <2>1, <1>4
  <2> HIDE DEF Rec
  <2>3. QED BY <2>1, <2>2
<1> DEFINE h == [s \in SUBSET (1..m) |->
                   IF m \in s THEN Step(c, g[s \ {m}], q[m]) ELSE g[s]]
<1>8. \A s \in SUBSET (1..m) : h[s] = F(h, s)
  <2> SUFFICES ASSUME NEW s \in SUBSET (1..m) PROVE h[s] = F(h, s)
    OBVIOUS
  <2>1. CASE m \in s
    <3>1. m \in Nat /\ s # {} /\ \A y \in s : y \in Nat /\ y <= m
      BY <2>1, <1>5
    <3> HIDE DEF Bad
    <3>0. Max(s) \in s /\ \A y \in s : y <= Max(s)
      BY <3>1, GreatestItem, Zenon
    <3>2. Max(s) = m
      <4>1. Max(s) \in Nat /\ m \in Nat /\ Max(s) <= m /\ m <= Max(s)
        BY <3>0, <3>1, <2>1, Zenon
      <4>2. QED BY <4>1
    <3>3. s \ {m} \in SUBSET (1..m) /\ m \notin s \ {m}
      OBVIOUS
    <3>4. h[s \ {m}] = g[s \ {m}]
      BY <3>3
    <3>5. h[s] = Step(c, g[s \ {m}], q[m])
      BY <2>1
    <3> HIDE DEF h
    <3>6. QED BY <3>2, <3>4, <3>5, <2>1
  <2>2. CASE m \notin s
    <3>1. s \in SUBSET (1..(m - 1))
      BY <2>2, <1>5
    <3>2. h[s] = g[s]
      BY <2>2
    <3>3. g[s] = F(g, s)
      BY <3>1, <1>7
    <3>4. CASE s = {}
      BY <3>2, <3>3, <3>4
    <3>5. CASE s # {}
      <4>1. s \ {Max(s)} \in SUBSET (1..m) /\ m \notin s \ {Max(s)}
        BY <2>2
      <4>2. h[s \ {Max(s)}] = g[s \ {Max(s)}]
        BY <4>1
      <4> HIDE DEF h
      <4>3. QED BY <4>2, <3>2, <3>3, <3>5
    <3>6. QED BY <3>4, <3>5
  <2>3. QED BY <2>1, <2>2
<1>9. Rec(h, m)
  <2>1. h = [s \in SUBSET (1..m) |-> h[s]]
    OBVIOUS
  <2> HIDE DEF h, F
  <2>2. QED BY <2>1, <1>8
<1> HIDE DEF Rec, h
<1>10. QED BY <1>9, <1>4

(* The loop has a stage after each item.                                   *)
Stages(c, b, q, n, g) ==
  /\ g[0] = b /\ g[n] = Loop(c, b, q)
  /\ \A k \in 1..n : g[k] = Step(c, g[k - 1], q[k])

(* There is a value for each turn.                                         *)
LEMMA LoopStages ==
  ASSUME NEW c, NEW b, NEW n \in Nat, NEW q, DOMAIN q = 1..n
  PROVE  \E g : Stages(c, b, q, n, g)
<1> DEFINE it == CHOOSE g : Folding(c, b, q, n, g)
           g == [k \in 0..n |-> it[1..k]]
<1>1. Folding(c, b, q, n, it)
  BY LoopDefined, Zenon
<1>2. Loop(c, b, q) = it[1..n]
  BY DEF Loop, MapThenFoldSet, Folding
<1> HIDE DEF it
<1>3. it[1..0] = b
  <2>1. 1..0 = {} /\ {} \in SUBSET (1..n)
    OBVIOUS
  <2>2. QED BY <2>1, <1>1 DEF Folding
<1>4. ASSUME NEW k \in 1..n PROVE it[1..k] = Step(c, it[1..(k - 1)], q[k])
  <2>1. 1..k \in SUBSET (1..n) /\ 1..k # {} /\ k \in 1..k
    <3> HIDE DEF g
    <3>1. k \in Nat /\ 1 <= k /\ k <= n
      OBVIOUS
    <3>2. QED BY <3>1
  <2>2. Max(1..k) \in 1..k /\ \A y \in 1..k : y <= Max(1..k)
    BY <2>1, GreatestItem
  <2>3. Max(1..k) = k
    BY <2>1, <2>2
  <2>4. (1..k) \ {k} = 1..(k - 1)
    OBVIOUS
  <2>5. it[1..k] = Step(c, it[(1..k) \ {Max(1..k)}], q[Max(1..k)])
    BY <2>1, <1>1 DEF Folding
  <2>6. QED BY <2>3, <2>4, <2>5
<1>5. g[0] = b /\ g[n] = Loop(c, b, q)
  <2>1. 0 \in 0..n /\ n \in 0..n
    OBVIOUS
  <2>2. QED BY <2>1, <1>2, <1>3
<1>6. ASSUME NEW k \in 1..n PROVE g[k] = Step(c, g[k - 1], q[k])
  <2>1. k \in 0..n /\ k - 1 \in 0..n
    OBVIOUS
  <2>2. QED BY <2>1, <1>4
<1> HIDE DEF g
<1>7. QED BY <1>5, <1>6 DEF Stages

(* What the step keeps true, from each item to the next, the loop does.    *)
THEOREM LoopInvariant ==
  ASSUME NEW c, NEW b, NEW n \in Nat, NEW q, DOMAIN q = 1..n,
         Inv(c, 0, b),
         \A k \in 1..n : \A s : Inv(c, k - 1, s) => Inv(c, k, Step(c, s, q[k]))
  PROVE  Inv(c, n, Loop(c, b, q))
<1>1. PICK g : Stages(c, b, q, n, g)
  BY LoopStages, Zenon
<1> USE DEF Stages
<1> DEFINE Bad == {k \in 0..n : ~ Inv(c, k, g[k])}
<1>2. SUFFICES Bad = {}
  <2>1. n \in 0..n
    OBVIOUS
  <2>2. QED BY <2>1, <1>1
<1>3. SUFFICES ASSUME Bad # {} PROVE FALSE
  OBVIOUS
<1>4. Bad \in SUBSET Nat
  OBVIOUS
<1>5. PICK m \in Bad : \A k \in Bad : m <= k
  <2> HIDE DEF Bad
  <2>1. QED BY <1>3, <1>4, LeastNumber, Zenon
<1>6. m \in 0..n /\ ~ Inv(c, m, g[m])
  BY <1>5
<1>7. m # 0
  BY <1>1, <1>6
<1>8. m \in 1..n /\ m - 1 \in 0..n /\ ~ (m <= m - 1)
  BY <1>6, <1>7
<1>9. Inv(c, m - 1, g[m - 1])
  <2>1. m - 1 \notin Bad
    <3> HIDE DEF Bad
    <3>1. QED BY <1>8, <1>5
  <2>2. QED BY <2>1, <1>8
<1>10. Inv(c, m, g[m])
  BY <1>1, <1>8, <1>9
<1>11. QED BY <1>6, <1>10

(* Two loops that go through the same items from the same state, one of    *)
(* them after d others.                                                    *)
Along(c, q, n, g, d, h) ==
  /\ n \in Nat /\ d \in Nat /\ h[d] = g[0]
  /\ \A k \in 1..n : g[k] = Step(c, g[k - 1], q[k])
  /\ \A k \in 1..n : h[d + k] = Step(c, h[d + k - 1], q[k])

(* Two runs through the same turns, from the same value, agree.            *)
LEMMA SameStages ==
  \A c, q, n, g, d, h : Along(c, q, n, g, d, h) => h[d + n] = g[n]
<1> SUFFICES ASSUME NEW c, NEW q, NEW n, NEW g, NEW d, NEW h, Along(c, q, n, g, d, h)
             PROVE  h[d + n] = g[n]
  OBVIOUS
<1> USE DEF Along
<1> DEFINE Bad == {k \in 0..n : h[d + k] # g[k]}
<1>1. SUFFICES Bad = {}
  <2>1. n \in 0..n
    OBVIOUS
  <2>2. QED BY <2>1
<1>2. SUFFICES ASSUME Bad # {} PROVE FALSE
  OBVIOUS
<1>3. Bad \in SUBSET Nat
  OBVIOUS
<1>4. PICK m \in Bad : \A k \in Bad : m <= k
  <2> HIDE DEF Bad
  <2>1. QED BY <1>2, <1>3, LeastNumber, Zenon
<1>5. m \in 0..n /\ h[d + m] # g[m]
  BY <1>4
<1>6. m # 0
  <2>1. d + 0 = d
    OBVIOUS
  <2>2. QED BY <2>1, <1>5
<1>7. m \in 1..n /\ m - 1 \in 0..n /\ ~ (m <= m - 1) /\ d + (m - 1) = d + m - 1
  BY <1>5, <1>6
<1>8. h[d + (m - 1)] = g[m - 1]
  <2>1. m - 1 \notin Bad
    <3> HIDE DEF Bad
    <3>1. QED BY <1>7, <1>4
  <2>2. QED BY <2>1, <1>7
<1>9. QED BY <1>5, <1>7, <1>8

(* A loop without items, with one, and in two parts.                       *)
THEOREM LoopEmpty == \A c, b : Loop(c, b, <<>>) = b
<1> SUFFICES ASSUME NEW c, NEW b PROVE Loop(c, b, <<>>) = b
  OBVIOUS
<1>1. DOMAIN <<>> = 1..0
  OBVIOUS
<1>2. PICK g : Stages(c, b, <<>>, 0, g)
  BY <1>1, LoopStages
<1>3. QED BY <1>2 DEF Stages

(* A loop of one turn is this turn.                                        *)
THEOREM LoopOne == \A c, b, x : Loop(c, b, <<x>>) = Step(c, b, x)
<1> SUFFICES ASSUME NEW c, NEW b, NEW x PROVE Loop(c, b, <<x>>) = Step(c, b, x)
  OBVIOUS
<1> DEFINE q == <<x>>
<1>1. DOMAIN q = 1..1 /\ q[1] = x
  OBVIOUS
<1> HIDE DEF q
<1>2. PICK g : Stages(c, b, q, 1, g)
  BY <1>1, LoopStages
<1>3. 1 \in 1..1 /\ 1 - 1 = 0
  OBVIOUS
<1>4. g[1] = Step(c, g[0], q[1])
  BY <1>2, <1>3 DEF Stages
<1>5. QED BY <1>1, <1>2, <1>4 DEF q, Stages

(* Two lists in a row are two loops in a row.                              *)
THEOREM LoopConcat ==
  ASSUME NEW S, NEW q \in Seq(S), NEW r \in Seq(S)
  PROVE  \A c, b : Loop(c, b, q \o r) = Loop(c, Loop(c, b, q), r)
<1> SUFFICES ASSUME NEW c, NEW b
             PROVE  Loop(c, b, q \o r) = Loop(c, Loop(c, b, q), r)
  OBVIOUS
<1> DEFINE n == Len(q)
           m == Len(r)
           u == q \o r
           mid == Loop(c, b, q)
<1>1. n \in Nat /\ m \in Nat /\ DOMAIN q = 1..n /\ DOMAIN r = 1..m
  OBVIOUS
<1>2. u \in Seq(S) /\ Len(u) = n + m
      /\ \A i \in 1..(n + m) : u[i] = IF i <= n THEN q[i] ELSE r[i - n]
  BY ConcatProperties
<1>3. DOMAIN u = 1..(n + m) /\ n + m \in Nat
  BY <1>1, <1>2
<1> HIDE DEF n, m, u, mid
<1>4. PICK g : Stages(c, b, q, n, g)
  BY <1>1, LoopStages, Zenon
<1>5. PICK f : Stages(c, mid, r, m, f)
  BY <1>1, LoopStages, Zenon
<1>6. PICK h : Stages(c, b, u, n + m, h)
  BY <1>3, LoopStages, Zenon
<1>7. h[n] = g[n]
  <2>1. ASSUME NEW k \in 1..n PROVE h[0 + k] = Step(c, h[0 + k - 1], q[k])
    <3>1. k \in 1..(n + m) /\ 0 + k = k /\ 0 + k - 1 = k - 1 /\ k <= n
      BY <1>1
    <3>2. QED BY <3>1, <1>2, <1>6 DEF Stages
  <2>2. h[0] = g[0] /\ \A k \in 1..n : g[k] = Step(c, g[k - 1], q[k])
    BY <1>4, <1>6 DEF Stages
  <2>3. Along(c, q, n, g, 0, h)
    BY <1>1, <2>1, <2>2 DEF Along
  <2>4. h[0 + n] = g[n]
    BY <2>3, SameStages
  <2>5. 0 + n = n
    BY <1>1
  <2>6. QED BY <2>4, <2>5
<1>8. h[n + m] = f[m]
  <2>1. ASSUME NEW k \in 1..m PROVE h[n + k] = Step(c, h[n + k - 1], r[k])
    <3>1. n + k \in 1..(n + m) /\ ~ (n + k <= n) /\ (n + k) - n = k
          /\ (n + k) - 1 = n + k - 1
      BY <1>1
    <3>2. u[n + k] = r[k]
      BY <3>1, <1>2
    <3>3. \A j \in 1..(n + m) : h[j] = Step(c, h[j - 1], u[j])
      BY <1>6 DEF Stages
    <3>4. h[n + k] = Step(c, h[(n + k) - 1], u[n + k])
      BY <3>1, <3>3
    <3>5. QED BY <3>1, <3>2, <3>4, Zenon
  <2>2. h[n] = f[0] /\ \A k \in 1..m : f[k] = Step(c, f[k - 1], r[k])
    BY <1>4, <1>5, <1>7 DEF mid, Stages
  <2>3. Along(c, r, m, f, n, h)
    BY <1>1, <2>1, <2>2 DEF Along
  <2>4. QED BY <2>3, SameStages
<1>9. QED BY <1>5, <1>6, <1>8 DEF u, mid, Stages

=============================================================================
