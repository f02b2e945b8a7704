--------------------------- MODULE GarbageProofs ---------------------------
(***************************************************************************)
(* Proofs about Garbage, for any number of fields, of garbages, any combos *)
(* and any delays.                                                         *)
(***************************************************************************)
EXTENDS Garbage, MatchProofs, SequenceTheorems

(* What is in the range of a function.                                     *)
LEMMA InRange ==
  \A f, D : DOMAIN f = D => \A x : x \in Range(f) <=> \E j \in D : f[j] = x
BY DEF Range

(* Sequences: what is put in, taken out, added at the end and read.        *)
LEMMA Inserted ==
  ASSUME NEW S, NEW q \in Seq(S), NEW e \in S, NEW i \in 1..(Len(q) + 1)
  PROVE  /\ InsertAt(q, i, e) \in Seq(S)
         /\ Len(InsertAt(q, i, e)) = Len(q) + 1
         /\ \A j \in 1..(Len(q) + 1) :
              InsertAt(q, i, e)[j] =
                IF j < i THEN q[j] ELSE IF j = i THEN e ELSE q[j - 1]
<1> DEFINE a == SubSeq(q, 1, i - 1)
           b == SubSeq(q, i, Len(q))
           c == <<e>>
<1>1. Len(q) \in Nat /\ i \in Nat /\ i >= 1 /\ i <= Len(q) + 1
  OBVIOUS
<1>2. a \in Seq(S) /\ Len(a) = i - 1 /\ \A j \in 1..(i - 1) : a[j] = q[j]
  OBVIOUS
<1>3. b \in Seq(S) /\ Len(b) = Len(q) - i + 1
      /\ \A j \in 1..(Len(q) - i + 1) : b[j] = q[j + i - 1]
  OBVIOUS
<1>4. c \in Seq(S) /\ Len(c) = 1 /\ c[1] = e
  OBVIOUS
<1> HIDE DEF a, b, c
<1>5. a \o c \in Seq(S) /\ Len(a \o c) = i
      /\ \A j \in 1..i : (a \o c)[j] = IF j < i THEN q[j] ELSE e
  <2>1. a \o c \in Seq(S) /\ Len(a \o c) = Len(a) + Len(c)
        /\ \A j \in 1..(Len(a) + Len(c)) :
             (a \o c)[j] = IF j <= Len(a) THEN a[j] ELSE c[j - Len(a)]
    BY <1>2, <1>4, ConcatProperties
  <2>2. ASSUME NEW j \in 1..i PROVE (a \o c)[j] = IF j < i THEN q[j] ELSE e
    <3>1. j \in 1..(Len(a) + Len(c)) /\ (j <= Len(a) <=> j < i)
          /\ (~(j < i) => j - Len(a) = 1) /\ (j < i => j \in 1..(i - 1))
      BY <1>1, <1>2, <1>4
    <3>2. QED BY <2>1, <3>1, <1>2, <1>4
  <2>3. Len(a \o c) = i
    BY <1>1, <1>2, <1>4, <2>1
  <2>4. QED BY <2>1, <2>2, <2>3
<1> DEFINE ac == a \o c
<1> HIDE DEF ac
<1>6. ac \in Seq(S) /\ Len(ac) = i /\ \A j \in 1..i : ac[j] = IF j < i THEN q[j] ELSE e
  BY <1>5 DEF ac
<1>7. ac \o b \in Seq(S) /\ Len(ac \o b) = Len(q) + 1
      /\ \A j \in 1..(Len(q) + 1) :
           (ac \o b)[j] = IF j < i THEN q[j] ELSE IF j = i THEN e ELSE q[j - 1]
  <2>1. ac \o b \in Seq(S) /\ Len(ac \o b) = Len(ac) + Len(b)
        /\ \A j \in 1..(Len(ac) + Len(b)) :
             (ac \o b)[j] = IF j <= Len(ac) THEN ac[j] ELSE b[j - Len(ac)]
    BY <1>3, <1>6, ConcatProperties
  <2>2. ASSUME NEW j \in 1..(Len(q) + 1)
        PROVE  (ac \o b)[j] = IF j < i THEN q[j] ELSE IF j = i THEN e ELSE q[j - 1]
    <3>1. j \in 1..(Len(ac) + Len(b))
          /\ (j <= Len(ac) => j \in 1..i)
          /\ (~(j <= Len(ac)) => j - Len(ac) \in 1..(Len(q) - i + 1) /\ ~(j < i) /\ j # i
                                 /\ (j - Len(ac)) + i - 1 = j - 1)
      BY <1>1, <1>3, <1>6
    <3>2. CASE j <= Len(ac)
      BY <2>1, <3>1, <3>2, <1>6, <1>1
    <3>3. CASE ~(j <= Len(ac))
      BY <2>1, <3>1, <3>3, <1>3
    <3>4. QED BY <3>2, <3>3
  <2>3. Len(ac \o b) = Len(q) + 1
    BY <1>1, <1>3, <1>6, <2>1
  <2>4. QED BY <2>1, <2>2, <2>3
<1>8. InsertAt(q, i, e) = ac \o b
  BY DEF InsertAt, ac, a, b, c
<1>9. QED BY <1>7, <1>8

(* What is put in is among the rest, which stay apart.                     *)
LEMMA InsertedAmong ==
  ASSUME NEW S, NEW q \in Seq(S), NEW e \in S, NEW i \in 1..(Len(q) + 1)
  PROVE  /\ Range(InsertAt(q, i, e)) = Range(q) \union {e}
         /\ IsInjective(q) /\ e \notin Range(q) => IsInjective(InsertAt(q, i, e))
<1> DEFINE r == InsertAt(q, i, e)
           n == Len(q)
<1>1. /\ DOMAIN r = 1..(n + 1) /\ DOMAIN q = 1..n /\ n \in Nat /\ i \in 1..(n + 1)
      /\ \A j \in 1..(n + 1) : r[j] = IF j < i THEN q[j] ELSE IF j = i THEN e ELSE q[j - 1]
  BY Inserted
<1> HIDE DEF r, n
<1>2. \A j \in 1..n : \/ j < i /\ j \in 1..(n + 1) /\ r[j] = q[j]
                      \/ ~(j < i) /\ j + 1 \in 1..(n + 1) /\ r[j + 1] = q[j]
  BY <1>1
<1>3. \A j \in 1..(n + 1) : \/ j < i /\ j \in 1..n /\ r[j] = q[j]
                            \/ j = i /\ r[j] = e
                            \/ j > i /\ j - 1 \in 1..n /\ r[j] = q[j - 1]
  BY <1>1
<1>4. Range(r) = Range(q) \union {e}
  <2>1. \A j \in 1..(n + 1) : r[j] = e \/ \E k \in 1..n : r[j] = q[k]
    BY <1>3
  <2>2. \A j \in 1..n : \E k \in 1..(n + 1) : r[k] = q[j]
    BY <1>2
  <2>3. \E k \in 1..(n + 1) : r[k] = e
    BY <1>1
  <2>4. DOMAIN r = 1..(n + 1) /\ DOMAIN q = 1..n
    BY <1>1
  <2>5. \A x : x \in Range(r) <=> \E j \in 1..(n + 1) : r[j] = x
    BY <2>4, InRange, Zenon
  <2>6. \A x : x \in Range(q) <=> \E j \in 1..n : q[j] = x
    BY <2>4, InRange, Zenon
  <2>7. \A x : x \in Range(r) <=> x \in Range(q) \union {e}
    BY <2>1, <2>2, <2>3, <2>5, <2>6
  <2>8. QED BY <2>7, Zenon
<1>5. ASSUME IsInjective(q), e \notin Range(q) PROVE IsInjective(r)
  <2>1. \A j \in 1..n : q[j] # e
    BY <1>1, <1>5 DEF Range
  <2>2. \A j, k \in 1..n : q[j] = q[k] => j = k
    BY <1>1, <1>5 DEF IsInjective
  <2>3. \A j, k \in 1..(n + 1) : r[j] = r[k] => j = k
    BY <1>1, <1>3, <2>1, <2>2
  <2>4. QED BY <1>1, <2>3 DEF IsInjective
<1>6. QED BY <1>4, <1>5 DEF r

(* Taking one out leaves all the others, in a shorter queue.               *)
LEMMA Removed ==
  ASSUME NEW S, NEW q \in Seq(S), IsInjective(q), NEW e \in Range(q)
  PROVE  /\ RemoveFirst(q, e) \in Seq(S)
         /\ Len(RemoveFirst(q, e)) = Len(q) - 1
         /\ Range(RemoveFirst(q, e)) = Range(q) \ {e}
         /\ IsInjective(RemoveFirst(q, e))
<1> DEFINE n == Len(q)
           I == {i \in 1..n : q[i] = e}
<1>1. n \in Nat /\ DOMAIN q = 1..n /\ \A j \in 1..n : q[j] \in S
  OBVIOUS
<1> HIDE DEF n
<1>2. PICK i \in 1..n : q[i] = e
  BY <1>1 DEF Range
<1>3. \A j, k \in 1..n : q[j] = q[k] => j = k
  BY <1>1 DEF IsInjective
<1>4. I = {i}
  BY <1>2, <1>3
<1>5. Min({i}) = i
  BY DEF Min
<1>6. RemoveFirst(q, e) = RemoveAt(q, i)
  BY <1>2, <1>4, <1>5 DEF RemoveFirst, SelectInSeq, n
<1> DEFINE a == SubSeq(q, 1, i - 1)
           b == SubSeq(q, i + 1, n)
<1>7. a \in Seq(S) /\ Len(a) = i - 1 /\ \A j \in 1..(i - 1) : a[j] = q[j]
  BY <1>1, <1>2
<1>8. b \in Seq(S) /\ Len(b) = n - i /\ \A j \in 1..(n - i) : b[j] = q[j + i]
  BY <1>1, <1>2
<1> HIDE DEF a, b
<1> DEFINE r == a \o b
<1>9. r \in Seq(S) /\ Len(r) = n - 1
      /\ \A j \in 1..(n - 1) : r[j] = IF j < i THEN q[j] ELSE q[j + 1]
  <2>1. r \in Seq(S) /\ Len(r) = Len(a) + Len(b)
        /\ \A j \in 1..(Len(a) + Len(b)) : r[j] = IF j <= Len(a) THEN a[j] ELSE b[j - Len(a)]
    BY <1>7, <1>8, ConcatProperties
  <2> HIDE DEF r
  <2>2. ASSUME NEW j \in 1..(n - 1) PROVE r[j] = IF j < i THEN q[j] ELSE q[j + 1]
    <3>1. j \in 1..(Len(a) + Len(b)) /\ (j <= Len(a) <=> j < i)
          /\ (j < i => j \in 1..(i - 1))
          /\ (~(j < i) => j - Len(a) \in 1..(n - i) /\ (j - Len(a)) + i = j + 1)
      BY <1>1, <1>2, <1>7, <1>8
    <3>2. QED BY <2>1, <3>1, <1>7, <1>8
  <2>3. Len(r) = n - 1
    BY <1>1, <1>2, <1>7, <1>8, <2>1
  <2>4. QED BY <2>1, <2>2, <2>3
<1>10. RemoveFirst(q, e) = r
  BY <1>6 DEF RemoveAt, a, b, n
<1> HIDE DEF r
<1>11. DOMAIN r = 1..(n - 1)
  BY <1>9
<1>12. \A j \in 1..(n - 1) : \/ j < i /\ j \in 1..n /\ j # i /\ r[j] = q[j]
                             \/ ~(j < i) /\ j + 1 \in 1..n /\ j + 1 # i /\ r[j] = q[j + 1]
  BY <1>9, <1>1, <1>2
<1>13. \A j \in 1..n : \/ j < i /\ j \in 1..(n - 1) /\ r[j] = q[j]
                       \/ j = i
                       \/ j > i /\ j - 1 \in 1..(n - 1) /\ r[j - 1] = q[j]
  BY <1>9, <1>1, <1>2
<1>14. \A j \in 1..n : j # i => q[j] # e
  BY <1>2, <1>3
<1>15. Range(r) = Range(q) \ {e}
  <2>1. \A j \in 1..(n - 1) : r[j] # e /\ \E k \in 1..n : r[j] = q[k]
    BY <1>12, <1>14
  <2>2. \A j \in 1..n : q[j] = e \/ \E k \in 1..(n - 1) : r[k] = q[j]
    BY <1>13, <1>2
  <2>3. DOMAIN r = 1..(n - 1) /\ DOMAIN q = 1..n
    BY <1>1, <1>11
  <2>4. \A x : x \in Range(r) <=> \E j \in 1..(n - 1) : r[j] = x
    BY <2>3, InRange, Zenon
  <2>5. \A x : x \in Range(q) <=> \E j \in 1..n : q[j] = x
    BY <2>3, InRange, Zenon
  <2>6. \A x : x \in Range(r) <=> x \in Range(q) \ {e}
    BY <2>1, <2>2, <2>4, <2>5
  <2>7. QED BY <2>6, Zenon
<1>16. \A j, k \in 1..(n - 1) : r[j] = r[k] => j = k
  BY <1>12, <1>3, <1>1, <1>2
<1>17. IsInjective(r)
  BY <1>11, <1>16 DEF IsInjective
<1>18. QED BY <1>9, <1>10, <1>15, <1>17 DEF n

(* The same of what is added at the end.                                   *)
LEMMA AddedLast ==
  ASSUME NEW S, NEW q \in Seq(S), NEW e \in S
  PROVE  /\ Append(q, e) \in Seq(S)
         /\ Range(Append(q, e)) = Range(q) \union {e}
         /\ IsInjective(q) /\ e \notin Range(q) => IsInjective(Append(q, e))
<1> DEFINE r == Append(q, e)
           n == Len(q)
<1>1. /\ DOMAIN r = 1..(n + 1) /\ DOMAIN q = 1..n /\ n \in Nat /\ r \in Seq(S)
      /\ \A j \in 1..(n + 1) : r[j] = IF j <= n THEN q[j] ELSE e
  OBVIOUS
<1> HIDE DEF r, n
<1>2. Range(r) = Range(q) \union {e}
  <2>1. n + 1 \in 1..(n + 1) /\ r[n + 1] = e
    BY <1>1
  <2>2. \A j \in 1..n : j \in 1..(n + 1) /\ r[j] = q[j]
    BY <1>1
  <2>3. \A j \in 1..(n + 1) : r[j] = e \/ (j \in 1..n /\ r[j] = q[j])
    BY <1>1
  <2>4. QED BY <1>1, <2>1, <2>2, <2>3 DEF Range
<1>3. ASSUME IsInjective(q), e \notin Range(q) PROVE IsInjective(r)
  <2>1. \A j \in 1..n : q[j] # e
    BY <1>1, <1>3 DEF Range
  <2>2. \A j, k \in 1..n : q[j] = q[k] => j = k
    BY <1>1, <1>3 DEF IsInjective
  <2>3. \A j, k \in 1..(n + 1) : r[j] = r[k] => j = k
    BY <1>1, <2>1, <2>2
  <2>4. QED BY <1>1, <2>3 DEF IsInjective
<1>4. QED BY <1>1, <1>2, <1>3 DEF r

(* Reading the head leaves all the others.                                 *)
LEMMA FirstRead ==
  ASSUME NEW S, NEW q \in Seq(S), q # <<>>, IsInjective(q)
  PROVE  /\ Tail(q) \in Seq(S) /\ Head(q) \in Range(q)
         /\ Range(Tail(q)) = Range(q) \ {Head(q)}
         /\ IsInjective(Tail(q))
<1> DEFINE r == Tail(q)
           n == Len(q)
<1>1. /\ DOMAIN r = 1..(n - 1) /\ DOMAIN q = 1..n /\ n \in Nat \ {0} /\ r \in Seq(S)
      /\ Head(q) = q[1] /\ \A j \in 1..(n - 1) : r[j] = q[j + 1]
  OBVIOUS
<1> HIDE DEF r, n
<1>2. \A j, k \in 1..n : q[j] = q[k] => j = k
  BY <1>1 DEF IsInjective
<1>3. Range(r) = Range(q) \ {q[1]}
  <2>1. \A j \in 1..(n - 1) : j + 1 \in 1..n /\ j + 1 # 1 /\ r[j] = q[j + 1]
    BY <1>1
  <2>2. \A j \in 1..n : j = 1 \/ (j - 1 \in 1..(n - 1) /\ r[j - 1] = q[j])
    BY <1>1
  <2>3. 1 \in 1..n
    BY <1>1
  <2>4. \A j \in 1..(n - 1) : r[j] # q[1] /\ \E k \in 1..n : r[j] = q[k]
    BY <2>1, <2>3, <1>2
  <2>5. \A j \in 1..n : q[j] = q[1] \/ \E k \in 1..(n - 1) : r[k] = q[j]
    BY <2>2
  <2>6. DOMAIN r = 1..(n - 1) /\ DOMAIN q = 1..n
    BY <1>1
  <2>7. \A x : x \in Range(r) <=> \E j \in 1..(n - 1) : r[j] = x
    BY <2>6, InRange, Zenon
  <2>8. \A x : x \in Range(q) <=> \E j \in 1..n : q[j] = x
    BY <2>6, InRange, Zenon
  <2>9. \A x : x \in Range(r) <=> x \in Range(q) \ {q[1]}
    BY <2>4, <2>5, <2>7, <2>8
  <2>10. QED BY <2>9, Zenon
<1>4. \A j, k \in 1..(n - 1) : r[j] = r[k] => j = k
  BY <1>1, <1>2
<1>5. IsInjective(r)
  BY <1>1, <1>4 DEF IsInjective
<1>6. 1 \in 1..n
  BY <1>1
<1>7. QED BY <1>1, <1>3, <1>5, <1>6 DEF r, Range

-----------------------------------------------------------------------------
(* The induction.  A state of the distributor, s, between two changes: each *)
(* garbage is in one place, above its target, and the garbages of active   *)
(* chains hang.                                                            *)
Ids == Nat \ {0}

Made(s) == 1..Len(s.gbs)

Sound(s) ==
  /\ DOMAIN s = {"gbs", "hang", "wait", "active", "due", "sent", "failed"}
  /\ s.gbs \in Seq(GarbageRecord)
  /\ s.due \in Seq(Nat) /\ Len(s.due) = Len(s.gbs)
  /\ s.hang \in [Fields -> Seq(Ids)] /\ s.wait \in [Fields -> Seq(Ids)]
  /\ s.active \in [Fields -> Nat]
  /\ s.sent \in Seq(Message(Ids))
  /\ \A i \in 1..Len(s.sent) : s.sent[i].gb \in Made(s)

Placed(s) ==
  \A f \in Fields :
    /\ IsInjective(s.hang[f]) /\ IsInjective(s.wait[f])
    /\ \A g \in Range(s.hang[f]) :
         /\ g \in Made(s) /\ s.gbs[g].to = f /\ g \notin Range(s.wait[f])
         /\ s.gbs[g].type = "COMBO" => s.gbs[g].size <= Width
    /\ \A g \in Range(s.wait[f]) : g \in Made(s) /\ s.gbs[g].to = f

ChainsHang(s) ==
  \A f \in Fields :
    s.active[f] # 0 =>
      LET gb == s.gbs[s.active[f]]
      IN  /\ s.active[f] \in Made(s)
          /\ gb.from = f /\ gb.type = "CHAIN" /\ s.active[f] \in Range(s.hang[gb.to])

(* A view of the client that has read everything: what ViewFollows says,   *)
(* of each garbage ever made, and its drops.                               *)
Mirrors(s, v) ==
  /\ DOMAIN v = {"hang", "wait", "gbs", "up", "gone", "error"}
  /\ v.hang \in [Fields -> Seq(Ids)] /\ v.wait \in [Fields -> Seq(Ids)]
  /\ DOMAIN v.gbs = Made(s)
  /\ \A g \in Made(s) : v.gbs[g] = [to |-> s.gbs[g].to, size |-> s.gbs[g].size]
  /\ \A f \in Fields :
       /\ IsInjective(v.hang[f])
       /\ Range(v.hang[f]) = Range(s.hang[f])
       /\ Len(v.hang[f]) = Len(s.hang[f])
       /\ f # Me => v.wait[f] = s.wait[f]
  /\ v.up = s.wait[Me]
  /\ v.error = ""

Follows(s, v) == Sound(s) /\ Placed(s) /\ ChainsHang(s) /\ Mirrors(s, v)

(* Only the queues and the garbages tell where they are.                   *)
LEMMA PlacedAlike ==
  \A s, n : Placed(s) /\ n.hang = s.hang /\ n.wait = s.wait /\ n.gbs = s.gbs => Placed(n)
<1> SUFFICES ASSUME NEW s, NEW n, Placed(s), n.hang = s.hang, n.wait = s.wait, n.gbs = s.gbs,
                    NEW h \in Fields
             PROVE  /\ IsInjective(n.hang[h]) /\ IsInjective(n.wait[h])
                    /\ \A g \in Range(n.hang[h]) :
                         /\ g \in Made(n) /\ n.gbs[g].to = h /\ g \notin Range(n.wait[h])
                         /\ n.gbs[g].type = "COMBO" => n.gbs[g].size <= Width
                    /\ \A g \in Range(n.wait[h]) : g \in Made(n) /\ n.gbs[g].to = h
  BY DEF Placed
<1>1. n.hang[h] = s.hang[h] /\ n.wait[h] = s.wait[h] /\ Made(n) = Made(s)
  BY DEF Made
<1>2. IsInjective(n.hang[h]) /\ IsInjective(n.wait[h])
  BY <1>1, Zenon DEF Placed
<1>3. ASSUME NEW g \in Range(n.hang[h])
      PROVE  /\ g \in Made(n) /\ n.gbs[g].to = h /\ g \notin Range(n.wait[h])
             /\ n.gbs[g].type = "COMBO" => n.gbs[g].size <= Width
  <2>1. g \in Range(s.hang[h])
    BY <1>1, <1>3
  <2>2. /\ g \in Made(s) /\ s.gbs[g].to = h /\ g \notin Range(s.wait[h])
        /\ s.gbs[g].type = "COMBO" => s.gbs[g].size <= Width
    BY <2>1, Zenon DEF Placed
  <2>3. QED BY <2>2, <1>1
<1>4. ASSUME NEW g \in Range(n.wait[h]) PROVE g \in Made(n) /\ n.gbs[g].to = h
  <2>1. g \in Range(s.wait[h])
    BY <1>1, <1>4
  <2>2. g \in Made(s) /\ s.gbs[g].to = h
    BY <2>1, Zenon DEF Placed
  <2>3. QED BY <2>2, <1>1
<1>5. QED BY <1>2, <1>3, <1>4

(* Where a garbage goes: somewhere among those that hang, or after them.   *)
LEMMA PositionInside ==
  \A s, to, type :
    Sound(s) /\ to \in Fields => Position(s, to, type) \in 0..Len(s.hang[to])
<1> SUFFICES ASSUME NEW s, NEW to \in Fields, NEW type, Sound(s)
             PROVE  Position(s, to, type) \in 0..Len(s.hang[to])
  OBVIOUS
<1> DEFINE q == s.hang[to]
           chains == {i \in DOMAIN q : s.gbs[q[i]].type = "CHAIN"}
<1>1. q \in Seq(Ids)
  BY DEF Sound
<1> HIDE DEF q
<1>2. DOMAIN q = 1..Len(q) /\ Len(q) \in Nat
  BY <1>1
<1>3. CASE type = "CHAIN" /\ chains # {}
  <2>1. chains \in SUBSET (1..Len(q))
    BY <1>2
  <2>2. Min(chains) \in chains
    <3> HIDE DEF chains
    <3>1. chains \in SUBSET Nat
      BY <2>1
    <3>2. \E x \in chains : \A y \in chains : x <= y
      BY <3>1, <1>3, LeastNatural
    <3>3. QED BY <3>2 DEF Min
  <2>3. Min(chains) \in 1..Len(q)
    BY <2>1, <2>2
  <2>4. Position(s, to, type) = Min(chains) - 1
    BY <1>3 DEF Position, q
  <2>5. Min(chains) - 1 \in 0..Len(q)
    <3> HIDE DEF chains
    <3>1. QED BY <2>3, <1>2
  <2>6. QED BY <2>4, <2>5, Zenon DEF q
<1>4. CASE ~(type = "CHAIN" /\ chains # {})
  <2>1. Position(s, to, type) = Len(q)
    BY <1>4 DEF Position, q
  <2>2. QED BY <2>1, <1>2 DEF q
<1>5. QED BY <1>3, <1>4

(* What a new garbage changes, part by part.                               *)
NewMessage(s, from, to, type, size) ==
  [type |-> "NEW", gb |-> Len(s.gbs) + 1, from |-> from, to |-> to,
   pos |-> Position(s, to, type), size |-> size]

NewMade(s, from, to, type, size, drop, n) ==
  LET id == Len(s.gbs) + 1
  IN  /\ DOMAIN n = DOMAIN s
      /\ n.gbs = Append(s.gbs, [from |-> from, to |-> to, type |-> type, size |-> size])
      /\ n.due = Append(s.due, drop)
      /\ n.hang = [s.hang EXCEPT ![to] =
                     InsertAt(s.hang[to], Position(s, to, type) + 1, id)]
      /\ n.wait = s.wait
      /\ n.active = [s.active EXCEPT ![from] = IF type = "CHAIN" THEN id ELSE @]
      /\ n.sent = Append(s.sent, NewMessage(s, from, to, type, size))
      /\ n.failed = s.failed

(* newGarbage with the calls it makes does just this.                      *)
LEMMA NewGarbageDoes ==
  \A s, from, to, type, size :
    Sound(s) /\ from \in Fields /\ to \in Fields =>
      NewMade(s, from, to, type, size, tick'[to] + HangTk,
              NewGarbage(s, from, to, type, size))
BY DEF NewGarbage, AddGarbage, InsertHangingGarbage, NextGarbageId, NewMessage, Sound, NewMade

NewRead(s, v, to, type, size, w) ==
  LET id == Len(s.gbs) + 1
  IN  /\ DOMAIN w = DOMAIN v
      /\ w.hang = [v.hang EXCEPT ![to] =
                     InsertAt(v.hang[to], Position(s, to, type) + 1, id)]
      /\ w.wait = v.wait
      /\ DOMAIN w.gbs = DOMAIN v.gbs \union {id}
      /\ \A g \in DOMAIN w.gbs :
           w.gbs[g] = IF g = id THEN [to |-> to, size |-> size] ELSE v.gbs[g]
      /\ w.up = v.up /\ w.gone = v.gone /\ w.error = ""

(* A client that mirrors the distributor takes its position for good, and  *)
(* does this.                                                              *)
LEMMA OnNewDoes ==
  \A s, v, from, to, type, size :
    /\ Sound(s) /\ Mirrors(s, v) /\ to \in Fields
    /\ from \notin v.gone /\ to \notin v.gone
    => NewRead(s, v, to, type, size, On(v, NewMessage(s, from, to, type, size)))
<1> SUFFICES ASSUME NEW s, NEW v, NEW from, NEW to \in Fields, NEW type, NEW size,
                    Sound(s), Mirrors(s, v), from \notin v.gone, to \notin v.gone
             PROVE  NewRead(s, v, to, type, size, On(v, NewMessage(s, from, to, type, size)))
  OBVIOUS
<1> DEFINE p == Position(s, to, type)
           id == Len(s.gbs) + 1
           m == NewMessage(s, from, to, type, size)
<1>1. p \in 0..Len(s.hang[to])
  BY PositionInside
<1> HIDE DEF p
<1>2. Len(v.hang[to]) = Len(s.hang[to]) /\ v.hang[to] \in Seq(Ids)
  BY DEF Mirrors
<1>3. ~(p > Len(v.hang[to]))
  BY <1>1, <1>2
<1>4. m.type = "NEW" /\ m.gb = id /\ m.from = from /\ m.to = to /\ m.pos = p /\ m.size = size
  BY DEF NewMessage, p
<1> HIDE DEF m, id
<1>5. v.error = ""
  BY DEF Mirrors
<1>6. On(v, m) = OnNew(v, m)
  BY <1>4, <1>5 DEF On
<1>7. OnNew(v, m) = [AddGarbage(v, to, id, p) EXCEPT
          !.gbs = [g \in DOMAIN @ \union {id} |->
                     IF g = id THEN [to |-> to, size |-> size] ELSE @[g]]]
  BY <1>3, <1>4 DEF OnNew
<1> DEFINE w == On(v, m)
<1>8. /\ DOMAIN v = {"hang", "wait", "gbs", "up", "gone", "error"}
      /\ v.hang \in [Fields -> Seq(Ids)]
  BY DEF Mirrors
<1>9. /\ DOMAIN w = DOMAIN v
      /\ w.hang = [v.hang EXCEPT ![to] = InsertAt(v.hang[to], p + 1, id)]
      /\ w.wait = v.wait
      /\ w.gbs = [g \in DOMAIN v.gbs \union {id} |->
                     IF g = id THEN [to |-> to, size |-> size] ELSE v.gbs[g]]
      /\ w.up = v.up /\ w.error = v.error /\ w.gone = v.gone
  BY <1>6, <1>7, <1>8 DEF AddGarbage, InsertHangingGarbage
<1> HIDE DEF w
<1>10. QED BY <1>9, <1>5 DEF w, m, id, p, NewRead

(* The former garbages are as they were, and the new one is after them.    *)
LEMMA NewRecords ==
  \A s, from, to, type, size, drop, n :
    /\ Sound(s)
    /\ NewMade(s, from, to, type, size, drop, n)
    /\ [from |-> from, to |-> to, type |-> type, size |-> size] \in GarbageRecord
    => /\ n.gbs \in Seq(GarbageRecord) /\ Len(n.gbs) = Len(s.gbs) + 1
       /\ \A g \in Made(s) : g \in Made(n) /\ n.gbs[g] = s.gbs[g] /\ g # Len(s.gbs) + 1
       /\ \A g \in Made(n) : g \in Made(s) \/ g = Len(s.gbs) + 1
       /\ Len(s.gbs) + 1 \in Made(n) /\ Len(s.gbs) + 1 \in Ids
       /\ n.gbs[Len(s.gbs) + 1] = [from |-> from, to |-> to, type |-> type, size |-> size]
<1> SUFFICES ASSUME NEW s, NEW from, NEW to, NEW type, NEW size, NEW drop, NEW n,
                    Sound(s), NewMade(s, from, to, type, size, drop, n),
                    [from |-> from, to |-> to, type |-> type, size |-> size] \in GarbageRecord
             PROVE  /\ n.gbs \in Seq(GarbageRecord) /\ Len(n.gbs) = Len(s.gbs) + 1
                    /\ \A g \in Made(s) : g \in Made(n) /\ n.gbs[g] = s.gbs[g] /\ g # Len(s.gbs) + 1
                    /\ \A g \in Made(n) : g \in Made(s) \/ g = Len(s.gbs) + 1
                    /\ Len(s.gbs) + 1 \in Made(n) /\ Len(s.gbs) + 1 \in Ids
                    /\ n.gbs[Len(s.gbs) + 1] = [from |-> from, to |-> to, type |-> type, size |-> size]
  OBVIOUS
<1> DEFINE r == [from |-> from, to |-> to, type |-> type, size |-> size]
           q == s.gbs
<1>1. n.gbs = Append(q, r) /\ r \in GarbageRecord /\ q \in Seq(GarbageRecord)
  BY DEF NewMade, Sound
<1> HIDE DEF r, q
<1>2. Append(q, r) \in Seq(GarbageRecord) /\ Len(Append(q, r)) = Len(q) + 1 /\ Len(q) \in Nat
      /\ \A g \in 1..Len(q) : Append(q, r)[g] = q[g]
      /\ Append(q, r)[Len(q) + 1] = r
  BY <1>1
<1>3. QED BY <1>1, <1>2 DEF q, r, Made, Ids

(* A new garbage keeps the state typed, its messages about garbages that   *)
(* are made.                                                               *)
LEMMA NewSound ==
  \A s, from, to, type, size, drop, n :
    /\ Sound(s)
    /\ NewMade(s, from, to, type, size, drop, n)
    /\ [from |-> from, to |-> to, type |-> type, size |-> size] \in GarbageRecord
    /\ drop \in Nat
    => Sound(n)
<1> SUFFICES ASSUME NEW s, NEW from, NEW to, NEW type, NEW size, NEW drop \in Nat, NEW n,
                    Sound(s), NewMade(s, from, to, type, size, drop, n),
                    [from |-> from, to |-> to, type |-> type, size |-> size] \in GarbageRecord
             PROVE  Sound(n)
  OBVIOUS
<1> DEFINE id == Len(s.gbs) + 1
           p == Position(s, to, type)
           m == NewMessage(s, from, to, type, size)
<1>1. from \in Fields /\ to \in Fields /\ type \in Types /\ size \in Nat \ {0}
  BY DEF GarbageRecord
<1>2. /\ n.gbs \in Seq(GarbageRecord) /\ Len(n.gbs) = Len(s.gbs) + 1
      /\ \A g \in Made(s) : g \in Made(n)
      /\ id \in Made(n) /\ id \in Ids
  BY NewRecords
<1>3. p \in 0..Len(s.hang[to])
  BY <1>1, PositionInside
<1>4. n.hang \in [Fields -> Seq(Ids)]
  <2>1. s.hang \in [Fields -> Seq(Ids)] /\ s.hang[to] \in Seq(Ids)
    BY <1>1 DEF Sound
  <2>2. p + 1 \in 1..(Len(s.hang[to]) + 1)
    BY <1>3, <2>1
  <2>3. InsertAt(s.hang[to], p + 1, id) \in Seq(Ids)
    BY <2>1, <2>2, <1>2, Inserted
  <2>4. n.hang = [s.hang EXCEPT ![to] = InsertAt(s.hang[to], p + 1, id)]
    BY DEF NewMade
  <2>5. QED BY <2>1, <2>3, <2>4, <1>1
<1>5. n.due \in Seq(Nat) /\ Len(n.due) = Len(n.gbs)
  <2>1. n.due = Append(s.due, drop) /\ s.due \in Seq(Nat) /\ Len(s.due) = Len(s.gbs)
    BY DEF NewMade, Sound
  <2>2. QED BY <2>1, <1>2
<1>6. n.active \in [Fields -> Nat]
  BY <1>1, <1>2 DEF NewMade, Sound, Ids
<1>7. n.wait \in [Fields -> Seq(Ids)] /\ DOMAIN n = DOMAIN s
  BY DEF NewMade, Sound
<1>8. m \in Message(Ids) /\ m.gb = id
  <2>1. p \in Nat
    BY <1>3
  <2>2. m = [type |-> "NEW", gb |-> id, from |-> from, to |-> to, pos |-> p, size |-> size]
    BY DEF NewMessage
  <2> HIDE DEF p, id, m
  <2>3. QED BY <2>1, <2>2, <1>1, <1>2 DEF Message
<1>9. n.sent \in Seq(Message(Ids)) /\ \A i \in 1..Len(n.sent) : n.sent[i].gb \in Made(n)
  <2>1. n.sent = Append(s.sent, m) /\ s.sent \in Seq(Message(Ids))
        /\ \A i \in 1..Len(s.sent) : s.sent[i].gb \in Made(s)
    BY DEF NewMade, Sound
  <2> HIDE DEF m, id
  <2>2. Append(s.sent, m) \in Seq(Message(Ids)) /\ Len(Append(s.sent, m)) = Len(s.sent) + 1
        /\ \A i \in 1..(Len(s.sent) + 1) :
             Append(s.sent, m)[i] = IF i <= Len(s.sent) THEN s.sent[i] ELSE m
    BY <2>1, <1>8
  <2>3. \A i \in 1..(Len(s.sent) + 1) : i <= Len(s.sent) => i \in 1..Len(s.sent)
    BY <2>1
  <2>4. QED BY <2>1, <2>2, <2>3, <1>2, <1>8
<1>10. QED BY <1>2, <1>4, <1>5, <1>6, <1>7, <1>9 DEF Sound

(* It is among those above its target, once.                               *)
LEMMA NewAmong ==
  \A s, from, to, type, size, drop, n :
    /\ Sound(s) /\ Placed(s)
    /\ NewMade(s, from, to, type, size, drop, n)
    /\ [from |-> from, to |-> to, type |-> type, size |-> size] \in GarbageRecord
    => /\ \A f \in Fields \ {to} : n.hang[f] = s.hang[f]
       /\ IsInjective(n.hang[to])
       /\ Range(n.hang[to]) = Range(s.hang[to]) \union {Len(s.gbs) + 1}
       /\ Len(n.hang[to]) = Len(s.hang[to]) + 1
<1> SUFFICES ASSUME NEW s, NEW from, NEW to, NEW type, NEW size, NEW drop, NEW n,
                    Sound(s), Placed(s), NewMade(s, from, to, type, size, drop, n),
                    [from |-> from, to |-> to, type |-> type, size |-> size] \in GarbageRecord
             PROVE  /\ \A f \in Fields \ {to} : n.hang[f] = s.hang[f]
                    /\ IsInjective(n.hang[to])
                    /\ Range(n.hang[to]) = Range(s.hang[to]) \union {Len(s.gbs) + 1}
                    /\ Len(n.hang[to]) = Len(s.hang[to]) + 1
  OBVIOUS
<1> DEFINE id == Len(s.gbs) + 1
           p == Position(s, to, type)
           q == s.hang[to]
<1>1. to \in Fields
  BY DEF GarbageRecord
<1>2. id \in Ids /\ \A g \in Made(s) : g # id
  BY NewRecords
<1>3. q \in Seq(Ids) /\ s.hang \in [Fields -> Seq(Ids)]
  BY <1>1 DEF Sound
<1>4. p \in 0..Len(q)
  BY <1>1, PositionInside
<1>5. n.hang = [s.hang EXCEPT ![to] = InsertAt(q, p + 1, id)]
  BY DEF NewMade
<1>6. IsInjective(q) /\ id \notin Range(q)
  BY <1>1, <1>2 DEF Placed
<1> HIDE DEF q, p, id
<1>7. p + 1 \in 1..(Len(q) + 1)
  BY <1>3, <1>4
<1>8. /\ Len(InsertAt(q, p + 1, id)) = Len(q) + 1
      /\ Range(InsertAt(q, p + 1, id)) = Range(q) \union {id}
      /\ IsInjective(InsertAt(q, p + 1, id))
  BY <1>2, <1>3, <1>6, <1>7, Inserted, InsertedAmong
<1>9. n.hang[to] = InsertAt(q, p + 1, id) /\ \A f \in Fields \ {to} : n.hang[f] = s.hang[f]
  BY <1>1, <1>3, <1>5
<1>10. QED BY <1>8, <1>9 DEF q, id

(* So each garbage still is in one place.                                  *)
LEMMA NewPlaced ==
  \A s, from, to, type, size, drop, n :
    /\ Sound(s) /\ Placed(s)
    /\ NewMade(s, from, to, type, size, drop, n)
    /\ [from |-> from, to |-> to, type |-> type, size |-> size] \in GarbageRecord
    /\ type = "COMBO" => size <= Width
    => Placed(n)
<1> SUFFICES ASSUME NEW s, NEW from, NEW to, NEW type, NEW size, NEW drop, NEW n,
                    Sound(s), Placed(s), NewMade(s, from, to, type, size, drop, n),
                    [from |-> from, to |-> to, type |-> type, size |-> size] \in GarbageRecord,
                    type = "COMBO" => size <= Width
             PROVE  Placed(n)
  OBVIOUS
<1> DEFINE id == Len(s.gbs) + 1
<1>1. /\ \A g \in Made(s) : g \in Made(n) /\ n.gbs[g] = s.gbs[g] /\ g # id
      /\ id \in Made(n)
      /\ n.gbs[id] = [from |-> from, to |-> to, type |-> type, size |-> size]
  BY NewRecords
<1>2. /\ \A f \in Fields \ {to} : n.hang[f] = s.hang[f]
      /\ IsInjective(n.hang[to])
      /\ Range(n.hang[to]) = Range(s.hang[to]) \union {id}
  BY NewAmong
<1>3. n.wait = s.wait
  BY DEF NewMade
<1>4. n.gbs[id].to = to /\ n.gbs[id].type = type /\ n.gbs[id].size = size
  BY <1>1
<1> HIDE DEF id
<1>5. ASSUME NEW f \in Fields
      PROVE  /\ IsInjective(n.hang[f]) /\ IsInjective(n.wait[f])
             /\ \A g \in Range(n.hang[f]) :
                  /\ g \in Made(n) /\ n.gbs[g].to = f /\ g \notin Range(n.wait[f])
                  /\ n.gbs[g].type = "COMBO" => n.gbs[g].size <= Width
             /\ \A g \in Range(n.wait[f]) : g \in Made(n) /\ n.gbs[g].to = f
  <2>1. /\ IsInjective(s.hang[f]) /\ IsInjective(s.wait[f])
        /\ \A g \in Range(s.hang[f]) :
             /\ g \in Made(s) /\ s.gbs[g].to = f /\ g \notin Range(s.wait[f])
             /\ s.gbs[g].type = "COMBO" => s.gbs[g].size <= Width
        /\ \A g \in Range(s.wait[f]) : g \in Made(s) /\ s.gbs[g].to = f
    BY DEF Placed
  <2>2. CASE f # to
    BY <1>1, <1>2, <1>3, <2>1, <2>2
  <2>3. CASE f = to
    <3>1. IsInjective(n.hang[f]) /\ IsInjective(n.wait[f])
      BY <1>2, <1>3, <2>1, <2>3
    <3>2. ASSUME NEW g \in Range(n.hang[f])
          PROVE  /\ g \in Made(n) /\ n.gbs[g].to = f /\ g \notin Range(n.wait[f])
                 /\ n.gbs[g].type = "COMBO" => n.gbs[g].size <= Width
      <4>1. g = id \/ g \in Range(s.hang[f])
        BY <1>2, <2>3
      <4>2. CASE g = id
        BY <4>2, <1>1, <1>3, <1>4, <2>1, <2>3
      <4>3. CASE g \in Range(s.hang[f])
        BY <4>3, <1>1, <1>3, <2>1
      <4>4. QED BY <4>1, <4>2, <4>3
    <3>3. \A g \in Range(n.wait[f]) : g \in Made(n) /\ n.gbs[g].to = f
      BY <1>1, <1>3, <2>1
    <3>4. QED BY <3>1, <3>2, <3>3
  <2>4. QED BY <2>2, <2>3
<1>6. QED BY <1>5 DEF Placed

(* The garbages of active chains hang, the new one with them.              *)
LEMMA NewChainsHang ==
  \A s, from, to, type, size, drop, n :
    /\ Sound(s) /\ Placed(s) /\ ChainsHang(s)
    /\ NewMade(s, from, to, type, size, drop, n)
    /\ [from |-> from, to |-> to, type |-> type, size |-> size] \in GarbageRecord
    => ChainsHang(n)
<1> SUFFICES ASSUME NEW s, NEW from, NEW to, NEW type, NEW size, NEW drop, NEW n,
                    Sound(s), Placed(s), ChainsHang(s),
                    NewMade(s, from, to, type, size, drop, n),
                    [from |-> from, to |-> to, type |-> type, size |-> size] \in GarbageRecord
             PROVE  ChainsHang(n)
  OBVIOUS
<1> DEFINE id == Len(s.gbs) + 1
<1>1. /\ \A g \in Made(s) : g \in Made(n) /\ n.gbs[g] = s.gbs[g] /\ g # id
      /\ id \in Made(n)
      /\ n.gbs[id] = [from |-> from, to |-> to, type |-> type, size |-> size]
  BY NewRecords
<1>2. /\ \A f \in Fields \ {to} : n.hang[f] = s.hang[f]
      /\ Range(n.hang[to]) = Range(s.hang[to]) \union {id}
  BY NewAmong
<1>3. n.active = [s.active EXCEPT ![from] = IF type = "CHAIN" THEN id ELSE @]
      /\ s.active \in [Fields -> Nat]
  BY DEF NewMade, Sound
<1>4. n.gbs[id].from = from /\ n.gbs[id].to = to /\ n.gbs[id].type = type
  BY <1>1
<1>5. from \in Fields /\ to \in Fields
  BY DEF GarbageRecord
<1> HIDE DEF id
<1>6. ASSUME NEW f \in Fields, n.active[f] # 0
      PROVE  /\ n.active[f] \in Made(n)
             /\ n.gbs[n.active[f]].from = f /\ n.gbs[n.active[f]].type = "CHAIN"
             /\ n.active[f] \in Range(n.hang[n.gbs[n.active[f]].to])
  <2>1. CASE f = from /\ type = "CHAIN"
    <3>1. n.active[f] = id
      BY <1>3, <2>1
    <3>2. QED BY <3>1, <2>1, <1>1, <1>2, <1>4
  <2>2. CASE ~(f = from /\ type = "CHAIN")
    <3>1. n.active[f] = s.active[f]
      BY <1>3, <2>2
    <3> DEFINE a == s.active[f]
               t == s.gbs[s.active[f]].to
    <3>2. a \in Made(s) /\ s.gbs[a].from = f /\ s.gbs[a].type = "CHAIN" /\ a \in Range(s.hang[t])
      BY <3>1, <1>6 DEF ChainsHang
    <3>3. t \in Fields
      <4>1. s.gbs \in Seq(GarbageRecord)
        BY DEF Sound
      <4>2. s.gbs[a] \in GarbageRecord
        BY <3>2, <4>1 DEF Made
      <4>3. QED BY <4>2 DEF GarbageRecord
    <3>4. n.gbs[a] = s.gbs[a] /\ a \in Made(n)
      BY <3>2, <1>1
    <3> HIDE DEF a
    <3>5. a \in Range(n.hang[t])
      <4> HIDE DEF t
      <4>1. QED BY <3>2, <3>3, <1>2
    <3>6. n.active[f] = a /\ s.gbs[a].to = t
      BY <3>1 DEF a
    <3> HIDE DEF t
    <3>7. QED BY <3>2, <3>4, <3>5, <3>6
  <2>3. QED BY <2>1, <2>2
<1>7. QED BY <1>6 DEF ChainsHang

(* The client that reads the message mirrors the distributor again.        *)
LEMMA NewMirrors ==
  \A s, v, from, to, type, size, drop, n, w :
    /\ Sound(s) /\ Placed(s) /\ Mirrors(s, v)
    /\ NewMade(s, from, to, type, size, drop, n)
    /\ NewRead(s, v, to, type, size, w)
    /\ [from |-> from, to |-> to, type |-> type, size |-> size] \in GarbageRecord
    => Mirrors(n, w)
<1> SUFFICES ASSUME NEW s, NEW v, NEW from, NEW to, NEW type, NEW size, NEW drop, NEW n, NEW w,
                    Sound(s), Placed(s), Mirrors(s, v),
                    NewMade(s, from, to, type, size, drop, n),
                    NewRead(s, v, to, type, size, w),
                    [from |-> from, to |-> to, type |-> type, size |-> size] \in GarbageRecord
             PROVE  Mirrors(n, w)
  OBVIOUS
<1> DEFINE id == Len(s.gbs) + 1
           p == Position(s, to, type)
           q == v.hang[to]
<1>1. /\ \A g \in Made(s) : g \in Made(n) /\ n.gbs[g] = s.gbs[g] /\ g # id
      /\ \A g \in Made(n) : g \in Made(s) \/ g = id
      /\ id \in Made(n) /\ id \in Ids
      /\ n.gbs[id] = [from |-> from, to |-> to, type |-> type, size |-> size]
  BY NewRecords
<1>2. /\ \A f \in Fields \ {to} : n.hang[f] = s.hang[f]
      /\ Range(n.hang[to]) = Range(s.hang[to]) \union {id}
      /\ Len(n.hang[to]) = Len(s.hang[to]) + 1
  BY NewAmong
<1>3. to \in Fields
  BY DEF GarbageRecord
<1>4. /\ DOMAIN v = {"hang", "wait", "gbs", "up", "gone", "error"}
      /\ v.hang \in [Fields -> Seq(Ids)] /\ v.wait \in [Fields -> Seq(Ids)]
      /\ DOMAIN v.gbs = Made(s)
      /\ \A g \in Made(s) : v.gbs[g] = [to |-> s.gbs[g].to, size |-> s.gbs[g].size]
      /\ \A f \in Fields :
           /\ IsInjective(v.hang[f])
           /\ Range(v.hang[f]) = Range(s.hang[f])
           /\ Len(v.hang[f]) = Len(s.hang[f])
           /\ f # Me => v.wait[f] = s.wait[f]
      /\ v.up = s.wait[Me]
  BY DEF Mirrors
<1>5. /\ DOMAIN w = DOMAIN v
      /\ w.hang = [v.hang EXCEPT ![to] = InsertAt(v.hang[to], p + 1, id)]
      /\ w.wait = v.wait
      /\ DOMAIN w.gbs = DOMAIN v.gbs \union {id}
      /\ \A g \in DOMAIN w.gbs :
           w.gbs[g] = IF g = id THEN [to |-> to, size |-> size] ELSE v.gbs[g]
      /\ w.up = v.up /\ w.gone = v.gone /\ w.error = ""
  BY DEF NewRead
<1>6. n.wait = s.wait
  BY DEF NewMade
<1>7. p \in 0..Len(s.hang[to])
  BY <1>3, PositionInside
<1>8. q \in Seq(Ids) /\ IsInjective(q) /\ Range(q) = Range(s.hang[to]) /\ Len(q) = Len(s.hang[to])
      /\ id \notin Range(q)
  BY <1>1, <1>3, <1>4 DEF Placed
<1>9. w.hang[to] = InsertAt(q, p + 1, id) /\ \A f \in Fields \ {to} : w.hang[f] = v.hang[f]
  BY <1>3, <1>4, <1>5
<1> HIDE DEF id, p, q
<1>10. p + 1 \in 1..(Len(q) + 1)
  BY <1>7, <1>8
<1>11. /\ w.hang[to] \in Seq(Ids) /\ Len(w.hang[to]) = Len(q) + 1
       /\ Range(w.hang[to]) = Range(q) \union {id}
       /\ IsInjective(w.hang[to])
  BY <1>1, <1>8, <1>9, <1>10, Inserted, InsertedAmong
<1>12. w.hang \in [Fields -> Seq(Ids)]
  <2>1. InsertAt(v.hang[to], p + 1, id) \in Seq(Ids)
    BY <1>9, <1>11 DEF q
  <2>2. QED BY <2>1, <1>3, <1>4, <1>5
<1>13. DOMAIN w.gbs = Made(n)
  BY <1>1, <1>4, <1>5
<1>14. ASSUME NEW g \in Made(n)
       PROVE  w.gbs[g] = [to |-> n.gbs[g].to, size |-> n.gbs[g].size]
  <2>1. CASE g = id
    <3>1. n.gbs[g].to = to /\ n.gbs[g].size = size
      BY <2>1, <1>1
    <3>2. w.gbs[g] = [to |-> to, size |-> size]
      BY <2>1, <1>1, <1>5, <1>13
    <3>3. QED BY <3>1, <3>2
  <2>2. CASE g # id
    <3>1. g \in Made(s)
      BY <2>2, <1>1
    <3>2. w.gbs[g] = v.gbs[g]
      BY <2>2, <1>5, <1>13
    <3>3. n.gbs[g] = s.gbs[g] /\ v.gbs[g] = [to |-> s.gbs[g].to, size |-> s.gbs[g].size]
      BY <3>1, <1>1, <1>4
    <3>4. QED BY <3>2, <3>3
  <2>3. QED BY <2>1, <2>2
<1>15. ASSUME NEW f \in Fields
       PROVE  /\ IsInjective(w.hang[f])
              /\ Range(w.hang[f]) = Range(n.hang[f])
              /\ Len(w.hang[f]) = Len(n.hang[f])
              /\ f # Me => w.wait[f] = n.wait[f]
  <2>1. CASE f = to
    BY <2>1, <1>2, <1>4, <1>5, <1>6, <1>8, <1>11
  <2>2. CASE f # to
    BY <2>2, <1>2, <1>4, <1>5, <1>6, <1>9
  <2>3. QED BY <2>1, <2>2
<1>16. QED BY <1>4, <1>5, <1>6, <1>12, <1>13, <1>14, <1>15 DEF Mirrors

(* A new garbage and the message about it.                                 *)
LEMMA NewFollows ==
  \A s, v, from, to, type, size :
    /\ Follows(s, v)
    /\ [from |-> from, to |-> to, type |-> type, size |-> size] \in GarbageRecord
    /\ type = "COMBO" => size <= Width
    /\ tick'[to] \in Nat
    /\ from \notin v.gone /\ to \notin v.gone
    => /\ Follows(NewGarbage(s, from, to, type, size), On(v, NewMessage(s, from, to, type, size)))
       /\ NewMade(s, from, to, type, size, tick'[to] + HangTk,
                  NewGarbage(s, from, to, type, size))
       /\ On(v, NewMessage(s, from, to, type, size)).gone = v.gone
<1> SUFFICES ASSUME NEW s, NEW v, NEW from, NEW to, NEW type, NEW size, Follows(s, v),
                    [from |-> from, to |-> to, type |-> type, size |-> size] \in GarbageRecord,
                    type = "COMBO" => size <= Width,
                    tick'[to] \in Nat, from \notin v.gone, to \notin v.gone
             PROVE  /\ Follows(NewGarbage(s, from, to, type, size),
                               On(v, NewMessage(s, from, to, type, size)))
                    /\ NewMade(s, from, to, type, size, tick'[to] + HangTk,
                               NewGarbage(s, from, to, type, size))
                    /\ On(v, NewMessage(s, from, to, type, size)).gone = v.gone
  OBVIOUS
<1> DEFINE n == NewGarbage(s, from, to, type, size)
           w == On(v, NewMessage(s, from, to, type, size))
           drop == tick'[to] + HangTk
<1>1. Sound(s) /\ Placed(s) /\ ChainsHang(s) /\ Mirrors(s, v)
  BY DEF Follows
<1>2. from \in Fields /\ to \in Fields
  BY DEF GarbageRecord
<1>3. drop \in Nat
  BY HangAssumption
<1>4. NewMade(s, from, to, type, size, drop, n)
  BY <1>1, <1>2, NewGarbageDoes
<1>5. NewRead(s, v, to, type, size, w)
  BY <1>1, <1>2, OnNewDoes
<1> HIDE DEF n, w, drop
<1>6. Sound(n)
  BY <1>1, <1>3, <1>4, NewSound
<1>7. Placed(n)
  BY <1>1, <1>4, NewPlaced
<1>8. ChainsHang(n)
  BY <1>1, <1>4, NewChainsHang
<1>9. Mirrors(n, w)
  BY <1>1, <1>4, <1>5, NewMirrors
<1>10. w.gone = v.gone
  BY <1>5 DEF NewRead
<1>11. QED BY <1>4, <1>6, <1>7, <1>8, <1>9, <1>10 DEF Follows, n, w, drop

(* A garbage that is dropped, and the message about it.                    *)
WaitMade(s, f, g, n) ==
  /\ DOMAIN n = DOMAIN s
  /\ n.gbs = s.gbs /\ n.due = s.due /\ n.active = s.active /\ n.failed = s.failed
  /\ n.hang = [s.hang EXCEPT ![f] = RemoveFirst(s.hang[f], g)]
  /\ n.wait = [s.wait EXCEPT ![f] = Append(s.wait[f], g)]
  /\ n.sent = Append(s.sent, [type |-> "WAIT", gb |-> g])

WaitRead(v, f, g, w) ==
  /\ DOMAIN w = DOMAIN v
  /\ w.gbs = v.gbs /\ w.error = v.error /\ w.gone = v.gone
  /\ w.hang = [v.hang EXCEPT ![f] = RemoveFirst(v.hang[f], g)]
  /\ w.wait = IF f = Me THEN v.wait ELSE [v.wait EXCEPT ![f] = Append(v.wait[f], g)]
  /\ w.up = IF f = Me THEN Append(v.up, g) ELSE v.up

(* A garbage that hangs on the server is found by the client.              *)
LEMMA FoundHanging ==
  \A s, v, f, g :
    Sound(s) /\ Placed(s) /\ Mirrors(s, v) /\ f \in Fields /\ g \in Range(s.hang[f]) =>
      Hangs(v, g) /\ v.gbs[g].to = f /\ g \in Made(s) /\ s.gbs[g].to = f
<1> SUFFICES ASSUME NEW s, NEW v, NEW f \in Fields, NEW g \in Range(s.hang[f]),
                    Sound(s), Placed(s), Mirrors(s, v)
             PROVE  Hangs(v, g) /\ v.gbs[g].to = f /\ g \in Made(s) /\ s.gbs[g].to = f
  OBVIOUS
<1>1. g \in Made(s) /\ s.gbs[g].to = f
  BY DEF Placed
<1>2. v.gbs[g] = [to |-> s.gbs[g].to, size |-> s.gbs[g].size] /\ g \in DOMAIN v.gbs
  BY <1>1 DEF Mirrors
<1>3. v.gbs[g].to = f
  BY <1>1, <1>2
<1>4. v.hang[f] \in Seq(Ids) /\ g \in Range(v.hang[f])
  BY DEF Mirrors
<1>5. Contains(v.hang[f], g)
  BY <1>4 DEF Contains, Range
<1>6. QED BY <1>1, <1>2, <1>3, <1>5 DEF Hangs

(* A client that mirrors the distributor finds the garbage, and does this. *)
LEMMA OnWaitDoes ==
  \A s, v, f, g :
    /\ Sound(s) /\ Placed(s) /\ Mirrors(s, v) /\ f \in Fields /\ g \in Range(s.hang[f])
    /\ f \notin v.gone
    => WaitRead(v, f, g, On(v, [type |-> "WAIT", gb |-> g]))
<1> SUFFICES ASSUME NEW s, NEW v, NEW f \in Fields, NEW g \in Range(s.hang[f]),
                    Sound(s), Placed(s), Mirrors(s, v), f \notin v.gone
             PROVE  WaitRead(v, f, g, On(v, [type |-> "WAIT", gb |-> g]))
  OBVIOUS
<1> DEFINE m == [type |-> "WAIT", gb |-> g]
<1>1. m.type = "WAIT" /\ m.gb = g
  OBVIOUS
<1> HIDE DEF m
<1>2. Hangs(v, g) /\ v.gbs[g].to = f
  BY FoundHanging
<1>3. /\ DOMAIN v = {"hang", "wait", "gbs", "up", "gone", "error"}
      /\ v.hang \in [Fields -> Seq(Ids)] /\ v.wait \in [Fields -> Seq(Ids)]
      /\ v.error = ""
  BY DEF Mirrors
<1>4. On(v, m) = OnWait(v, m)
  BY <1>1, <1>3 DEF On
<1>5. OnWait(v, m) = IF f = Me THEN [RemoveHangingGarbage(v, f, g) EXCEPT !.up = Append(@, g)]
                     ELSE WaitGarbageDrop(v, f, g)
  BY <1>1, <1>2 DEF OnWait
<1> DEFINE w == On(v, m)
<1>6. ASSUME f = Me PROVE WaitRead(v, f, g, w)
  <2>1. w = [[v EXCEPT !.hang[f] = RemoveFirst(@, g)] EXCEPT !.up = Append(@, g)]
    BY <1>4, <1>5, <1>6 DEF RemoveHangingGarbage
  <2> HIDE DEF w
  <2>2. QED BY <1>3, <1>6, <2>1 DEF WaitRead
<1>7. ASSUME f # Me PROVE WaitRead(v, f, g, w)
  <2>1. w = [[v EXCEPT !.hang[f] = RemoveFirst(@, g)] EXCEPT !.wait[f] = Append(@, g)]
    BY <1>4, <1>5, <1>7 DEF RemoveHangingGarbage, WaitGarbageDrop
  <2> HIDE DEF w
  <2>2. QED BY <1>3, <1>7, <2>1 DEF WaitRead
<1>8. WaitRead(v, f, g, On(v, m))
  <2> HIDE DEF w
  <2>1. WaitRead(v, f, g, w)
    BY <1>6, <1>7
  <2>2. QED BY <2>1 DEF w
<1>9. QED BY <1>8 DEF m

(* A garbage that waits leaves both mirrored, if it is of no active chain. *)
LEMMA WaitFollows ==
  \A s, v, f, g, n, w :
    /\ Follows(s, v) /\ f \in Fields /\ g \in Range(s.hang[f])
    /\ \A h \in Fields : s.active[h] # g
    /\ WaitMade(s, f, g, n) /\ WaitRead(v, f, g, w)
    => Follows(n, w)
<1> SUFFICES ASSUME NEW s, NEW v, NEW f \in Fields, NEW g \in Range(s.hang[f]), NEW n, NEW w,
                    Follows(s, v), \A h \in Fields : s.active[h] # g,
                    WaitMade(s, f, g, n), WaitRead(v, f, g, w)
             PROVE  Follows(n, w)
  OBVIOUS
<1>1. Sound(s) /\ Placed(s) /\ ChainsHang(s) /\ Mirrors(s, v)
  BY DEF Follows
<1>2. /\ DOMAIN n = DOMAIN s
      /\ n.gbs = s.gbs /\ n.due = s.due /\ n.active = s.active /\ n.failed = s.failed
      /\ n.hang = [s.hang EXCEPT ![f] = RemoveFirst(s.hang[f], g)]
      /\ n.wait = [s.wait EXCEPT ![f] = Append(s.wait[f], g)]
      /\ n.sent = Append(s.sent, [type |-> "WAIT", gb |-> g])
  BY DEF WaitMade
<1>3. /\ DOMAIN w = DOMAIN v
      /\ w.gbs = v.gbs /\ w.error = v.error /\ w.gone = v.gone
      /\ w.hang = [v.hang EXCEPT ![f] = RemoveFirst(v.hang[f], g)]
      /\ w.wait = IF f = Me THEN v.wait ELSE [v.wait EXCEPT ![f] = Append(v.wait[f], g)]
      /\ w.up = IF f = Me THEN Append(v.up, g) ELSE v.up
  BY DEF WaitRead
<1>4. /\ s.hang \in [Fields -> Seq(Ids)] /\ s.wait \in [Fields -> Seq(Ids)]
      /\ s.hang[f] \in Seq(Ids) /\ s.wait[f] \in Seq(Ids)
      /\ IsInjective(s.hang[f]) /\ IsInjective(s.wait[f])
      /\ g \in Made(s) /\ g \notin Range(s.wait[f]) /\ s.gbs[g].to = f
  BY <1>1 DEF Sound, Placed
<1>5. g \in Ids
  <2>1. Len(s.gbs) \in Nat
    BY <1>1 DEF Sound
  <2>2. QED BY <2>1, <1>4 DEF Made, Ids
<1> DEFINE qs == RemoveFirst(s.hang[f], g)
           qw == Append(s.wait[f], g)
           qv == RemoveFirst(v.hang[f], g)
<1>6. /\ qs \in Seq(Ids) /\ Len(qs) = Len(s.hang[f]) - 1
      /\ Range(qs) = Range(s.hang[f]) \ {g} /\ IsInjective(qs)
  BY <1>4, Removed
<1>7. qw \in Seq(Ids) /\ Range(qw) = Range(s.wait[f]) \union {g} /\ IsInjective(qw)
  BY <1>4, <1>5, AddedLast
<1>8. /\ v.hang \in [Fields -> Seq(Ids)] /\ v.wait \in [Fields -> Seq(Ids)]
      /\ DOMAIN v = {"hang", "wait", "gbs", "up", "gone", "error"}
      /\ DOMAIN v.gbs = Made(s)
      /\ \A h \in Made(s) : v.gbs[h] = [to |-> s.gbs[h].to, size |-> s.gbs[h].size]
      /\ \A h \in Fields :
           /\ IsInjective(v.hang[h])
           /\ Range(v.hang[h]) = Range(s.hang[h])
           /\ Len(v.hang[h]) = Len(s.hang[h])
           /\ h # Me => v.wait[h] = s.wait[h]
      /\ v.up = s.wait[Me]
      /\ v.error = ""
  BY <1>1 DEF Mirrors
<1>9. /\ qv \in Seq(Ids) /\ Len(qv) = Len(v.hang[f]) - 1
      /\ Range(qv) = Range(v.hang[f]) \ {g} /\ IsInjective(qv)
  <2>1. v.hang[f] \in Seq(Ids) /\ IsInjective(v.hang[f]) /\ g \in Range(v.hang[f])
    BY <1>8
  <2>2. QED BY <2>1, Removed
<1>10. n.hang[f] = qs /\ n.wait[f] = qw /\ w.hang[f] = qv
       /\ \A h \in Fields \ {f} : n.hang[h] = s.hang[h] /\ n.wait[h] = s.wait[h]
                                  /\ w.hang[h] = v.hang[h]
  BY <1>2, <1>3, <1>4, <1>8
<1> HIDE DEF qs, qw, qv
<1>11. Sound(n)
  <2> DEFINE m == [type |-> "WAIT", gb |-> g]
  <2>1. m \in Message(Ids) /\ m.gb = g
    BY <1>5 DEF Message
  <2> HIDE DEF m
  <2>2. n.sent = Append(s.sent, m) /\ s.sent \in Seq(Message(Ids))
        /\ \A i \in 1..Len(s.sent) : s.sent[i].gb \in Made(s)
    BY <1>1, <1>2 DEF Sound, m
  <2>3. Made(n) = Made(s)
    BY <1>2 DEF Made
  <2>4. Append(s.sent, m) \in Seq(Message(Ids)) /\ Len(Append(s.sent, m)) = Len(s.sent) + 1
        /\ \A i \in 1..(Len(s.sent) + 1) :
             Append(s.sent, m)[i] = IF i <= Len(s.sent) THEN s.sent[i] ELSE m
    BY <2>1, <2>2
  <2>5. \A i \in 1..(Len(s.sent) + 1) : i <= Len(s.sent) => i \in 1..Len(s.sent)
    BY <2>2
  <2>6. n.sent \in Seq(Message(Ids)) /\ \A i \in 1..Len(n.sent) : n.sent[i].gb \in Made(n)
    BY <2>1, <2>2, <2>3, <2>4, <2>5, <1>4
  <2>7. n.hang \in [Fields -> Seq(Ids)] /\ n.wait \in [Fields -> Seq(Ids)]
    BY <1>2, <1>4, <1>6, <1>7 DEF qs, qw
  <2>8. QED BY <2>6, <2>7, <1>1, <1>2 DEF Sound
<1>12. Placed(n)
  <2>1. ASSUME NEW h \in Fields
        PROVE  /\ IsInjective(n.hang[h]) /\ IsInjective(n.wait[h])
               /\ \A x \in Range(n.hang[h]) :
                    /\ x \in Made(n) /\ n.gbs[x].to = h /\ x \notin Range(n.wait[h])
                    /\ n.gbs[x].type = "COMBO" => n.gbs[x].size <= Width
               /\ \A x \in Range(n.wait[h]) : x \in Made(n) /\ n.gbs[x].to = h
    <3>1. /\ IsInjective(s.hang[h]) /\ IsInjective(s.wait[h])
          /\ \A x \in Range(s.hang[h]) :
               /\ x \in Made(s) /\ s.gbs[x].to = h /\ x \notin Range(s.wait[h])
               /\ s.gbs[x].type = "COMBO" => s.gbs[x].size <= Width
          /\ \A x \in Range(s.wait[h]) : x \in Made(s) /\ s.gbs[x].to = h
      BY <1>1 DEF Placed
    <3>2. Made(n) = Made(s) /\ n.gbs = s.gbs
      BY <1>2 DEF Made
    <3>3. CASE h = f
      BY <3>1, <3>2, <3>3, <1>4, <1>6, <1>7, <1>10
    <3>4. CASE h # f
      BY <3>1, <3>2, <3>4, <1>10
    <3>5. QED BY <3>3, <3>4
  <2>2. QED BY <2>1 DEF Placed
<1>13. ChainsHang(n)
  <2>1. ASSUME NEW h \in Fields, n.active[h] # 0
        PROVE  /\ n.active[h] \in Made(n)
               /\ n.gbs[n.active[h]].from = h /\ n.gbs[n.active[h]].type = "CHAIN"
               /\ n.active[h] \in Range(n.hang[n.gbs[n.active[h]].to])
    <3> DEFINE a == s.active[h]
               t == s.gbs[s.active[h]].to
    <3>1. /\ a \in Made(s) /\ s.gbs[a].from = h /\ s.gbs[a].type = "CHAIN"
          /\ a \in Range(s.hang[t]) /\ a # g
      BY <2>1, <1>1, <1>2 DEF ChainsHang
    <3>2. t \in Fields
      <4>1. s.gbs \in Seq(GarbageRecord)
        BY <1>1 DEF Sound
      <4>2. s.gbs[a] \in GarbageRecord
        BY <3>1, <4>1 DEF Made
      <4>3. QED BY <4>2 DEF GarbageRecord
    <3>3. n.active[h] = a /\ n.gbs = s.gbs /\ Made(n) = Made(s) /\ s.gbs[a].to = t
      BY <1>2 DEF Made
    <3> HIDE DEF a, t
    <3>4. a \in Range(n.hang[t])
      BY <3>1, <3>2, <1>6, <1>10
    <3>5. QED BY <3>1, <3>3, <3>4
  <2>2. QED BY <2>1 DEF ChainsHang
<1>14. Mirrors(n, w)
  <2>1. w.hang \in [Fields -> Seq(Ids)] /\ w.wait \in [Fields -> Seq(Ids)]
    <3>1. w.hang \in [Fields -> Seq(Ids)]
      <4>1. w.hang = [v.hang EXCEPT ![f] = qv]
        BY <1>3 DEF qv
      <4>2. QED BY <4>1, <1>8, <1>9
    <3>2. CASE f = Me
      BY <3>1, <3>2, <1>3, <1>8
    <3>3. CASE f # Me
      <4>1. w.wait = [v.wait EXCEPT ![f] = qw]
        BY <3>3, <1>3, <1>8 DEF qw
      <4>2. QED BY <3>1, <4>1, <1>7, <1>8
    <3>4. QED BY <3>2, <3>3
  <2>2. ASSUME NEW h \in Fields
        PROVE  /\ IsInjective(w.hang[h])
               /\ Range(w.hang[h]) = Range(n.hang[h])
               /\ Len(w.hang[h]) = Len(n.hang[h])
               /\ h # Me => w.wait[h] = n.wait[h]
    <3>1. h # Me => w.wait[h] = n.wait[h]
      <4>1. CASE f = Me
        BY <4>1, <1>3, <1>8, <1>10
      <4>2. CASE f # Me /\ h = f
        <5>1. w.wait[h] = Append(v.wait[f], g) /\ v.wait[f] = s.wait[f]
          BY <4>2, <1>3, <1>8
        <5>2. QED BY <5>1, <4>2, <1>10 DEF qw
      <4>3. CASE f # Me /\ h # f
        BY <4>3, <1>3, <1>8, <1>10
      <4>4. QED BY <4>1, <4>2, <4>3
    <3>2. CASE h = f
      BY <3>1, <3>2, <1>6, <1>8, <1>9, <1>10
    <3>3. CASE h # f
      BY <3>1, <3>3, <1>8, <1>10
    <3>4. QED BY <3>2, <3>3
  <2>3. w.up = n.wait[Me]
    <3>1. CASE f = Me
      BY <3>1, <1>3, <1>8, <1>10 DEF qw
    <3>2. CASE f # Me
      BY <3>2, <1>3, <1>8, <1>10, MeAssumption
    <3>3. QED BY <3>1, <3>2
  <2>4. Made(n) = Made(s) /\ n.gbs = s.gbs
    BY <1>2 DEF Made
  <2>5. QED BY <2>1, <2>2, <2>3, <2>4, <1>3, <1>8 DEF Mirrors
<1>15. QED BY <1>11, <1>12, <1>13, <1>14 DEF Follows

(* The garbage of a chain that goes on, and the message about it.          *)
SizeMessage(s, g) == [type |-> "SIZE", gb |-> g, pos |-> 0, size |-> s.gbs[g].size + 1]

GrowMade(s, g, drop, n) ==
  /\ DOMAIN n = DOMAIN s
  /\ n.gbs = [s.gbs EXCEPT ![g].size = @ + 1]
  /\ n.due = [s.due EXCEPT ![g] = drop]
  /\ n.hang = s.hang /\ n.wait = s.wait /\ n.active = s.active /\ n.failed = s.failed
  /\ n.sent = Append(s.sent, SizeMessage(s, g))

SizeRead(s, v, g, w) ==
  LET to == s.gbs[g].to
  IN  /\ DOMAIN w = DOMAIN v
      /\ w.hang = [v.hang EXCEPT ![to] = InsertAt(RemoveFirst(v.hang[to], g), 1, g)]
      /\ w.wait = v.wait /\ w.up = v.up /\ w.error = v.error /\ w.gone = v.gone
      /\ w.gbs = [v.gbs EXCEPT ![g].size = s.gbs[g].size + 1]

(* A chain that goes on does just this.                                    *)
LEMMA GrowDoes ==
  \A s, f :
    Sound(s) /\ s.active[f] # 0 =>
      GrowMade(s, s.active[f], tick'[f] + HangTk, Grow(s, f))
BY DEF Grow, GrowMade, Sound, SizeMessage

(* A client that mirrors the distributor finds the garbage, and moves it   *)
(* to the front.                                                           *)
LEMMA OnSizeDoes ==
  \A s, v, f, g :
    /\ Sound(s) /\ Placed(s) /\ Mirrors(s, v) /\ f \in Fields /\ g \in Range(s.hang[f])
    /\ f \notin v.gone
    => SizeRead(s, v, g, On(v, SizeMessage(s, g)))
<1> SUFFICES ASSUME NEW s, NEW v, NEW f \in Fields, NEW g \in Range(s.hang[f]),
                    Sound(s), Placed(s), Mirrors(s, v), f \notin v.gone
             PROVE  SizeRead(s, v, g, On(v, SizeMessage(s, g)))
  OBVIOUS
<1> DEFINE m == SizeMessage(s, g)
           z == s.gbs[g].size + 1
           w == On(v, m)
<1>1. m.type = "SIZE" /\ m.gb = g /\ m.pos = 0 /\ m.size = z
  BY DEF SizeMessage
<1> HIDE DEF m, z
<1>2. Hangs(v, g) /\ v.gbs[g].to = f /\ s.gbs[g].to = f
  BY FoundHanging
<1>3. /\ DOMAIN v = {"hang", "wait", "gbs", "up", "gone", "error"}
      /\ v.hang \in [Fields -> Seq(Ids)]
      /\ v.error = ""
  BY DEF Mirrors
<1>4. On(v, m) = OnSize(v, m)
  BY <1>1, <1>3 DEF On
<1>5. w = [[[v EXCEPT !.hang[f] = RemoveFirst(@, g)] EXCEPT !.hang[f] = InsertAt(@, 0 + 1, g)]
             EXCEPT !.gbs[g].size = z]
  BY <1>1, <1>2, <1>4 DEF OnSize, MoveHangingGarbage, RemoveHangingGarbage,
     InsertHangingGarbage
<1>6. 0 + 1 = 1
  OBVIOUS
<1> HIDE DEF w
<1>7. /\ DOMAIN w = DOMAIN v
      /\ w.wait = v.wait /\ w.up = v.up /\ w.error = v.error /\ w.gone = v.gone
      /\ w.gbs = [v.gbs EXCEPT ![g].size = z]
  BY <1>3, <1>5
<1>8. w.hang = [[v.hang EXCEPT ![f] = RemoveFirst(v.hang[f], g)] EXCEPT ![f] = InsertAt(@, 1, g)]
  BY <1>3, <1>5, <1>6
<1>9. w.hang = [v.hang EXCEPT ![f] = InsertAt(RemoveFirst(v.hang[f], g), 1, g)]
  BY <1>3, <1>8
<1>10. QED BY <1>2, <1>7, <1>9 DEF SizeRead, m, w, z

(* The two still mirror each other: the same garbages hang, in another     *)
(* order.                                                                  *)
LEMMA GrowFollows ==
  \A s, v, f, g, drop, n, w :
    /\ Follows(s, v) /\ f \in Fields /\ g \in Range(s.hang[f])
    /\ s.gbs[g].type = "CHAIN" /\ drop \in Nat
    /\ GrowMade(s, g, drop, n) /\ SizeRead(s, v, g, w)
    => Follows(n, w)
<1> SUFFICES ASSUME NEW s, NEW v, NEW f \in Fields, NEW g \in Range(s.hang[f]),
                    NEW drop \in Nat, NEW n, NEW w,
                    Follows(s, v), s.gbs[g].type = "CHAIN",
                    GrowMade(s, g, drop, n), SizeRead(s, v, g, w)
             PROVE  Follows(n, w)
  OBVIOUS
<1>1. Sound(s) /\ Placed(s) /\ ChainsHang(s) /\ Mirrors(s, v)
  BY DEF Follows
<1>2. /\ DOMAIN n = DOMAIN s
      /\ n.gbs = [s.gbs EXCEPT ![g].size = @ + 1]
      /\ n.due = [s.due EXCEPT ![g] = drop]
      /\ n.hang = s.hang /\ n.wait = s.wait /\ n.active = s.active /\ n.failed = s.failed
      /\ n.sent = Append(s.sent, SizeMessage(s, g))
  BY DEF GrowMade
<1>3. /\ g \in Made(s) /\ s.gbs[g].to = f
      /\ s.gbs \in Seq(GarbageRecord) /\ Len(s.gbs) \in Nat
      /\ s.due \in Seq(Nat) /\ Len(s.due) = Len(s.gbs)
  BY <1>1 DEF Placed, Sound
<1>4. g \in 1..Len(s.gbs) /\ g \in Ids /\ s.gbs[g] \in GarbageRecord
  BY <1>3 DEF Made, Ids
<1>5. /\ n.gbs \in Seq(GarbageRecord) /\ Len(n.gbs) = Len(s.gbs) /\ Made(n) = Made(s)
      /\ \A h \in Made(s) : /\ n.gbs[h].from = s.gbs[h].from /\ n.gbs[h].to = s.gbs[h].to
                            /\ n.gbs[h].type = s.gbs[h].type
                            /\ n.gbs[h].size = IF h = g THEN s.gbs[h].size + 1 ELSE s.gbs[h].size
  <2> DEFINE r == [s.gbs[g] EXCEPT !.size = @ + 1]
  <2>1. /\ r \in GarbageRecord /\ r.from = s.gbs[g].from /\ r.to = s.gbs[g].to
        /\ r.type = s.gbs[g].type /\ r.size = s.gbs[g].size + 1
    BY <1>4 DEF GarbageRecord
  <2> HIDE DEF r
  <2>2. n.gbs = [s.gbs EXCEPT ![g] = r]
    BY <1>2 DEF r
  <2>3. /\ [s.gbs EXCEPT ![g] = r] \in Seq(GarbageRecord)
        /\ Len([s.gbs EXCEPT ![g] = r]) = Len(s.gbs)
        /\ \A j \in 1..Len(s.gbs) : [s.gbs EXCEPT ![g] = r][j] = IF j = g THEN r ELSE s.gbs[j]
    BY <1>3, <1>4, <2>1, ExceptSeq
  <2>4. QED BY <2>1, <2>2, <2>3 DEF Made
<1>6. n.due \in Seq(Nat) /\ Len(n.due) = Len(n.gbs)
  <2>1. g \in 1..Len(s.due)
    BY <1>3, <1>4
  <2>2. [s.due EXCEPT ![g] = drop] \in Seq(Nat) /\ Len([s.due EXCEPT ![g] = drop]) = Len(s.due)
    BY <1>3, <2>1, ExceptSeq
  <2>3. QED BY <2>2, <1>2, <1>3, <1>5
<1>7. Sound(n)
  <2> DEFINE m == SizeMessage(s, g)
  <2>1. m \in Message(Ids) /\ m.gb = g
    <3>1. s.gbs[g].size + 1 \in Nat \ {0}
      BY <1>4 DEF GarbageRecord
    <3>2. QED BY <3>1, <1>4 DEF Message, SizeMessage
  <2> HIDE DEF m
  <2>2. n.sent = Append(s.sent, m) /\ s.sent \in Seq(Message(Ids))
        /\ \A i \in 1..Len(s.sent) : s.sent[i].gb \in Made(s)
    BY <1>1, <1>2 DEF Sound, m
  <2>3. Append(s.sent, m) \in Seq(Message(Ids)) /\ Len(Append(s.sent, m)) = Len(s.sent) + 1
        /\ \A i \in 1..(Len(s.sent) + 1) :
             Append(s.sent, m)[i] = IF i <= Len(s.sent) THEN s.sent[i] ELSE m
    BY <2>1, <2>2
  <2>4. \A i \in 1..(Len(s.sent) + 1) : i <= Len(s.sent) => i \in 1..Len(s.sent)
    BY <2>2
  <2>5. n.sent \in Seq(Message(Ids)) /\ \A i \in 1..Len(n.sent) : n.sent[i].gb \in Made(n)
    BY <2>1, <2>2, <2>3, <2>4, <1>3, <1>5
  <2>6. QED BY <2>5, <1>1, <1>2, <1>5, <1>6 DEF Sound
<1>8. Placed(n)
  <2>1. ASSUME NEW h \in Fields
        PROVE  /\ IsInjective(n.hang[h]) /\ IsInjective(n.wait[h])
               /\ \A x \in Range(n.hang[h]) :
                    /\ x \in Made(n) /\ n.gbs[x].to = h /\ x \notin Range(n.wait[h])
                    /\ n.gbs[x].type = "COMBO" => n.gbs[x].size <= Width
               /\ \A x \in Range(n.wait[h]) : x \in Made(n) /\ n.gbs[x].to = h
    <3>1. /\ IsInjective(s.hang[h]) /\ IsInjective(s.wait[h])
          /\ \A x \in Range(s.hang[h]) :
               /\ x \in Made(s) /\ s.gbs[x].to = h /\ x \notin Range(s.wait[h])
               /\ s.gbs[x].type = "COMBO" => s.gbs[x].size <= Width
          /\ \A x \in Range(s.wait[h]) : x \in Made(s) /\ s.gbs[x].to = h
      BY <1>1 DEF Placed
    <3>2. "CHAIN" # "COMBO"
      OBVIOUS
    <3>3. QED BY <3>1, <3>2, <1>2, <1>5
  <2>2. QED BY <2>1 DEF Placed
<1>9. ChainsHang(n)
  BY <1>1, <1>2, <1>5 DEF ChainsHang
<1>10. Mirrors(n, w)
  <2>1. /\ v.hang \in [Fields -> Seq(Ids)] /\ v.wait \in [Fields -> Seq(Ids)]
        /\ DOMAIN v = {"hang", "wait", "gbs", "up", "gone", "error"}
        /\ DOMAIN v.gbs = Made(s)
        /\ \A h \in Made(s) : v.gbs[h] = [to |-> s.gbs[h].to, size |-> s.gbs[h].size]
        /\ \A h \in Fields :
             /\ IsInjective(v.hang[h])
             /\ Range(v.hang[h]) = Range(s.hang[h])
             /\ Len(v.hang[h]) = Len(s.hang[h])
             /\ h # Me => v.wait[h] = s.wait[h]
        /\ v.up = s.wait[Me]
        /\ v.error = ""
    BY <1>1 DEF Mirrors
  <2> DEFINE q == RemoveFirst(v.hang[f], g)
             r == InsertAt(q, 1, g)
  <2>2. /\ DOMAIN w = DOMAIN v
        /\ w.hang = [v.hang EXCEPT ![f] = r]
        /\ w.wait = v.wait /\ w.up = v.up /\ w.error = v.error /\ w.gone = v.gone
        /\ w.gbs = [v.gbs EXCEPT ![g].size = s.gbs[g].size + 1]
    BY <1>3 DEF SizeRead
  <2>3. v.hang[f] \in Seq(Ids) /\ IsInjective(v.hang[f]) /\ g \in Range(v.hang[f])
    BY <2>1
  <2>4. /\ q \in Seq(Ids) /\ Len(q) = Len(v.hang[f]) - 1
        /\ Range(q) = Range(v.hang[f]) \ {g} /\ IsInjective(q)
    BY <2>3, Removed
  <2> HIDE DEF q
  <2>5. 1 \in 1..(Len(q) + 1) /\ g \notin Range(q)
    BY <2>4
  <2>6. /\ r \in Seq(Ids) /\ Len(r) = Len(q) + 1 /\ Range(r) = Range(q) \union {g}
        /\ IsInjective(r)
    BY <2>4, <2>5, <1>4, Inserted, InsertedAmong
  <2> HIDE DEF r
  <2>7. Len(r) = Len(v.hang[f]) /\ Range(r) = Range(v.hang[f])
    <3>1. Len(v.hang[f]) \in Nat
      BY <2>3
    <3>2. QED BY <3>1, <2>3, <2>4, <2>6
  <2>8. w.hang \in [Fields -> Seq(Ids)]
        /\ w.hang[f] = r /\ \A h \in Fields \ {f} : w.hang[h] = v.hang[h]
    <3>1. w.hang = [v.hang EXCEPT ![f] = r] /\ v.hang \in [Fields -> Seq(Ids)] /\ r \in Seq(Ids)
      BY <2>1, <2>2, <2>6
    <3>2. QED BY <3>1
  <2>9. ASSUME NEW h \in Fields
        PROVE  /\ IsInjective(w.hang[h])
               /\ Range(w.hang[h]) = Range(n.hang[h])
               /\ Len(w.hang[h]) = Len(n.hang[h])
               /\ h # Me => w.wait[h] = n.wait[h]
    <3>1. /\ IsInjective(v.hang[h]) /\ Range(v.hang[h]) = Range(s.hang[h])
          /\ Len(v.hang[h]) = Len(s.hang[h])
          /\ h # Me => v.wait[h] = s.wait[h]
      BY <2>1
    <3>2. w.wait = v.wait /\ n.wait = s.wait /\ n.hang = s.hang
      BY <2>2, <1>2
    <3>3. CASE h = f
      BY <3>1, <3>2, <3>3, <2>6, <2>7, <2>8, Zenon
    <3>4. CASE h # f
      BY <3>1, <3>2, <3>4, <2>8, Zenon
    <3>5. QED BY <3>3, <3>4
  <2>10. DOMAIN w.gbs = Made(n)
    BY <2>1, <2>2, <1>5
  <2>11. ASSUME NEW h \in Made(n)
         PROVE  w.gbs[h] = [to |-> n.gbs[h].to, size |-> n.gbs[h].size]
    <3>1. CASE h = g
      <4>1. v.gbs[g] = [to |-> s.gbs[g].to, size |-> s.gbs[g].size]
        BY <2>1, <1>3
      <4>2. w.gbs[g] = [v.gbs[g] EXCEPT !.size = s.gbs[g].size + 1]
        BY <2>1, <2>2, <1>3
      <4>3. w.gbs[g] = [to |-> s.gbs[g].to, size |-> s.gbs[g].size + 1]
        BY <4>1, <4>2
      <4>4. n.gbs[g].to = s.gbs[g].to /\ n.gbs[g].size = s.gbs[g].size + 1
        BY <1>3, <1>5
      <4>5. QED BY <3>1, <4>3, <4>4
    <3>2. CASE h # g
      <4>1. w.gbs[h] = v.gbs[h]
        BY <3>2, <2>1, <2>2, <1>5
      <4>2. v.gbs[h] = [to |-> s.gbs[h].to, size |-> s.gbs[h].size]
        BY <2>1, <1>5
      <4>3. n.gbs[h].to = s.gbs[h].to /\ n.gbs[h].size = s.gbs[h].size
        BY <3>2, <1>5
      <4>4. QED BY <4>1, <4>2, <4>3
    <3>3. QED BY <3>1, <3>2
  <2>12. w.up = n.wait[Me]
    BY <2>1, <2>2, <1>2
  <2>13. QED BY <2>1, <2>2, <2>8, <2>9, <2>10, <2>11, <2>12 DEF Mirrors
<1>11. QED BY <1>7, <1>8, <1>9, <1>10 DEF Follows

-----------------------------------------------------------------------------
(* The client reads what is on its way, then what is being sent.           *)
Reading == INSTANCE Loops WITH Step <- LAMBDA c, v, m : On(v, m), Inv <- LAMBDA c, k, v : TRUE

HavingRead(v, q) == Reading!Loop(0, v, q)

(* The last message is read last.                                          *)
LEMMA ReadOneMore ==
  \A S, q, m, v : q \in Seq(S) /\ m \in S =>
    HavingRead(v, Append(q, m)) = On(HavingRead(v, q), m)
<1> SUFFICES ASSUME NEW S, NEW q \in Seq(S), NEW m \in S, NEW v
             PROVE  HavingRead(v, Append(q, m)) = On(HavingRead(v, q), m)
  OBVIOUS
<1>1. Append(q, m) = q \o <<m>> /\ <<m>> \in Seq(S)
  OBVIOUS
<1>2. Reading!Loop(0, v, q \o <<m>>) = Reading!Loop(0, Reading!Loop(0, v, q), <<m>>)
  BY <1>1, Reading!LoopConcat
<1>3. \A u : Reading!Loop(0, u, <<m>>) = On(u, m)
  BY Reading!LoopOne
<1>4. QED BY <1>1, <1>2, <1>3 DEF HavingRead

(* The head is read first.                                                 *)
LEMMA ReadFirst ==
  \A S, q, v : q \in Seq(S) /\ q # <<>> =>
    HavingRead(v, q) = HavingRead(On(v, Head(q)), Tail(q))
<1> SUFFICES ASSUME NEW S, NEW q \in Seq(S), q # <<>>, NEW v
             PROVE  HavingRead(v, q) = HavingRead(On(v, Head(q)), Tail(q))
  OBVIOUS
<1> DEFINE h == Head(q)
           t == Tail(q)
<1>1. h \in S /\ t \in Seq(S) /\ q = <<h>> \o t /\ <<h>> \in Seq(S)
  OBVIOUS
<1> HIDE DEF h, t
<1>2. Reading!Loop(0, v, <<h>> \o t) = Reading!Loop(0, Reading!Loop(0, v, <<h>>), t)
  BY <1>1, Reading!LoopConcat
<1>3. Reading!Loop(0, v, <<h>>) = On(v, h)
  BY Reading!LoopOne
<1>4. QED BY <1>1, <1>2, <1>3 DEF HavingRead, h, t

(* Ahead is this reading, of what is on its way.                           *)
LEMMA AheadReads == Ahead = HavingRead(view, down)
BY DEF Ahead, HavingRead, Reading!Loop, Reading!MapThenFoldSet,
       Reading!Max, FoldLeft, MapThenFoldSet, Max

(* Nothing read, nothing changed.                                          *)
LEMMA ReadNothing == \A v : HavingRead(v, <<>>) = v
BY Reading!LoopEmpty DEF HavingRead

(* The state of the distributor and the client that has read what was sent *)
(* on the way to it.                                                       *)
At(s) == HavingRead(view, down \o s.sent)

\* Those who quit, and the only opponent there was when an active chain began: the
\* target of its garbage has been the only one since, if there is one still.
Departed == Fields \ players

Aims(s) ==
  \A f \in Fields : s.active[f] # 0 => Opponents(f) \subseteq {s.gbs[s.active[f]].to}

Stage(s) == Follows(s, At(s)) /\ At(s).gone = Departed /\ Aims(s)

(* Chains that end, and garbages that keep their targets, aim as before.   *)
LEMMA AimsKept ==
  \A s, n :
    /\ Aims(s)
    /\ \A h \in Fields : n.active[h] # 0 =>
         n.active[h] = s.active[h] /\ n.gbs[n.active[h]].to = s.gbs[n.active[h]].to
    => Aims(n)
BY DEF Aims

Typical == down \in Seq(Message(Ids))

(* One message more is one reading more.                                   *)
LEMMA SaysMore ==
  \A s, n, m :
    /\ Typical /\ s.sent \in Seq(Message(Ids)) /\ m \in Message(Ids)
    /\ n.sent = Append(s.sent, m)
    => At(n) = On(At(s), m)
<1> SUFFICES ASSUME NEW s, NEW n, NEW m \in Message(Ids), Typical,
                    s.sent \in Seq(Message(Ids)), n.sent = Append(s.sent, m)
             PROVE  At(n) = On(At(s), m)
  OBVIOUS
<1> DEFINE q == down \o s.sent
<1>1. q \in Seq(Message(Ids))
  BY DEF Typical
<1>2. down \o n.sent = Append(q, m)
  <2> DEFINE M == Message(Ids)
  <2>1. down \in Seq(M) /\ s.sent \in Seq(M) /\ m \in M
    BY DEF Typical
  <2> HIDE DEF M
  <2>2. down \o Append(s.sent, m) = Append(down \o s.sent, m)
    BY <2>1
  <2>3. QED BY <2>2
<1> HIDE DEF q
<1>3. HavingRead(view, Append(q, m)) = On(HavingRead(view, q), m)
  BY <1>1, ReadOneMore
<1>4. QED BY <1>2, <1>3 DEF At, q

(* What a chain that ends leaves.                                          *)
LEMMA CancelStage ==
  \A s, f : Stage(s) /\ f \in Fields =>
    LET n == CancelChain(s, f)
    IN  /\ Stage(n) /\ n.failed = s.failed /\ n.hang = s.hang
        /\ \A h \in Fields \ {f} : n.active[h] = s.active[h]
        /\ ~(chain'[f] < 2) => n.active[f] = s.active[f]
<1> SUFFICES ASSUME NEW s, NEW f \in Fields, Stage(s)
             PROVE  LET n == CancelChain(s, f)
                    IN  /\ Stage(n) /\ n.failed = s.failed /\ n.hang = s.hang
                        /\ \A h \in Fields \ {f} : n.active[h] = s.active[h]
                        /\ ~(chain'[f] < 2) => n.active[f] = s.active[f]
  OBVIOUS
<1> DEFINE n == CancelChain(s, f)
<1>0. Sound(s) /\ Placed(s) /\ ChainsHang(s) /\ Mirrors(s, At(s))
  BY DEF Stage, Follows
<1>1. /\ DOMAIN n = DOMAIN s
      /\ n.gbs = s.gbs /\ n.due = s.due /\ n.hang = s.hang /\ n.wait = s.wait
      /\ n.sent = s.sent /\ n.failed = s.failed
      /\ n.active \in [Fields -> Nat]
      /\ \A h \in Fields : n.active[h] = s.active[h] \/ (n.active[h] = 0 /\ h = f /\ chain'[f] < 2)
  BY <1>0 DEF CancelChain, Sound
<1> HIDE DEF n
<1>2. At(n) = At(s) /\ Made(n) = Made(s)
  BY <1>1 DEF At, Made
<1>3. Sound(n)
  BY <1>0, <1>1, <1>2 DEF Sound
<1>4. Placed(n)
  BY <1>0, <1>1, <1>2 DEF Placed
<1>5. ChainsHang(n)
  BY <1>0, <1>1, <1>2 DEF ChainsHang
<1>6. Mirrors(n, At(n))
  BY <1>0, <1>1, <1>2 DEF Mirrors
<1>7. /\ \A h \in Fields \ {f} : n.active[h] = s.active[h]
      /\ ~(chain'[f] < 2) => n.active[f] = s.active[f]
  BY <1>1
<1>8. Stage(n)
  <2>1. Aims(n)
    BY <1>1, AimsKept DEF Stage
  <2>2. QED BY <1>2, <1>3, <1>4, <1>5, <1>6, <2>1 DEF Stage, Follows
<1>9. QED BY <1>1, <1>7, <1>8 DEF n

(* What a garbage that is due leaves: the one dropped is not that of an    *)
(* active chain.                                                           *)
LEMMA DropDueStage ==
  \A s, f : Stage(s) /\ Typical /\ f \in Fields /\ f \in players =>
    LET n == DropDue(s, f)
    IN  Stage(n) /\ n.failed = s.failed /\ n.active = s.active
<1> SUFFICES ASSUME NEW s, NEW f \in Fields, Stage(s), Typical, f \in players
             PROVE  LET n == DropDue(s, f)
                    IN  Stage(n) /\ n.failed = s.failed /\ n.active = s.active
  OBVIOUS
<1> DEFINE n == DropDue(s, f)
           g == Head(s.hang[f])
           due1 == /\ s.hang[f] # <<>> /\ s.active[s.gbs[Head(s.hang[f])].from] = 0
                   /\ s.due[Head(s.hang[f])] <= tick'[f]
<1>0. Sound(s) /\ Placed(s) /\ ChainsHang(s) /\ Mirrors(s, At(s))
  BY DEF Stage, Follows
<1>1. CASE ~due1
  <2>1. n = s
    BY <1>1 DEF DropDue
  <2>2. QED BY <2>1
<1>2. CASE due1
  <2>1. s.hang[f] \in Seq(Ids) /\ s.hang[f] # <<>> /\ IsInjective(s.hang[f])
    BY <1>0, <1>2 DEF Sound, Placed
  <2>2. g \in Range(s.hang[f])
    BY <2>1, FirstRead
  <2>3. \A h \in Fields : s.active[h] # g
    <3> SUFFICES ASSUME NEW h \in Fields, s.active[h] = g PROVE FALSE
      OBVIOUS
    <3>1. g \in Made(s) /\ s.gbs[g].to = f
      BY <1>0, <2>2 DEF Placed
    <3>2. g # 0
      BY <3>1, <1>0 DEF Made, Sound
    <3>3. s.gbs[g].from = h
      BY <3>2, <1>0 DEF ChainsHang
    <3>4. s.active[s.gbs[g].from] = 0
      BY <1>2
    <3>5. QED BY <3>2, <3>3, <3>4
  <2>4. WaitMade(s, f, g, n)
    <3>1. n = [[[s EXCEPT !.hang[f] = RemoveFirst(@, g)] EXCEPT !.wait[f] = Append(@, g)]
                 EXCEPT !.sent = Append(@, [type |-> "WAIT", gb |-> g])]
      BY <1>2 DEF DropDue, WaitGarbageDrop, RemoveHangingGarbage
    <3>2. DOMAIN s = {"gbs", "hang", "wait", "active", "due", "sent", "failed"}
      BY <1>0 DEF Sound
    <3> HIDE DEF n, g, due1
    <3>3. QED BY <3>1, <3>2 DEF WaitMade
  <2>5. WaitRead(At(s), f, g, On(At(s), [type |-> "WAIT", gb |-> g]))
    <3>1. f \notin At(s).gone
      BY DEF Stage, Departed
    <3>2. QED BY <1>0, <2>2, <3>1, OnWaitDoes
  <2> HIDE DEF n, g, due1
  <2>6. Follows(n, On(At(s), [type |-> "WAIT", gb |-> g]))
    BY <2>2, <2>3, <2>4, <2>5, WaitFollows DEF Stage
  <2>7. At(n) = On(At(s), [type |-> "WAIT", gb |-> g])
    <3> DEFINE m == [type |-> "WAIT", gb |-> g]
    <3>1. g \in Ids
      BY <2>1, <2>2 DEF Range
    <3>2. m \in Message(Ids)
      BY <3>1 DEF Message
    <3> HIDE DEF m
    <3>3. n.sent = Append(s.sent, m)
      BY <2>4 DEF WaitMade, m
    <3>4. s.sent \in Seq(Message(Ids))
      BY <1>0 DEF Sound
    <3>5. At(n) = On(At(s), m)
      BY <3>2, <3>3, <3>4, SaysMore
    <3>6. QED BY <3>5 DEF m
  <2>8. n.failed = s.failed /\ n.active = s.active /\ n.gbs = s.gbs
    BY <2>4 DEF WaitMade
  <2>9. At(n).gone = Departed
    BY <2>5, <2>7 DEF WaitRead, Stage
  <2>10. Aims(n)
    BY <2>8, AimsKept DEF Stage
  <2>11. QED BY <2>6, <2>7, <2>8, <2>9, <2>10 DEF Stage, n
<1>3. QED BY <1>1, <1>2

(* A chain that goes on: its garbage still hangs.                          *)
LEMMA GrowStage ==
  \A s, f :
    /\ Stage(s) /\ Typical /\ f \in Fields /\ s.active[f] # 0 /\ tick'[f] \in Nat
    /\ Opponents(f) # {} /\ Opponents(f) \subseteq players
    => LET n == Grow(s, f)
       IN  Stage(n) /\ n.failed = s.failed /\ n.active = s.active
<1> SUFFICES ASSUME NEW s, NEW f \in Fields, Stage(s), Typical, s.active[f] # 0,
                    tick'[f] \in Nat, Opponents(f) # {}, Opponents(f) \subseteq players
             PROVE  LET n == Grow(s, f)
                    IN  Stage(n) /\ n.failed = s.failed /\ n.active = s.active
  OBVIOUS
<1> DEFINE n == Grow(s, f)
           g == s.active[f]
           to == s.gbs[g].to
           m == SizeMessage(s, g)
           drop == tick'[f] + HangTk
<1>0. Sound(s) /\ Placed(s) /\ ChainsHang(s) /\ Mirrors(s, At(s))
  BY DEF Stage, Follows
<1>1. g \in Made(s) /\ s.gbs[g].type = "CHAIN" /\ g \in Range(s.hang[to])
  BY <1>0 DEF ChainsHang
<1>2. s.gbs[g] \in GarbageRecord /\ g \in Ids
  <2>1. s.gbs \in Seq(GarbageRecord) /\ Len(s.gbs) \in Nat /\ g \in 1..Len(s.gbs)
    BY <1>0, <1>1 DEF Sound, Made
  <2> HIDE DEF g
  <2>2. QED BY <2>1 DEF Ids
<1>3. to \in Fields
  BY <1>2 DEF GarbageRecord
<1>4. GrowMade(s, g, drop, n)
  BY <1>0, GrowDoes
<1>5. drop \in Nat
  BY HangAssumption
<1>11. to \notin At(s).gone
  <2>1. Opponents(f) \subseteq {to}
    BY DEF Stage, Aims
  <2>2. to \in players
    BY <2>1
  <2>3. QED BY <2>2 DEF Stage, Departed
<1> HIDE DEF n, drop, to
<1>6. SizeRead(s, At(s), g, On(At(s), m))
  BY <1>0, <1>1, <1>3, <1>11, OnSizeDoes
<1>7. Follows(n, On(At(s), m))
  <2> HIDE DEF m, g
  <2>1. QED BY <1>1, <1>3, <1>4, <1>5, <1>6, GrowFollows DEF Stage
<1>8. At(n) = On(At(s), m)
  <2>1. m \in Message(Ids)
    <3>1. s.gbs[g].size + 1 \in Nat \ {0}
      BY <1>2 DEF GarbageRecord
    <3>2. QED BY <3>1, <1>2 DEF Message, SizeMessage
  <2>2. n.sent = Append(s.sent, m)
    BY <1>4 DEF GrowMade
  <2>3. s.sent \in Seq(Message(Ids))
    BY <1>0 DEF Sound
  <2> HIDE DEF m
  <2>4. QED BY <2>1, <2>2, <2>3, SaysMore
<1>9. n.failed = s.failed /\ n.active = s.active
  BY <1>4 DEF GrowMade
<1>12. At(n).gone = Departed
  BY <1>6, <1>8 DEF SizeRead, Stage
<1>13. Aims(n)
  <2>1. ASSUME NEW h \in Fields, s.active[h] # 0
        PROVE  n.gbs[s.active[h]].to = s.gbs[s.active[h]].to
    <3>1. s.active[h] \in 1..Len(s.gbs) /\ g \in 1..Len(s.gbs)
      BY <1>0, <1>1, <2>1 DEF ChainsHang, Made
    <3>2. n.gbs = [s.gbs EXCEPT ![g].size = @ + 1] /\ s.gbs \in Seq(GarbageRecord)
      BY <1>0, <1>4 DEF GrowMade, Sound
    <3>3. s.gbs[g] \in GarbageRecord
      BY <1>2
    <3>4. CASE s.active[h] = g
      <4>1. n.gbs[g] = [s.gbs[g] EXCEPT !.size = @ + 1]
        BY <3>1, <3>2
      <4>2. QED BY <3>3, <3>4, <4>1 DEF GarbageRecord
    <3>5. CASE s.active[h] # g
      BY <3>1, <3>2, <3>5
    <3>6. QED BY <3>4, <3>5
  <2>2. QED BY <1>9, <2>1, AimsKept DEF Stage
<1>10. QED BY <1>7, <1>8, <1>9, <1>12, <1>13 DEF Stage, n

(* A new garbage.                                                          *)
LEMMA NewStage ==
  \A s, from, to, type, size :
    /\ Stage(s) /\ Typical
    /\ [from |-> from, to |-> to, type |-> type, size |-> size] \in GarbageRecord
    /\ type = "COMBO" => size <= Width
    /\ tick'[to] \in Nat
    /\ from \in players /\ to \in players
    /\ type = "CHAIN" => Opponents(from) \subseteq {to}
    => LET n == NewGarbage(s, from, to, type, size)
       IN  /\ Stage(n) /\ n.failed = s.failed
           /\ type = "COMBO" => n.active = s.active
           /\ type = "CHAIN" => n.active[from] # 0
           /\ \A h \in Fields \ {from} : n.active[h] = s.active[h]
<1> SUFFICES ASSUME NEW s, NEW from, NEW to, NEW type, NEW size, Stage(s), Typical,
                    [from |-> from, to |-> to, type |-> type, size |-> size] \in GarbageRecord,
                    type = "COMBO" => size <= Width,
                    tick'[to] \in Nat, from \in players, to \in players,
                    type = "CHAIN" => Opponents(from) \subseteq {to}
             PROVE  LET n == NewGarbage(s, from, to, type, size)
                    IN  /\ Stage(n) /\ n.failed = s.failed
                        /\ type = "COMBO" => n.active = s.active
                        /\ type = "CHAIN" => n.active[from] # 0
                        /\ \A h \in Fields \ {from} : n.active[h] = s.active[h]
  OBVIOUS
<1> DEFINE n == NewGarbage(s, from, to, type, size)
           m == NewMessage(s, from, to, type, size)
           id == Len(s.gbs) + 1
<1>0. Sound(s)
  BY DEF Stage, Follows
<1>1. /\ Follows(n, On(At(s), m)) /\ On(At(s), m).gone = At(s).gone
      /\ NewMade(s, from, to, type, size, tick'[to] + HangTk, n)
  BY NewFollows DEF Stage, Departed
<1>2. id \in Ids
  <2>1. Len(s.gbs) \in Nat
    BY <1>0 DEF Sound
  <2>2. QED BY <2>1 DEF Ids
<1> HIDE DEF n, id
<1>3. from \in Fields /\ to \in Fields /\ size \in Nat \ {0}
  BY DEF GarbageRecord
<1>4. /\ n.sent = Append(s.sent, m) /\ n.failed = s.failed
      /\ n.active = [s.active EXCEPT ![from] = IF type = "CHAIN" THEN id ELSE @]
  BY <1>1 DEF NewMade, id
<1>5. At(n) = On(At(s), m)
  <2>1. m \in Message(Ids)
    <3>1. Position(s, to, type) \in Nat
      <4>1. Position(s, to, type) \in 0..Len(s.hang[to])
        BY <1>0, <1>3, PositionInside
      <4>2. QED BY <4>1
    <3>2. m = [type |-> "NEW", gb |-> id, from |-> from, to |-> to,
             pos |-> Position(s, to, type), size |-> size]
      BY DEF NewMessage, id
    <3> HIDE DEF m
    <3>3. QED BY <3>1, <3>2, <1>2, <1>3 DEF Message
  <2>2. s.sent \in Seq(Message(Ids))
    BY <1>0 DEF Sound
  <2> HIDE DEF m
  <2>3. QED BY <2>1, <2>2, <1>4, SaysMore
<1>6. s.active \in [Fields -> Nat]
  BY <1>0 DEF Sound
<1>7. /\ type = "COMBO" => n.active = s.active
      /\ type = "CHAIN" => n.active[from] # 0
      /\ \A h \in Fields \ {from} : n.active[h] = s.active[h]
  <2>1. "COMBO" # "CHAIN"
    OBVIOUS
  <2>2. id # 0
    BY <1>2 DEF Ids
  <2>3. QED BY <1>3, <1>4, <1>6, <2>1, <2>2
<1>8. Aims(n)
  <2> SUFFICES ASSUME NEW h \in Fields, n.active[h] # 0
               PROVE  Opponents(h) \subseteq {n.gbs[n.active[h]].to}
    BY DEF Aims
  <2>1. /\ \A g \in Made(s) : n.gbs[g] = s.gbs[g]
        /\ n.gbs[id] = [from |-> from, to |-> to, type |-> type, size |-> size]
    BY <1>0, <1>1, NewRecords DEF id
  <2>2. CASE type = "CHAIN" /\ h = from
    <3>1. n.active[h] = id
      BY <1>3, <1>4, <1>6, <2>2
    <3>2. n.gbs[id].to = to
      BY <2>1
    <3>3. QED BY <2>2, <3>1, <3>2
  <2>3. CASE ~(type = "CHAIN" /\ h = from)
    <3>1. n.active[h] = s.active[h]
      BY <1>3, <1>4, <1>6, <2>3
    <3>2. s.active[h] \in Made(s) /\ Opponents(h) \subseteq {s.gbs[s.active[h]].to}
      BY <3>1 DEF Stage, Follows, ChainsHang, Aims
    <3>3. QED BY <2>1, <3>1, <3>2
  <2>4. QED BY <2>2, <2>3
<1>9. QED BY <1>1, <1>4, <1>5, <1>7, <1>8 DEF Stage, n

(* The blocks of a combo are no wider than the field.                      *)
LEMMA ComboFits ==
  \A combo \in Nat \ 0..2 :
    \E k \in Nat : /\ DOMAIN ComboWidths(combo) = 1..k
                   /\ \A i \in 1..k : ComboWidths(combo)[i] \in 1..Width
<1> SUFFICES ASSUME NEW combo \in Nat \ 0..2
             PROVE  \E k \in Nat : /\ DOMAIN ComboWidths(combo) = 1..k
                                   /\ \A i \in 1..k : ComboWidths(combo)[i] \in 1..Width
  OBVIOUS
<1> DEFINE Fits(q) == \E k \in Nat : DOMAIN q = 1..k /\ \A i \in 1..k : q[i] \in 1..6
<1>1. Fits(<<>>)
  <2>1. DOMAIN <<>> = 1..0 /\ 0 \in Nat /\ 1..0 = {}
    OBVIOUS
  <2>2. QED BY <2>1
<1>2. \A a \in 1..6 : Fits(<<a>>)
  <2> SUFFICES ASSUME NEW a \in 1..6 PROVE Fits(<<a>>)
    OBVIOUS
  <2>1. DOMAIN <<a>> = 1..1 /\ \A i \in 1..1 : <<a>>[i] \in 1..6
    OBVIOUS
  <2>2. QED BY <2>1
<1>3. \A a, b \in 1..6 : Fits(<<a, b>>)
  <2> SUFFICES ASSUME NEW a \in 1..6, NEW b \in 1..6 PROVE Fits(<<a, b>>)
    OBVIOUS
  <2>1. DOMAIN <<a, b>> = 1..2 /\ \A i \in 1..2 : <<a, b>>[i] \in 1..6
    OBVIOUS
  <2>2. QED BY <2>1
<1>4. \A n \in Nat : Fits([i \in 1..n |-> 6])
  OBVIOUS
<1> HIDE DEF Fits
<1>5. \A n \in 7..12 : n \div 2 \in 1..6 /\ (n + 1) \div 2 \in 1..6
  OBVIOUS
<1>6. Fits(ComboWidths(combo))
  <2>1. CASE combo <= 3
    <3>0. /\ (combo <= 3) = TRUE
          /\ (combo > 3 /\ combo - 1 <= Width) = FALSE
          /\ (combo - 1 > Width /\ combo <= 2 * Width) = FALSE
          /\ (combo = 2 * Width + 1) = FALSE
          /\ (combo > 2 * Width + 1 /\ combo <= 3 * Width + 1) = FALSE
          /\ (combo > 3 * Width + 1 /\ combo <= 4 * Width + 2) = FALSE
      BY <2>1 DEF Width
    <3>1. ComboWidths(combo) = <<>>
      BY <3>0, Zenon DEF ComboWidths
    <3>2. QED BY <3>1, <1>1
  <2>2. CASE combo > 3 /\ combo - 1 <= Width
    <3>0. /\ (combo <= 3) = FALSE
          /\ (combo > 3 /\ combo - 1 <= Width) = TRUE
          /\ (combo - 1 > Width /\ combo <= 2 * Width) = FALSE
          /\ (combo = 2 * Width + 1) = FALSE
          /\ (combo > 2 * Width + 1 /\ combo <= 3 * Width + 1) = FALSE
          /\ (combo > 3 * Width + 1 /\ combo <= 4 * Width + 2) = FALSE
      BY <2>2 DEF Width
    <3>1. ComboWidths(combo) = <<combo - 1>>
      BY <3>0, Zenon DEF ComboWidths
    <3>2. combo - 1 \in 1..6
      BY <2>2 DEF Width
    <3>3. QED BY <3>1, <3>2, <1>2
  <2>3. CASE combo - 1 > Width /\ combo <= 2 * Width
    <3> DEFINE n == IF combo > (Width * 3) \div 2 THEN combo ELSE combo - 1
    <3>1. ComboWidths(combo) = <<n \div 2, (n + 1) \div 2>>
      BY <2>3 DEF ComboWidths, Width
    <3>2. n \in 7..12
      BY <2>3 DEF Width
    <3> HIDE DEF n
    <3>3. QED BY <3>1, <3>2, <1>3, <1>5
  <2>4. CASE combo > 2 * Width
    <3> DEFINE lines(n) == [i \in 1..n |-> Width]
               a == combo = 2 * Width + 1
               b == combo > 2 * Width + 1 /\ combo <= 3 * Width + 1
               c == combo > 3 * Width + 1 /\ combo <= 4 * Width + 2
    <3>0. /\ ~(combo <= 3) /\ ~(combo > 3 /\ combo - 1 <= Width)
          /\ ~(combo - 1 > Width /\ combo <= 2 * Width)
          /\ ~(a /\ b) /\ ~(a /\ c) /\ ~(b /\ c)
      BY <2>4 DEF Width
    <3>1. CASE a
      <4>1. ComboWidths(combo) = lines(3)
        BY <3>0, <3>1, Zenon DEF ComboWidths
      <4>2. QED BY <4>1, <1>4 DEF Width
    <3>2. CASE b
      <4>1. ComboWidths(combo) = lines(4)
        BY <3>0, <3>2, Zenon DEF ComboWidths
      <4>2. QED BY <4>1, <1>4 DEF Width
    <3>3. CASE c
      <4>1. ComboWidths(combo) = lines(6)
        BY <3>0, <3>3, Zenon DEF ComboWidths
      <4>2. QED BY <4>1, <1>4 DEF Width
    <3>4. CASE ~a /\ ~b /\ ~c
      <4>1. ComboWidths(combo) = lines(8)
        BY <3>0, <3>4, Zenon DEF ComboWidths
      <4>2. QED BY <4>1, <1>4 DEF Width
    <3>5. QED BY <3>1, <3>2, <3>3, <3>4
  <2>5. QED BY <2>1, <2>2, <2>3, <2>4 DEF Width
<1>7. QED BY <1>6 DEF Fits, Width

(* The blocks of a combo, one after the other.                             *)
CombiningInv(c, k, s) == Stage(s) /\ s.active = c.from.active /\ s.failed = c.from.failed

Combining ==
  INSTANCE Loops WITH Step <- LAMBDA c, s, w : NewGarbage(s, c.maker, c.to, "COMBO", w),
                      Inv <- CombiningInv

(* The blocks of a combo keep the stage, one after the other.              *)
LEMMA CombiningStage ==
  \A s, f, to, combo :
    /\ Stage(s) /\ Typical /\ f \in Fields /\ to \in Fields /\ f \in players /\ to \in players
    /\ combo \in Nat \ 0..2 /\ tick'[to] \in Nat
    => LET n == NewBlocks(s, f, to, combo)
       IN  Stage(n) /\ n.active = s.active /\ n.failed = s.failed
<1> SUFFICES ASSUME NEW s, NEW f \in Fields, NEW to \in Fields, NEW combo \in Nat \ 0..2,
                    Stage(s), Typical, tick'[to] \in Nat, f \in players, to \in players
             PROVE  LET n == NewBlocks(s, f, to, combo)
                    IN  Stage(n) /\ n.active = s.active /\ n.failed = s.failed
  OBVIOUS
<1> DEFINE q == ComboWidths(combo)
           c == [from |-> s, maker |-> f, to |-> to]
           n == NewBlocks(s, f, to, combo)
           r == Combining!Loop(c, s, q)
<1>0. c.from = s /\ c.maker = f /\ c.to = to
  OBVIOUS
<1>1. PICK k \in Nat : DOMAIN q = 1..k /\ \A i \in 1..k : q[i] \in 1..Width
  BY ComboFits
<1>2. n = r
  BY DEF NewBlocks, Combining!Loop, Combining!MapThenFoldSet,
         Combining!Max, FoldLeft, MapThenFoldSet, Max
<1> HIDE DEF c, q
<1>3. CombiningInv(c, 0, s)
  BY <1>0 DEF CombiningInv
<1>4. ASSUME NEW i \in 1..k, NEW u, CombiningInv(c, i - 1, u)
      PROVE  CombiningInv(c, i, NewGarbage(u, c.maker, c.to, "COMBO", q[i]))
  <2>1. q[i] \in Nat \ {0} /\ q[i] <= Width
    BY <1>1 DEF Width
  <2> DEFINE z == q[i]
  <2> HIDE DEF z
  <2>2. z \in Nat \ {0} /\ z <= Width
    BY <2>1 DEF z
  <2>3. [from |-> f, to |-> to, type |-> "COMBO", size |-> z] \in GarbageRecord
    BY <2>2 DEF GarbageRecord, Types
  <2>4. Stage(u) /\ u.active = s.active /\ u.failed = s.failed
    BY <1>0, <1>4 DEF CombiningInv
  <2>5. LET w == NewGarbage(u, f, to, "COMBO", z)
        IN  Stage(w) /\ w.failed = u.failed /\ w.active = u.active
    <3>1. "COMBO" # "CHAIN"
      OBVIOUS
    <3>2. QED BY <2>2, <2>3, <2>4, <3>1, NewStage
  <2>6. QED BY <1>0, <2>4, <2>5 DEF CombiningInv, z
<1>5. CombiningInv(c, k, r)
  <2>1. \A i \in 1..k : \A u : CombiningInv(c, i - 1, u)
           => CombiningInv(c, i, NewGarbage(u, c.maker, c.to, "COMBO", q[i]))
    BY <1>4
  <2>2. QED BY <1>1, <1>3, <2>1, Combining!LoopInvariant
<1> HIDE DEF r, n
<1>6. Stage(n) /\ n.active = s.active /\ n.failed = s.failed
  BY <1>0, <1>2, <1>5 DEF CombiningInv
<1>7. QED BY <1>6 DEF n

(* The new garbages of a step.                                             *)
LEMMA OpponentIsField ==
  \A f : Opponents(f) # {} =>
    LET to == CHOOSE g \in Opponents(f) : TRUE
    IN  to \in Fields /\ to \in Opponents(f)
<1> SUFFICES ASSUME NEW f, Opponents(f) # {}
             PROVE  LET to == CHOOSE g \in Opponents(f) : TRUE
                    IN  to \in Fields /\ to \in Opponents(f)
  OBVIOUS
<1> DEFINE O == Opponents(f)
<1>1. O \in SUBSET Fields /\ O # {}
  BY DEF Opponents
<1> HIDE DEF O
<1>2. (CHOOSE g \in O : TRUE) \in O
  BY <1>1
<1>3. QED BY <1>1, <1>2 DEF O

Unfailed(s) == s.failed = ""

(* When there are not several, it is the only one.                         *)
LEMMA OnlyOpponent ==
  \A f, to : to \in Opponents(f) /\ ~(Cardinality(Opponents(f)) > 1) => Opponents(f) \subseteq {to}
<1> SUFFICES ASSUME NEW f, NEW to \in Opponents(f), NEW g \in Opponents(f), g # to
             PROVE  Cardinality(Opponents(f)) > 1
  OBVIOUS
<1>1. Opponents(f) \in SUBSET Fields
  BY DEF Opponents
<1>2. {to} \in SUBSET Opponents(f) /\ g \notin {to} /\ Cardinality({to}) = 1
  BY FS_Singleton
<1>3. Cardinality({to}) < Cardinality(Opponents(f))
  BY <1>1, <1>2, StrictlySmaller
<1>4. Cardinality(Opponents(f)) \in Nat
  BY <1>1, FieldSets
<1>5. QED BY <1>2, <1>3, <1>4

DistributesWell(s, f, combo, info, n) ==
  /\ Stage(n) /\ n.failed \in {"", "no target"}
  /\ \A h \in Fields \ {f} : n.active[h] = s.active[h]
  /\ s.active[f] # 0 => n.active[f] # 0
  /\ combo # 0 /\ info = 2 /\ Opponents(f) # {} /\ Unfailed(n) => n.active[f] # 0

(* Everything a step makes keeps the stage.                                *)
LEMMA DistributeStage ==
  \A s, f, combo, info :
    /\ Stage(s) /\ Typical /\ f \in Fields /\ Unfailed(s)
    /\ combo \in {0} \union (Nat \ 0..2) /\ info \in Nat \ {0}
    /\ info > 2 /\ Opponents(f) # {} => s.active[f] # 0
    /\ tick' \in [Fields -> Nat]
    /\ f \in players /\ Opponents(f) \subseteq players
    => DistributesWell(s, f, combo, info, Distribute(s, f, combo, info))
<1> SUFFICES ASSUME NEW s, NEW f \in Fields, NEW combo \in {0} \union (Nat \ 0..2),
                    NEW info \in Nat \ {0}, Stage(s), Typical, Unfailed(s),
                    info > 2 /\ Opponents(f) # {} => s.active[f] # 0,
                    tick' \in [Fields -> Nat],
                    f \in players, Opponents(f) \subseteq players
             PROVE  DistributesWell(s, f, combo, info, Distribute(s, f, combo, info))
  OBVIOUS
<1> DEFINE O == Opponents(f)
           to == CHOOSE g \in O : TRUE
           n == Distribute(s, f, combo, info)
           several == Cardinality(O) > 1
           fails == [s EXCEPT !.failed = "no target"]
           chained == NewChain(s, f, to, info)
<1>0. Sound(s) /\ Placed(s) /\ ChainsHang(s) /\ Mirrors(s, At(s))
  BY DEF Stage, Follows
<1>1. ~(O = {} /\ several)
  <2>1. Cardinality({}) = 0 /\ ~(0 > 1)
    BY FS_EmptySet
  <2>2. QED BY <2>1
<1>2. O # {} => to \in Fields /\ to \in O
  BY OpponentIsField
<1>11. O \subseteq players
  OBVIOUS
<1>12. O # {} /\ ~several => Opponents(f) \subseteq {to}
  BY <1>2, OnlyOpponent
<1>3. Stage(s) /\ DistributesWell(s, f, combo, 1, s)
  <2>1. 1 # 2
    OBVIOUS
  <2>2. QED BY <2>1, Zenon DEF DistributesWell, Unfailed
<1>4. n = IF combo = 0 \/ O = {} THEN s
          ELSE IF several
               THEN IF info = 2 \/ combo > 3 THEN fails
                    ELSE IF info > 2 THEN Grow(s, f) ELSE s
               ELSE IF Unfailed(chained) THEN NewBlocks(chained, f, to, combo) ELSE chained
  <2>1. CASE combo = 0 \/ O = {}
    BY <2>1, <1>1, Zenon DEF Distribute, Unfailed
  <2>2. CASE ~(combo = 0 \/ O = {}) /\ several
    BY <2>2, Zenon DEF Distribute, Unfailed
  <2>3. CASE ~(combo = 0 \/ O = {}) /\ ~several
    <3>1. ~(combo = 0 \/ O = {}) /\ ~(combo # 0 /\ several)
      BY <2>3
    <3>2. n = IF chained.failed = "" THEN NewBlocks(chained, f, to, combo) ELSE chained
      <4> DEFINE blocks == NewBlocks(chained, f, to, combo)
                 early == IF info = 2 \/ combo > 3 THEN fails
                          ELSE IF info > 2 THEN Grow(s, f) ELSE s
                 late == IF chained.failed = "" THEN blocks ELSE chained
                 none == combo = 0 \/ O = {}
                 many == combo # 0 /\ several
      <4>1. n = CASE none -> s [] many -> early [] OTHER -> late
        BY DEF Distribute
      <4> HIDE DEF n, none, many, early, late
      <4>2. ~none /\ ~many
        BY <3>1 DEF none, many
      <4>3. n = late
        BY <4>1, <4>2, Zenon
      <4>4. QED BY <4>3 DEF late
    <3> HIDE DEF n, O, to, several, fails, chained
    <3>3. QED BY <2>3, <3>2, Zenon DEF Unfailed
  <2> HIDE DEF n, O, to, several, fails, chained
  <2>4. QED BY <2>1, <2>2, <2>3, Zenon
<1> HIDE DEF n, O, to, several, fails
<1>5. /\ info = 1 => chained = s
      /\ info = 2 => chained = NewGarbage(s, f, to, "CHAIN", 1)
      /\ info > 2 => chained = Grow(s, f)
      /\ info = 1 \/ info = 2 \/ info > 2
  <2>1. CASE info = 1
    <3>1. ~(info = 2) /\ ~(info > 2)
      BY <2>1
    <3>2. QED BY <2>1, <3>1, Zenon DEF NewChain
  <2>2. CASE info = 2
    <3>1. ~(info = 1) /\ ~(info > 2)
      BY <2>2
    <3>2. QED BY <2>2, <3>1, Zenon DEF NewChain
  <2>3. CASE info > 2
    <3>1. ~(info = 1) /\ ~(info = 2)
      BY <2>3
    <3>2. QED BY <2>3, <3>1, Zenon DEF NewChain
  <2>4. info = 1 \/ info = 2 \/ info > 2
    OBVIOUS
  <2>5. QED BY <2>1, <2>2, <2>3, <2>4
<1> HIDE DEF chained
<1>6. ASSUME O # {}, info > 2
      PROVE  LET g == Grow(s, f) IN Stage(g) /\ Unfailed(g) /\ g.active = s.active
  BY <1>6, GrowStage DEF O, Unfailed
<1>7. CASE combo = 0 \/ O = {}
  <2>1. n = s
    BY <1>4, <1>7, Zenon
  <2>2. ~(combo # 0 /\ info = 2 /\ O # {} /\ Unfailed(s))
    BY <1>7, Zenon
  <2>3. DistributesWell(s, f, combo, info, s)
    BY <1>3, <2>2, Zenon DEF DistributesWell, O
  <2>4. QED BY <2>1, <2>3, Zenon DEF n
<1>8. CASE ~(combo = 0 \/ O = {}) /\ several
  <2>1. CASE info = 2 \/ combo > 3
    <3>1. n = fails
      BY <1>4, <1>8, <2>1
    <3>2. /\ DOMAIN n = DOMAIN s /\ n.gbs = s.gbs /\ n.due = s.due /\ n.hang = s.hang
          /\ n.wait = s.wait /\ n.active = s.active /\ n.sent = s.sent
          /\ n.failed = "no target"
      BY <3>1, <1>0 DEF Sound, fails
    <3>3. At(n) = At(s) /\ Made(n) = Made(s)
      BY <3>2 DEF At, Made
    <3>4. Sound(n)
      BY <1>0, <3>2, <3>3 DEF Sound
    <3>5. Placed(n)
      BY <1>0, <3>2, PlacedAlike
    <3>6. ChainsHang(n)
      BY <1>0, <3>2, <3>3 DEF ChainsHang
    <3>7. Mirrors(n, At(n))
      BY <1>0, <3>2, <3>3 DEF Mirrors
    <3>8. "no target" # ""
      OBVIOUS
    <3>9. Stage(n)
      <4>1. Aims(n)
        BY <3>2, AimsKept DEF Stage
      <4>2. QED BY <3>3, <3>4, <3>7, <3>5, <3>6, <4>1 DEF Stage, Follows
    <3>10. ~Unfailed(n) /\ n.failed \in {"", "no target"}
      BY <3>2, <3>8, Zenon DEF Unfailed
    <3>11. DistributesWell(s, f, combo, info, n)
      BY <3>2, <3>9, <3>10, Zenon DEF DistributesWell
    <3>12. QED BY <3>11 DEF n
  <2>2. CASE ~(info = 2 \/ combo > 3) /\ info > 2
    <3>1. n = Grow(s, f)
      BY <1>4, <1>8, <2>2
    <3>2. Stage(n) /\ Unfailed(n) /\ n.active = s.active
      BY <1>6, <1>8, <2>2, <3>1
    <3>3. info # 2
      BY <2>2
    <3>4. n.failed \in {"", "no target"}
      BY <3>2, Zenon DEF Unfailed
    <3>5. DistributesWell(s, f, combo, info, n)
      BY <3>2, <3>3, <3>4, Zenon DEF DistributesWell
    <3>6. QED BY <3>5 DEF n
  <2>3. CASE ~(info = 2 \/ combo > 3) /\ ~(info > 2)
    <3>1. n = s
      BY <1>4, <1>8, <2>3
    <3>2. QED BY <1>3, <2>3, <3>1 DEF DistributesWell, n
  <2>4. QED BY <2>1, <2>2, <2>3
<1>9. CASE ~(combo = 0 \/ O = {}) /\ ~several
  <2>0. /\ to \in Fields /\ tick'[to] \in Nat /\ combo \in Nat \ 0..2
        /\ to \in players /\ Opponents(f) \subseteq {to}
    BY <1>2, <1>9, <1>11, <1>12
  <2>1. /\ Stage(chained) /\ Unfailed(chained)
        /\ \A h \in Fields \ {f} : chained.active[h] = s.active[h]
        /\ s.active[f] # 0 => chained.active[f] # 0
        /\ info = 2 => chained.active[f] # 0
    <3>1. CASE info = 1
      BY <3>1, <1>5
    <3>2. CASE info = 2
      <4>1. [from |-> f, to |-> to, type |-> "CHAIN", size |-> 1] \in GarbageRecord
        BY <2>0 DEF GarbageRecord, Types
      <4>2. "CHAIN" # "COMBO"
        OBVIOUS
      <4>3. LET g == NewGarbage(s, f, to, "CHAIN", 1)
            IN  /\ Stage(g) /\ g.failed = s.failed /\ g.active[f] # 0
                /\ \A h \in Fields \ {f} : g.active[h] = s.active[h]
        BY <2>0, <4>1, <4>2, NewStage
      <4>4. QED BY <3>2, <4>3, <1>5 DEF Unfailed
    <3>3. CASE info > 2
      BY <3>3, <1>5, <1>6, <1>9
    <3>4. QED BY <3>1, <3>2, <3>3, <1>5
  <2>2. n = NewBlocks(chained, f, to, combo)
    BY <1>4, <1>9, <2>1
  <2>3. Stage(n) /\ n.active = chained.active /\ n.failed = chained.failed
    BY <2>0, <2>1, <2>2, CombiningStage
  <2>4. DistributesWell(s, f, combo, info, n)
    BY <2>1, <2>3 DEF DistributesWell, Unfailed
  <2>5. QED BY <2>4 DEF n
<1>10. QED BY <1>7, <1>8, <1>9

-----------------------------------------------------------------------------
(* What a step of a field makes of the distributor.                        *)
LEMMA UpdateStage ==
  \A f, combo, info :
    /\ Stage(Now) /\ Typical /\ f \in Fields
    /\ combo \in {0} \union (Nat \ 0..2) /\ info \in Nat \ {0}
    /\ info > 2 /\ Opponents(f) # {} => active[f] # 0 /\ ~(chain'[f] < 2)
    /\ tick' \in [Fields -> Nat]
    /\ f \in players /\ Opponents(f) \subseteq players
    => LET n == UpdateGarbages(f, combo, info)
       IN  /\ Stage(n) /\ n.failed \in {"", "no target"}
           /\ \A h \in Fields \ {f} : n.active[h] = active[h]
           /\ active[f] # 0 /\ ~(chain'[f] < 2) => n.active[f] # 0
           /\ combo # 0 /\ info = 2 /\ Opponents(f) # {} /\ Unfailed(n) => n.active[f] # 0
<1> SUFFICES ASSUME NEW f \in Fields, NEW combo \in {0} \union (Nat \ 0..2),
                    NEW info \in Nat \ {0}, Stage(Now), Typical,
                    info > 2 /\ Opponents(f) # {} => active[f] # 0 /\ ~(chain'[f] < 2),
                    tick' \in [Fields -> Nat],
                    f \in players, Opponents(f) \subseteq players
             PROVE  LET n == UpdateGarbages(f, combo, info)
                    IN  /\ Stage(n) /\ n.failed \in {"", "no target"}
                        /\ \A h \in Fields \ {f} : n.active[h] = active[h]
                        /\ active[f] # 0 /\ ~(chain'[f] < 2) => n.active[f] # 0
                        /\ combo # 0 /\ info = 2 /\ Opponents(f) # {} /\ Unfailed(n)
                           => n.active[f] # 0
  OBVIOUS
<1> DEFINE s == Now
           a == CancelChain(s, f)
           b == DropDue(a, f)
           n == Distribute(b, f, combo, info)
<1>1. Unfailed(s) /\ s.active = active
  BY Zenon DEF Now, Unfailed
<1> HIDE DEF s
<1>2. /\ Stage(a) /\ a.failed = s.failed
      /\ \A h \in Fields \ {f} : a.active[h] = s.active[h]
      /\ ~(chain'[f] < 2) => a.active[f] = s.active[f]
  BY CancelStage DEF s
<1> HIDE DEF a
<1>3. Stage(b) /\ b.failed = a.failed /\ b.active = a.active
  BY <1>2, DropDueStage
<1> HIDE DEF b
<1>4. info > 2 /\ Opponents(f) # {} => b.active[f] # 0
  BY <1>1, <1>2, <1>3
<1>5. Unfailed(b)
  BY <1>1, <1>2, <1>3, Zenon DEF Unfailed
<1>6. DistributesWell(b, f, combo, info, n)
  BY <1>3, <1>4, <1>5, DistributeStage
<1>7. n = UpdateGarbages(f, combo, info)
  BY DEF UpdateGarbages, b, a, s
<1> HIDE DEF n
<1>8. QED BY <1>1, <1>2, <1>3, <1>6, <1>7, Zenon DEF DistributesWell

-----------------------------------------------------------------------------
(* The inductive invariant.  The client, whatever it has read so far.      *)
Errors ==
  {"", "garbage not found", "invalid garbage position", "invalid garbage target",
   "invalid garbage origin", "invalid player", "assertion", "invalid dropped garbage"}

ClientTyped(v) ==
  /\ DOMAIN v = {"hang", "wait", "gbs", "up", "gone", "error"}
  /\ v.hang \in [Fields -> Seq(GbIds)] /\ v.wait \in [Fields -> Seq(GbIds)]
  /\ DOMAIN v.gbs \subseteq GbIds
  /\ v.gbs \in [DOMAIN v.gbs -> [to : Fields, size : Nat \ {0}]]
  /\ v.up \in Seq(GbIds) /\ v.gone \subseteq Fields
  /\ v.error \in Errors

(* A chain that goes on has an active garbage, if there was anyone to send *)
(* it to when it began: fields are only ever lost.                         *)
ChainsHeld ==
  failed = "" =>
    \A f \in Fields : chain[f] >= 2 /\ {g \in Fields \ {f} : ~lost[g]} # {} => active[f] # 0

(* Its target is the only one it could have: see Aims.                     *)
ChainsAim ==
  \A f \in Fields : active[f] # 0 => {g \in Fields \ {f} : ~lost[g]} \subseteq {gbs[active[f]].to}

GarbageInv ==
  /\ MatchInv
  /\ chain \in [Fields -> Nat \ {0}]
  /\ Len(gbs) <= GbMax
  /\ Follows(Now, Ahead)
  /\ Ahead.gone = Departed
  /\ ClientTyped(view)
  /\ down \in Seq(Message(GbIds))
  /\ failed \in {"", "no target"}
  /\ ChainsHeld /\ ChainsAim

-----------------------------------------------------------------------------
(* The client reads one more message: its queues and garbages stay typed,  *)
(* whatever they are and whatever the message says.                        *)
LEMMA RemovedTyped ==
  ASSUME NEW S, NEW q \in Seq(S), NEW e
  PROVE  RemoveFirst(q, e) \in Seq(S)
<1> DEFINE I == {i \in 1..Len(q) : q[i] = e}
<1>1. CASE I = {}
  BY <1>1 DEF RemoveFirst
<1>2. CASE I # {}
  <2>1. I \in SUBSET Nat
    OBVIOUS
  <2>2. PICK i \in I : \A j \in I : i <= j
    <3> HIDE DEF I
    <3>1. QED BY <1>2, <2>1, LeastNatural
  <2>3. Min(I) \in I
    <3> HIDE DEF I
    <3>1. \A j \in I : i <= j
      BY <2>2
    <3>2. QED BY <2>2, <3>1, Zenon DEF Min
  <2>4. RemoveFirst(q, e) = RemoveAt(q, Min(I))
    BY <1>2 DEF RemoveFirst, SelectInSeq
  <2>5. Min(I) \in 1..Len(q)
    BY <2>3
  <2> HIDE DEF I
  <2> DEFINE i0 == Min(I)
  <2> HIDE DEF i0
  <2>6. i0 \in 1..Len(q)
    BY <2>5 DEF i0
  <2>7. SubSeq(q, 1, i0 - 1) \in Seq(S) /\ SubSeq(q, i0 + 1, Len(q)) \in Seq(S)
    BY <2>6
  <2>8. SubSeq(q, 1, i0 - 1) \o SubSeq(q, i0 + 1, Len(q)) \in Seq(S)
    BY <2>7, ConcatProperties
  <2>9. QED BY <2>4, <2>8 DEF RemoveAt, i0
<1>3. QED BY <1>1, <1>2

(* What the handlers may do to the view, with typed pieces.           *)
LEMMA RefuseTyped ==
  \A v, why : ClientTyped(v) /\ why \in Errors => ClientTyped(Refuse(v, why))
<1> SUFFICES ASSUME NEW v, ClientTyped(v), NEW why \in Errors
             PROVE  ClientTyped(Refuse(v, why))
  OBVIOUS
<1> DEFINE w == Refuse(v, why)
<1>1. /\ DOMAIN w = DOMAIN v /\ w.hang = v.hang /\ w.wait = v.wait /\ w.gbs = v.gbs
      /\ w.up = v.up /\ w.gone = v.gone /\ w.error = why
  BY DEF Refuse, ClientTyped
<1> HIDE DEF w
<1>2. ClientTyped(w)
  BY <1>1 DEF ClientTyped
<1>3. QED BY <1>2 DEF w

(* The errors there are.                                                   *)
LEMMA ErrorsAre ==
  /\ "garbage not found" \in Errors /\ "invalid garbage position" \in Errors
  /\ "invalid garbage target" \in Errors /\ "invalid garbage origin" \in Errors
  /\ "invalid player" \in Errors /\ "assertion" \in Errors
  /\ "invalid dropped garbage" \in Errors
BY Zenon DEF Errors

(* Each message in turn: a new garbage,                                    *)
LEMMA OnNewTyped ==
  \A v, m : ClientTyped(v) /\ m \in Message(GbIds) /\ m.type = "NEW" => ClientTyped(OnNew(v, m))
<1> SUFFICES ASSUME NEW v, NEW m \in Message(GbIds), ClientTyped(v), m.type = "NEW"
             PROVE  ClientTyped(OnNew(v, m))
  OBVIOUS
<1> DEFINE w == OnNew(v, m)
           q == v.hang[m.to]
           r == InsertAt(q, m.pos + 1, m.gb)
           h == [g \in DOMAIN v.gbs \union {m.gb} |->
                   IF g = m.gb THEN [to |-> m.to, size |-> m.size] ELSE v.gbs[g]]
<1>1. m.gb \in GbIds /\ m.to \in Fields /\ m.pos \in Nat /\ m.size \in Nat \ {0}
  BY DEF Message
<1>2. q \in Seq(GbIds)
  BY <1>1 DEF ClientTyped
<1>3. CASE m.to \in v.gone \/ m.from \in v.gone \/ m.pos > Len(q)
  <2>1. \E why \in Errors : w = Refuse(v, why)
    BY <1>3, ErrorsAre, Zenon DEF OnNew
  <2>2. QED BY <2>1, RefuseTyped, Zenon
<1>4. CASE ~(m.to \in v.gone \/ m.from \in v.gone \/ m.pos > Len(q))
  <2>1. m.pos + 1 \in 1..(Len(q) + 1)
    <3> HIDE DEF q
    <3>1. QED BY <1>1, <1>2, <1>4
  <2>2. r \in Seq(GbIds)
    BY <1>1, <1>2, <2>1, Inserted
  <2>3. w = [[v EXCEPT !.hang[m.to] = r] EXCEPT !.gbs = h]
    BY <1>4 DEF OnNew, AddGarbage, InsertHangingGarbage, ClientTyped
  <2>4. /\ DOMAIN h \subseteq GbIds
        /\ h \in [DOMAIN h -> [to : Fields, size : Nat \ {0}]]
    BY <1>1 DEF ClientTyped
  <2> HIDE DEF w, r, h, q
  <2>5. /\ DOMAIN w = DOMAIN v /\ w.hang = [v.hang EXCEPT ![m.to] = r] /\ w.wait = v.wait
        /\ w.gbs = h /\ w.up = v.up /\ w.error = v.error /\ w.gone = v.gone
    BY <2>3 DEF ClientTyped
  <2>6. w.hang \in [Fields -> Seq(GbIds)]
    BY <2>2, <2>5 DEF ClientTyped
  <2>7. ClientTyped(w)
    BY <2>4, <2>5, <2>6 DEF ClientTyped
  <2>8. QED BY <2>7 DEF w
<1>5. QED BY <1>3, <1>4

(* a size,                                                                 *)
LEMMA OnSizeTyped ==
  \A v, m : ClientTyped(v) /\ m \in Message(GbIds) /\ m.type = "SIZE" => ClientTyped(OnSize(v, m))
<1> SUFFICES ASSUME NEW v, NEW m \in Message(GbIds), ClientTyped(v), m.type = "SIZE"
             PROVE  ClientTyped(OnSize(v, m))
  OBVIOUS
<1> DEFINE w == OnSize(v, m)
           to == v.gbs[m.gb].to
           q == RemoveFirst(v.hang[to], m.gb)
           r == InsertAt(q, 1, m.gb)
<1>1. m.gb \in GbIds /\ m.pos = 0 /\ m.size \in Nat \ {0}
  BY DEF Message
<1>2. CASE ~Hangs(v, m.gb) \/ to \in v.gone
  <2>1. \E why \in Errors : w = Refuse(v, why)
    BY <1>2, ErrorsAre, Zenon DEF OnSize
  <2>2. QED BY <2>1, RefuseTyped, Zenon
<1>3. CASE Hangs(v, m.gb) /\ to \notin v.gone
  <2>1. m.gb \in DOMAIN v.gbs /\ v.gbs[m.gb] \in [to : Fields, size : Nat \ {0}]
    BY <1>3 DEF Hangs, ClientTyped
  <2>2. to \in Fields
    BY <2>1
  <2>3. v.hang[to] \in Seq(GbIds)
    BY <2>2 DEF ClientTyped
  <2>4. q \in Seq(GbIds)
    BY <2>3, RemovedTyped
  <2>5. 1 \in 1..(Len(q) + 1)
    <3> HIDE DEF q
    <3>1. QED BY <2>4
  <2>6. r \in Seq(GbIds)
    BY <1>1, <2>4, <2>5, Inserted
  <2>7. w = [[[v EXCEPT !.hang[to] = RemoveFirst(@, m.gb)]
               EXCEPT !.hang[to] = InsertAt(@, 0 + 1, m.gb)] EXCEPT !.gbs[m.gb].size = m.size]
    BY <1>1, <1>3 DEF OnSize, MoveHangingGarbage, RemoveHangingGarbage, InsertHangingGarbage
  <2>8. 0 + 1 = 1
    OBVIOUS
  <2> HIDE DEF w, to
  <2>9. /\ DOMAIN w = DOMAIN v /\ w.wait = v.wait /\ w.up = v.up /\ w.error = v.error
        /\ w.gone = v.gone
        /\ w.gbs = [v.gbs EXCEPT ![m.gb].size = m.size]
        /\ w.hang = [[v.hang EXCEPT ![to] = q] EXCEPT ![to] = InsertAt(@, 1, m.gb)]
    BY <2>7, <2>8 DEF ClientTyped
  <2>10. w.hang = [v.hang EXCEPT ![to] = r]
    <3> HIDE DEF q
    <3>1. QED BY <2>2, <2>9 DEF ClientTyped
  <2> HIDE DEF q, r
  <2>11. w.hang \in [Fields -> Seq(GbIds)]
    BY <2>6, <2>10 DEF ClientTyped
  <2>12. /\ DOMAIN w.gbs = DOMAIN v.gbs
         /\ w.gbs \in [DOMAIN w.gbs -> [to : Fields, size : Nat \ {0}]]
    <3> DEFINE D == DOMAIN v.gbs
               T == [to : Fields, size : Nat \ {0}]
               r1 == [v.gbs[m.gb] EXCEPT !.size = m.size]
    <3>1. v.gbs \in [D -> T] /\ m.gb \in D
      BY <2>1 DEF ClientTyped
    <3>2. r1 \in T
      BY <1>1, <2>1
    <3>3. w.gbs = [v.gbs EXCEPT ![m.gb] = r1]
      BY <2>9
    <3> HIDE DEF D, T, r1
    <3>4. w.gbs \in [D -> T] /\ DOMAIN w.gbs = D
      BY <3>1, <3>2, <3>3
    <3>5. QED BY <3>4 DEF D, T
  <2>13. ClientTyped(w)
    BY <2>9, <2>11, <2>12 DEF ClientTyped
  <2>14. QED BY <2>13 DEF w
<1>4. QED BY <1>2, <1>3

(* a garbage that waits,                                                   *)
LEMMA OnWaitTyped ==
  \A v, m : ClientTyped(v) /\ m \in Message(GbIds) /\ m.type = "WAIT" => ClientTyped(OnWait(v, m))
<1> SUFFICES ASSUME NEW v, NEW m \in Message(GbIds), ClientTyped(v), m.type = "WAIT"
             PROVE  ClientTyped(OnWait(v, m))
  OBVIOUS
<1> DEFINE w == OnWait(v, m)
           to == v.gbs[m.gb].to
           q == RemoveFirst(v.hang[to], m.gb)
<1>1. m.gb \in GbIds
  BY DEF Message
<1>2. CASE ~Hangs(v, m.gb) \/ to \in v.gone
  <2>1. \E why \in Errors : w = Refuse(v, why)
    BY <1>2, ErrorsAre, Zenon DEF OnWait
  <2>2. QED BY <2>1, RefuseTyped, Zenon
<1>3. CASE Hangs(v, m.gb) /\ to \notin v.gone
  <2>1. m.gb \in DOMAIN v.gbs /\ v.gbs[m.gb] \in [to : Fields, size : Nat \ {0}]
    BY <1>3 DEF Hangs, ClientTyped
  <2>2. to \in Fields
    BY <2>1
  <2>3. v.hang[to] \in Seq(GbIds) /\ v.wait[to] \in Seq(GbIds)
    BY <2>2 DEF ClientTyped
  <2>4. q \in Seq(GbIds)
    BY <2>3, RemovedTyped
  <2>5. Append(v.wait[to], m.gb) \in Seq(GbIds) /\ Append(v.up, m.gb) \in Seq(GbIds)
    <3>1. v.up \in Seq(GbIds)
      BY DEF ClientTyped
    <3> HIDE DEF to
    <3>2. QED BY <1>1, <2>3, <3>1
  <2>6. \/ w = [[v EXCEPT !.hang[to] = q] EXCEPT !.up = Append(@, m.gb)]
        \/ w = [[v EXCEPT !.hang[to] = q] EXCEPT !.wait[to] = Append(@, m.gb)]
    BY <1>3 DEF OnWait, WaitGarbageDrop, RemoveHangingGarbage, ClientTyped
  <2> HIDE DEF w, to, q
  <2>7. /\ DOMAIN w = DOMAIN v /\ w.gbs = v.gbs /\ w.error = v.error /\ w.gone = v.gone
        /\ w.hang = [v.hang EXCEPT ![to] = q]
        /\ w.wait = v.wait \/ w.wait = [v.wait EXCEPT ![to] = Append(v.wait[to], m.gb)]
        /\ w.up = v.up \/ w.up = Append(v.up, m.gb)
    <3>1. CASE w = [[v EXCEPT !.hang[to] = q] EXCEPT !.up = Append(@, m.gb)]
      BY <3>1 DEF ClientTyped
    <3>2. CASE w = [[v EXCEPT !.hang[to] = q] EXCEPT !.wait[to] = Append(@, m.gb)]
      BY <3>2 DEF ClientTyped
    <3>3. QED BY <2>6, <3>1, <3>2
  <2>8. w.hang \in [Fields -> Seq(GbIds)] /\ w.wait \in [Fields -> Seq(GbIds)]
        /\ w.up \in Seq(GbIds)
    <3>1. /\ v.hang \in [Fields -> Seq(GbIds)] /\ v.wait \in [Fields -> Seq(GbIds)]
          /\ v.up \in Seq(GbIds)
      BY DEF ClientTyped
    <3>2. w.hang \in [Fields -> Seq(GbIds)]
      BY <3>1, <2>2, <2>4, <2>7
    <3>3. w.wait \in [Fields -> Seq(GbIds)]
      BY <3>1, <2>2, <2>5, <2>7
    <3>4. w.up \in Seq(GbIds)
      BY <3>1, <2>5, <2>7
    <3>5. QED BY <3>2, <3>3, <3>4
  <2>9. ClientTyped(w)
    BY <2>7, <2>8 DEF ClientTyped
  <2>10. QED BY <2>9 DEF w
<1>4. QED BY <1>2, <1>3

(* a drop,                                                                 *)
LEMMA OnDropTyped ==
  \A v, m : ClientTyped(v) /\ m \in Message(GbIds) /\ m.type = "DROP" => ClientTyped(OnDrop(v, m))
<1> SUFFICES ASSUME NEW v, NEW m \in Message(GbIds), ClientTyped(v), m.type = "DROP"
             PROVE  ClientTyped(OnDrop(v, m))
  OBVIOUS
<1> DEFINE w == OnDrop(v, m)
           to == v.gbs[m.gb].to
<1>1. \/ w = v
      \/ w = Refuse(v, "garbage not found")
      \/ w = Refuse(v, "invalid player")
      \/ w = Refuse(v, "invalid dropped garbage")
      \/ /\ m.gb \in DOMAIN v.gbs /\ v.wait[to] # <<>>
         /\ w = [v EXCEPT !.wait[to] = Tail(@)]
  BY DEF OnDrop
<1>2. CASE \/ w = v \/ w = Refuse(v, "garbage not found") \/ w = Refuse(v, "invalid player")
           \/ w = Refuse(v, "invalid dropped garbage")
  BY <1>2, ErrorsAre, RefuseTyped, Zenon
<1>3. CASE /\ m.gb \in DOMAIN v.gbs /\ v.wait[to] # <<>>
           /\ w = [v EXCEPT !.wait[to] = Tail(@)]
  <2>1. v.gbs[m.gb] \in [to : Fields, size : Nat \ {0}]
    BY <1>3 DEF ClientTyped
  <2>2. to \in Fields
    BY <2>1
  <2>3. Tail(v.wait[to]) \in Seq(GbIds)
    <3>1. v.wait[to] \in Seq(GbIds) /\ v.wait[to] # <<>>
      BY <1>3, <2>2 DEF ClientTyped
    <3> HIDE DEF to
    <3>2. QED BY <3>1
  <2> HIDE DEF w, to
  <2>4. /\ DOMAIN w = DOMAIN v /\ w.gbs = v.gbs /\ w.error = v.error /\ w.gone = v.gone
        /\ w.hang = v.hang
        /\ w.up = v.up
        /\ w.wait = [v.wait EXCEPT ![to] = Tail(v.wait[to])]
    BY <1>3 DEF ClientTyped
  <2>5. w.wait \in [Fields -> Seq(GbIds)]
    BY <2>2, <2>3, <2>4 DEF ClientTyped
  <2>6. ClientTyped(w)
    BY <2>4, <2>5 DEF ClientTyped
  <2>7. QED BY <2>6 DEF w
<1>4. QED BY <1>1, <1>2, <1>3

(* a departure,                                                            *)
LEMMA OnQuitTyped ==
  \A v, m : ClientTyped(v) /\ m \in Message(GbIds) /\ m.type = "QUIT" => ClientTyped(OnQuit(v, m))
<1> SUFFICES ASSUME NEW v, NEW m \in Message(GbIds), ClientTyped(v), m.type = "QUIT"
             PROVE  ClientTyped(OnQuit(v, m))
  OBVIOUS
<1> DEFINE w == OnQuit(v, m)
<1>1. m.player \in Fields
  BY DEF Message
<1>2. /\ DOMAIN w = DOMAIN v /\ w.hang = v.hang /\ w.wait = v.wait /\ w.gbs = v.gbs
      /\ w.up = v.up /\ w.error = v.error /\ w.gone = v.gone \union {m.player}
  BY DEF OnQuit, ClientTyped
<1> HIDE DEF w
<1>3. ClientTyped(w)
  BY <1>1, <1>2 DEF ClientTyped
<1>4. QED BY <1>3 DEF w

(* and any of them.                                                        *)
LEMMA OnTyped ==
  \A v, m : ClientTyped(v) /\ m \in Message(GbIds) => ClientTyped(On(v, m))
<1> SUFFICES ASSUME NEW v, NEW m \in Message(GbIds), ClientTyped(v)
             PROVE  ClientTyped(On(v, m))
  OBVIOUS
<1>1. m.type \in {"NEW", "SIZE", "WAIT", "DROP", "QUIT"}
  BY DEF Message
<1>2. CASE v.error # ""
  BY <1>2 DEF On
<1>3. CASE v.error = "" /\ m.type = "NEW"
  BY <1>3, OnNewTyped DEF On
<1>4. CASE v.error = "" /\ m.type = "SIZE"
  BY <1>4, OnSizeTyped DEF On
<1>5. CASE v.error = "" /\ m.type = "WAIT"
  BY <1>5, OnWaitTyped DEF On
<1>6. CASE v.error = "" /\ m.type = "DROP"
  BY <1>6, OnDropTyped DEF On
<1>7. CASE v.error = "" /\ m.type = "QUIT"
  BY <1>7, OnQuitTyped DEF On
<1>8. QED BY <1>1, <1>2, <1>3, <1>4, <1>5, <1>6, <1>7

-----------------------------------------------------------------------------
(* The drop at the head of those confirmed may be taken away before the    *)
(* client reads the rest or after: reading only adds to them.              *)
Confirms(v) ==
  DOMAIN v = {"hang", "wait", "gbs", "up", "gone", "error"} /\ v.up \in Seq(Ids) /\ v.up # <<>>

\* Two views that differ by the drop at the head only.
Behind(u, v) ==
  /\ DOMAIN u = {"hang", "wait", "gbs", "up", "gone", "error"}
  /\ u.hang = v.hang /\ u.wait = v.wait /\ u.gbs = v.gbs /\ u.error = v.error /\ u.gone = v.gone
  /\ u.up = Tail(v.up)

(* Nothing that is read tells two such views apart.                        *)
LEMMA RefuseBehind ==
  \A u, v, why : Confirms(v) /\ Behind(u, v) =>
    Confirms(Refuse(v, why)) /\ Behind(Refuse(u, why), Refuse(v, why))
BY DEF Refuse, Confirms, Behind

(* Each message in turn: a new garbage,                                    *)
LEMMA OnNewBehind ==
  \A u, v, m : Confirms(v) /\ Behind(u, v) =>
    Confirms(OnNew(v, m)) /\ Behind(OnNew(u, m), OnNew(v, m))
<1> SUFFICES ASSUME NEW u, NEW v, NEW m, Confirms(v), Behind(u, v)
             PROVE  Confirms(OnNew(v, m)) /\ Behind(OnNew(u, m), OnNew(v, m))
  OBVIOUS
<1>0. u.gone = v.gone /\ u.hang = v.hang
  BY DEF Behind
<1>1. CASE m.to \in v.gone \/ m.from \in v.gone \/ m.pos > Len(v.hang[m.to])
  <2>1. \E why : OnNew(u, m) = Refuse(u, why) /\ OnNew(v, m) = Refuse(v, why)
    BY <1>0, <1>1, Zenon DEF OnNew
  <2>2. QED BY <2>1, RefuseBehind, Zenon
<1>2. CASE ~(m.to \in v.gone \/ m.from \in v.gone \/ m.pos > Len(v.hang[m.to]))
  BY <1>0, <1>2 DEF OnNew, AddGarbage, InsertHangingGarbage, Behind, Confirms
<1>3. QED BY <1>1, <1>2

(* a size,                                                                 *)
LEMMA OnSizeBehind ==
  \A u, v, m : Confirms(v) /\ Behind(u, v) =>
    Confirms(OnSize(v, m)) /\ Behind(OnSize(u, m), OnSize(v, m))
<1> SUFFICES ASSUME NEW u, NEW v, NEW m, Confirms(v), Behind(u, v)
             PROVE  Confirms(OnSize(v, m)) /\ Behind(OnSize(u, m), OnSize(v, m))
  OBVIOUS
<1>0. (Hangs(u, m.gb) <=> Hangs(v, m.gb)) /\ u.gone = v.gone /\ u.gbs = v.gbs
  BY DEF Hangs, Behind
<1>1. CASE ~Hangs(v, m.gb) \/ v.gbs[m.gb].to \in v.gone
  <2>1. \E why : OnSize(u, m) = Refuse(u, why) /\ OnSize(v, m) = Refuse(v, why)
    BY <1>0, <1>1, Zenon DEF OnSize
  <2>2. QED BY <2>1, RefuseBehind, Zenon
<1>2. CASE Hangs(v, m.gb) /\ v.gbs[m.gb].to \notin v.gone
  BY <1>0, <1>2 DEF OnSize, MoveHangingGarbage, RemoveHangingGarbage, InsertHangingGarbage,
     Behind, Confirms
<1>3. QED BY <1>1, <1>2

(* a garbage that waits, which is confirmed behind the drop at the head,   *)
LEMMA OnWaitBehind ==
  \A u, v, m : Confirms(v) /\ Behind(u, v) /\ m.gb \in Ids =>
    Confirms(OnWait(v, m)) /\ Behind(OnWait(u, m), OnWait(v, m))
<1> SUFFICES ASSUME NEW u, NEW v, NEW m, Confirms(v), Behind(u, v), m.gb \in Ids
             PROVE  Confirms(OnWait(v, m)) /\ Behind(OnWait(u, m), OnWait(v, m))
  OBVIOUS
<1>0. /\ Hangs(u, m.gb) <=> Hangs(v, m.gb)
      /\ u.gbs = v.gbs /\ u.gone = v.gone
  BY DEF Hangs, Behind
<1>1. CASE ~Hangs(v, m.gb) \/ v.gbs[m.gb].to \in v.gone
  <2>1. \E why : OnWait(u, m) = Refuse(u, why) /\ OnWait(v, m) = Refuse(v, why)
    BY <1>0, <1>1, Zenon DEF OnWait
  <2>2. QED BY <2>1, RefuseBehind, Zenon
<1>2. CASE Hangs(v, m.gb) /\ v.gbs[m.gb].to \notin v.gone /\ v.gbs[m.gb].to = Me
  <2> DEFINE x == OnWait(u, m)
             w == OnWait(v, m)
             g == m.gb
  <2>1. /\ v.up \in Seq(Ids) /\ v.up # <<>> /\ u.up = Tail(v.up) /\ g \in Ids
    BY DEF Confirms, Behind
  <2>2. /\ Append(v.up, g) \in Seq(Ids) /\ Append(v.up, g) # <<>>
        /\ Append(u.up, g) = Tail(Append(v.up, g))
    <3> HIDE DEF g
    <3>1. QED BY <2>1
  <2>3. /\ DOMAIN x = DOMAIN u /\ x.wait = u.wait /\ x.gbs = u.gbs /\ x.error = u.error
        /\ x.gone = u.gone
        /\ x.hang = [u.hang EXCEPT ![v.gbs[g].to] = RemoveFirst(@, g)]
        /\ x.up = Append(u.up, g)
    BY <1>0, <1>2 DEF OnWait, RemoveHangingGarbage, Behind
  <2>4. /\ DOMAIN w = DOMAIN v /\ w.wait = v.wait /\ w.gbs = v.gbs /\ w.error = v.error
        /\ w.gone = v.gone
        /\ w.hang = [v.hang EXCEPT ![v.gbs[g].to] = RemoveFirst(@, g)]
        /\ w.up = Append(v.up, g)
    BY <1>2 DEF OnWait, RemoveHangingGarbage, Confirms
  <2> HIDE DEF x, w, g
  <2>5. Confirms(w) /\ Behind(x, w)
    BY <2>2, <2>3, <2>4 DEF Confirms, Behind
  <2>6. QED BY <2>5 DEF x, w
<1>3. CASE Hangs(v, m.gb) /\ v.gbs[m.gb].to \notin v.gone /\ v.gbs[m.gb].to # Me
  BY <1>0, <1>3 DEF OnWait, WaitGarbageDrop, RemoveHangingGarbage, Behind, Confirms
<1>4. QED BY <1>1, <1>2, <1>3

(* a drop,                                                                 *)
LEMMA OnDropBehind ==
  \A u, v, m : Confirms(v) /\ Behind(u, v) =>
    Confirms(OnDrop(v, m)) /\ Behind(OnDrop(u, m), OnDrop(v, m))
<1> SUFFICES ASSUME NEW u, NEW v, NEW m, Confirms(v), Behind(u, v)
             PROVE  Confirms(OnDrop(v, m)) /\ Behind(OnDrop(u, m), OnDrop(v, m))
  OBVIOUS
<1>0. u.gbs = v.gbs /\ u.wait = v.wait /\ u.gone = v.gone
  BY DEF Behind
<1> DEFINE to == v.gbs[m.gb].to
           wrong == v.wait[to] = <<>> \/ Head(v.wait[to]) # m.gb
<1>1. CASE m.gb \notin DOMAIN v.gbs \/ to \in v.gone
  <2>1. \E why : OnDrop(u, m) = Refuse(u, why) /\ OnDrop(v, m) = Refuse(v, why)
    BY <1>0, <1>1, Zenon DEF OnDrop
  <2>2. QED BY <2>1, RefuseBehind, Zenon
<1>2. CASE m.gb \in DOMAIN v.gbs /\ to \notin v.gone /\ to = Me
  BY <1>0, <1>2 DEF OnDrop
<1>3. CASE m.gb \in DOMAIN v.gbs /\ to \notin v.gone /\ to # Me /\ wrong
  <2>1. \E why : OnDrop(u, m) = Refuse(u, why) /\ OnDrop(v, m) = Refuse(v, why)
    BY <1>0, <1>3, Zenon DEF OnDrop
  <2>2. QED BY <2>1, RefuseBehind, Zenon
<1>4. CASE m.gb \in DOMAIN v.gbs /\ to \notin v.gone /\ to # Me /\ ~wrong
  <2>1. /\ OnDrop(u, m) = [u EXCEPT !.wait[to] = Tail(@)]
        /\ OnDrop(v, m) = [v EXCEPT !.wait[to] = Tail(@)]
    BY <1>0, <1>4 DEF OnDrop
  <2> HIDE DEF to
  <2>2. QED BY <2>1 DEF Behind, Confirms
<1>5. QED BY <1>1, <1>2, <1>3, <1>4

(* a departure,                                                            *)
LEMMA OnQuitBehind ==
  \A u, v, m : Confirms(v) /\ Behind(u, v) =>
    Confirms(OnQuit(v, m)) /\ Behind(OnQuit(u, m), OnQuit(v, m))
BY DEF OnQuit, Confirms, Behind

(* and any of them.                                                        *)
LEMMA OnBehind ==
  \A u, v, m : Confirms(v) /\ Behind(u, v) /\ m \in Message(Ids) =>
    Confirms(On(v, m)) /\ Behind(On(u, m), On(v, m))
<1> SUFFICES ASSUME NEW u, NEW v, NEW m \in Message(Ids), Confirms(v), Behind(u, v)
             PROVE  Confirms(On(v, m)) /\ Behind(On(u, m), On(v, m))
  OBVIOUS
<1>0. u.error = v.error /\ u.gone = v.gone /\ (m.type # "QUIT" => m.gb \in Ids)
  BY DEF Behind, Message
<1>1. m.type \in {"NEW", "SIZE", "WAIT", "DROP", "QUIT"}
  BY DEF Message
<1>2. CASE v.error # ""
  BY <1>0, <1>2 DEF On
<1>3. CASE v.error = "" /\ m.type = "NEW"
  BY <1>0, <1>3, OnNewBehind DEF On
<1>4. CASE v.error = "" /\ m.type = "SIZE"
  BY <1>0, <1>4, OnSizeBehind DEF On
<1>5. CASE v.error = "" /\ m.type = "WAIT"
  BY <1>0, <1>5, OnWaitBehind DEF On
<1>6. CASE v.error = "" /\ m.type = "DROP"
  BY <1>0, <1>6, OnDropBehind DEF On
<1>7. CASE v.error = "" /\ m.type = "QUIT"
  BY <1>0, <1>7, OnQuitBehind DEF On
<1>8. QED BY <1>1, <1>2, <1>3, <1>4, <1>5, <1>6, <1>7

\* Along the way of the other view: c.g has what it is after each message.
Trails(c, k, u) == Confirms(c.g[k]) /\ Behind(u, c.g[k])

Trailing == INSTANCE Loops WITH Step <- LAMBDA c, v, m : On(v, m), Inv <- Trails

(* The drop at the head may be taken away before the client reads, or      *)
(* after.                                                                  *)
LEMMA ReadBehind ==
  \A u, v, q : Confirms(v) /\ Behind(u, v) /\ q \in Seq(Message(Ids)) =>
    Behind(HavingRead(u, q), HavingRead(v, q))
<1> SUFFICES ASSUME NEW u, NEW v, NEW q \in Seq(Message(Ids)), Confirms(v), Behind(u, v)
             PROVE  Behind(HavingRead(u, q), HavingRead(v, q))
  OBVIOUS
<1>1. PICK n \in Nat : DOMAIN q = 1..n /\ \A k \in 1..n : q[k] \in Message(Ids)
  OBVIOUS
<1>2. PICK g : Reading!Stages(0, v, q, n, g)
  BY <1>1, Reading!LoopStages
<1>3. /\ g[0] = v /\ g[n] = HavingRead(v, q)
      /\ \A k \in 1..n : g[k] = On(g[k - 1], q[k])
  BY <1>2 DEF Reading!Stages, HavingRead
<1> DEFINE c == [g |-> g]
           r == Trailing!Loop(c, u, q)
<1>4. c.g = g
  OBVIOUS
<1>5. r = HavingRead(u, q)
  BY DEF HavingRead, Reading!Loop, Reading!MapThenFoldSet, Reading!Max,
         Trailing!Loop, Trailing!MapThenFoldSet, Trailing!Max
<1> HIDE DEF c
<1>6. Trails(c, 0, u)
  BY <1>3, <1>4 DEF Trails
<1>7. \A k \in 1..n : \A s : Trails(c, k - 1, s) => Trails(c, k, On(s, q[k]))
  BY <1>1, <1>3, <1>4, OnBehind DEF Trails
<1>8. Trails(c, n, r)
  BY <1>1, <1>6, <1>7, Trailing!LoopInvariant
<1> HIDE DEF r
<1>9. QED BY <1>3, <1>4, <1>5, <1>8 DEF Trails

-----------------------------------------------------------------------------
(* Every step of Garbage is one of the match it runs in, or none.          *)
LEMMA StepIsMatchStep == [GarbageNext]_allVars => [Next]_vars
<1> SUFFICES ASSUME [GarbageNext]_allVars PROVE [Next]_vars
  OBVIOUS
<1>1. CASE UNCHANGED allVars
  BY <1>1 DEF allVars
<1>2. ASSUME NEW f \in Fields, Step(f) PROVE [Next]_vars
  BY <1>2 DEF Step, Next
<1>3. ASSUME NEW f \in Fields, Abandon(f) PROVE [Next]_vars
  BY <1>3 DEF Abandon, Next
<1>4. CASE OthersDrop \/ MineDrops
  BY <1>4 DEF OthersDrop, MineDrops, ReadDrop
<1>5. CASE ClientReads
  BY <1>5 DEF ClientReads
<1>6. QED BY <1>1, <1>2, <1>3, <1>4, <1>5 DEF GarbageNext

(* Nobody comes back to life.                                              *)
LEMMA LostForGood ==
  TypeOK /\ [Next]_vars => \A f \in Fields : lost[f] => lost'[f]
<1> SUFFICES ASSUME TypeOK, [Next]_vars PROVE \A f \in Fields : lost[f] => lost'[f]
  OBVIOUS
<1>1. CASE UNCHANGED vars \/ Over
  BY <1>1 DEF vars, Over
<1>2. ASSUME NEW f \in Fields, StepField(f) \/ Leave(f) PROVE \A g \in Fields : lost[g] => lost'[g]
  BY <1>2 DEF StepField, Leave, TypeOK
<1>3. QED BY <1>1, <1>2 DEF Next

(* Once it is sent, what the distributor said is forgotten.                *)
LEMMA Restarted ==
  \A s, n, v :
    /\ Follows(s, v)
    /\ DOMAIN n = DOMAIN s
    /\ n.gbs = s.gbs /\ n.hang = s.hang /\ n.wait = s.wait /\ n.active = s.active
    /\ n.due = s.due /\ n.sent = <<>>
    => Follows(n, v)
<1> SUFFICES ASSUME NEW s, NEW n, NEW v, Follows(s, v),
                    DOMAIN n = DOMAIN s,
                    n.gbs = s.gbs, n.hang = s.hang, n.wait = s.wait, n.active = s.active,
                    n.due = s.due, n.sent = <<>>
             PROVE  Follows(n, v)
  OBVIOUS
<1>0. Sound(s) /\ Placed(s) /\ ChainsHang(s) /\ Mirrors(s, v)
  BY DEF Follows
<1>1. Made(n) = Made(s)
  BY DEF Made
<1>2. Sound(n)
  <2>1. n.sent \in Seq(Message(Ids)) /\ \A i \in 1..Len(n.sent) : n.sent[i].gb \in Made(n)
    OBVIOUS
  <2>2. QED BY <2>1, <1>0 DEF Sound
<1>3. Placed(n)
  BY <1>0, PlacedAlike
<1>4. ChainsHang(n)
  BY <1>0, <1>1 DEF ChainsHang
<1>5. Mirrors(n, v)
  BY <1>0, <1>1 DEF Mirrors
<1>6. QED BY <1>2, <1>3, <1>4, <1>5 DEF Follows

(* Ahead in the next state: the prime goes to what is read.                *)
LEMMA AheadPrime == Ahead' = HavingRead(view', down')
BY DEF Ahead, HavingRead, Reading!Loop, Reading!MapThenFoldSet,
       Reading!Max, FoldLeft, MapThenFoldSet, Max

(* The invariant is the stage with nothing sent yet.                       *)
LEMMA StageNow == GarbageInv => Typical /\ Follows(Now, At(Now)) /\ At(Now).gone = Departed
<1> SUFFICES ASSUME GarbageInv PROVE Typical /\ Follows(Now, At(Now)) /\ At(Now).gone = Departed
  OBVIOUS
<1>1. Message(GbIds) \subseteq Message(Ids)
  BY GbBoundsAssumption DEF Message, GbIds, Ids
<1>2. down \in Seq(Message(GbIds))
  BY DEF GarbageInv
<1>3. Typical
  <2> DEFINE A == Message(GbIds)
             B == Message(Ids)
  <2>1. A \subseteq B /\ down \in Seq(A)
    BY <1>1, <1>2
  <2> HIDE DEF A, B
  <2>2. down \in Seq(B)
    BY <2>1
  <2>3. QED BY <2>2 DEF Typical, B
<1>4. down \o Now.sent = down
  <2>1. Now.sent = <<>>
    BY DEF Now
  <2> DEFINE A == Message(GbIds)
  <2>2. down \in Seq(A)
    BY <1>2
  <2> HIDE DEF A
  <2>3. down \o <<>> = down
    BY <2>2
  <2>4. QED BY <2>1, <2>3
<1>5. At(Now) = Ahead
  BY <1>4, AheadReads DEF At
<1>6. Follows(Now, Ahead) /\ Ahead.gone = Departed
  BY DEF GarbageInv
<1>7. QED BY <1>3, <1>5, <1>6

(* No garbage, and nothing on its way.                                     *)
LEMMA GarbageInvInit == GarbageInit => GarbageInv
<1> SUFFICES ASSUME GarbageInit PROVE GarbageInv
  OBVIOUS
<1> DEFINE none == [f \in Fields |-> <<>>]
<1>1. /\ Init /\ chain = [f \in Fields |-> 1]
      /\ gbs = <<>> /\ due = <<>> /\ hang = none /\ wait = none
      /\ active = [f \in Fields |-> 0] /\ down = <<>>
      /\ view = [hang |-> none, wait |-> none, gbs |-> <<>>, up |-> <<>>, gone |-> {},
               error |-> ""]
  BY DEF GarbageInit
<1>2. Ahead = view
  BY <1>1, AheadReads, ReadNothing
<1>3. \A S : none \in [Fields -> Seq(S)]
  OBVIOUS
<1>4. Len(gbs) = 0 /\ 1..0 = {}
  <2>1. gbs = <<>>
    BY <1>1
  <2>2. QED BY <2>1
<1> DEFINE empty == [hang |-> none, wait |-> none, gbs |-> <<>>, up |-> <<>>, gone |-> {},
               error |-> ""]
<1>5. /\ empty.hang = none /\ empty.wait = none /\ empty.gbs = <<>> /\ empty.up = <<>>
       /\ empty.gone = {} /\ empty.error = ""
       /\ DOMAIN empty = {"hang", "wait", "gbs", "up", "gone", "error"}
  OBVIOUS
<1>6. /\ view.hang = none /\ view.wait = none /\ view.gbs = <<>> /\ view.up = <<>>
       /\ view.gone = {} /\ view.error = ""
       /\ DOMAIN view = {"hang", "wait", "gbs", "up", "gone", "error"}
  <2>1. view = empty
    BY <1>1
  <2> HIDE DEF empty, none
  <2>2. QED BY <2>1, <1>5
<1>7. DOMAIN <<>> = {}
  OBVIOUS
<1> HIDE DEF empty
<1>8. \A f \in Fields : none[f] = <<>> /\ Range(none[f]) = {} /\ IsInjective(none[f])
  BY DEF Range, IsInjective
<1> HIDE DEF none
<1>9. /\ DOMAIN Now = {"gbs", "hang", "wait", "active", "due", "sent", "failed"}
      /\ Now.gbs = <<>> /\ Now.hang = none /\ Now.wait = none /\ Now.due = <<>>
      /\ Now.active = [f \in Fields |-> 0] /\ Now.sent = <<>>
  BY <1>1 DEF Now
<1>10. Made(Now) = {}
  BY <1>4, <1>9, <1>1 DEF Made
<1> DEFINE s == Now
<1> HIDE DEF s
<1>11. Sound(s)
  <2>1. s.sent \in Seq(Message(Ids)) /\ s.gbs \in Seq(GarbageRecord) /\ s.due \in Seq(Nat)
        /\ Len(s.due) = Len(s.gbs) /\ Len(s.sent) = 0 /\ 1..0 = {}
    BY <1>9 DEF s
  <2>2. s.active \in [Fields -> Nat]
    BY <1>9 DEF s
  <2>3. QED BY <2>1, <2>2, <1>3, <1>9 DEF Sound, s
<1>12. Placed(s)
  BY <1>8, <1>9 DEF Placed, s
<1>13. ChainsHang(s)
  BY <1>9 DEF ChainsHang, s
<1>14. Mirrors(s, view)
  <2>2. s.hang = none /\ s.wait = none /\ Made(s) = {}
    BY <1>9, <1>10 DEF s
  <2>3. QED BY <2>2, <1>3, <1>8, <1>6, <1>7, MeAssumption DEF Mirrors
<1>15. Follows(Now, Ahead)
  BY <1>2, <1>11, <1>12, <1>13, <1>14 DEF Follows, s
<1>16. ClientTyped(view)
  <2>2. <<>> \in [{} -> [to : Fields, size : Nat \ {0}]] /\ <<>> \in Seq(GbIds)
    OBVIOUS
  <2>3. view.error \in Errors
    BY <1>6, Zenon DEF Errors
  <2>4. QED BY <2>2, <2>3, <1>3, <1>6, <1>7 DEF ClientTyped
<1> DEFINE c0 == [f \in Fields |-> 1]
<1>17. chain = c0 /\ down = <<>>
  BY <1>1
<1>18. c0 \in [Fields -> Nat \ {0}] /\ \A f \in Fields : ~(c0[f] >= 2)
  OBVIOUS
<1>19. ChainsHeld
  <2> HIDE DEF c0
  <2>1. \A f \in Fields : ~(chain[f] >= 2)
    BY <1>17, <1>18
  <2>2. QED BY <2>1, Zenon DEF ChainsHeld
<1>20. down \in Seq(Message(GbIds)) /\ Len(gbs) <= GbMax /\ chain \in [Fields -> Nat \ {0}]
  <2>1. <<>> \in Seq(Message(GbIds)) /\ 0 <= GbMax
    BY GbBoundsAssumption
  <2>2. QED BY <2>1, <1>4, <1>17, <1>18
<1>21. failed \in {"", "no target"}
  BY Zenon DEF GarbageInit
<1>22. Ahead.gone = Departed
  BY <1>2, <1>6 DEF Departed, Init, GarbageInit
<1>23. ChainsAim
  BY <1>1 DEF ChainsAim
<1>24. QED BY <1>1, <1>15, <1>16, <1>19, <1>20, <1>21, <1>22, <1>23, MatchInvInit DEF GarbageInv

Running == failed = ""

(* A step of a field: what is said of it is added to what is on its way.   *)
LEMMA StepKeeps ==
  ASSUME GarbageInv, Running, NEW f \in Fields, Step(f)
  PROVE  GarbageInv'
<1>0. /\ MatchInv /\ chain \in [Fields -> Nat \ {0}] /\ Follows(Now, Ahead)
      /\ ClientTyped(view) /\ down \in Seq(Message(GbIds)) /\ ChainsHeld /\ ChainsAim
  BY DEF GarbageInv
<1>1. MatchInv' /\ TypeOK' /\ TypeOK
  <2>1. StepField(f)
    BY DEF Step
  <2>2. [Next]_vars
    BY <2>1 DEF Next
  <2>3. QED BY <1>0, <2>2, MatchInvStep DEF MatchInv
<1>2. \A g \in Fields : lost[g] => lost'[g]
  <2>1. [Next]_vars
    BY DEF Step, Next
  <2>2. QED BY <1>1, <2>1, LostForGood
<1>3. tick' \in [Fields -> Nat]
  BY <1>1 DEF TypeOK
<1>4. PICK combo \in Combos \union {0}, chained \in BOOLEAN :
        /\ chained => combo > 0
        /\ \/ combo > 0 /\ chain' = [chain EXCEPT ![f] = IF chained THEN @ + 1 ELSE @]
           \/ combo = 0 /\ UNCHANGED chain
           \/ combo = 0 /\ chain' = [chain EXCEPT ![f] = 1]
        /\ LET s == UpdateGarbages(f, combo, IF chained THEN chain'[f] ELSE 1)
           IN  Len(s.gbs) <= GbMax /\ Become(s)
  BY DEF Step
<1> DEFINE info == IF chained THEN chain'[f] ELSE 1
           n == UpdateGarbages(f, combo, info)
<1>5. Len(n.gbs) <= GbMax /\ Become(n) /\ view' = view
  BY <1>4 DEF Step
<1> HIDE DEF n
<1>6. combo \in {0} \union (Nat \ 0..2) /\ combo \in Nat
  BY ComboAssumption
<1>7. /\ chain' \in [Fields -> Nat \ {0}]
      /\ \A h \in Fields \ {f} : chain'[h] = chain[h]
      /\ chained => combo # 0 /\ chain'[f] = chain[f] + 1
      /\ ~chained => chain'[f] = chain[f] \/ chain'[f] = 1
  BY <1>0, <1>4, <1>6
<1>8. info \in Nat \ {0} /\ chain[f] \in Nat \ {0} /\ chain'[f] \in Nat \ {0}
  BY <1>0, <1>7
<1>9. \A h \in Fields : {g \in Fields \ {h} : ~lost'[g]} # {}
                        => {g \in Fields \ {h} : ~lost[g]} # {}
  BY <1>2
<1>10. \A h \in Fields : chain[h] >= 2 /\ {g \in Fields \ {h} : ~lost'[g]} # {} => active[h] # 0
  BY <1>0, <1>9, Zenon DEF ChainsHeld, Running
<1>11. info > 2 /\ Opponents(f) # {} => active[f] # 0 /\ ~(chain'[f] < 2)
  <2>1. SUFFICES ASSUME info > 2, Opponents(f) # {} PROVE active[f] # 0 /\ ~(chain'[f] < 2)
    OBVIOUS
  <2>2. chained /\ chain'[f] > 2 /\ chain[f] >= 2
    BY <2>1, <1>7, <1>8
  <2>3. QED BY <2>1, <2>2, <1>8, <1>10 DEF Opponents
<1> HIDE DEF info
<1>20. players' = players /\ f \in players /\ Opponents(f) \subseteq players
  <2>1. StepField(f)
    BY DEF Step
  <2>2. \A g \in Fields : ~lost'[g] => g \in players
    BY <1>0, <1>2 DEF MatchInv, Alive
  <2>3. QED BY <2>1, <2>2 DEF StepField, MayStep, Opponents
<1>21. Stage(Now)
  <2>1. Aims(Now)
    <3>1. \A h \in Fields : Opponents(h) \subseteq {g \in Fields \ {h} : ~lost[g]}
      BY <1>2 DEF Opponents
    <3>2. Now.active = active /\ Now.gbs = gbs
      BY DEF Now
    <3>3. QED BY <1>0, <3>1, <3>2 DEF Aims, ChainsAim
  <2>2. QED BY <2>1, StageNow DEF Stage
<1>12. /\ Stage(n) /\ n.failed \in {"", "no target"}
       /\ \A h \in Fields \ {f} : n.active[h] = active[h]
       /\ active[f] # 0 /\ ~(chain'[f] < 2) => n.active[f] # 0
       /\ combo # 0 /\ info = 2 /\ Opponents(f) # {} /\ Unfailed(n) => n.active[f] # 0
  BY <1>3, <1>6, <1>8, <1>11, <1>20, <1>21, StageNow, UpdateStage DEF n
<1>13. /\ gbs' = n.gbs /\ hang' = n.hang /\ wait' = n.wait
       /\ active' = n.active /\ due' = n.due
       /\ down' = down \o n.sent /\ failed' = n.failed
  BY <1>5 DEF Become
<1>14. Ahead' = At(n)
  BY <1>5, <1>13, AheadPrime DEF At
<1>15. Follows(Now', Ahead')
  <2>1. DOMAIN n = {"gbs", "hang", "wait", "active", "due", "sent", "failed"}
    BY <1>12 DEF Stage, Follows, Sound
  <2>2. /\ DOMAIN (Now') = DOMAIN n /\ (Now').gbs = n.gbs /\ (Now').hang = n.hang
        /\ (Now').wait = n.wait /\ (Now').active = n.active /\ (Now').due = n.due
        /\ (Now').sent = <<>>
    BY <2>1, <1>13 DEF Now
  <2>3. Follows(n, Ahead')
    BY <1>12, <1>14 DEF Stage
  <2> DEFINE z == Now'
             v == Ahead'
  <2> HIDE DEF z, v
  <2>4. Follows(z, v)
    BY <2>2, <2>3, Restarted DEF z, v
  <2>5. QED BY <2>4 DEF z, v
<1>16. down' \in Seq(Message(GbIds))
  <2>1. n.sent \in Seq(Message(Ids)) /\ (\A i \in 1..Len(n.sent) : n.sent[i].gb \in Made(n))
        /\ n.gbs \in Seq(GarbageRecord)
    BY <1>12 DEF Stage, Follows, Sound
  <2>2. Made(n) \subseteq GbIds
    BY <2>1, <1>5, GbBoundsAssumption DEF Made, GbIds
  <2>3. \A m \in Message(Ids) : m.gb \in GbIds => m \in Message(GbIds)
    BY DEF Message
  <2> DEFINE A == Message(GbIds)
             B == Message(Ids)
  <2>4. /\ n.sent \in Seq(B) /\ (\A i \in 1..Len(n.sent) : n.sent[i].gb \in GbIds)
        /\ \A m \in B : m.gb \in GbIds => m \in A
    BY <2>1, <2>2, <2>3
  <2>5. down \in Seq(A)
    BY <1>0
  <2> HIDE DEF A, B
  <2>6. n.sent \in Seq(A)
    <3>1. \A i \in 1..Len(n.sent) : n.sent[i] \in A
      BY <2>4
    <3>2. QED BY <3>1, <2>4
  <2>7. down \o n.sent \in Seq(A)
    BY <2>5, <2>6
  <2>8. QED BY <2>7, <1>13 DEF A
<1>17. ChainsHeld'
  <2> SUFFICES ASSUME Running', NEW h \in Fields, chain'[h] >= 2,
                      {g \in Fields \ {h} : ~lost'[g]} # {}
               PROVE  n.active[h] # 0
    BY <1>13, Zenon DEF ChainsHeld, Running
  <2>1. CASE h # f
    BY <2>1, <1>7, <1>10, <1>12
  <2>2. CASE h = f /\ chain[f] >= 2
    <3>1. ~(chain'[f] < 2)
      BY <2>2, <1>8
    <3>2. active[f] # 0
      BY <2>2, <1>10
    <3>3. QED BY <2>2, <3>1, <3>2, <1>12, Zenon
  <2>3. CASE h = f /\ ~(chain[f] >= 2)
    <3>1. chain[f] = 1 /\ chained /\ chain'[f] = 2
      BY <2>3, <1>7, <1>8
    <3>2. combo # 0 /\ info = 2
      BY <3>1, <1>7 DEF info
    <3>3. Opponents(f) # {}
      BY <2>3 DEF Opponents
    <3>4. Unfailed(n)
      BY <1>13, Zenon DEF Unfailed, Running
    <3>5. QED BY <2>3, <3>2, <3>3, <3>4, <1>12
  <2>4. QED BY <2>1, <2>2, <2>3
<1>18. Len(gbs') <= GbMax /\ ClientTyped(view') /\ failed' \in {"", "no target"}
  BY <1>0, <1>5, <1>12, <1>13
<1>22. Ahead'.gone = Departed'
  BY <1>12, <1>14, <1>20 DEF Stage, Departed
<1>23. ChainsAim'
  BY <1>12, <1>13 DEF Stage, Aims, ChainsAim, Opponents
<1>19. QED BY <1>1, <1>7, <1>15, <1>16, <1>17, <1>18, <1>22, <1>23 DEF GarbageInv

(* A step that changes nothing.                                            *)
LEMMA NothingMoves ==
  ASSUME GarbageInv, UNCHANGED allVars
  PROVE  GarbageInv'
<1>0. /\ MatchInv /\ Follows(Now, Ahead) /\ Ahead.gone = Departed /\ ChainsHeld /\ ChainsAim
  BY DEF GarbageInv
<1>1. /\ chain' = chain /\ gbs' = gbs /\ hang' = hang /\ wait' = wait /\ active' = active
      /\ due' = due /\ down' = down /\ view' = view /\ failed' = failed
      /\ UNCHANGED vars /\ lost' = lost /\ players' = players
  BY DEF allVars, gbVars, vars
<1>2. MatchInv'
  BY <1>0, <1>1, MatchInvStep
<1>3. Now' = Now /\ Departed' = Departed
  BY <1>1 DEF Now, Departed
<1>4. Ahead' = Ahead
  BY <1>1, AheadPrime, AheadReads
<1>5. ChainsHeld' /\ ChainsAim'
  BY <1>0, <1>1, Zenon DEF ChainsHeld, ChainsAim
<1>6. Follows(Now', Ahead') /\ Ahead'.gone = Departed'
  BY <1>0, <1>3, <1>4, Zenon
<1>7. QED BY <1>1, <1>2, <1>5, <1>6 DEF GarbageInv

(* Who has quit does not count for the garbages of the view.               *)
LEMMA MirrorsAlike ==
  \A s, v, w :
    /\ Mirrors(s, v)
    /\ DOMAIN w = DOMAIN v /\ w.hang = v.hang /\ w.wait = v.wait /\ w.gbs = v.gbs
    /\ w.up = v.up /\ w.error = v.error
    => Mirrors(s, w)
<1> SUFFICES ASSUME NEW s, NEW v, NEW w, Mirrors(s, v), DOMAIN w = DOMAIN v,
                    w.hang = v.hang, w.wait = v.wait, w.gbs = v.gbs,
                    w.up = v.up, w.error = v.error
             PROVE  Mirrors(s, w)
  OBVIOUS
<1>1. /\ v.hang \in [Fields -> Seq(Ids)] /\ v.wait \in [Fields -> Seq(Ids)]
      /\ DOMAIN v = {"hang", "wait", "gbs", "up", "gone", "error"}
      /\ DOMAIN v.gbs = Made(s)
      /\ v.up = s.wait[Me] /\ v.error = ""
  BY DEF Mirrors
<1>2. \A g \in Made(s) : w.gbs[g] = [to |-> s.gbs[g].to, size |-> s.gbs[g].size]
  BY DEF Mirrors
<1>3. ASSUME NEW f \in Fields
      PROVE  /\ IsInjective(w.hang[f])
             /\ Range(w.hang[f]) = Range(s.hang[f])
             /\ Len(w.hang[f]) = Len(s.hang[f])
             /\ f # Me => w.wait[f] = s.wait[f]
  BY Zenon DEF Mirrors
<1>4. QED BY <1>1, <1>2, <1>3 DEF Mirrors

(* A departure only takes targets away; the client will know of it after   *)
(* all that was sent before.                                               *)
LEMMA AbandonKeeps ==
  ASSUME GarbageInv, NEW f \in Fields, Abandon(f)
  PROVE  GarbageInv'
<1>0. /\ MatchInv /\ TypeOK /\ Follows(Now, Ahead) /\ Ahead.gone = Departed
      /\ ChainsHeld /\ ChainsAim /\ Typical /\ down \in Seq(Message(GbIds))
  BY StageNow DEF GarbageInv, MatchInv
<1> DEFINE m == [type |-> "QUIT", player |-> f]
           v == Ahead
           w == On(v, m)
<1>1. /\ Leave(f) /\ down' = Append(down, m)
      /\ UNCHANGED <<chain, gbs, hang, wait, active, due, view, failed>>
  BY DEF Abandon
<1>2. [Next]_vars /\ players' = players \ {f}
  BY <1>1 DEF Next, Leave
<1>3. MatchInv'
  BY <1>0, <1>2, MatchInvStep
<1>4. \A g \in Fields : lost[g] => lost'[g]
  BY <1>0, <1>2, LostForGood
<1>5. m \in Message(GbIds) /\ m \in Message(Ids) /\ m.type = "QUIT" /\ m.player = f
  BY DEF Message
<1> HIDE DEF m
<1>6. Now' = Now
  BY <1>1 DEF Now
<1>7. Ahead' = w
  <2>1. down \in Seq(Message(Ids))
    BY <1>0 DEF Typical
  <2>2. HavingRead(view, Append(down, m)) = On(HavingRead(view, down), m)
    BY <1>5, <2>1, ReadOneMore
  <2>3. QED BY <2>2, <1>1, AheadPrime, AheadReads
<1> HIDE DEF v
<1>8. /\ DOMAIN w = DOMAIN v /\ w.hang = v.hang /\ w.wait = v.wait /\ w.gbs = v.gbs
      /\ w.up = v.up /\ w.error = v.error /\ w.gone = v.gone \union {f}
  <2>1. Mirrors(Now, v)
    BY <1>0 DEF Follows, v
  <2>2. v.error = "" /\ DOMAIN v = {"hang", "wait", "gbs", "up", "gone", "error"}
    BY <2>1 DEF Mirrors
  <2>3. w = [v EXCEPT !.gone = @ \union {f}]
    BY <1>5, <2>2 DEF On, OnQuit
  <2> HIDE DEF w
  <2>4. QED BY <2>2, <2>3
<1> HIDE DEF w
<1>9. Follows(Now', Ahead')
  <2>1. Follows(Now, v)
    BY <1>0 DEF v
  <2>2. Follows(Now, w)
    BY <1>8, <2>1, MirrorsAlike DEF Follows
  <2>3. QED BY <1>6, <1>7, <2>2, Zenon
<1>10. Ahead'.gone = Departed'
  <2>1. v.gone = Fields \ players
    BY <1>0 DEF v, Departed
  <2>2. w.gone = Fields \ players'
    BY <1>2, <1>8, <2>1
  <2>3. QED BY <1>7, <2>2 DEF Departed
<1>11. down' \in Seq(Message(GbIds))
  <2> DEFINE A == Message(GbIds)
  <2>1. down \in Seq(A) /\ m \in A
    BY <1>0, <1>5
  <2> HIDE DEF A
  <2>2. Append(down, m) \in Seq(A)
    BY <2>1
  <2>3. QED BY <2>2, <1>1 DEF A
<1>12. ChainsHeld' /\ ChainsAim'
  <2>1. \A h \in Fields : {g \in Fields \ {h} : ~lost'[g]} \subseteq {g \in Fields \ {h} : ~lost[g]}
    BY <1>4
  <2>2. chain' = chain /\ active' = active /\ failed' = failed /\ gbs' = gbs
    BY <1>1
  <2>3. ChainsHeld'
    <3>1. \A h \in Fields : {g \in Fields \ {h} : ~lost'[g]} # {}
                            => {g \in Fields \ {h} : ~lost[g]} # {}
      BY <2>1
    <3>2. QED BY <1>0, <2>2, <3>1, Zenon DEF ChainsHeld
  <2>4. ChainsAim'
    BY <1>0, <2>1, <2>2 DEF ChainsAim
  <2>5. QED BY <2>3, <2>4
<1>13. chain' = chain /\ gbs' = gbs /\ failed' = failed /\ view' = view
  BY <1>1
<1>14. QED BY <1>3, <1>9, <1>10, <1>11, <1>12, <1>13 DEF GarbageInv

(* The client reads the first message: what it will be is the same.        *)
LEMMA ClientReadsKeeps ==
  ASSUME GarbageInv, ClientReads
  PROVE  GarbageInv'
<1>0. /\ MatchInv /\ Follows(Now, Ahead) /\ Ahead.gone = Departed /\ ChainsHeld /\ ChainsAim
      /\ ClientTyped(view) /\ down \in Seq(Message(GbIds))
  BY DEF GarbageInv
<1>1. /\ down # <<>> /\ view' = On(view, Head(down)) /\ down' = Tail(down)
      /\ UNCHANGED <<vars, chain, gbs, hang, wait, active, due, failed>>
  BY DEF ClientReads
<1>2. MatchInv'
  <2>1. UNCHANGED vars
    BY <1>1
  <2>2. QED BY <1>0, <2>1, MatchInvStep
<1>3. Now' = Now
  BY <1>1 DEF Now
<1>4. Ahead' = Ahead
  BY <1>0, <1>1, AheadPrime, AheadReads, ReadFirst
<1>5. Head(down) \in Message(GbIds) /\ down' \in Seq(Message(GbIds))
  <2> DEFINE A == Message(GbIds)
  <2>1. down \in Seq(A) /\ down # <<>>
    BY <1>0, <1>1
  <2> HIDE DEF A
  <2>2. Head(down) \in A /\ Tail(down) \in Seq(A)
    BY <2>1
  <2>3. QED BY <2>2, <1>1 DEF A
<1>6. ClientTyped(view')
  BY <1>0, <1>1, <1>5, OnTyped
<1>7. ChainsHeld' /\ ChainsAim' /\ Departed' = Departed
  <2>1. /\ chain' = chain /\ active' = active /\ failed' = failed /\ lost' = lost
        /\ gbs' = gbs /\ players' = players
    BY <1>1 DEF vars
  <2>2. QED BY <1>0, <2>1, Zenon DEF ChainsHeld, ChainsAim, Departed
<1>8. Follows(Now', Ahead') /\ Ahead'.gone = Departed'
  BY <1>0, <1>3, <1>4, <1>7, Zenon
<1>9. chain' = chain /\ gbs' = gbs /\ failed' = failed
  BY <1>1
<1>10. QED BY <1>2, <1>5, <1>6, <1>7, <1>8, <1>9 DEF GarbageInv

(* What reading a drop does to the view that has read everything else.     *)
DropMessage(g) == [type |-> "DROP", gb |-> g]

DropDone(u, f, w) == IF f = Me THEN w = u ELSE w = [u EXCEPT !.wait[f] = Tail(@)]

(* A client that mirrors the distributor finds the garbage dropped at the  *)
(* head.                                                                   *)
LEMMA OnDropDoes ==
  \A s, v, u, f :
    /\ Placed(s) /\ Mirrors(s, v) /\ f \in Fields /\ s.wait[f] \in Seq(Ids) /\ s.wait[f] # <<>>
    /\ u.gbs = v.gbs /\ u.wait = v.wait /\ u.error = v.error /\ f \notin u.gone
    => DropDone(u, f, On(u, DropMessage(Head(s.wait[f]))))
<1> SUFFICES ASSUME NEW s, NEW v, NEW u, NEW f \in Fields,
                    Placed(s), Mirrors(s, v), s.wait[f] \in Seq(Ids), s.wait[f] # <<>>,
                    u.gbs = v.gbs, u.wait = v.wait, u.error = v.error, f \notin u.gone
             PROVE  DropDone(u, f, On(u, DropMessage(Head(s.wait[f]))))
  OBVIOUS
<1> DEFINE g == Head(s.wait[f])
           m == DropMessage(g)
<1>1. g \in Range(s.wait[f])
  <2> DEFINE q == s.wait[f]
  <2>1. q \in Seq(Ids) /\ q # <<>>
    OBVIOUS
  <2> HIDE DEF q
  <2>2. 1 \in DOMAIN q /\ Head(q) = q[1]
    BY <2>1
  <2>3. QED BY <2>2 DEF q, Range
<1>2. g \in Made(s) /\ s.gbs[g].to = f
  BY <1>1 DEF Placed
<1>3. m.type = "DROP" /\ m.gb = g
  BY DEF DropMessage
<1> HIDE DEF g, m
<1>4. g \in DOMAIN u.gbs /\ u.gbs[g].to = f /\ u.error = ""
      /\ (f # Me => u.wait[f] = s.wait[f])
  <2>1. /\ DOMAIN v.gbs = Made(s) /\ v.error = ""
        /\ v.gbs[g] = [to |-> s.gbs[g].to, size |-> s.gbs[g].size]
        /\ f # Me => v.wait[f] = s.wait[f]
    BY <1>2 DEF Mirrors
  <2>2. v.gbs[g].to = f
    <3> DEFINE a == s.gbs[g].to
               b == s.gbs[g].size
    <3>1. v.gbs[g] = [to |-> a, size |-> b] /\ a = f
      BY <1>2, <2>1
    <3> HIDE DEF a, b
    <3>2. QED BY <3>1
  <2>3. QED BY <1>2, <2>1, <2>2
<1>5. On(u, m) = OnDrop(u, m)
  BY <1>3, <1>4 DEF On
<1>6. f # Me => ~(u.wait[f] = <<>> \/ Head(u.wait[f]) # g)
  BY <1>4 DEF g
<1>7. DropDone(u, f, On(u, m))
  <2>1. CASE f = Me
    BY <2>1, <1>3, <1>4, <1>5 DEF OnDrop, DropDone
  <2>2. CASE f # Me
    BY <2>2, <1>3, <1>4, <1>5, <1>6 DEF OnDrop, DropDone
  <2>3. QED BY <2>1, <2>2
<1>8. QED BY <1>7 DEF m, g

(* The first garbage a field waits for is dropped, on both sides.          *)
DropRead(v, f, w) ==
  /\ DOMAIN w = DOMAIN v /\ w.hang = v.hang /\ w.gbs = v.gbs /\ w.gone = v.gone
  /\ w.error = v.error
  /\ IF f = Me THEN w.wait = v.wait /\ w.up = Tail(v.up)
               ELSE w.wait = [v.wait EXCEPT ![f] = Tail(@)] /\ w.up = v.up

(* The same drop on both sides leaves them mirrored.                       *)
LEMMA DropFollows ==
  \A s, v, f, n, w :
    /\ Follows(s, v) /\ f \in Fields /\ s.wait[f] # <<>>
    /\ DOMAIN n = DOMAIN s
    /\ n.gbs = s.gbs /\ n.hang = s.hang /\ n.active = s.active /\ n.due = s.due
    /\ n.sent = s.sent /\ n.wait = [s.wait EXCEPT ![f] = Tail(@)]
    /\ DropRead(v, f, w)
    => Follows(n, w)
<1> SUFFICES ASSUME NEW s, NEW v, NEW f \in Fields, NEW n, NEW w,
                    Follows(s, v), s.wait[f] # <<>>, DOMAIN n = DOMAIN s,
                    n.gbs = s.gbs, n.hang = s.hang, n.active = s.active, n.due = s.due,
                    n.sent = s.sent, n.wait = [s.wait EXCEPT ![f] = Tail(@)],
                    DropRead(v, f, w)
             PROVE  Follows(n, w)
  OBVIOUS
<1>0. Sound(s) /\ Placed(s) /\ ChainsHang(s) /\ Mirrors(s, v)
  BY DEF Follows
<1>1. Made(n) = Made(s)
  BY DEF Made
<1> DEFINE q == s.wait[f]
           t == Tail(q)
<1>2. s.wait \in [Fields -> Seq(Ids)] /\ q \in Seq(Ids) /\ q # <<>> /\ IsInjective(q)
  BY <1>0 DEF Sound, Placed
<1> HIDE DEF q
<1>3. t \in Seq(Ids) /\ Range(t) = Range(q) \ {Head(q)} /\ IsInjective(t)
  BY <1>2, FirstRead
<1> HIDE DEF t
<1>4. /\ n.wait \in [Fields -> Seq(Ids)] /\ n.wait[f] = t
      /\ \A h \in Fields \ {f} : n.wait[h] = s.wait[h]
  <2>1. n.wait = [s.wait EXCEPT ![f] = t]
    BY DEF t, q
  <2>2. QED BY <2>1, <1>2, <1>3
<1>5. Sound(n)
  BY <1>0, <1>1, <1>4 DEF Sound
<1>6. Placed(n)
  <2> SUFFICES ASSUME NEW h \in Fields
               PROVE  /\ IsInjective(n.hang[h]) /\ IsInjective(n.wait[h])
                      /\ \A g \in Range(n.hang[h]) :
                           /\ g \in Made(n) /\ n.gbs[g].to = h /\ g \notin Range(n.wait[h])
                           /\ n.gbs[g].type = "COMBO" => n.gbs[g].size <= Width
                      /\ \A g \in Range(n.wait[h]) : g \in Made(n) /\ n.gbs[g].to = h
    BY DEF Placed
  <2>1. /\ IsInjective(s.hang[h]) /\ IsInjective(s.wait[h])
        /\ \A g \in Range(s.hang[h]) :
             /\ g \in Made(s) /\ s.gbs[g].to = h /\ g \notin Range(s.wait[h])
             /\ s.gbs[g].type = "COMBO" => s.gbs[g].size <= Width
        /\ \A g \in Range(s.wait[h]) : g \in Made(s) /\ s.gbs[g].to = h
    BY <1>0, Zenon DEF Placed
  <2>2. IsInjective(n.wait[h]) /\ Range(n.wait[h]) \subseteq Range(s.wait[h])
    <3>1. CASE h = f
      BY <3>1, <1>3, <1>4 DEF q
    <3>2. CASE h # f
      BY <3>2, <1>4, <2>1
    <3>3. QED BY <3>1, <3>2
  <2>3. n.hang[h] = s.hang[h]
    OBVIOUS
  <2>4. QED BY <2>1, <2>2, <2>3, <1>1
<1>7. ChainsHang(n)
  BY <1>0, <1>1 DEF ChainsHang
<1>8. Mirrors(n, w)
  <2>1. /\ DOMAIN v = {"hang", "wait", "gbs", "up", "gone", "error"}
        /\ v.hang \in [Fields -> Seq(Ids)] /\ v.wait \in [Fields -> Seq(Ids)]
        /\ DOMAIN v.gbs = Made(s)
        /\ \A g \in Made(s) : v.gbs[g] = [to |-> s.gbs[g].to, size |-> s.gbs[g].size]
        /\ \A h \in Fields :
             /\ IsInjective(v.hang[h])
             /\ Range(v.hang[h]) = Range(s.hang[h])
             /\ Len(v.hang[h]) = Len(s.hang[h])
             /\ h # Me => v.wait[h] = s.wait[h]
        /\ v.up = s.wait[Me]
        /\ v.error = ""
    BY <1>0 DEF Mirrors
  <2>2. /\ DOMAIN w = DOMAIN v /\ w.hang = v.hang /\ w.gbs = v.gbs
        /\ w.error = v.error /\ w.gone = v.gone
    BY DEF DropRead
  <2>3. /\ w.wait \in [Fields -> Seq(Ids)] /\ w.up = n.wait[Me]
        /\ \A h \in Fields \ {Me} : w.wait[h] = n.wait[h]
    <3>1. CASE f = Me
      <4>1. w.wait = v.wait /\ w.up = Tail(v.up)
        BY <3>1 DEF DropRead
      <4>2. n.wait[Me] = Tail(s.wait[Me])
        BY <3>1, <1>4 DEF t, q
      <4>3. QED BY <3>1, <4>1, <4>2, <2>1, <1>4
    <3>2. CASE f # Me
      <4>0. v.wait[f] = q
        BY <3>2, <2>1 DEF q
      <4>1. w.wait = [v.wait EXCEPT ![f] = t] /\ w.up = v.up
        BY <3>2, <4>0 DEF DropRead, t
      <4>2. w.wait \in [Fields -> Seq(Ids)]
        BY <4>1, <2>1, <1>3
      <4>3. w.up = n.wait[Me]
        BY <3>2, <4>1, <2>1, <1>4, MeAssumption
      <4>4. ASSUME NEW h \in Fields \ {Me} PROVE w.wait[h] = n.wait[h]
        <5>1. CASE h = f
          BY <5>1, <4>1, <2>1, <1>4
        <5>2. CASE h # f
          BY <5>2, <4>1, <2>1, <1>4
        <5>3. QED BY <5>1, <5>2
      <4>5. QED BY <4>2, <4>3, <4>4
    <3>3. QED BY <3>1, <3>2
  <2>4. QED BY <2>1, <2>2, <2>3, <1>1 DEF Mirrors
<1>9. QED BY <1>5, <1>6, <1>7, <1>8 DEF Follows

(* The server reads a drop that the view followed is about to know of.     *)
LEMMA DropKeeps ==
  ASSUME GarbageInv, NEW f \in Fields, NEW g, ReadDrop(f, g), ClientTyped(view'),
         IF f = Me THEN Behind(HavingRead(view', down), Ahead) ELSE view' = view
  PROVE  GarbageInv'
<1>0. /\ MatchInv /\ Follows(Now, Ahead) /\ Ahead.gone = Departed /\ ChainsHeld /\ ChainsAim
      /\ down \in Seq(Message(GbIds)) /\ Typical /\ Len(gbs) <= GbMax
  BY StageNow DEF GarbageInv
<1>1. /\ wait[f] # <<>> /\ Head(wait[f]) = g /\ f \in players
      /\ wait' = [wait EXCEPT ![f] = Tail(@)]
      /\ down' = Append(down, DropMessage(g))
      /\ UNCHANGED <<vars, chain, gbs, hang, active, due, failed>>
  BY DEF ReadDrop, DropMessage
<1>2. MatchInv'
  <2>1. UNCHANGED vars
    BY <1>1
  <2>2. QED BY <1>0, <2>1, MatchInvStep
<1> DEFINE s == Now
           n == Now'
           v == Ahead
           u == HavingRead(view', down)
           m == DropMessage(g)
           w == On(u, m)
<1>3. /\ DOMAIN s = {"gbs", "hang", "wait", "active", "due", "sent", "failed"}
      /\ DOMAIN n = DOMAIN s
      /\ n.gbs = s.gbs /\ n.hang = s.hang /\ n.active = s.active /\ n.due = s.due
      /\ n.sent = s.sent /\ s.gbs = gbs /\ s.wait = wait
      /\ n.wait = [s.wait EXCEPT ![f] = Tail(@)]
  BY <1>1 DEF Now
<1>4. /\ Sound(s) /\ Placed(s) /\ Mirrors(s, v) /\ Follows(s, v)
      /\ v.gone = Departed /\ f \notin v.gone
  BY <1>0, <1>1 DEF Follows, Departed
<1> HIDE DEF s, n, v
<1>5. /\ s.wait[f] \in Seq(Ids) /\ s.wait[f] # <<>> /\ Head(s.wait[f]) = g
  BY <1>1, <1>3, <1>4 DEF Sound
<1>6. g \in Made(s)
  <2> DEFINE q == s.wait[f]
  <2>1. q \in Seq(Ids) /\ q # <<>> /\ Head(q) = g
    BY <1>5
  <2> HIDE DEF q
  <2>2. 1 \in DOMAIN q /\ q[1] = g
    BY <2>1
  <2>3. g \in Range(s.wait[f])
    BY <2>2 DEF q, Range
  <2>4. QED BY <2>3, <1>4 DEF Placed
<1>7. m \in Message(GbIds) /\ m \in Message(Ids)
  <2>1. g \in GbIds /\ g \in Ids
    BY <1>0, <1>3, <1>4, <1>6, GbBoundsAssumption DEF Made, Sound, GbIds, Ids
  <2>2. QED BY <2>1 DEF Message, DropMessage
<1>8. /\ DOMAIN u = DOMAIN v /\ u.hang = v.hang /\ u.wait = v.wait /\ u.gbs = v.gbs
      /\ u.error = v.error /\ u.gone = v.gone
      /\ u.up = IF f = Me THEN Tail(v.up) ELSE v.up
  <2>1. CASE f = Me
    <3>1. DOMAIN v = {"hang", "wait", "gbs", "up", "gone", "error"}
      BY <1>4 DEF Mirrors
    <3>2. QED BY <2>1, <3>1 DEF Behind, v
  <2>2. CASE f # Me
    <3>1. u = v
      BY <2>2, AheadReads DEF v
    <3>2. QED BY <2>2, <3>1
  <2>3. QED BY <2>1, <2>2
<1> HIDE DEF u, m
<1>9. DropDone(u, f, w)
  BY <1>4, <1>5, <1>8, OnDropDoes DEF m
<1> HIDE DEF w
<1>10. DropRead(v, f, w)
  <2>1. DOMAIN v = {"hang", "wait", "gbs", "up", "gone", "error"}
    BY <1>4 DEF Mirrors
  <2>2. QED BY <1>8, <1>9, <2>1 DEF DropRead, DropDone
<1>11. Follows(n, w)
  BY <1>3, <1>4, <1>5, <1>10, DropFollows
<1>12. Ahead' = w
  <2>1. down \in Seq(Message(Ids)) /\ down' = Append(down, m)
    BY <1>0, <1>1 DEF Typical, m
  <2>2. HavingRead(view', Append(down, m)) = On(HavingRead(view', down), m)
    BY <1>7, <2>1, ReadOneMore
  <2>3. QED BY <2>1, <2>2, AheadPrime DEF w, u
<1>13. Follows(Now', Ahead')
  BY <1>11, <1>12 DEF n
<1>18. Ahead'.gone = Departed'
  <2>1. w.gone = Departed
    BY <1>4, <1>10 DEF DropRead
  <2>2. Departed' = Departed
    BY <1>1 DEF Departed, vars
  <2>3. QED BY <1>12, <2>1, <2>2
<1>14. down' \in Seq(Message(GbIds))
  <2> DEFINE A == Message(GbIds)
  <2>1. down \in Seq(A) /\ m \in A
    BY <1>0, <1>7
  <2> HIDE DEF A
  <2>2. Append(down, m) \in Seq(A)
    BY <2>1
  <2>3. QED BY <2>2, <1>1 DEF A, m
<1>15. ChainsHeld' /\ ChainsAim'
  <2>1. chain' = chain /\ active' = active /\ failed' = failed /\ lost' = lost /\ gbs' = gbs
    BY <1>1 DEF vars
  <2>2. QED BY <1>0, <2>1, Zenon DEF ChainsHeld, ChainsAim
<1>16. chain' = chain /\ gbs' = gbs /\ failed' = failed
  BY <1>1
<1>17. QED BY <1>2, <1>13, <1>14, <1>15, <1>16, <1>18 DEF GarbageInv

(* The drop is another player's, or that of the client followed.           *)
LEMMA OthersDropKeeps ==
  ASSUME GarbageInv, OthersDrop
  PROVE  GarbageInv'
<1>1. PICK f \in Fields \ {Me} : ReadDrop(f, Head(wait[f])) /\ UNCHANGED view
  BY DEF OthersDrop
<1>2. ClientTyped(view') /\ view' = view
  BY <1>1 DEF GarbageInv
<1>3. QED BY <1>1, <1>2, DropKeeps

(* Its own is the head of those it has confirmed, as the server checks.    *)
LEMMA MineDropsKeeps ==
  ASSUME GarbageInv, MineDrops
  PROVE  GarbageInv'
<1>1. /\ view.up # <<>> /\ ReadDrop(Me, Head(view.up))
      /\ view' = [view EXCEPT !.up = Tail(@)]
  BY DEF MineDrops
<1>2. ClientTyped(view) /\ Typical
  BY StageNow DEF GarbageInv
<1>3. view.up \in Seq(GbIds) /\ DOMAIN view = {"hang", "wait", "gbs", "up", "gone", "error"}
  BY <1>2 DEF ClientTyped
<1>4. /\ DOMAIN (view') = DOMAIN view
      /\ (view').hang = view.hang /\ (view').wait = view.wait /\ (view').gbs = view.gbs
      /\ (view').error = view.error /\ (view').gone = view.gone
      /\ (view').up = Tail(view.up)
  BY <1>1, <1>3
<1>5. ClientTyped(view')
  <2>1. Tail(view.up) \in Seq(GbIds)
    BY <1>1, <1>3
  <2>2. QED BY <1>2, <1>4, <2>1 DEF ClientTyped
<1>6. Confirms(view)
  <2>1. GbIds \subseteq Ids
    BY GbBoundsAssumption DEF GbIds, Ids
  <2>2. view.up \in Seq(Ids)
    BY <1>3, <2>1
  <2>3. QED BY <1>1, <1>3, <2>2 DEF Confirms
<1>7. Behind(view', view)
  BY <1>3, <1>4 DEF Behind
<1>8. Behind(HavingRead(view', down), Ahead)
  BY <1>2, <1>6, <1>7, ReadBehind, AheadReads DEF Typical
<1>9. QED BY <1>1, <1>5, <1>8, MeAssumption, DropKeeps

(* Every step keeps the invariant.                                         *)
LEMMA GarbageInvStep == GarbageInv /\ [GarbageNext]_allVars => GarbageInv'
<1> SUFFICES ASSUME GarbageInv, [GarbageNext]_allVars PROVE GarbageInv'
  OBVIOUS
<1>1. CASE UNCHANGED allVars
  BY <1>1, NothingMoves
<1>2. ASSUME failed = "", NEW f \in Fields, Step(f) PROVE GarbageInv'
  BY <1>2, StepKeeps DEF Running
<1>3. ASSUME NEW f \in Fields, Abandon(f) PROVE GarbageInv'
  BY <1>3, AbandonKeeps
<1>4. CASE OthersDrop
  BY <1>4, OthersDropKeeps
<1>5. CASE MineDrops
  BY <1>5, MineDropsKeeps
<1>6. CASE ClientReads
  BY <1>6, ClientReadsKeeps
<1>7. QED BY <1>1, <1>2, <1>3, <1>4, <1>5, <1>6 DEF GarbageNext

-----------------------------------------------------------------------------
(* Two queues, one after the other.                                        *)
LEMMA Joined ==
  ASSUME NEW S, NEW q \in Seq(S), NEW r \in Seq(S)
  PROVE  /\ Len(q) \in Nat /\ Len(r) \in Nat
         /\ DOMAIN (q \o r) = 1..(Len(q) + Len(r))
         /\ \A i \in 1..(Len(q) + Len(r)) :
              \/ i \in 1..Len(q) /\ (q \o r)[i] = q[i]
              \/ i - Len(q) \in 1..Len(r) /\ (q \o r)[i] = r[i - Len(q)]
         /\ \A i \in 1..Len(q) : i \in 1..(Len(q) + Len(r)) /\ (q \o r)[i] = q[i]
         /\ \A i \in 1..Len(r) :
              i + Len(q) \in 1..(Len(q) + Len(r)) /\ (q \o r)[i + Len(q)] = r[i]
<1> DEFINE n == Len(q)
           m == Len(r)
           u == q \o r
<1>1. n \in Nat /\ m \in Nat
  OBVIOUS
<1>2. u \in Seq(S) /\ Len(u) = n + m
      /\ \A i \in 1..(n + m) : u[i] = IF i <= n THEN q[i] ELSE r[i - n]
  BY ConcatProperties
<1>3. DOMAIN u = 1..(n + m)
  BY <1>1, <1>2
<1> HIDE DEF n, m, u
<1>4. \A i \in 1..(n + m) : \/ i \in 1..n /\ u[i] = q[i]
                            \/ i - n \in 1..m /\ u[i] = r[i - n]
  BY <1>1, <1>2
<1>5. \A i \in 1..n : i \in 1..(n + m) /\ u[i] = q[i]
  BY <1>1, <1>2
<1>6. ASSUME NEW i \in 1..m PROVE i + n \in 1..(n + m) /\ u[i + n] = r[i]
  <2>1. i + n \in 1..(n + m) /\ ~(i + n <= n) /\ (i + n) - n = i
    BY <1>1
  <2>2. QED BY <2>1, <1>2
<1>7. QED BY <1>1, <1>3, <1>4, <1>5, <1>6 DEF n, m, u

(* What is in either is in both together,                                  *)
LEMMA JoinedAmong ==
  ASSUME NEW S, NEW q \in Seq(S), NEW r \in Seq(S)
  PROVE  Range(q \o r) = Range(q) \union Range(r)
<1> DEFINE n == Len(q)
           m == Len(r)
           u == q \o r
<1>1. DOMAIN q = 1..n /\ DOMAIN r = 1..m
  OBVIOUS
<1>2. /\ DOMAIN u = 1..(n + m)
      /\ \A i \in 1..(n + m) : \/ i \in 1..n /\ u[i] = q[i]
                               \/ i - n \in 1..m /\ u[i] = r[i - n]
      /\ \A i \in 1..n : i \in 1..(n + m) /\ u[i] = q[i]
      /\ \A i \in 1..m : i + n \in 1..(n + m) /\ u[i + n] = r[i]
  BY Joined
<1> HIDE DEF n, m, u
<1>3. \A x : x \in Range(u) <=> \E i \in 1..(n + m) : u[i] = x
  BY <1>2 DEF Range
<1>4. \A x : x \in Range(q) <=> \E i \in 1..n : q[i] = x
  BY <1>1 DEF Range
<1>5. \A x : x \in Range(r) <=> \E i \in 1..m : r[i] = x
  BY <1>1 DEF Range
<1>6. \A i \in 1..(n + m) : u[i] \in Range(q) \union Range(r)
  BY <1>2, <1>4, <1>5
<1>7. \A i \in 1..n : q[i] \in Range(u)
  BY <1>2, <1>3
<1>8. \A i \in 1..m : r[i] \in Range(u)
  BY <1>2, <1>3
<1>9. \A x : x \in Range(u) <=> x \in Range(q) \union Range(r)
  <2>1. ASSUME NEW x \in Range(u) PROVE x \in Range(q) \union Range(r)
    BY <1>3, <1>6
  <2>2. ASSUME NEW x \in Range(q) PROVE x \in Range(u)
    BY <1>4, <1>7
  <2>3. ASSUME NEW x \in Range(r) PROVE x \in Range(u)
    BY <1>5, <1>8
  <2>4. QED BY <2>1, <2>2, <2>3
<1>10. QED BY <1>9, Zenon DEF u

(* and once, if the two have nothing in common.                            *)
LEMMA JoinedApart ==
  ASSUME NEW S, NEW q \in Seq(S), NEW r \in Seq(S), IsInjective(q), IsInjective(r),
         \A x \in Range(q) : x \notin Range(r)
  PROVE  IsInjective(q \o r)
<1> DEFINE n == Len(q)
           m == Len(r)
           u == q \o r
<1>1. n \in Nat /\ DOMAIN q = 1..n /\ DOMAIN r = 1..m
  OBVIOUS
<1>2. /\ DOMAIN u = 1..(n + m)
      /\ \A i \in 1..(n + m) : \/ i \in 1..n /\ u[i] = q[i]
                               \/ i - n \in 1..m /\ u[i] = r[i - n]
  BY Joined
<1> HIDE DEF n, m, u
<1>3. \A i \in 1..n, j \in 1..m : q[i] # r[j]
  BY <1>1 DEF Range
<1>4. /\ \A i, j \in 1..n : q[i] = q[j] => i = j
      /\ \A i, j \in 1..m : r[i] = r[j] => i = j
  BY <1>1 DEF IsInjective
<1>5. \A i, j \in 1..(n + m) : u[i] = u[j] => i = j
  <2> SUFFICES ASSUME NEW i \in 1..(n + m), NEW j \in 1..(n + m), u[i] = u[j] PROVE i = j
    OBVIOUS
  <2>1. CASE i \in 1..n /\ u[i] = q[i] /\ j \in 1..n /\ u[j] = q[j]
    BY <2>1, <1>4
  <2>2. CASE i - n \in 1..m /\ u[i] = r[i - n] /\ j - n \in 1..m /\ u[j] = r[j - n]
    <3>1. i - n = j - n
      BY <2>2, <1>4
    <3>2. QED BY <3>1, <1>1
  <2>3. QED BY <1>2, <1>3, <2>1, <2>2
<1>6. QED BY <1>2, <1>5 DEF IsInjective, u

(* What is known of the queues of a state of the invariant.                *)
LEMMA QueuesPlaced ==
  ASSUME GarbageInv, NEW f \in Fields
  PROVE  /\ hang[f] \in Seq(GbIds) /\ wait[f] \in Seq(GbIds)
         /\ IsInjective(hang[f] \o wait[f])
         /\ \A g \in Range(hang[f] \o wait[f]) : gbs[g].to = f
         /\ \A g \in Range(hang[f]) : gbs[g].type = "COMBO" => gbs[g].size <= Width
<1>1. Sound(Now) /\ Placed(Now) /\ Len(gbs) <= GbMax
  BY DEF GarbageInv, Follows
<1>2. Now.hang = hang /\ Now.wait = wait /\ Now.gbs = gbs
  BY DEF Now
<1>3. hang[f] \in Seq(Ids) /\ wait[f] \in Seq(Ids) /\ Len(gbs) \in Nat
  BY <1>1, <1>2 DEF Sound
<1>4. Made(Now) \subseteq GbIds
  BY <1>1, <1>2, <1>3, GbBoundsAssumption DEF Made, GbIds
<1>5. /\ IsInjective(hang[f]) /\ IsInjective(wait[f])
      /\ \A g \in Range(hang[f]) :
           /\ g \in GbIds /\ gbs[g].to = f /\ g \notin Range(wait[f])
           /\ gbs[g].type = "COMBO" => gbs[g].size <= Width
      /\ \A g \in Range(wait[f]) : g \in GbIds /\ gbs[g].to = f
  <2>1. /\ IsInjective(hang[f]) /\ IsInjective(wait[f])
        /\ \A g \in Range(hang[f]) :
             /\ g \in Made(Now) /\ gbs[g].to = f /\ g \notin Range(wait[f])
             /\ gbs[g].type = "COMBO" => gbs[g].size <= Width
        /\ \A g \in Range(wait[f]) : g \in Made(Now) /\ gbs[g].to = f
    BY <1>1, <1>2, Zenon DEF Placed
  <2>2. QED BY <2>1, <1>4
<1>6. \A q \in Seq(Ids) : (\A g \in Range(q) : g \in GbIds) => q \in Seq(GbIds)
  <2> SUFFICES ASSUME NEW q \in Seq(Ids), \A g \in Range(q) : g \in GbIds
               PROVE  q \in Seq(GbIds)
    OBVIOUS
  <2>1. \A i \in 1..Len(q) : q[i] \in GbIds
    BY DEF Range
  <2> DEFINE A == GbIds
             B == Ids
  <2>2. q \in Seq(B) /\ \A i \in 1..Len(q) : q[i] \in A
    BY <2>1
  <2> HIDE DEF A, B
  <2>3. q \in Seq(A)
    BY <2>2
  <2>4. QED BY <2>3 DEF A
<1>7. hang[f] \in Seq(GbIds) /\ wait[f] \in Seq(GbIds)
  BY <1>3, <1>5, <1>6
<1> DEFINE q == hang[f]
           r == wait[f]
<1>8. /\ q \in Seq(Ids) /\ r \in Seq(Ids) /\ IsInjective(q) /\ IsInjective(r)
      /\ \A x \in Range(q) : x \notin Range(r)
  BY <1>3, <1>5
<1> HIDE DEF q, r
<1>9. IsInjective(q \o r) /\ Range(q \o r) = Range(q) \union Range(r)
  BY <1>8, JoinedApart, JoinedAmong
<1>10. QED BY <1>5, <1>7, <1>9 DEF q, r

-----------------------------------------------------------------------------
(* A match with garbages is a match: whatever they do, all that is proved  *)
(* of Match, its ranking and its clock, holds with them.                   *)
THEOREM GarbageIsMatch == GarbageSpec => Spec
<1>1. GarbageInit => Init
  BY DEF GarbageInit
<1>2. QED BY <1>1, StepIsMatchStep, PTL DEF GarbageSpec, Spec

(* The inductive invariant holds of every reachable state.                 *)
THEOREM GarbageInvariant == GarbageSpec => []GarbageInv
<1>1. QED BY GarbageInvInit, GarbageInvStep, PTL DEF GarbageSpec

(* The types of the state, server and client, and that a garbage is in one *)
(* place, above its target, those of combos no wider than the field.       *)
THEOREM GarbageTypes == GarbageSpec => []GarbageTypeOK
<1>1. GarbageInv => GarbageTypeOK
  <2> SUFFICES ASSUME GarbageInv PROVE GarbageTypeOK
    OBVIOUS
  <2>1. /\ TypeOK /\ chain \in [Fields -> Nat \ {0}] /\ Len(gbs) <= GbMax
        /\ Sound(Now) /\ ChainsHang(Now) /\ ClientTyped(view)
        /\ down \in Seq(Message(GbIds)) /\ failed \in {"", "no target"}
    BY DEF GarbageInv, MatchInv, Follows
  <2>2. /\ Now.hang = hang /\ Now.wait = wait /\ Now.gbs = gbs /\ Now.due = due
        /\ Now.active = active
    BY DEF Now
  <2>3. /\ gbs \in Seq(GarbageRecord) /\ due \in Seq(Nat) /\ Len(due) = Len(gbs)
        /\ hang \in [Fields -> Seq(Ids)] /\ wait \in [Fields -> Seq(Ids)]
        /\ active \in [Fields -> Nat]
    BY <2>1, <2>2 DEF Sound
  <2>4. hang \in [Fields -> Seq(GbIds)] /\ wait \in [Fields -> Seq(GbIds)]
    BY <2>3, QueuesPlaced
  <2>5. active \in [Fields -> GbIds \union {0}]
    <3>1. Made(Now) \subseteq GbIds
      <4>1. Len(gbs) <= GbMax
        BY Zenon DEF GarbageInv
      <4>2. Len(gbs) \in Nat
        BY <2>3
      <4>3. QED BY <4>1, <4>2, <2>2, GbBoundsAssumption DEF Made, GbIds
    <3>2. \A f \in Fields : active[f] \in GbIds \union {0}
      BY <2>1, <2>2, <3>1 DEF ChainsHang
    <3>3. QED BY <2>3, <3>2
  <2>6. due \in [DOMAIN gbs -> Nat]
    BY <2>3
  <2>7. \A f \in Fields :
          /\ IsInjective(hang[f] \o wait[f])
          /\ \A g \in Range(hang[f] \o wait[f]) : gbs[g].to = f
          /\ \A g \in Range(hang[f]) : gbs[g].type = "COMBO" => gbs[g].size <= Width
    BY QueuesPlaced
  <2>8. failed \in {"", "no target", "no chain garbage"}
    BY <2>1, Zenon
  <2>9. /\ view.hang \in [Fields -> Seq(GbIds)] /\ view.wait \in [Fields -> Seq(GbIds)]
        /\ DOMAIN view.gbs \subseteq GbIds
        /\ view.gbs \in [DOMAIN view.gbs -> [to : Fields, size : Nat \ {0}]]
        /\ view.up \in Seq(GbIds) /\ view.gone \subseteq Fields
        /\ view.error \in {"", "garbage not found", "invalid garbage position",
                           "invalid garbage target", "invalid garbage origin",
                           "invalid player", "assertion", "invalid dropped garbage"}
    BY <2>1, Zenon DEF ClientTyped, Errors
  <2>10. QED BY <2>1, <2>3, <2>4, <2>5, <2>6, <2>7, <2>8, <2>9, Zenon DEF GarbageTypeOK
<1>2. QED BY <1>1, GarbageInvariant, PTL

(* The garbage of an active chain hangs until the chain ends, whatever the *)
(* ticks of its maker and of its target, so that the assertion of          *)
(* updateGarbages on the garbage of a chain that goes on never fails.      *)
THEOREM ChainGarbageHangs == GarbageSpec => []ActiveChainHangs
<1>1. GarbageInv => ActiveChainHangs
  <2> SUFFICES ASSUME GarbageInv PROVE ActiveChainHangs
    OBVIOUS
  <2>1. ChainsHang(Now) /\ failed \in {"", "no target"}
    BY DEF GarbageInv, Follows
  <2>2. Now.hang = hang /\ Now.gbs = gbs /\ Now.active = active
    BY DEF Now
  <2>3. "no target" # "no chain garbage" /\ "" # "no chain garbage"
    OBVIOUS
  <2>4. failed # "no chain garbage"
    BY <2>1, <2>3, Zenon
  <2>5. QED BY <2>1, <2>2, <2>4 DEF ActiveChainHangs, ChainsHang
<1>2. QED BY <1>1, GarbageInvariant, PTL

(* The drops a client confirms are those the server waits for, in their    *)
(* order, for any number of them on their way (processPktGarbageState).    *)
THEOREM DropsConfirmedInOrder == GarbageSpec => []ConfirmedInOrder
<1>1. GarbageInv => ConfirmedInOrder
  BY DEF GarbageInv, Follows, Mirrors, ConfirmedInOrder, Now
<1>2. QED BY <1>1, GarbageInvariant, PTL

(* A client that has read everything has the garbages of the server: no    *)
(* message is refused on the way, however late it reads them, and whoever  *)
(* quits meanwhile.                                                        *)
THEOREM ClientFollowsGarbages == GarbageSpec => []ViewFollows
<1>1. GarbageInv => ViewFollows
  <2> SUFFICES ASSUME GarbageInv PROVE ViewFollows
    OBVIOUS
  <2>1. Placed(Now) /\ Mirrors(Now, Ahead) /\ Ahead.gone = Fields \ players
    BY DEF GarbageInv, Follows, Departed
  <2>2. Now.hang = hang /\ Now.wait = wait /\ Now.gbs = gbs
    BY DEF Now
  <2> DEFINE s == Now
             v == Ahead
  <2> HIDE DEF s, v
  <2>3. v.error = "" /\ \A f \in Fields :
          Range(v.hang[f]) = Range(s.hang[f]) /\ (f # Me => v.wait[f] = s.wait[f])
    BY <2>1, Zenon DEF Mirrors, s, v
  <2>4. ASSUME NEW f \in Fields, NEW g \in Range(s.hang[f])
        PROVE  v.gbs[g] = [to |-> f, size |-> s.gbs[g].size]
    <3>1. g \in Made(s) /\ s.gbs[g].to = f
      BY <2>1, <2>4, Zenon DEF Placed, s
    <3>2. v.gbs[g] = [to |-> s.gbs[g].to, size |-> s.gbs[g].size]
      BY <2>1, <3>1, Zenon DEF Mirrors, s, v
    <3>3. QED BY <3>1, <3>2
  <2>5. s.hang = hang /\ s.wait = wait /\ s.gbs = gbs
    BY <2>2 DEF s
  <2>6. QED BY <2>1, <2>3, <2>4, <2>5 DEF ViewFollows, v
<1>2. QED BY <1>1, GarbageInvariant, PTL
=============================================================================
