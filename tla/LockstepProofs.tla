--------------------------- MODULE LockstepProofs ---------------------------
(***************************************************************************)
(* Proofs about Lockstep, for any number of fields, of clients among them, *)
(* of garbages and any window: the inductive invariant, LockInv, what its  *)
(* parts need from a step, that every step gives it, and the theorems.     *)
(* The copies of a field never diverge, what a copy misses is on its way,  *)
(* and only hasty inputs are refused for their lag.                        *)
(*                                                                         *)
(* LockInv says what is in the channels.  Nothing is counted in them: an   *)
(* input carries its tick, and the place of each message in the log it     *)
(* will be written to is named (Bring).                                    *)
(***************************************************************************)
EXTENDS Lockstep, MatchProofs, SequenceTheorems

(* The inputs of queue q at the indices I are those of the ticks from t to *)
(* u - 1, each once and in order.                                          *)
Consecutive(q, I, t, u) ==
  /\ t <= u
  /\ \A i \in I : t <= q[i].tick /\ q[i].tick < u
  /\ \A i, j \in I : i < j => q[i].tick < q[j].tick
  /\ \A x \in t..(u - 1) : \E i \in I : q[i].tick = x

UpInputs(q) == {i \in DOMAIN q : q[i].type = "INPUT"}
DownInputs(q, f) == {i \in DOMAIN q : q[i].type = "INPUT" /\ q[i].fld = f}

-----------------------------------------------------------------------------
(* The parts of the invariant.                                             *)

(* A field is lost once its player has left, or at the tick it loses.      *)
Losses == \A f \in Fields : lost[f] <=> f \notin players \/ tick[f] >= loseAt[f]

(* What messages name exists, and who is said to have left has.            *)
GoodUp(m, c) == m.type = "DROP" => m.gb \in DOMAIN gbTo /\ gbTo[m.gb] = c
GoodDown(m, c) ==
  /\ m.type = "INPUT" => m.fld # c
  /\ m.type = "WAIT" => m.gb \in DOMAIN gbTo
  /\ m.type = "DROP" => m.gb \in 0..Len(gbTo) /\ gbTo # <<>>
  /\ m.type = "QUIT" => m.fld \notin players

GoodMessages ==
  \A c \in Fields :
    /\ \A i \in DOMAIN up[c] : GoodUp(up[c][i], c)
    /\ \A i \in DOMAIN down[c] : GoodDown(down[c][i], c)
    /\ copy[c].gone \intersect players = {}

(* From a client to the server: the log of the client's field is that of   *)
(* the server followed by what is on its way.                              *)
Sending(c) == phase = "GAME" /\ c \in Served

OwnLog(c) == copy[c].log[c] = log[c] \o [i \in DOMAIN up[c] |-> UpEntry(up[c][i])]

OwnTicks(c) == Consecutive(up[c], UpInputs(up[c]), tick[c], copy[c].ticks[c])

(* An input that is not hasty was in the window of every living field.     *)
UpInWindow(c) ==
  \A i \in UpInputs(up[c]) :
    ~up[c][i].hasty =>
       \A f \in Fields \ {c} :
         lost[f] \/ up[c][i].tick + 1 < copy[c].ticks[f] + LagMax

UpInv == \A c \in Fields : Sending(c) => OwnLog(c) /\ OwnTicks(c) /\ UpInWindow(c)

(* From the server to a client.  Nothing is read past a DROP without an ID *)
(* and what follows it does not matter to the fields that the server plays.*)
Nameless(m) == m.type = "DROP" /\ m.gb = 0
Clear(q) == {i \in DOMAIN q : \A j \in 1..i : ~Nameless(q[j])}
Read(q, f) == IF f \in remote THEN DOMAIN q ELSE Clear(q)

SureNews(q, f) == [i \in {j \in Read(q, f) : About(q[j], f)} |-> UpEntry(q[i])]

OtherLog(c, f) ==
  /\ IsPrefix(copy[c].log[f], log[f])
  /\ \E m \in Len(copy[c].log[f])..Len(log[f]) :
       /\ Bring(SureNews(down[c], f), Len(copy[c].log[f]), m, log[f])
       /\ Read(down[c], f) = DOMAIN down[c] => m = Len(log[f])

OtherTicks(c, f) ==
  Consecutive(down[c], DownInputs(down[c], f), copy[c].ticks[f], tick[f])

(* The departures a client has not been told of, it will be.               *)
Farewells(c) ==
  \A f \in Fields \ players :
    f \in copy[c].gone \/ \E i \in DOMAIN down[c] : down[c][i] = [type |-> "QUIT", fld |-> f]

(* When client c gets to message i, field f will have made t ticks.        *)
WillReach(c, i, f, t) ==
  \/ t <= copy[c].ticks[f]
  \/ \E j \in DownInputs(down[c], f) : j < i /\ t <= down[c][j].tick + 1

(* And it will be known to have lost.                                      *)
WillBeLost(c, i, f) ==
  \/ WillReach(c, i, f, loseAt[f])
  \/ f \in copy[c].gone
  \/ \E j \in DOMAIN down[c] : j < i /\ down[c][j] = [type |-> "QUIT", fld |-> f]

DownInWindow(c) ==
  \A i \in DOMAIN down[c] :
    down[c][i].type = "INPUT" /\ ~down[c][i].hasty =>
       \A f \in Fields \ {down[c][i].fld} :
         \/ WillBeLost(c, i, f)
         \/ \E t \in Nat : WillReach(c, i, f, t) /\ down[c][i].tick + 1 < t + LagMax

(* A match is announced before its inputs, and none follows its end.       *)
Announced(c) ==
  /\ \A i \in DOMAIN down[c] : down[c][i].type = "GAME" => i = 1
  /\ \A i, j \in DOMAIN down[c] :
       down[c][i].type = "LOBBY" /\ down[c][j].type = "INPUT" => j < i
  /\ \A i \in DOMAIN down[c] : down[c][i].type = "LOBBY" => phase # "GAME"
  /\ \/ copy[c].on
     \/ down[c] # <<>> /\ down[c][1].type = "GAME"
     \/ phase # "GAME" /\ \A i \in DOMAIN down[c] : down[c][i].type # "INPUT"

(* What keeps the match tick of a client moving (see ClockAnchored).       *)
Anchored(v) ==
  \/ \E f \in Fields : ~LostIn(v)[f] /\ v.ticks[f] = v.tick
  \/ \A f \in Fields : v.ticks[f] <= v.tick

CopyClock(c) ==
  Anchored(copy[c]) \/ (~copy[c].on /\ \A i \in DOMAIN down[c] : down[c][i].type \notin {"INPUT", "GAME"})

DownInv ==
  \A c \in Following :
    /\ \A f \in Fields \ {c} : OtherLog(c, f) /\ OtherTicks(c, f)
    /\ Farewells(c) /\ DownInWindow(c) /\ Announced(c) /\ CopyClock(c)

LockInv ==
  /\ LockstepTypeOK
  /\ MatchInv
  /\ Losses
  /\ GoodMessages
  /\ UpInv
  /\ DownInv
  /\ CopiesAgree

-----------------------------------------------------------------------------
(* Queues.                                                                 *)

(* IsPrefix, entry by entry.                                               *)
LEMMA PrefixByEntry ==
  ASSUME NEW S, NEW s \in Seq(S), NEW l \in Seq(S)
  PROVE  IsPrefix(s, l) <=> Len(s) <= Len(l) /\ \A i \in 1..Len(s) : s[i] = l[i]
BY DEF IsPrefix

(* What is in a queue once messages have been added at its end.            *)
LEMMA AddedAtEnd ==
  ASSUME NEW S, NEW q \in Seq(S), NEW r \in Seq(S)
  PROVE  /\ q \o r \in Seq(S) /\ Len(q \o r) = Len(q) + Len(r)
         /\ \A i \in DOMAIN q : i \in DOMAIN (q \o r) /\ (q \o r)[i] = q[i]
         /\ \A j \in DOMAIN r : Len(q) + j \in DOMAIN (q \o r) /\ (q \o r)[Len(q) + j] = r[j]
         /\ \A i \in DOMAIN (q \o r) :
              i \in DOMAIN q \/ (i - Len(q) \in DOMAIN r /\ (q \o r)[i] = r[i - Len(q)])
OBVIOUS

(* And once its head has been read.                                        *)
LEMMA HeadRead ==
  ASSUME NEW S, NEW q \in Seq(S), q # <<>>
  PROVE  /\ Tail(q) \in Seq(S) /\ Len(Tail(q)) = Len(q) - 1 /\ Head(q) = q[1] /\ 1 \in DOMAIN q
         /\ \A i \in DOMAIN Tail(q) : i + 1 \in DOMAIN q /\ Tail(q)[i] = q[i + 1]
         /\ \A i \in DOMAIN q : i = 1 \/ (i - 1 \in DOMAIN Tail(q) /\ Tail(q)[i - 1] = q[i])
OBVIOUS

(* The indices of a set, once the head has been read.                      *)
Shifted(I) == {i \in Nat \ {0} : i + 1 \in I}

(* Inputs added at the end follow on.                                      *)
LEMMA ConsecutiveMore ==
  ASSUME NEW S, NEW q \in Seq(S), NEW r \in Seq(S), NEW I \in SUBSET DOMAIN q,
         NEW t \in Nat, NEW u \in Nat, Consecutive(q, I, t, u),
         \A i \in I : q[i].tick \in Nat
  PROVE  /\ Consecutive(q \o r, I, t, u)
         /\ r # <<>> /\ r[1].tick = u =>
              Consecutive(q \o r, I \union {Len(q) + 1}, t, u + 1)
<1>1. \A i \in I : (q \o r)[i] = q[i] /\ i \in Nat /\ i < Len(q) + 1
  OBVIOUS
<1>2. Consecutive(q \o r, I, t, u)
  BY <1>1 DEF Consecutive
<1>3. ASSUME r # <<>>, r[1].tick = u
      PROVE  Consecutive(q \o r, I \union {Len(q) + 1}, t, u + 1)
  <2> DEFINE p == q \o r
             k == Len(q) + 1
  <2>1. p[k] = r[1] /\ k \in Nat
    BY <1>3
  <2>2. \A i \in I : p[i] = q[i] /\ i \in Nat /\ i < k
    BY <1>1
  <2> HIDE DEF p, k
  <2>3. \A i \in I \union {k} : t <= p[i].tick /\ p[i].tick < u + 1
    BY <2>1, <2>2, <1>3 DEF Consecutive
  <2>4. ASSUME NEW i \in I \union {k}, NEW j \in I \union {k}, i < j
        PROVE  p[i].tick < p[j].tick
    <3>1. i \in I
      BY <2>1, <2>2, <2>4
    <3>2. CASE j \in I
      BY <3>1, <3>2, <2>2, <2>4 DEF Consecutive
    <3>3. CASE j = k
      BY <3>1, <3>3, <2>1, <2>2, <1>3 DEF Consecutive
    <3>4. QED BY <3>2, <3>3
  <2>5. \A x \in t..((u + 1) - 1) : \E i \in I \union {k} : p[i].tick = x
    <3>1. SUFFICES ASSUME NEW x \in t..u PROVE \E i \in I \union {k} : p[i].tick = x
      OBVIOUS
    <3>2. CASE x = u
      BY <3>2, <2>1, <1>3
    <3>3. CASE x # u
      BY <3>3, <2>2 DEF Consecutive
    <3>4. QED BY <3>2, <3>3
  <2>6. t <= u + 1
    BY DEF Consecutive
  <2>7. Consecutive(p, I \union {k}, t, u + 1)
    BY <2>3, <2>4, <2>5, <2>6 DEF Consecutive
  <2>8. QED BY <2>7 DEF p, k
<1>4. QED BY <1>2, <1>3

(* The head of the queue is the next input, and the rest follows it.       *)
LEMMA ConsecutiveRead ==
  ASSUME NEW S, NEW q \in Seq(S), q # <<>>, NEW I \in SUBSET DOMAIN q,
         NEW t \in Nat, NEW u \in Nat, Consecutive(q, I, t, u),
         \A i \in I : q[i].tick \in Nat
  PROVE  /\ 1 \in I => /\ q[1].tick = t /\ t < u
                       /\ Consecutive(Tail(q), Shifted(I), t + 1, u)
         /\ 1 \notin I => Consecutive(Tail(q), Shifted(I), t, u)
<1> DEFINE p == Tail(q)
           J == Shifted(I)
<1>1. \A j \in J : j \in Nat /\ j >= 1 /\ j + 1 \in I /\ p[j] = q[j + 1]
  BY HeadRead DEF Shifted
<1>2. \A i \in I : i = 1 \/ (i - 1 \in J /\ p[i - 1] = q[i])
  BY HeadRead DEF Shifted
<1>3. \A i \in I : i \in Nat /\ i >= 1
  OBVIOUS
<1> HIDE DEF p, J
<1>6. ASSUME NEW j \in J, NEW k \in J, j < k PROVE p[j].tick < p[k].tick
  <2>1. j + 1 \in I /\ k + 1 \in I /\ j + 1 < k + 1
    BY <1>1, <1>6
  <2>2. q[j + 1].tick < q[k + 1].tick
    BY <2>1 DEF Consecutive
  <2>3. QED BY <2>2, <1>1
<1>4. ASSUME 1 \in I
      PROVE  q[1].tick = t /\ t < u /\ Consecutive(p, J, t + 1, u)
  <2>1. t < u
    BY <1>4 DEF Consecutive
  <2>2. PICK i \in I : q[i].tick = t
    BY <2>1 DEF Consecutive
  <2>3. i = 1
    BY <1>3, <1>4, <2>2 DEF Consecutive
  <2>4. \A j \in J : t + 1 <= p[j].tick /\ p[j].tick < u
    BY <1>1, <1>4, <2>2, <2>3 DEF Consecutive
  <2>5. \A j, k \in J : j < k => p[j].tick < p[k].tick
    BY <1>6
  <2>6. \A x \in (t + 1)..(u - 1) : \E j \in J : p[j].tick = x
    <3> TAKE x \in (t + 1)..(u - 1)
    <3>1. PICK k \in I : q[k].tick = x
      BY DEF Consecutive
    <3>2. k # 1
      BY <3>1, <2>2, <2>3
    <3>3. QED BY <3>1, <3>2, <1>2
  <2>7. QED BY <2>1, <2>2, <2>3, <2>4, <2>5, <2>6 DEF Consecutive
<1>5. ASSUME 1 \notin I PROVE Consecutive(p, J, t, u)
  <2>1. \A j \in J : t <= p[j].tick /\ p[j].tick < u
    BY <1>1 DEF Consecutive
  <2>2. \A j, k \in J : j < k => p[j].tick < p[k].tick
    BY <1>6
  <2>3. \A x \in t..(u - 1) : \E j \in J : p[j].tick = x
    <3> TAKE x \in t..(u - 1)
    <3>1. PICK k \in I : q[k].tick = x
      BY DEF Consecutive
    <3>2. QED BY <3>1, <1>5, <1>2
  <2>4. QED BY <2>1, <2>2, <2>3 DEF Consecutive
<1>7. QED BY <1>4, <1>5 DEF p, J

(* News are the same if their messages and the entries they bring are.     *)
LEMMA BringSame ==
  ASSUME NEW news, NEW others, NEW n \in Nat, NEW m \in Nat, NEW l, NEW k,
         Bring(news, n, m, l), DOMAIN others = DOMAIN news,
         \A i \in DOMAIN news : others[i] = news[i],
         \A p \in (n + 1)..m : k[p] = l[p]
  PROVE  Bring(others, n, m, k)
<1>1. PICK place \in [DOMAIN news -> (n + 1)..m] :
        /\ \A i \in DOMAIN news : l[place[i]] = news[i]
        /\ \A i, j \in DOMAIN news : i < j => place[i] < place[j]
        /\ \A p \in (n + 1)..m : \E i \in DOMAIN news : place[i] = p
  BY DEF Bring
<1>2. place \in [DOMAIN others -> (n + 1)..m]
  OBVIOUS
<1>3. \A i \in DOMAIN others : k[place[i]] = others[i]
  BY <1>1
<1>4. QED BY <1>1, <1>2, <1>3 DEF Bring

(* No news bring nothing.                                                  *)
LEMMA BringNothing ==
  ASSUME NEW news, DOMAIN news = {}, NEW n \in Nat, NEW l
  PROVE  Bring(news, n, n, l)
<1>1. (n + 1)..n = {}
  OBVIOUS
<1>2. [i \in {} |-> 0] \in [DOMAIN news -> (n + 1)..n]
  OBVIOUS
<1>3. QED BY <1>1, <1>2 DEF Bring

(* A message added after the others brings the entry after theirs.         *)
Adds(more, x, k, news, n, m, l) ==
  /\ n \in Nat /\ m \in Nat /\ n <= m
  /\ x \in Nat /\ DOMAIN news \in SUBSET Nat /\ \A i \in DOMAIN news : i < x
  /\ DOMAIN more = DOMAIN news \union {x} /\ \A i \in DOMAIN news : more[i] = news[i]
  /\ k[m + 1] = more[x] /\ \A p \in (n + 1)..m : k[p] = l[p]

(* Once an entry has been written, and the message about it sent.          *)
LEMMA BringMore ==
  ASSUME NEW news, NEW more, NEW x, NEW n, NEW m, NEW l, NEW k,
         Bring(news, n, m, l), Adds(more, x, k, news, n, m, l)
  PROVE  Bring(more, n, m + 1, k)
<1> USE DEF Adds
<1>1. PICK place \in [DOMAIN news -> (n + 1)..m] :
        /\ \A i \in DOMAIN news : l[place[i]] = news[i]
        /\ \A i, j \in DOMAIN news : i < j => place[i] < place[j]
        /\ \A p \in (n + 1)..m : \E i \in DOMAIN news : place[i] = p
  BY DEF Bring
<1> DEFINE D == DOMAIN news
           at == [i \in D \union {x} |-> IF i = x THEN m + 1 ELSE place[i]]
<1>2. \A i \in D : i # x /\ i \in Nat /\ place[i] \in (n + 1)..m
  OBVIOUS
<1>3. at[x] = m + 1 /\ \A i \in D : at[i] = place[i]
  BY <1>2
<1>4. at \in [DOMAIN more -> (n + 1)..(m + 1)]
  BY <1>2
<1> HIDE DEF at
<1>5. \A i \in DOMAIN more : k[at[i]] = more[i]
  BY <1>1, <1>2, <1>3
<1>6. \A i, j \in DOMAIN more : i < j => at[i] < at[j]
  BY <1>1, <1>2, <1>3
<1>7. \A p \in (n + 1)..(m + 1) : \E i \in DOMAIN more : at[i] = p
  <2> TAKE p \in (n + 1)..(m + 1)
  <2>1. p = m + 1 \/ p \in (n + 1)..m
    OBVIOUS
  <2>2. QED BY <2>1, <1>1, <1>3
<1>8. QED BY <1>4, <1>5, <1>6, <1>7 DEF Bring

(* The first message brings the next entry, and when it has been read the  *)
(* others bring what follows; a message about something else changes       *)
(* nothing.                                                                *)
Leaves(rest, news, n, m) ==
  /\ n \in Nat /\ m \in Nat /\ n <= m /\ DOMAIN news \in SUBSET (Nat \ {0})
  /\ DOMAIN rest = Shifted(DOMAIN news) /\ \A i \in DOMAIN rest : rest[i] = news[i + 1]

(* Once the head has been read, and what it is about written.              *)
LEMMA BringRead ==
  ASSUME NEW news, NEW rest, NEW n, NEW m, NEW l,
         Bring(news, n, m, l), Leaves(rest, news, n, m)
  PROVE  /\ 1 \in DOMAIN news => /\ n < m /\ l[n + 1] = news[1]
                                 /\ Bring(rest, n + 1, m, l)
         /\ 1 \notin DOMAIN news => Bring(rest, n, m, l)
<1> USE DEF Leaves
<1>1. PICK place \in [DOMAIN news -> (n + 1)..m] :
        /\ \A i \in DOMAIN news : l[place[i]] = news[i]
        /\ \A i, j \in DOMAIN news : i < j => place[i] < place[j]
        /\ \A p \in (n + 1)..m : \E i \in DOMAIN news : place[i] = p
  BY DEF Bring
<1> DEFINE D == DOMAIN news
           R == DOMAIN rest
           at == [i \in R |-> place[i + 1]]
<1>2. \A i \in R : i \in Nat /\ i >= 1 /\ i + 1 \in D /\ at[i] = place[i + 1]
  BY DEF Shifted
<1>3. \A i \in D : i \in Nat /\ i >= 1 /\ (i = 1 \/ (i - 1 \in R /\ at[i - 1] = place[i]))
  <2> TAKE i \in D
  <2>1. i \in Nat /\ i >= 1
    OBVIOUS
  <2>2. CASE i # 1
    <3>1. i - 1 \in Nat \ {0} /\ (i - 1) + 1 = i
      BY <2>1, <2>2
    <3>2. i - 1 \in R
      BY <3>1 DEF Shifted
    <3>3. QED BY <3>1, <3>2, <2>1
  <2>3. QED BY <2>1, <2>2
<1>4. DOMAIN at = R
  OBVIOUS
<1>5. \A i \in R : l[at[i]] = rest[i]
  BY <1>1, <1>2
<1>6. \A i, j \in R : i < j => at[i] < at[j]
  <2> SUFFICES ASSUME NEW i \in R, NEW j \in R, i < j PROVE at[i] < at[j]
    OBVIOUS
  <2>1. i + 1 \in D /\ j + 1 \in D /\ i + 1 < j + 1
    BY <1>2
  <2>2. place[i + 1] < place[j + 1]
    BY <1>1, <2>1
  <2>3. QED BY <2>2, <1>2
<1>7. at = [i \in R |-> at[i]]
  OBVIOUS
<1> HIDE DEF at
<1>8. ASSUME 1 \in D
      PROVE  n < m /\ l[n + 1] = news[1] /\ Bring(rest, n + 1, m, l)
  <2>1. n < m
    BY <1>8, <1>1
  <2>2. PICK i \in D : place[i] = n + 1
    BY <1>1, <2>1
  <2>3. i = 1
    <3>1. SUFFICES ASSUME i # 1 PROVE FALSE
      OBVIOUS
    <3>2. place[1] < place[i] /\ place[1] \in (n + 1)..m
      BY <3>1, <1>3, <1>1, <1>8
    <3>3. QED BY <3>2, <2>2
  <2>4. \A j \in R : at[j] \in (n + 2)..m
    <3> TAKE j \in R
    <3>1. j + 1 \in D /\ 1 < j + 1
      BY <1>2
    <3>2. place[1] < place[j + 1]
      BY <1>1, <1>8, <3>1
    <3>3. QED BY <3>1, <3>2, <2>2, <2>3, <1>2
  <2>5. at \in [R -> ((n + 1) + 1)..m]
    BY <2>4, <1>7
  <2>6. \A p \in ((n + 1) + 1)..m : \E j \in R : at[j] = p
    <3> TAKE p \in ((n + 1) + 1)..m
    <3>1. PICK j \in D : place[j] = p
      BY <1>1
    <3>2. j # 1
      BY <3>1, <2>2, <2>3
    <3>3. QED BY <3>1, <3>2, <1>3
  <2>7. Bring(rest, n + 1, m, l)
    BY <2>5, <2>6, <1>5, <1>6 DEF Bring
  <2>8. QED BY <2>1, <2>2, <2>3, <2>7, <1>1
<1>9. ASSUME 1 \notin D PROVE Bring(rest, n, m, l)
  <2>1. at \in [R -> (n + 1)..m]
    <3>1. \A j \in R : at[j] \in (n + 1)..m
      BY <1>2
    <3>2. QED BY <3>1, <1>7
  <2>2. \A p \in (n + 1)..m : \E j \in R : at[j] = p
    <3> TAKE p \in (n + 1)..m
    <3>1. PICK j \in D : place[j] = p
      BY <1>1
    <3>2. QED BY <3>1, <1>9, <1>3
  <2>3. QED BY <2>1, <2>2, <1>5, <1>6 DEF Bring
<1>10. QED BY <1>8, <1>9

-----------------------------------------------------------------------------
(* What is on its way to a client about the field of another.              *)

(* The messages a client will read, once others have been added...         *)
LEMMA ReadOfAdded ==
  ASSUME NEW S, NEW q \in Seq(S), NEW r \in Seq(S), NEW f
  PROVE  /\ Read(q, f) \subseteq DOMAIN q
         /\ \A i \in DOMAIN q : i \in Read(q \o r, f) <=> i \in Read(q, f)
         /\ Read(q, f) # DOMAIN q => Read(q \o r, f) \subseteq DOMAIN q
         /\ Read(q \o r, f) = DOMAIN (q \o r) => Read(q, f) = DOMAIN q
         /\ r # <<>> /\ Read(q, f) = DOMAIN q /\ ~Nameless(r[1]) =>
              Len(q) + 1 \in Read(q \o r, f)
         /\ Read(q \o r, f) = DOMAIN (q \o r) /\ f \notin remote =>
              \A j \in DOMAIN r : ~Nameless(r[j])
<1> DEFINE p == q \o r
<1>1. /\ Len(p) = Len(q) + Len(r) /\ DOMAIN p = 1..Len(p)
      /\ \A i \in DOMAIN q : i \in DOMAIN p /\ p[i] = q[i]
      /\ \A j \in DOMAIN r : Len(q) + j \in DOMAIN p /\ p[Len(q) + j] = r[j]
  BY AddedAtEnd
<1>2. /\ DOMAIN q = 1..Len(q) /\ DOMAIN r = 1..Len(r)
      /\ Len(q) \in Nat /\ Len(r) \in Nat /\ (r # <<>> => 1 \in DOMAIN r)
  OBVIOUS
<1> HIDE DEF p
<1>3. CASE f \in remote
  BY <1>1, <1>2, <1>3 DEF Read, p
<1>4. CASE f \notin remote
  <2>1. Read(q, f) = Clear(q) /\ Read(p, f) = Clear(p)
    BY <1>4 DEF Read
  <2>2. Clear(q) \subseteq DOMAIN q
    BY DEF Clear
  <2>3. \A i \in DOMAIN q : i \in Clear(p) <=> i \in Clear(q)
    <3> TAKE i \in DOMAIN q
    <3>1. \A j \in 1..i : j \in DOMAIN q
      BY <1>2
    <3>2. \A j \in 1..i : p[j] = q[j]
      BY <3>1, <1>1
    <3>3. QED BY <3>2, <1>1 DEF Clear
  <2>4. ASSUME Clear(q) # DOMAIN q PROVE Clear(p) \subseteq DOMAIN q
    <3>1. PICK i \in DOMAIN q : i \notin Clear(q)
      BY <2>4 DEF Clear
    <3>2. PICK j \in 1..i : Nameless(q[j])
      BY <3>1 DEF Clear
    <3>3. j \in DOMAIN q /\ Nameless(p[j])
      BY <3>1, <3>2, <1>1, <1>2
    <3>4. \A k \in Clear(p) : k < j
      BY <3>3, <1>1, <1>2 DEF Clear
    <3>5. QED BY <3>3, <3>4, <1>1, <1>2 DEF Clear
  <2>5. ASSUME Clear(p) = DOMAIN p PROVE Clear(q) = DOMAIN q
    BY <2>3, <2>2, <2>5, <1>1
  <2>6. ASSUME r # <<>>, Clear(q) = DOMAIN q, ~Nameless(r[1])
        PROVE  Len(q) + 1 \in Clear(p)
    <3>1. Len(q) + 1 \in DOMAIN p /\ p[Len(q) + 1] = r[1]
      BY <1>1, <1>2, <2>6
    <3>2. \A j \in 1..(Len(q) + 1) : j = Len(q) + 1 \/ j \in DOMAIN q
      BY <1>2
    <3>3. \A j \in DOMAIN q : ~Nameless(p[j])
      BY <2>6, <1>1, <1>2 DEF Clear
    <3>4. QED BY <3>1, <3>2, <3>3, <2>6 DEF Clear
  <2>7. ASSUME Clear(p) = DOMAIN p, NEW j \in DOMAIN r PROVE ~Nameless(r[j])
    <3>1. Len(q) + j \in Clear(p) /\ p[Len(q) + j] = r[j] /\ Len(q) + j \in 1..(Len(q) + j)
      BY <2>7, <1>1, <1>2
    <3>2. QED BY <3>1 DEF Clear
  <2>8. QED BY <2>1, <2>2, <2>3, <2>4, <2>5, <2>6, <2>7 DEF p
<1>5. QED BY <1>3, <1>4

(* The broadcast of what has just been applied to the field.               *)
LEMMA OtherLogTold ==
  ASSUME NEW c \in Fields, NEW f \in Fields,
         NEW q \in Seq(DownMessage), NEW r \in Seq(DownMessage),
         q = down[c], down'[c] = q \o r, remote' = remote,
         copy'[c].log[f] = copy[c].log[f], copy[c].log[f] \in Seq(Entry),
         log[f] \in Seq(Entry), log'[f] \in Seq(Entry), IsPrefix(log[f], log'[f]),
         OtherLog(c, f),
         \A i \in DOMAIN q : About(q[i], f)' <=> About(q[i], f),
         \/ log'[f] = log[f] /\ \A j \in DOMAIN r : ~About(r[j], f)'
         \/ /\ r # <<>> /\ About(r[1], f)' /\ ~Nameless(r[1])
            /\ \A j \in DOMAIN r : j # 1 => ~About(r[j], f)'
            /\ log'[f][Len(log[f]) + 1] = UpEntry(r[1])
            /\ Len(log'[f]) > Len(log[f])
            /\ \/ Len(log'[f]) = Len(log[f]) + 1
               \/ f \notin remote /\ \E j \in DOMAIN r : Nameless(r[j])
  PROVE  OtherLog(c, f)'
<1> DEFINE p == q \o r
           n == Len(copy[c].log[f])
           l == log[f]
           k == log'[f]
           old == SureNews(q, f)
           new == [i \in {j \in Read(p, f) : About(p[j], f)'} |-> UpEntry(p[i])]
<1>1. SureNews(down[c], f)' = new /\ Read(down[c], f)' = Read(p, f)
  BY DEF SureNews, Read, Clear, Nameless, UpEntry, Key, Drop
<1>2. /\ n \in Nat /\ n <= Len(l) /\ Len(l) \in Nat /\ Len(k) \in Nat /\ Len(l) <= Len(k)
      /\ \A i \in 1..n : copy[c].log[f][i] = l[i]
      /\ \A i \in 1..Len(l) : l[i] = k[i]
  <2>1. n \in Nat /\ Len(l) \in Nat /\ Len(k) \in Nat
    OBVIOUS
  <2>2. IsPrefix(copy[c].log[f], l) /\ IsPrefix(l, k)
    BY DEF OtherLog
  <2>3. \A x, y \in Seq(Entry) :
          IsPrefix(x, y) <=> Len(x) <= Len(y) /\ \A i \in 1..Len(x) : x[i] = y[i]
    BY PrefixByEntry
  <2>4. copy[c].log[f] \in Seq(Entry) /\ l \in Seq(Entry) /\ k \in Seq(Entry)
    OBVIOUS
  <2> HIDE DEF l, k
  <2>5. n <= Len(l) /\ \A i \in 1..n : copy[c].log[f][i] = l[i]
    BY <2>2, <2>3, <2>4, Zenon
  <2>6. Len(l) <= Len(k) /\ \A i \in 1..Len(l) : l[i] = k[i]
    BY <2>2, <2>3, <2>4, Zenon
  <2>7. QED BY <2>1, <2>5, <2>6, Zenon
<1>3. IsPrefix(copy'[c].log[f], k)
  <2>1. \A i \in 1..n : copy[c].log[f][i] = k[i]
    BY <1>2
  <2>2. n <= Len(k)
    BY <1>2
  <2>4. IsPrefix(copy[c].log[f], k)
    BY <2>1, <2>2, PrefixByEntry, Zenon
  <2>5. QED BY <2>4
<1>4. PICK m \in n..Len(l) : Bring(old, n, m, l) /\ (Read(q, f) = DOMAIN q => m = Len(l))
  BY DEF OtherLog
<1>5. SUFFICES \E x \in n..Len(k) : Bring(new, n, x, k) /\ (Read(p, f) = DOMAIN p => x = Len(k))
  BY <1>1, <1>3 DEF OtherLog
<1>6. /\ Len(p) = Len(q) + Len(r)
      /\ \A i \in DOMAIN q : i \in DOMAIN p /\ p[i] = q[i]
      /\ \A i \in DOMAIN p : i \in DOMAIN q \/ (i - Len(q) \in DOMAIN r /\ p[i] = r[i - Len(q)])
      /\ \A j \in DOMAIN r : Len(q) + j \in DOMAIN p /\ p[Len(q) + j] = r[j]
  BY AddedAtEnd, SMTT(60)
<1>14. /\ DOMAIN p = 1..Len(p) /\ DOMAIN q = 1..Len(q) /\ DOMAIN r = 1..Len(r)
       /\ Len(p) \in Nat /\ Len(q) \in Nat /\ Len(r) \in Nat
  OBVIOUS
<1>15. Read(p, f) \subseteq DOMAIN p
  BY DEF Read, Clear
<1>7. /\ Read(q, f) \subseteq DOMAIN q
      /\ \A i \in DOMAIN q : i \in Read(p, f) <=> i \in Read(q, f)
      /\ Read(q, f) # DOMAIN q => Read(p, f) \subseteq DOMAIN q
      /\ Read(p, f) = DOMAIN p => Read(q, f) = DOMAIN q
      /\ r # <<>> /\ Read(q, f) = DOMAIN q /\ ~Nameless(r[1]) => Len(q) + 1 \in Read(p, f)
      /\ Read(p, f) = DOMAIN p /\ f \notin remote => \A j \in DOMAIN r : ~Nameless(r[j])
  BY ReadOfAdded
<1>8. /\ DOMAIN old \subseteq DOMAIN q /\ DOMAIN old \subseteq DOMAIN new
      /\ \A i \in DOMAIN old : new[i] = old[i]
      /\ \A i \in DOMAIN new :
           i \in DOMAIN old \/ (i - Len(q) \in DOMAIN r /\ About(r[i - Len(q)], f)'
                                  /\ i \in Read(p, f) /\ i \notin DOMAIN q)
  <2>1. DOMAIN old = {j \in Read(q, f) : About(q[j], f)}
    BY DEF SureNews
  <2>2. DOMAIN new = {j \in Read(p, f) : About(p[j], f)'}
    OBVIOUS
  <2>3. \A i \in DOMAIN old : i \in DOMAIN q /\ i \in DOMAIN new
    BY <2>1, <2>2, <1>6, <1>14, <1>7, <1>15
  <2>4. \A i \in DOMAIN old : new[i] = old[i]
    BY <2>1, <2>3, <1>6, <1>14 DEF SureNews
  <2> HIDE DEF p
  <2>5. ASSUME NEW i \in DOMAIN new, i \notin DOMAIN old
        PROVE  i - Len(q) \in DOMAIN r /\ About(r[i - Len(q)], f)' /\ i \in Read(p, f)
                 /\ i \notin DOMAIN q
    <3>1. i \in Read(p, f) /\ About(p[i], f)'
      BY <2>2
    <3>2. i \notin DOMAIN q
      BY <3>1, <2>1, <2>5, <1>6, <1>14, <1>7, <1>15
    <3>3. QED BY <3>1, <3>2, <1>6, <1>14, <1>7, <1>15
  <2>6. QED BY <2>3, <2>4, <2>5
<1> HIDE DEF p, old, new, n, l, k
<1>9. DOMAIN old \in SUBSET Nat /\ \A i \in DOMAIN old : i < Len(q) + 1
  BY <1>6, <1>14, <1>8
<1>10. ASSUME DOMAIN new = DOMAIN old, Read(p, f) = DOMAIN p => Len(k) = Len(l)
       PROVE  \E x \in n..Len(k) : Bring(new, n, x, k) /\ (Read(p, f) = DOMAIN p => x = Len(k))
  <2>1. Bring(new, n, m, k)
    <3>1. \A x \in (n + 1)..m : k[x] = l[x]
      <4>1. \A x \in (n + 1)..m : x \in 1..Len(l)
        BY <1>2, <1>4
      <4>2. QED BY <4>1, <1>2
    <3>2. m \in Nat
      BY <1>2, <1>4
    <3>3. QED BY <3>1, <3>2, <1>2, <1>4, <1>8, <1>10, BringSame
  <2>2. m \in n..Len(k) /\ (Read(p, f) = DOMAIN p => m = Len(k))
    BY <1>2, <1>4, <1>7, <1>15, <1>10
  <2>3. QED BY <2>1, <2>2
<1>11. CASE k = l /\ \A j \in DOMAIN r : ~About(r[j], f)'
  <2>1. DOMAIN new = DOMAIN old
    BY <1>8, <1>11
  <2>2. QED BY <2>1, <1>10, <1>11
<1>12. CASE /\ r # <<>> /\ About(r[1], f)' /\ ~Nameless(r[1])
            /\ \A j \in DOMAIN r : j # 1 => ~About(r[j], f)'
            /\ k[Len(l) + 1] = UpEntry(r[1]) /\ Len(k) > Len(l)
            /\ \/ Len(k) = Len(l) + 1
               \/ f \notin remote /\ \E j \in DOMAIN r : Nameless(r[j])
  <2>1. CASE Read(q, f) # DOMAIN q
    <3>1. DOMAIN new = DOMAIN old
      BY <2>1, <1>7, <1>15, <1>8
    <3>2. QED BY <3>1, <2>1, <1>7, <1>15, <1>10
  <2>2. CASE Read(q, f) = DOMAIN q
    <3>1. 1 \in DOMAIN r /\ Len(q) + 1 \in Read(p, f) /\ p[Len(q) + 1] = r[1]
      BY <1>6, <1>14, <1>7, <1>15, <1>12, <2>2
    <3>2. Len(q) + 1 \in DOMAIN new /\ new[Len(q) + 1] = UpEntry(r[1])
      BY <3>1, <1>12 DEF new
    <3>3. \A i \in DOMAIN new : i \in DOMAIN old \/ i = Len(q) + 1
      <4> TAKE i \in DOMAIN new
      <4>1. i \in Nat
        BY <1>6, <1>14, <1>7, <1>15 DEF new
      <4>2. QED BY <4>1, <1>6, <1>14, <1>8, <1>12
    <3>4. DOMAIN new = DOMAIN old \union {Len(q) + 1}
      BY <3>2, <3>3, <1>8
    <3>5. \A x \in (n + 1)..Len(l) : k[x] = l[x]
      BY <1>2
    <3>6. m = Len(l) /\ Bring(old, n, Len(l), l)
      BY <1>4, <2>2
    <3>10. /\ Len(q) + 1 \in Nat /\ DOMAIN old \in SUBSET Nat /\ Len(l) \in Nat /\ n \in Nat
           /\ \A i \in DOMAIN old : i < Len(q) + 1
           /\ n <= Len(l) /\ k[Len(l) + 1] = new[Len(q) + 1]
      BY <3>2, <1>2, <1>9, <1>12, <1>14
    <3>7. Adds(new, Len(q) + 1, k, old, n, Len(l), l)
      BY <3>4, <3>5, <3>10, <1>8 DEF Adds
    <3>11. Bring(new, n, Len(l) + 1, k)
      BY <3>6, <3>7, BringMore
    <3>8. Len(l) + 1 \in n..Len(k) /\ (Read(p, f) = DOMAIN p => Len(l) + 1 = Len(k))
      BY <1>2, <1>7, <1>15, <1>12
    <3>9. QED BY <3>8, <3>11
  <2>3. QED BY <2>1, <2>2
<1>13. QED BY <1>11, <1>12 DEF k, l

(* ... and once it has read the first.                                     *)
LEMMA ReadOfTail ==
  ASSUME NEW S, NEW q \in Seq(S), q # <<>>, ~Nameless(q[1]), NEW f
  PROVE  /\ Read(Tail(q), f) = Shifted(Read(q, f))
         /\ Read(Tail(q), f) = DOMAIN Tail(q) => Read(q, f) = DOMAIN q
<1> DEFINE p == Tail(q)
<1>1. /\ DOMAIN q = 1..Len(q) /\ DOMAIN p = 1..(Len(q) - 1) /\ Len(q) \in Nat \ {0}
      /\ \A i \in DOMAIN p : p[i] = q[i + 1]
  OBVIOUS
<1> HIDE DEF p
<1>2. /\ DOMAIN p = Shifted(DOMAIN q) /\ 1 \in DOMAIN q
      /\ \A i \in DOMAIN q : i = 1 \/ i - 1 \in DOMAIN p
  BY <1>1 DEF Shifted
<1>3. Clear(p) = Shifted(Clear(q))
  <2>1. ASSUME NEW i \in DOMAIN p
        PROVE  (\A j \in 1..i : ~Nameless(p[j])) <=> (\A j \in 1..(i + 1) : ~Nameless(q[j]))
    <3>1. i \in Nat /\ \A j \in 1..i : j \in DOMAIN p /\ j + 1 \in 1..(i + 1) /\ p[j] = q[j + 1]
      BY <1>1
    <3>2. \A j \in 1..(i + 1) : j = 1 \/ (j - 1 \in 1..i /\ p[j - 1] = q[j])
      BY <1>1
    <3>3. QED BY <3>1, <3>2
  <2>2. \A i \in DOMAIN p : i \in Nat \ {0} /\ i + 1 \in DOMAIN q
    BY <1>1
  <2>3. QED BY <2>1, <2>2, <1>2 DEF Clear, Shifted
<1>4. Clear(q) \subseteq DOMAIN q
  BY DEF Clear
<1>5. 1 \in Clear(q)
  BY <1>2, <1>1 DEF Clear
<1>6. Clear(p) = DOMAIN p => Clear(q) = DOMAIN q
  <2> SUFFICES ASSUME Clear(p) = DOMAIN p, NEW i \in DOMAIN q PROVE i \in Clear(q)
    BY <1>4
  <2>1. CASE i = 1
    BY <2>1, <1>5
  <2>2. CASE i # 1
    <3>1. i - 1 \in Shifted(Clear(q)) /\ (i - 1) + 1 = i
      BY <2>2, <1>1, <1>2, <1>3
    <3>2. QED BY <3>1 DEF Shifted
  <2>3. QED BY <2>1, <2>2
<1>7. QED BY <1>2, <1>3, <1>6 DEF Read, p

(* The head of the queue has been read, and applied if it is about the     *)
(* field.                                                                  *)
LEMMA OtherLogRead ==
  ASSUME NEW c \in Fields, NEW f \in Fields,
         NEW q \in Seq(DownMessage), q = down[c], q # <<>>, ~Nameless(q[1]),
         down'[c] = Tail(q), remote' = remote, gbTo' = gbTo, log'[f] = log[f],
         copy[c].log[f] \in Seq(Entry), log[f] \in Seq(Entry),
         OtherLog(c, f),
         \/ ~About(q[1], f) /\ copy'[c].log[f] = copy[c].log[f]
         \/ /\ About(q[1], f) /\ UpEntry(q[1]) \in Entry
            /\ copy'[c].log[f] = Append(copy[c].log[f], UpEntry(q[1]))
  PROVE  OtherLog(c, f)'
<1> DEFINE p == Tail(q)
           s == copy[c].log[f]
           n == Len(s)
           l == log[f]
           old == SureNews(q, f)
           new == SureNews(p, f)
<1>1. SureNews(down[c], f)' = new /\ Read(down[c], f)' = Read(p, f) /\ log'[f] = l
  BY DEF SureNews, Read, Clear, Nameless, About, UpEntry, Key, Drop
<1>2. PICK m \in n..Len(l) : Bring(old, n, m, l) /\ (Read(q, f) = DOMAIN q => m = Len(l))
  BY DEF OtherLog
<1>3. n \in Nat /\ n <= Len(l) /\ Len(l) \in Nat /\ m \in Nat /\ n <= m /\ m <= Len(l)
      /\ \A i \in 1..n : s[i] = l[i]
  BY <1>2, PrefixByEntry DEF OtherLog
<1>12. Read(q, f) \subseteq DOMAIN q
  BY DEF Read, Clear
<1>4. /\ Read(p, f) = Shifted(Read(q, f)) /\ Read(q, f) \subseteq DOMAIN q
      /\ Read(p, f) = DOMAIN p => Read(q, f) = DOMAIN q
  BY <1>12, ReadOfTail
<1>13. ASSUME NEW z \in Seq(Entry), copy'[c].log[f] = z, IsPrefix(z, l),
              NEW x \in Len(z)..Len(l), Bring(new, Len(z), x, l),
              Read(p, f) = DOMAIN p => x = Len(l)
       PROVE  OtherLog(c, f)'
  <2> HIDE DEF new
  <2>1. QED BY <1>1, <1>13 DEF OtherLog
<1>5. /\ DOMAIN q \in SUBSET (Nat \ {0}) /\ 1 \in DOMAIN q
      /\ \A i \in DOMAIN q : i # 1 => p[i - 1] = q[i]
  BY HeadRead
<1>6. Leaves(new, old, n, m)
  <2>1. DOMAIN old = {i \in Read(q, f) : About(q[i], f)}
    BY DEF SureNews
  <2>2. DOMAIN new = {i \in Read(p, f) : About(p[i], f)}
    BY DEF SureNews
  <2> HIDE DEF p
  <2>3. \A i \in Read(p, f) : i \in Nat \ {0} /\ i + 1 \in DOMAIN q /\ i + 1 \in Read(q, f)
                               /\ p[i] = q[i + 1]
    <3> TAKE i \in Read(p, f)
    <3>1. i \in Nat \ {0} /\ i + 1 \in DOMAIN q /\ i + 1 \in Read(q, f)
      BY <1>4 DEF Shifted
    <3>2. i + 1 # 1 /\ (i + 1) - 1 = i
      BY <3>1
    <3>3. QED BY <3>1, <3>2, <1>5
  <2>4. DOMAIN new = Shifted(DOMAIN old)
    BY <2>1, <2>2, <2>3, <1>4 DEF Shifted
  <2>5. \A i \in DOMAIN new : new[i] = old[i + 1]
    <3> TAKE i \in DOMAIN new
    <3>1. i \in Read(p, f) /\ About(p[i], f) /\ p[i] = q[i + 1] /\ i + 1 \in Read(q, f)
      BY <2>2, <2>3
    <3>2. new[i] = UpEntry(p[i]) /\ old[i + 1] = UpEntry(q[i + 1])
      BY <3>1 DEF SureNews
    <3>3. QED BY <3>1, <3>2
  <2>6. DOMAIN old \in SUBSET (Nat \ {0})
    BY <2>1, <1>4, <1>5
  <2>7. QED BY <2>4, <2>5, <2>6, <1>3 DEF Leaves
<1>7. 1 \in DOMAIN old <=> About(q[1], f)
  <2>1. 1 \in Read(q, f)
    BY <1>5 DEF Read, Clear
  <2>2. QED BY <2>1 DEF SureNews
<1>8. 1 \in DOMAIN old => old[1] = UpEntry(q[1])
  BY DEF SureNews
<1> HIDE DEF p, old, new, s, n, l
<1>9. CASE ~About(q[1], f) /\ copy'[c].log[f] = s
  <2>1. Bring(new, n, m, l)
    BY <1>2, <1>6, <1>7, <1>9, BringRead
  <2>2. m \in n..Len(l) /\ (Read(p, f) = DOMAIN p => m = Len(l))
    BY <1>2, <1>4
  <2>3. IsPrefix(s, l)
    BY DEF OtherLog, s, l
  <2>4. s \in Seq(Entry) /\ n = Len(s)
    BY DEF s, n
  <2>5. QED BY <2>1, <2>2, <2>3, <2>4, <1>9, <1>13
<1>10. CASE About(q[1], f) /\ copy'[c].log[f] = Append(s, UpEntry(q[1])) /\ UpEntry(q[1]) \in Entry
  <2>1. n < m /\ l[n + 1] = UpEntry(q[1]) /\ Bring(new, n + 1, m, l)
    BY <1>2, <1>6, <1>7, <1>8, <1>10, BringRead
  <2>2. DEFINE z == Append(s, UpEntry(q[1]))
  <2>3. /\ z \in Seq(Entry) /\ Len(z) = n + 1
        /\ \A i \in 1..n : z[i] = s[i]
        /\ z[n + 1] = UpEntry(q[1])
    BY <1>10 DEF s, n
  <2> HIDE DEF z
  <2>4. \A i \in 1..(n + 1) : i = n + 1 \/ i \in 1..n
    BY <1>3
  <2>5. \A i \in 1..Len(z) : z[i] = l[i]
    BY <2>1, <2>3, <2>4, <1>3
  <2>6. l \in Seq(Entry) /\ Len(z) <= Len(l)
    BY <2>1, <2>3, <1>3 DEF l
  <2>7. IsPrefix(z, l)
    BY <2>3, <2>5, <2>6, PrefixByEntry
  <2>8. m \in (n + 1)..Len(l) /\ (Read(p, f) = DOMAIN p => m = Len(l))
    BY <1>2, <1>3, <1>4, <2>1
  <2>9. copy'[c].log[f] = z
    BY <1>10 DEF z
  <2>10. QED BY <2>1, <2>3, <2>7, <2>8, <2>9, <1>13
<1>11. QED BY <1>9, <1>10 DEF s

(* The ticks of the inputs on their way to a client.                       *)
LEMMA InputsHaveTicks ==
  ASSUME NEW q \in Seq(DownMessage), NEW f
  PROVE  \A i \in DownInputs(q, f) : i \in DOMAIN q /\ q[i].tick \in Nat
BY DEF DownInputs, DownMessage

(* The ticks of another's field, once its step has been relayed...         *)
LEMMA OtherTicksTold ==
  ASSUME NEW c \in Fields, NEW f \in Fields,
         NEW q \in Seq(DownMessage), NEW r \in Seq(DownMessage),
         q = down[c], down'[c] = q \o r, copy'[c].ticks[f] = copy[c].ticks[f],
         copy[c].ticks[f] \in Nat, tick[f] \in Nat, OtherTicks(c, f),
         \/ tick'[f] = tick[f] /\ DownInputs(r, f) = {}
         \/ tick'[f] = tick[f] + 1 /\ DownInputs(r, f) = {1} /\ r[1].tick = tick[f]
  PROVE  OtherTicks(c, f)'
<1> DEFINE p == q \o r
           I == DownInputs(q, f)
           t == copy[c].ticks[f]
           u == tick[f]
<1>1. OtherTicks(c, f)' <=> Consecutive(p, DownInputs(p, f), t, tick'[f])
  BY DEF OtherTicks, DownInputs, Consecutive
<1>2. Consecutive(q, I, t, u) /\ I \in SUBSET DOMAIN q
  BY DEF OtherTicks, DownInputs
<1>3. \A i \in I : q[i].tick \in Nat
  BY InputsHaveTicks
<1>4. /\ \A i \in DOMAIN q : i \in DOMAIN p /\ p[i] = q[i]
      /\ \A j \in DOMAIN r : Len(q) + j \in DOMAIN p /\ p[Len(q) + j] = r[j]
      /\ \A i \in DOMAIN p : i \in DOMAIN q \/ (i - Len(q) \in DOMAIN r /\ p[i] = r[i - Len(q)])
  BY AddedAtEnd
<1>5. /\ DOMAIN p \in SUBSET Nat /\ DOMAIN r \in SUBSET Nat /\ Len(q) \in Nat
  OBVIOUS
<1>6. \A i \in DOMAIN p : i \in DownInputs(p, f) <=> i \in I \/ i - Len(q) \in DownInputs(r, f)
  <2> HIDE DEF p
  <2>1. \A i \in DOMAIN q : i \notin 1..0 /\ i - Len(q) \notin DOMAIN r
    OBVIOUS
  <2> TAKE i \in DOMAIN p
  <2>2. CASE i \in DOMAIN q
    BY <2>1, <2>2, <1>4 DEF DownInputs
  <2>3. CASE i \notin DOMAIN q
    BY <2>3, <1>4 DEF DownInputs
  <2>4. QED BY <2>2, <2>3
<1>7. DownInputs(p, f) \subseteq DOMAIN p /\ I \subseteq DOMAIN p
  BY <1>2, <1>4 DEF DownInputs
<1> HIDE DEF I, t, u
<1>8. CASE tick'[f] = u /\ DownInputs(r, f) = {}
  <2>1. DownInputs(p, f) = I
    BY <1>6, <1>7, <1>8
  <2>2. Consecutive(p, I, t, u)
    BY <1>2, <1>3, ConsecutiveMore DEF t, u
  <2>3. QED BY <2>1, <2>2, <1>1, <1>8
<1>9. CASE tick'[f] = u + 1 /\ DownInputs(r, f) = {1} /\ r[1].tick = u
  <2>1. r # <<>> /\ 1 \in DOMAIN r
    BY <1>9 DEF DownInputs
  <2>2. Len(q) + 1 \in DOMAIN p /\ (Len(q) + 1) - Len(q) = 1
    BY <2>1, <1>4, <1>5
  <2>3. \A i \in DOMAIN p : i - Len(q) = 1 <=> i = Len(q) + 1
    BY <1>5
  <2>4. DownInputs(p, f) = I \union {Len(q) + 1}
    <3> HIDE DEF p
    <3>1. QED BY <2>2, <2>3, <1>6, <1>7, <1>9
  <2>5. Consecutive(p, I \union {Len(q) + 1}, t, u + 1)
    BY <2>1, <1>2, <1>3, <1>9, ConsecutiveMore DEF t, u
  <2>6. QED BY <2>4, <2>5, <1>1, <1>9
<1>10. QED BY <1>8, <1>9 DEF u

(* ... and once the client has read a message.                             *)
LEMMA OtherTicksRead ==
  ASSUME NEW c \in Fields, NEW f \in Fields,
         NEW q \in Seq(DownMessage), q = down[c], q # <<>>, down'[c] = Tail(q),
         copy[c].ticks[f] \in Nat, tick[f] \in Nat, tick'[f] = tick[f], OtherTicks(c, f),
         copy'[c].ticks[f] = copy[c].ticks[f] + (IF 1 \in DownInputs(q, f) THEN 1 ELSE 0)
  PROVE  OtherTicks(c, f)'
<1> DEFINE p == Tail(q)
           I == DownInputs(q, f)
           t == copy[c].ticks[f]
           u == tick[f]
<1>1. OtherTicks(c, f)' <=> Consecutive(p, DownInputs(p, f), copy'[c].ticks[f], u)
  BY DEF OtherTicks, DownInputs, Consecutive
<1>2. Consecutive(q, I, t, u) /\ I \in SUBSET DOMAIN q
  BY DEF OtherTicks, DownInputs
<1>3. \A i \in I : q[i].tick \in Nat
  BY InputsHaveTicks
<1>4. DownInputs(p, f) = Shifted(I)
  <2>1. /\ DOMAIN p \in SUBSET (Nat \ {0}) /\ \A i \in DOMAIN p : i + 1 \in DOMAIN q /\ p[i] = q[i + 1]
        /\ \A i \in Nat \ {0} : i + 1 \in DOMAIN q => i \in DOMAIN p
    BY HeadRead
  <2> HIDE DEF p
  <2>2. QED BY <2>1 DEF DownInputs, Shifted
<1> HIDE DEF I, t, u
<1>5. /\ 1 \in I => Consecutive(p, Shifted(I), t + 1, u)
      /\ 1 \notin I => Consecutive(p, Shifted(I), t, u)
  BY <1>2, <1>3, ConsecutiveRead DEF t, u
<1>6. t \in Nat /\ copy'[c].ticks[f] = t + (IF 1 \in I THEN 1 ELSE 0)
  BY DEF t, I
<1>7. QED BY <1>1, <1>4, <1>5, <1>6

(* The input at the head of the queue is for the next tick of the copy.    *)
LEMMA NextInput ==
  ASSUME NEW c \in Fields, NEW f \in Fields,
         NEW q \in Seq(DownMessage), q = down[c], q # <<>>,
         copy[c].ticks[f] \in Nat, tick[f] \in Nat, OtherTicks(c, f),
         1 \in DownInputs(q, f)
  PROVE  q[1].tick = copy[c].ticks[f]
<1>1. Consecutive(q, DownInputs(q, f), copy[c].ticks[f], tick[f])
  BY DEF OtherTicks
<1>2. \A i \in DownInputs(q, f) : q[i].tick \in Nat /\ i \in DOMAIN q
  BY InputsHaveTicks
<1>3. QED BY <1>1, <1>2, ConsecutiveRead

-----------------------------------------------------------------------------
(* What a client will know when it gets to a message.                      *)

(* More messages at the end change nothing for those before.               *)
LEMMA ReachTold ==
  ASSUME NEW c \in Fields, NEW f \in Fields, NEW t, NEW q \in Seq(DownMessage),
         NEW r \in Seq(DownMessage), q = down[c], down'[c] = q \o r,
         copy'[c] = copy[c], loseAt' = loseAt, NEW i \in 1..(Len(q) + 1)
  PROVE  /\ WillReach(c, i, f, t) => WillReach(c, i, f, t)'
         /\ WillBeLost(c, i, f) => WillBeLost(c, i, f)'
<1> DEFINE p == q \o r
<1>1. \A j \in DOMAIN q : j \in DOMAIN p /\ p[j] = q[j]
  BY AddedAtEnd
<1>2. ASSUME NEW u, WillReach(c, i, f, u)
      PROVE  u <= copy'[c].ticks[f] \/ \E j \in DownInputs(p, f) : j < i /\ u <= p[j].tick + 1
  <2>1. CASE u <= copy[c].ticks[f]
    BY <2>1
  <2>2. ASSUME NEW j \in DownInputs(q, f), j < i, u <= q[j].tick + 1
        PROVE  \E k \in DownInputs(p, f) : k < i /\ u <= p[k].tick + 1
    <3> HIDE DEF p
    <3>1. j \in DownInputs(p, f) /\ p[j] = q[j]
      BY <1>1 DEF DownInputs
    <3>2. QED BY <3>1, <2>2
  <2>3. QED BY <1>2, <2>1, <2>2 DEF WillReach
<1>3. \A u : WillReach(c, i, f, u) => WillReach(c, i, f, u)'
  <2> TAKE u
  <2>1. DownInputs(p, f) = DownInputs(down[c], f)'
    BY DEF DownInputs
  <2>2. QED BY <1>2, <2>1 DEF WillReach
<1>4. ASSUME WillBeLost(c, i, f) PROVE WillBeLost(c, i, f)'
  <2>1. CASE WillReach(c, i, f, loseAt[f])
    BY <2>1, <1>3 DEF WillBeLost
  <2>2. CASE f \in copy[c].gone
    BY <2>2 DEF WillBeLost
  <2>3. ASSUME NEW j \in DOMAIN q, j < i, q[j] = [type |-> "QUIT", fld |-> f]
        PROVE  WillBeLost(c, i, f)'
    <3>1. j \in DOMAIN p /\ p[j] = q[j]
      BY <1>1
    <3>2. QED BY <3>1, <2>3 DEF WillBeLost
  <2>4. QED BY <1>4, <2>1, <2>2, <2>3 DEF WillBeLost
<1>5. QED BY <1>3, <1>4

(* What was to be known at message i + 1 is known at message i once the    *)
(* head has been read and applied.                                         *)
Applied(c, f, m) ==
  /\ copy[c].ticks[f] <= copy'[c].ticks[f]
  /\ m.type = "INPUT" /\ m.fld = f => m.tick + 1 <= copy'[c].ticks[f]
  /\ f \in copy[c].gone => f \in copy'[c].gone
  /\ m = [type |-> "QUIT", fld |-> f] => f \in copy'[c].gone

(* Reading a message takes those that follow one place nearer.             *)
LEMMA ReachRead ==
  ASSUME NEW c \in Fields, NEW f \in Fields, NEW t \in Nat, NEW q \in Seq(DownMessage),
         q = down[c], q # <<>>, down'[c] = Tail(q), loseAt' = loseAt, loseAt[f] \in Nat,
         Applied(c, f, q[1]), copy[c].ticks[f] \in Nat, copy'[c].ticks[f] \in Nat,
         NEW i \in DOMAIN Tail(q)
  PROVE  /\ WillReach(c, i + 1, f, t) => WillReach(c, i, f, t)'
         /\ WillBeLost(c, i + 1, f) => WillBeLost(c, i, f)'
<1> DEFINE p == Tail(q)
<1>1. \A j \in DOMAIN q : j = 1 \/ (j - 1 \in DOMAIN p /\ p[j - 1] = q[j])
  BY HeadRead
<1>2. \A j \in DOMAIN q : j \in Nat /\ (j < i + 1 => j - 1 < i)
  OBVIOUS
<1>3. ASSUME NEW u \in Nat, WillReach(c, i + 1, f, u) PROVE WillReach(c, i, f, u)'
  <2>1. CASE u <= copy[c].ticks[f]
    <3>1. u <= copy'[c].ticks[f]
      BY <2>1 DEF Applied
    <3>2. QED BY <3>1 DEF WillReach
  <2>2. ASSUME NEW j \in DownInputs(q, f), j < i + 1, u <= q[j].tick + 1
        PROVE  WillReach(c, i, f, u)'
    <3>1. j \in DOMAIN q /\ q[j].type = "INPUT" /\ q[j].fld = f
      BY DEF DownInputs
    <3>2. CASE j = 1
      <4>1. q[1].tick + 1 <= copy'[c].ticks[f] /\ q[1].tick \in Nat
        BY <3>1, <3>2, InputsHaveTicks DEF Applied
      <4>2. u <= copy'[c].ticks[f]
        BY <2>2, <3>2, <4>1
      <4>3. QED BY <4>2 DEF WillReach
    <3>3. CASE j # 1
      <4>1. j - 1 \in DOMAIN p /\ p[j - 1] = q[j] /\ j - 1 < i
        BY <1>1, <1>2, <2>2, <3>1, <3>3
      <4>2. j - 1 \in DownInputs(p, f)
        BY <3>1, <4>1 DEF DownInputs
      <4>3. DownInputs(p, f) = DownInputs(down[c], f)' /\ down'[c] = p
        BY DEF DownInputs
      <4> HIDE DEF p
      <4>4. QED BY <4>1, <4>2, <4>3, <2>2 DEF WillReach
    <3>4. QED BY <3>2, <3>3
  <2>3. QED BY <1>3, <2>1, <2>2 DEF WillReach
<1>4. ASSUME WillBeLost(c, i + 1, f) PROVE WillBeLost(c, i, f)'
  <2>1. CASE WillReach(c, i + 1, f, loseAt[f])
    <3>1. WillReach(c, i, f, loseAt[f])'
      BY <2>1, <1>3
    <3>2. QED BY <3>1 DEF WillBeLost
  <2>2. CASE f \in copy[c].gone
    BY <2>2 DEF WillBeLost, Applied
  <2>3. ASSUME NEW j \in DOMAIN q, j < i + 1, q[j] = [type |-> "QUIT", fld |-> f]
        PROVE  WillBeLost(c, i, f)'
    <3>1. CASE j = 1
      BY <3>1, <2>3 DEF WillBeLost, Applied
    <3>2. CASE j # 1
      <4>1. j - 1 \in DOMAIN p /\ p[j - 1] = q[j] /\ j - 1 < i
        BY <1>1, <1>2, <2>3, <3>2
      <4>2. QED BY <4>1, <2>3 DEF WillBeLost
    <3>3. QED BY <3>1, <3>2
  <2>4. QED BY <1>4, <2>1, <2>2, <2>3 DEF WillBeLost
<1>5. QED BY <1>3, <1>4

(* The window of the inputs relayed to a client.                           *)
InWindowAt(c, i, m) ==
  \A f \in Fields \ {m.fld} :
    \/ WillBeLost(c, i, f)
    \/ \E t \in Nat : WillReach(c, i, f, t) /\ m.tick + 1 < t + LagMax

(* The inputs in the window, once the server has relayed another...        *)
LEMMA WindowTold ==
  ASSUME NEW c \in Fields, NEW q \in Seq(DownMessage), NEW r \in Seq(DownMessage),
         q = down[c], down'[c] = q \o r, copy'[c] = copy[c], loseAt' = loseAt,
         DownInWindow(c),
         \A j \in DOMAIN r : r[j].type = "INPUT" => j = 1,
         r # <<>> /\ r[1].type = "INPUT" /\ ~r[1].hasty => InWindowAt(c, Len(q) + 1, r[1])
  PROVE  DownInWindow(c)'
<1> DEFINE p == q \o r
<1>1. /\ \A i \in DOMAIN p :
           (i \in DOMAIN q /\ p[i] = q[i]) \/ (i - Len(q) \in DOMAIN r /\ p[i] = r[i - Len(q)])
      /\ DOMAIN p \in SUBSET Nat /\ DOMAIN q = 1..Len(q) /\ Len(q) \in Nat
  BY AddedAtEnd
<1>2. ASSUME NEW i \in 1..(Len(q) + 1), NEW m, InWindowAt(c, i, m) PROVE InWindowAt(c, i, m)'
  <2> SUFFICES ASSUME NEW f \in Fields \ {m.fld}
               PROVE  \/ WillBeLost(c, i, f)'
                      \/ \E t \in Nat : WillReach(c, i, f, t)' /\ m.tick + 1 < t + LagMax
    BY DEF InWindowAt
  <2>1. \/ WillBeLost(c, i, f)
        \/ \E t \in Nat : WillReach(c, i, f, t) /\ m.tick + 1 < t + LagMax
    BY <1>2 DEF InWindowAt
  <2>2. \A t : WillReach(c, i, f, t) => WillReach(c, i, f, t)'
    BY ReachTold
  <2>3. WillBeLost(c, i, f) => WillBeLost(c, i, f)'
    BY ReachTold
  <2>4. QED BY <2>1, <2>2, <2>3
<1> HIDE DEF p
<1>3. ASSUME NEW i \in DOMAIN p, p[i].type = "INPUT", ~p[i].hasty PROVE InWindowAt(c, i, p[i])'
  <2>1. CASE i \in DOMAIN q /\ p[i] = q[i]
    <3>1. InWindowAt(c, i, q[i])
      BY <2>1, <1>3 DEF DownInWindow, InWindowAt
    <3>2. i \in 1..(Len(q) + 1)
      BY <2>1, <1>1
    <3>3. QED BY <3>1, <3>2, <2>1, <1>2
  <2>2. CASE i - Len(q) \in DOMAIN r /\ p[i] = r[i - Len(q)]
    <3>1. i - Len(q) = 1 /\ r # <<>>
      BY <2>2, <1>3
    <3>2. i \in Nat /\ Len(q) \in Nat
      BY <1>1
    <3>3. i = Len(q) + 1
      BY <3>1, <3>2
    <3>4. i \in 1..(Len(q) + 1) /\ p[i] = r[1]
      BY <3>1, <3>2, <3>3, <2>2
    <3>5. QED BY <3>1, <3>3, <3>4, <1>2, <1>3
  <2>3. QED BY <2>1, <2>2, <1>1
<1>4. down'[c] = p
  BY DEF p
<1>5. QED BY <1>3, <1>4 DEF DownInWindow, InWindowAt

(* ... and once the client has read a message.                             *)
LEMMA WindowRead ==
  ASSUME NEW c \in Fields, NEW q \in Seq(DownMessage), q = down[c], q # <<>>,
         down'[c] = Tail(q), loseAt' = loseAt, loseAt \in [Fields -> Nat],
         DownInWindow(c), \A f \in Fields : Applied(c, f, q[1]),
         copy[c].ticks \in [Fields -> Nat], copy'[c].ticks \in [Fields -> Nat]
  PROVE  DownInWindow(c)'
<1> DEFINE p == Tail(q)
<1>1. \A i \in DOMAIN p : i + 1 \in DOMAIN q /\ p[i] = q[i + 1]
  BY HeadRead
<1>2. ASSUME NEW i \in DOMAIN p, p[i].type = "INPUT", ~p[i].hasty PROVE InWindowAt(c, i, p[i])'
  <2> DEFINE m == p[i]
  <2> SUFFICES ASSUME NEW f \in Fields \ {m.fld}
               PROVE  \/ WillBeLost(c, i, f)'
                      \/ \E t \in Nat : WillReach(c, i, f, t)' /\ m.tick + 1 < t + LagMax
    BY DEF InWindowAt
  <2>1. m = q[i + 1] /\ i + 1 \in DOMAIN q
    BY <1>1
  <2> HIDE DEF m
  <2>2. \/ WillBeLost(c, i + 1, f)
        \/ \E t \in Nat : WillReach(c, i + 1, f, t) /\ m.tick + 1 < t + LagMax
    <3>1. m.type = "INPUT" /\ ~m.hasty
      BY <1>2 DEF m
    <3>2. QED BY <2>1, <3>1 DEF DownInWindow
  <2>3. \A t \in Nat : WillReach(c, i + 1, f, t) => WillReach(c, i, f, t)'
    BY ReachRead
  <2>4. WillBeLost(c, i + 1, f) => WillBeLost(c, i, f)'
    BY ReachRead
  <2>5. QED BY <2>2, <2>3, <2>4
<1>3. down'[c] = p
  OBVIOUS
<1> HIDE DEF p
<1>4. QED BY <1>2, <1>3 DEF DownInWindow, InWindowAt

(* Departures are announced.                                               *)
LEMMA FarewellsTold ==
  ASSUME NEW c \in Fields, NEW q \in Seq(DownMessage), NEW r \in Seq(DownMessage),
         q = down[c], down'[c] = q \o r, copy'[c] = copy[c], Farewells(c),
         \A f \in players \ players' : \E j \in DOMAIN r : r[j] = [type |-> "QUIT", fld |-> f]
  PROVE  Farewells(c)'
<1> DEFINE p == q \o r
<1>1. /\ \A i \in DOMAIN q : i \in DOMAIN p /\ p[i] = q[i]
      /\ \A j \in DOMAIN r : Len(q) + j \in DOMAIN p /\ p[Len(q) + j] = r[j]
  BY AddedAtEnd
<1>2. down'[c] = p
  OBVIOUS
<1> HIDE DEF p
<1>3. ASSUME NEW f \in Fields \ players'
      PROVE  f \in copy'[c].gone \/ \E i \in DOMAIN p : p[i] = [type |-> "QUIT", fld |-> f]
  <2>1. CASE f \in players
    <3>1. PICK j \in DOMAIN r : r[j] = [type |-> "QUIT", fld |-> f]
      BY <2>1
    <3>2. QED BY <3>1, <1>1
  <2>2. CASE f \notin players
    <3>1. f \in copy[c].gone \/ \E i \in DOMAIN q : q[i] = [type |-> "QUIT", fld |-> f]
      BY <2>2 DEF Farewells
    <3>2. QED BY <3>1, <1>1
  <2>3. QED BY <2>1, <2>2
<1>4. QED BY <1>2, <1>3 DEF Farewells

(* Reading a QUIT is being told of a departure.                            *)
LEMMA FarewellsRead ==
  ASSUME NEW c \in Fields, NEW q \in Seq(DownMessage), q = down[c], q # <<>>,
         down'[c] = Tail(q), players' = players, Farewells(c),
         \A f \in Fields : Applied(c, f, q[1])
  PROVE  Farewells(c)'
<1> DEFINE p == Tail(q)
<1>1. \A i \in DOMAIN q : i = 1 \/ (i - 1 \in DOMAIN p /\ p[i - 1] = q[i])
  BY HeadRead
<1>2. down'[c] = p
  OBVIOUS
<1> HIDE DEF p
<1>3. ASSUME NEW f \in Fields \ players
      PROVE  f \in copy'[c].gone \/ \E i \in DOMAIN p : p[i] = [type |-> "QUIT", fld |-> f]
  <2>1. CASE f \in copy[c].gone
    BY <2>1 DEF Applied
  <2>2. ASSUME NEW i \in DOMAIN q, q[i] = [type |-> "QUIT", fld |-> f]
        PROVE  f \in copy'[c].gone \/ \E j \in DOMAIN p : p[j] = [type |-> "QUIT", fld |-> f]
    <3>1. CASE i = 1
      BY <3>1, <2>2 DEF Applied
    <3>2. CASE i # 1
      BY <3>2, <2>2, <1>1
    <3>3. QED BY <3>1, <3>2
  <2>3. QED BY <2>1, <2>2 DEF Farewells
<1>4. QED BY <1>2, <1>3 DEF Farewells

(* The beginning and the end of a match are announced in order.            *)
LEMMA AnnouncedTold ==
  ASSUME NEW c \in Fields, NEW q \in Seq(DownMessage), NEW r \in Seq(DownMessage),
         q = down[c], down'[c] = q \o r, copy'[c] = copy[c], Announced(c), phase = "GAME",
         \A i \in DOMAIN r : r[i].type # "GAME" /\ (r[i].type = "LOBBY" => phase' # "GAME"),
         \A i, j \in DOMAIN r : r[i].type = "LOBBY" /\ r[j].type = "INPUT" => j < i
  PROVE  Announced(c)'
<1> DEFINE p == q \o r
<1>1. /\ \A i \in DOMAIN p :
           (i \in DOMAIN q /\ p[i] = q[i]) \/ (i - Len(q) \in DOMAIN r /\ p[i] = r[i - Len(q)])
      /\ \A i \in DOMAIN q : i \in DOMAIN p /\ p[i] = q[i]
  BY AddedAtEnd
<1>2. /\ DOMAIN p \in SUBSET Nat /\ DOMAIN q = 1..Len(q) /\ DOMAIN r = 1..Len(r)
      /\ Len(q) \in Nat /\ Len(r) \in Nat /\ (q # <<>> => 1 \in DOMAIN q /\ p # <<>>)
  OBVIOUS
<1>3. down'[c] = p
  OBVIOUS
<1> HIDE DEF p
<1>4. \A i \in DOMAIN q : q[i].type # "LOBBY" /\ (q[i].type = "GAME" => i = 1)
  BY DEF Announced
<1>5. \A i \in DOMAIN p : p[i].type = "GAME" => i = 1
  BY <1>1, <1>4
<1>6. ASSUME NEW i \in DOMAIN p, NEW j \in DOMAIN p, p[i].type = "LOBBY", p[j].type = "INPUT"
      PROVE  j < i
  <2>1. i - Len(q) \in DOMAIN r /\ p[i] = r[i - Len(q)] /\ i \in Nat /\ j \in Nat
    BY <1>1, <1>2, <1>4, <1>6
  <2>2. CASE j \in DOMAIN q
    BY <2>1, <2>2, <1>2
  <2>3. CASE j - Len(q) \in DOMAIN r /\ p[j] = r[j - Len(q)]
    <3>1. j - Len(q) < i - Len(q)
      BY <2>1, <2>3, <1>6
    <3>2. QED BY <2>1, <3>1, <1>2
  <2>4. QED BY <2>2, <2>3, <1>1
<1>7. \A i \in DOMAIN p : p[i].type = "LOBBY" => phase' # "GAME"
  BY <1>1, <1>4
<1>8. copy'[c].on \/ (p # <<>> /\ p[1].type = "GAME")
  <2>1. copy[c].on \/ (q # <<>> /\ q[1].type = "GAME")
    BY DEF Announced
  <2>2. QED BY <2>1, <1>1, <1>2
<1>9. QED BY <1>3, <1>5, <1>6, <1>7, <1>8 DEF Announced

(* Reading GAME starts the copy, and reading LOBBY is the end of it.       *)
LEMMA AnnouncedRead ==
  ASSUME NEW c \in Fields, NEW q \in Seq(DownMessage), q = down[c], q # <<>>,
         down'[c] = Tail(q), phase' = phase, Announced(c),
         copy'[c].on = (q[1].type = "GAME" \/ (q[1].type # "LOBBY" /\ copy[c].on))
  PROVE  Announced(c)'
<1> DEFINE p == Tail(q)
<1>1. /\ \A i \in DOMAIN p : i + 1 \in DOMAIN q /\ p[i] = q[i + 1]
      /\ 1 \in DOMAIN q
  BY HeadRead
<1>2. DOMAIN p \in SUBSET (Nat \ {0})
  OBVIOUS
<1>3. down'[c] = p
  OBVIOUS
<1> HIDE DEF p
<1>4. \A i \in DOMAIN p : p[i].type # "GAME"
  BY <1>1, <1>2 DEF Announced
<1>5. ASSUME NEW i \in DOMAIN p, NEW j \in DOMAIN p, p[i].type = "LOBBY", p[j].type = "INPUT"
      PROVE  j < i
  <2>1. j + 1 < i + 1
    BY <1>1, <1>5 DEF Announced
  <2>2. QED BY <2>1, <1>2
<1>6. \A i \in DOMAIN p : p[i].type = "LOBBY" => phase # "GAME"
  BY <1>1 DEF Announced
<1>7. \/ copy'[c].on
      \/ phase # "GAME" /\ \A i \in DOMAIN p : p[i].type # "INPUT"
  <2>1. CASE q[1].type = "GAME"
    BY <2>1
  <2>2. CASE q[1].type = "LOBBY"
    <3>1. phase # "GAME"
      BY <2>2, <1>1 DEF Announced
    <3>2. ASSUME NEW i \in DOMAIN p, p[i].type = "INPUT" PROVE FALSE
      <4>1. i + 1 < 1
        BY <2>2, <3>2, <1>1 DEF Announced
      <4>2. QED BY <4>1, <1>2
    <3>3. QED BY <3>1, <3>2
  <2>3. CASE q[1].type # "GAME" /\ q[1].type # "LOBBY"
    BY <2>3, <1>1 DEF Announced
  <2>4. QED BY <2>1, <2>2, <2>3
<1>8. QED BY <1>3, <1>4, <1>5, <1>6, <1>7 DEF Announced

-----------------------------------------------------------------------------
(* The clock of a client, which is not always told of what the server      *)
(* scans.                                                                  *)
LEMMA LostInType ==
  ASSUME NEW v \in Copy PROVE LostIn(v) \in [Fields -> BOOLEAN]
BY DEF LostIn

(* Match::updateTick anchors the clock of a copy (ScanTickAnchored).       *)
LEMMA RescannedAnchored ==
  ASSUME NEW v \in Copy
  PROVE  /\ Rescanned(v) = [v EXCEPT !.tick = Rescanned(v).tick]
         /\ Rescanned(v) \in Copy /\ Anchored(Rescanned(v))
<1> DEFINE x == ScanTick(v.ticks, LostIn(v))
<1>1. v.ticks \in [Fields -> Nat] /\ LostIn(v) \in [Fields -> BOOLEAN]
  BY LostInType DEF Copy
<1>2. x \in Nat /\ \/ \E f \in Fields : ~LostIn(v)[f] /\ v.ticks[f] = x
                   \/ \A f \in Fields : v.ticks[f] <= x
  BY <1>1, ScanTickAnchored
<1>3. Rescanned(v) = [v EXCEPT !.tick = x]
  BY DEF Rescanned
<1> HIDE DEF x
<1>4. [v EXCEPT !.tick = x] \in Copy /\ [v EXCEPT !.tick = x].tick = x
  BY <1>2 DEF Copy
<1>5. LostIn([v EXCEPT !.tick = x]) = LostIn(v)
  BY DEF LostIn, Copy
<1>6. [v EXCEPT !.tick = x].ticks = v.ticks
  BY DEF Copy
<1>7. QED BY <1>2, <1>3, <1>4, <1>5, <1>6 DEF Anchored

(* A step of a copy of a field (doStepPlayer).                             *)
StepEffect(v, w, f, t) ==
  /\ w \in Copy /\ w.on = v.on /\ w.gone = v.gone
  /\ \A g \in Fields :
       /\ w.ticks[g] = IF g = f THEN v.ticks[g] + 1 ELSE v.ticks[g]
       /\ w.log[g] = IF g = f THEN Append(v.log[g], Key(t)) ELSE v.log[g]
  /\ Anchored(v) => Anchored(w)

(* A step of a copy has its effect.                                        *)
LEMMA SteppedKeeps ==
  ASSUME NEW v \in Copy, NEW f \in Fields, NEW t \in Nat, loseAt \in [Fields -> Nat]
  PROVE  StepEffect(v, Stepped(v, f, t), f, t)
<1> DEFINE w == [v EXCEPT !.log[f] = Append(@, Key(t)), !.ticks[f] = @ + 1]
<1>1. Key(t) \in Entry
  BY DEF Key, Entry
<1>2. /\ w.on = v.on /\ w.gone = v.gone /\ w.tick = v.tick /\ w.wait = v.wait
      /\ w.ticks = [v.ticks EXCEPT ![f] = @ + 1]
      /\ w.log = [v.log EXCEPT ![f] = Append(@, Key(t))]
  BY DEF Copy
<1>3. w \in Copy
  <2> DEFINE l == [v.log EXCEPT ![f] = Append(@, Key(t))]
             u == [v.ticks EXCEPT ![f] = @ + 1]
  <2>1. v.log \in [Fields -> Seq(Entry)] /\ v.ticks \in [Fields -> Nat]
    BY DEF Copy
  <2>2. l \in [Fields -> Seq(Entry)] /\ u \in [Fields -> Nat]
    BY <1>1, <2>1
  <2>3. w = [v EXCEPT !.log = l, !.ticks = u]
    BY <2>1
  <2> HIDE DEF l, u
  <2>4. QED BY <2>2, <2>3 DEF Copy
<1>4. Stepped(v, f, t) = IF v.ticks[f] = v.tick THEN Rescanned(w) ELSE w
  BY DEF Stepped
<1>8. \A g \in Fields :
        /\ w.ticks[g] = IF g = f THEN v.ticks[g] + 1 ELSE v.ticks[g]
        /\ w.log[g] = IF g = f THEN Append(v.log[g], Key(t)) ELSE v.log[g]
  BY <1>2 DEF Copy
<1> HIDE DEF w
<1>5. CASE v.ticks[f] = v.tick
  <2>1. /\ Rescanned(w) \in Copy /\ Anchored(Rescanned(w))
        /\ Rescanned(w) = [w EXCEPT !.tick = Rescanned(w).tick]
    BY <1>3, RescannedAnchored
  <2>2. /\ Rescanned(w).on = w.on /\ Rescanned(w).gone = w.gone
        /\ Rescanned(w).ticks = w.ticks /\ Rescanned(w).log = w.log
    BY <1>3, <2>1 DEF Copy
  <2>3. StepEffect(v, Rescanned(w), f, t)
    BY <2>1, <2>2, <1>2, <1>8 DEF StepEffect
  <2>4. QED BY <2>3, <1>4, <1>5
<1>6. CASE v.ticks[f] # v.tick
  <2>1. ASSUME Anchored(v) PROVE Anchored(w)
    <3>1. v.ticks \in [Fields -> Nat] /\ v.tick \in Nat
      BY DEF Copy
    <3>2. w.ticks[f] = v.ticks[f] + 1 /\ \A g \in Fields \ {f} : w.ticks[g] = v.ticks[g]
      BY <1>2, <3>1
    <3>3. ASSUME NEW g \in Fields, ~LostIn(v)[g], v.ticks[g] = v.tick PROVE Anchored(w)
      <4>1. g # f
        BY <3>3, <1>6
      <4>2. w.ticks[g] = w.tick
        BY <4>1, <3>2, <3>3, <1>2
      <4>3. ~LostIn(w)[g]
        BY <4>1, <3>2, <3>3, <1>2 DEF LostIn
      <4>4. QED BY <4>2, <4>3 DEF Anchored
    <3>4. CASE \A g \in Fields : v.ticks[g] <= v.tick
      <4>1. \A g \in Fields : w.ticks[g] <= w.tick
        <5> TAKE g \in Fields
        <5>1. v.ticks[g] <= v.tick /\ v.ticks[g] \in Nat /\ v.ticks[f] < v.tick
          BY <3>1, <3>4, <1>6
        <5>2. QED BY <5>1, <3>1, <3>2, <1>2
      <4>2. QED BY <4>1 DEF Anchored
    <3>5. QED BY <2>1, <3>3, <3>4 DEF Anchored
  <2>2. StepEffect(v, w, f, t)
    BY <2>1, <1>2, <1>3, <1>8 DEF StepEffect
  <2>3. QED BY <2>2, <1>4, <1>6
<1>7. QED BY <1>5, <1>6

(* The departure of a player, in the copy of a client.                     *)
LEMMA QuitKeeps ==
  ASSUME NEW v \in Copy, NEW f \in Fields
  PROVE  /\ OnQuit(v, f) \in Copy
         /\ OnQuit(v, f).on = v.on /\ OnQuit(v, f).gone = v.gone \union {f}
         /\ OnQuit(v, f).ticks = v.ticks /\ OnQuit(v, f).log = v.log
         /\ v.on => Anchored(OnQuit(v, f))
<1> DEFINE w == [v EXCEPT !.gone = @ \union {f}]
<1>1. /\ w \in Copy /\ w.on = v.on /\ w.gone = v.gone \union {f}
      /\ w.ticks = v.ticks /\ w.log = v.log
  BY DEF Copy
<1>2. OnQuit(v, f) = IF v.on THEN Rescanned(w) ELSE w
  BY DEF OnQuit
<1> HIDE DEF w
<1>3. CASE v.on
  <2>1. /\ Rescanned(w) \in Copy /\ Anchored(Rescanned(w))
        /\ Rescanned(w) = [w EXCEPT !.tick = Rescanned(w).tick]
    BY <1>1, RescannedAnchored
  <2>2. /\ Rescanned(w).on = w.on /\ Rescanned(w).gone = w.gone
        /\ Rescanned(w).ticks = w.ticks /\ Rescanned(w).log = w.log
    BY <1>1, <2>1 DEF Copy
  <2>3. QED BY <2>1, <2>2, <1>1, <1>2, <1>3
<1>4. CASE ~v.on
  BY <1>4, <1>1, <1>2
<1>5. QED BY <1>3, <1>4

(* What reading a message does to the copies of client c: the entries that *)
(* it writes, and the rest of the copy.                                    *)
Writes(m, f, c) ==
  IF f = c THEN m.type = "WAIT" /\ gbTo[m.gb] = c ELSE About(m, f)

Acceptable(v, m, c) ==
  /\ m.type = "INPUT" => m.fld # c
  /\ m.type \in {"WAIT", "DROP"} => m.gb \in DOMAIN gbTo
  /\ m.type = "DROP" /\ gbTo[m.gb] # c => v.wait[gbTo[m.gb]] # <<>>

MoveEffect(v, w, m, c) ==
  /\ w \in Copy
  /\ w.on = (m.type = "GAME" \/ (m.type # "LOBBY" /\ v.on))
  /\ w.gone = IF m.type = "QUIT" THEN v.gone \union {m.fld} ELSE v.gone
  /\ \A f \in Fields :
       /\ w.ticks[f] = IF m.type = "INPUT" /\ m.fld = f THEN v.ticks[f] + 1 ELSE v.ticks[f]
       /\ w.log[f] = IF Writes(m, f, c) THEN Append(v.log[f], UpEntry(m)) ELSE v.log[f]
  /\ Anchored(v) /\ (m.type = "QUIT" => v.on) => Anchored(w)

(* What a message is about is an entry of a log.                           *)
LEMMA EntryOfMessage ==
  ASSUME NEW m \in DownMessage, m.type \in {"INPUT", "DROP", "WAIT"}
  PROVE  UpEntry(m) \in Entry
BY DEF DownMessage, UpEntry, Entry, Key, Drop

(* The clock of a copy depends on its ticks and on who is gone.            *)
LEMMA SameClock ==
  ASSUME NEW v \in Copy, NEW w \in Copy, w.ticks = v.ticks, w.gone = v.gone,
         w.tick = v.tick, Anchored(v)
  PROVE  Anchored(w)
BY DEF Anchored, LostIn

(* Reading a message has its effect.                                       *)
LEMMA MoveDoes ==
  ASSUME NEW v \in Copy, NEW c \in Fields, NEW m \in DownMessage, Acceptable(v, m, c),
         gbTo \in Seq(Fields), loseAt \in [Fields -> Nat]
  PROVE  MoveEffect(v, Move(v, m, c), m, c)
<1> DEFINE w == Move(v, m, c)
<1>1. /\ v.log \in [Fields -> Seq(Entry)] /\ v.ticks \in [Fields -> Nat]
      /\ v.wait \in [Fields -> Seq(Nat)] /\ v.on \in BOOLEAN
  BY DEF Copy
<1>2. m.type \in {"INPUT", "WAIT", "DROP", "QUIT", "GAME", "LOBBY"}
  BY DEF DownMessage
<1>3. CASE m.type \in {"GAME", "LOBBY"}
  <2>1. w = [v EXCEPT !.on = (m.type = "GAME")]
    BY <1>3 DEF Move
  <2>2. /\ w \in Copy /\ w.on = (m.type = "GAME") /\ w.gone = v.gone /\ w.ticks = v.ticks
        /\ w.log = v.log /\ w.tick = v.tick
    BY <2>1 DEF Copy
  <2>3. \A f \in Fields : ~Writes(m, f, c)
    BY <1>3 DEF Writes, About
  <2> HIDE DEF w
  <2>4. Anchored(v) => Anchored(w)
    BY <2>2, SameClock
  <2>5. QED BY <1>1, <1>3, <2>2, <2>3, <2>4 DEF MoveEffect, w
<1>4. CASE m.type = "INPUT"
  <2>1. PICK f \in Fields, t \in Nat : m.fld = f /\ m.tick = t
    BY <1>4 DEF DownMessage
  <2>2. w = Stepped(v, f, t)
    BY <1>4, <2>1 DEF Move
  <2>3. \A g \in Fields : Writes(m, g, c) <=> g = f
    BY <1>4, <2>1 DEF Writes, About, Acceptable
  <2>4. UpEntry(m) = Key(t)
    BY <1>4, <2>1 DEF UpEntry
  <2> HIDE DEF w
  <2>5. StepEffect(v, w, f, t)
    BY <2>2, SteppedKeeps
  <2>6. \A g \in Fields :
          /\ w.ticks[g] = IF m.type = "INPUT" /\ m.fld = g THEN v.ticks[g] + 1 ELSE v.ticks[g]
          /\ w.log[g] = IF Writes(m, g, c) THEN Append(v.log[g], UpEntry(m)) ELSE v.log[g]
    BY <1>1, <1>4, <2>1, <2>3, <2>4, <2>5 DEF StepEffect
  <2>7. QED BY <1>1, <1>4, <2>5, <2>6 DEF StepEffect, MoveEffect, w
<1>5. CASE m.type = "QUIT"
  <2>1. m.fld \in Fields /\ w = OnQuit(v, m.fld)
    BY <1>5 DEF Move, DownMessage
  <2>2. \A f \in Fields : ~Writes(m, f, c)
    BY <1>5 DEF Writes, About
  <2> HIDE DEF w
  <2>3. /\ w \in Copy /\ w.on = v.on /\ w.gone = v.gone \union {m.fld}
        /\ w.ticks = v.ticks /\ w.log = v.log /\ (v.on => Anchored(w))
    BY <2>1, QuitKeeps
  <2>4. QED BY <1>1, <1>5, <2>2, <2>3 DEF MoveEffect, w
<1>6. CASE m.type \in {"WAIT", "DROP"}
  <2> DEFINE f == gbTo[m.gb]
             e == Drop(m.gb)
             l == [v.log EXCEPT ![f] = Append(@, e)]
  <2>1. f \in Fields /\ m.gb \in Nat /\ UpEntry(m) = e /\ e \in Entry /\ m.gb \in DOMAIN gbTo
    BY <1>6 DEF Acceptable, DownMessage, UpEntry, Entry, Drop
  <2>2. \A g \in Fields : About(m, g) <=> m.type = "DROP" /\ g = f
    BY <1>6, <2>1 DEF About
  <2>3. \A g \in Fields :
          Writes(m, g, c) <=> g = f /\ ((f = c /\ m.type = "WAIT") \/ (f # c /\ m.type = "DROP"))
    BY <1>6, <2>2 DEF Writes
  <2> HIDE DEF f, e
  <2>4. l \in [Fields -> Seq(Entry)]
    BY <2>1, <1>1
  <2>5. \A g \in Fields : l[g] = IF g = f THEN Append(v.log[g], e) ELSE v.log[g]
    BY <1>1
  <2> HIDE DEF l
  <2>6. PICK z \in [Fields -> Seq(Nat)] :
          w = [v EXCEPT !.wait = z,
                        !.log = IF (f = c /\ m.type = "WAIT") \/ (f # c /\ m.type = "DROP")
                                THEN l ELSE v.log]
    <3>1. CASE m.type = "WAIT" /\ f = c
      <4>1. w = [v EXCEPT !.log[c] = Append(@, Drop(m.gb))]
        BY <3>1 DEF Move, f
      <4>2. w = [v EXCEPT !.wait = v.wait, !.log = l]
        BY <3>1, <4>1, <1>1 DEF Copy, l, e
      <4>3. QED BY <3>1, <4>2, <1>1
    <3>2. CASE m.type = "WAIT" /\ f # c
      <4>1. w = [v EXCEPT !.wait[f] = Append(@, m.gb)]
        BY <3>2 DEF Move, f
      <4>2. w = [v EXCEPT !.wait = [v.wait EXCEPT ![f] = Append(@, m.gb)], !.log = v.log]
        BY <3>2, <4>1, <1>1 DEF Copy
      <4>3. [v.wait EXCEPT ![f] = Append(@, m.gb)] \in [Fields -> Seq(Nat)]
        BY <2>1, <1>1
      <4>4. QED BY <3>2, <4>2, <4>3
    <3>3. CASE m.type = "DROP" /\ f = c
      <4>1. w = v
        BY <3>3 DEF Move, f
      <4>2. w = [v EXCEPT !.wait = v.wait, !.log = v.log]
        BY <4>1 DEF Copy
      <4>3. QED BY <3>3, <4>2, <1>1
    <3>4. CASE m.type = "DROP" /\ f # c
      <4>1. w = [v EXCEPT !.wait[f] = Tail(@), !.log[f] = Append(@, Drop(m.gb))]
        BY <3>4 DEF Move, f
      <4>2. w = [v EXCEPT !.wait = [v.wait EXCEPT ![f] = Tail(@)], !.log = l]
        BY <3>4, <4>1, <1>1 DEF Copy, l, e
      <4>3. v.wait[f] # <<>>
        BY <3>4 DEF Acceptable, f
      <4>4. [v.wait EXCEPT ![f] = Tail(@)] \in [Fields -> Seq(Nat)]
        BY <2>1, <1>1, <4>3
      <4>5. QED BY <3>4, <4>2, <4>4
    <3>5. QED BY <1>6, <3>1, <3>2, <3>3, <3>4
  <2> HIDE DEF w
  <2>7. /\ w \in Copy /\ w.on = v.on /\ w.gone = v.gone /\ w.ticks = v.ticks /\ w.tick = v.tick
        /\ w.log = IF (f = c /\ m.type = "WAIT") \/ (f # c /\ m.type = "DROP") THEN l ELSE v.log
    BY <2>4, <2>6 DEF Copy
  <2>8. Anchored(v) => Anchored(w)
    BY <2>7, SameClock
  <2>9. QED BY <1>1, <1>6, <2>1, <2>3, <2>5, <2>7, <2>8 DEF MoveEffect, w
<1>7. QED BY <1>2, <1>3, <1>4, <1>5, <1>6

-----------------------------------------------------------------------------
(* A client that follows the match, told of what the server has done.      *)
FieldTold(f, r) ==
  /\ log'[f] \in Seq(Entry) /\ IsPrefix(log[f], log'[f])
  /\ \/ log'[f] = log[f] /\ \A j \in DOMAIN r : ~About(r[j], f)'
     \/ /\ r # <<>> /\ About(r[1], f)' /\ ~Nameless(r[1])
        /\ \A j \in DOMAIN r : j # 1 => ~About(r[j], f)'
        /\ log'[f][Len(log[f]) + 1] = UpEntry(r[1])
        /\ Len(log'[f]) > Len(log[f])
        /\ \/ Len(log'[f]) = Len(log[f]) + 1
           \/ f \notin remote /\ \E j \in DOMAIN r : Nameless(r[j])
  /\ \/ tick'[f] = tick[f] /\ DownInputs(r, f) = {}
     \/ tick'[f] = tick[f] + 1 /\ DownInputs(r, f) = {1} /\ r[1].tick = tick[f]

Hears(c, r) ==
  /\ r \in Seq(DownMessage) /\ down'[c] = down[c] \o r
  /\ \A j \in DOMAIN r : GoodDown(r[j], c)'

Told(c, r) ==
  /\ Hears(c, r) /\ copy'[c] = copy[c]
  /\ remote' = remote /\ loseAt' = loseAt /\ phase = "GAME"
  /\ IsPrefix(gbTo, gbTo') /\ gbTo' \in Seq(Fields)
  /\ \A f \in Fields \ {c} : FieldTold(f, r)
  /\ \A f \in players \ players' : \E j \in DOMAIN r : r[j] = [type |-> "QUIT", fld |-> f]
  /\ \A i \in DOMAIN r : r[i].type # "GAME" /\ (r[i].type = "LOBBY" => phase' # "GAME")
  /\ \A i, j \in DOMAIN r : r[i].type = "LOBBY" /\ r[j].type = "INPUT" => j < i
  /\ \A j \in DOMAIN r : r[j].type = "INPUT" => j = 1
  /\ r # <<>> /\ r[1].type = "INPUT" /\ ~r[1].hasty => InWindowAt(c, Len(down[c]) + 1, r[1])

Follows(c) ==
  /\ \A f \in Fields \ {c} : OtherLog(c, f) /\ OtherTicks(c, f)
  /\ Farewells(c) /\ DownInWindow(c) /\ Announced(c) /\ CopyClock(c)

(* A message is about the same field once more garbages have been named.   *)
LEMMA AboutOld ==
  ASSUME gbTo \in Seq(Fields), gbTo' \in Seq(Fields), IsPrefix(gbTo, gbTo'),
         NEW m \in DownMessage, NEW c, GoodDown(m, c), NEW f \in Fields
  PROVE  About(m, f)' <=> About(m, f)
<1>1. \A g \in DOMAIN gbTo : g \in DOMAIN gbTo' /\ gbTo'[g] = gbTo[g]
  BY PrefixByEntry
<1>2. CASE m.type = "DROP"
  <2>1. m.gb \in 0..Len(gbTo)
    BY <1>2 DEF GoodDown
  <2>2. CASE m.gb = 0
    <3>1. 0 \notin DOMAIN gbTo /\ 0 \notin DOMAIN gbTo'
      OBVIOUS
    <3>2. QED BY <3>1, <2>2, <1>2 DEF About
  <2>3. CASE m.gb # 0
    <3>1. m.gb \in DOMAIN gbTo
      BY <2>1, <2>3
    <3>2. QED BY <3>1, <1>1, <1>2 DEF About
  <2>4. QED BY <2>2, <2>3
<1>3. CASE m.type # "DROP"
  BY <1>3 DEF About
<1>4. QED BY <1>2, <1>3

(* The client follows the match when it has been told of a step.           *)
LEMMA ToldFollows ==
  ASSUME LockInv, NEW c \in Fields, c \in Following, NEW r, Told(c, r),
         tick' \in [Fields -> Nat]
  PROVE  Follows(c)'
<1> DEFINE q == down[c]
<1>1. /\ q \in Seq(DownMessage) /\ r \in Seq(DownMessage)
      /\ copy[c] \in Copy /\ log \in [Fields -> Seq(Entry)] /\ tick \in [Fields -> Nat]
      /\ gbTo \in Seq(Fields) /\ loseAt \in [Fields -> Nat]
  BY DEF LockInv, LockstepTypeOK, TypeOK, Told, Hears
<1>2. Follows(c)
  BY DEF LockInv, DownInv, Follows
<1>3. PICK p \in Seq(DownMessage) : p = q
  BY <1>1
<1>4. /\ p = down[c] /\ down'[c] = p \o r /\ copy'[c] = copy[c] /\ remote' = remote
      /\ loseAt' = loseAt /\ phase = "GAME"
  BY <1>3 DEF Told, Hears
<1> HIDE DEF q
<1>5. \A i \in DOMAIN p : p[i] \in DownMessage /\ GoodDown(p[i], c)
  BY <1>4 DEF LockInv, GoodMessages
<1>6. ASSUME NEW f \in Fields \ {c} PROVE OtherLog(c, f)' /\ OtherTicks(c, f)'
  <2>1. FieldTold(f, r) /\ OtherLog(c, f) /\ OtherTicks(c, f)
    BY <1>2 DEF Told, Follows
  <2>2. \A i \in DOMAIN p : About(p[i], f)' <=> About(p[i], f)
    <3>1. gbTo' \in Seq(Fields) /\ IsPrefix(gbTo, gbTo')
      BY DEF Told
    <3>2. QED BY <1>1, <1>5, <3>1, AboutOld
  <2>3. copy[c].log[f] \in Seq(Entry) /\ log[f] \in Seq(Entry) /\ copy[c].ticks[f] \in Nat
        /\ tick[f] \in Nat
    BY <1>1 DEF Copy
  <2>4. OtherLog(c, f)'
    BY <1>1, <1>4, <2>1, <2>2, <2>3, OtherLogTold DEF FieldTold
  <2>5. OtherTicks(c, f)'
    BY <1>1, <1>4, <2>1, <2>3, OtherTicksTold DEF FieldTold
  <2>6. QED BY <2>4, <2>5
<1>7. Farewells(c)'
  BY <1>1, <1>2, <1>4, FarewellsTold DEF Told, Follows
<1>8. DownInWindow(c)'
  BY <1>1, <1>2, <1>4, WindowTold DEF Told, Follows
<1>9. Announced(c)'
  BY <1>1, <1>2, <1>4, AnnouncedTold DEF Told, Follows
<1>10. CopyClock(c)'
  <2>1. copy[c].on \/ (p # <<>> /\ p[1].type = "GAME")
    BY <1>2, <1>4 DEF Follows, Announced
  <2>2. Anchored(copy[c])
    <3>1. p # <<>> => 1 \in DOMAIN p
      OBVIOUS
    <3>2. QED BY <1>2, <1>4, <2>1, <3>1 DEF Follows, CopyClock
  <2>3. Anchored(copy[c])'
    BY <2>2, <1>4 DEF Anchored, LostIn
  <2>4. QED BY <2>3 DEF CopyClock
<1>11. QED BY <1>6, <1>7, <1>8, <1>9, <1>10 DEF Follows

-----------------------------------------------------------------------------
(* A client that follows the match reads the next message.                 *)
Readable(c, q) == q = down[c] /\ q # <<>> /\ Objection(copy[c], q[1], c) = ""

(* What it reads does what MoveDoes says.                                  *)
LEMMA ReadMoves ==
  ASSUME LockInv, NEW c \in Following, NEW q \in Seq(DownMessage), Readable(c, q)
  PROVE  MoveEffect(copy[c], Move(copy[c], q[1], c), q[1], c)
<1> DEFINE m == q[1]
           v == copy[c]
<1>1. c \in Fields /\ v \in Copy /\ gbTo \in Seq(Fields) /\ loseAt \in [Fields -> Nat]
  BY DEF LockInv, LockstepTypeOK, TypeOK, Following
<1>2. m \in DownMessage /\ GoodDown(m, c)
  <2>1. q = down[c] /\ q # <<>>
    BY DEF Readable
  <2>3. 1 \in DOMAIN q /\ q[1] \in DownMessage
    BY <2>1
  <2>2. QED BY <1>1, <2>1, <2>3 DEF LockInv, GoodMessages
<1>3. Objection(v, m, c) = ""
  BY DEF Readable
<1> HIDE DEF m, v
<1>4. ASSUME m.type = "DROP" PROVE m.gb # 0 /\ Found(v, m, c)
  <2>1. v.on
    BY <1>3, <1>4 DEF Objection
  <2>2. Found(v, m, c)
    BY <1>3, <1>4, <2>1 DEF Objection
  <2>3. QED BY <2>2 DEF Found
<1>5. ASSUME m.type = "DROP", gbTo[m.gb] # c PROVE v.wait[gbTo[m.gb]] # <<>>
  <2>1. m.gb \in DOMAIN gbTo
    BY <1>1, <1>2, <1>4, <1>5 DEF GoodDown
  <2>2. gbTo[m.gb] \in Fields
    BY <1>1, <2>1
  <2>3. IsPrefix(<<m.gb>>, v.wait[gbTo[m.gb]])
    BY <1>4, <1>5 DEF Found
  <2>4. m.gb \in Nat /\ v.wait[gbTo[m.gb]] \in Seq(Nat)
    BY <1>1, <1>2, <1>5, <2>2 DEF DownMessage, Copy
  <2>5. QED BY <2>3, <2>4 DEF IsPrefix
<1>6. m.type \in {"WAIT", "DROP"} => m.gb \in DOMAIN gbTo
  BY <1>1, <1>2, <1>4 DEF GoodDown
<1>7. Acceptable(v, m, c)
  BY <1>2, <1>5, <1>6 DEF Acceptable, GoodDown
<1>8. MoveEffect(v, Move(v, m, c), m, c)
  BY <1>1, <1>2, <1>7, MoveDoes
<1>9. QED BY <1>8 DEF m, v

(* It knows more of every field, and writes what the server had written.   *)
ReadsNext(c, q) ==
  /\ Readable(c, q) /\ down'[c] = Tail(q) /\ copy'[c] = Move(copy[c], q[1], c)
  /\ UNCHANGED <<matchVars, remote, loseAt, log, gbTo>>

(* Reading the next message has the effect of MoveDoes and is applied.     *)
LEMMA ReadApplies ==
  ASSUME LockInv, NEW c \in Following, NEW q \in Seq(DownMessage), ReadsNext(c, q)
  PROVE  /\ MoveEffect(copy[c], copy'[c], q[1], c)
         /\ \A f \in Fields : Applied(c, f, q[1])
<1>1. MoveEffect(copy[c], copy'[c], q[1], c)
  BY ReadMoves DEF ReadsNext
<1>2. /\ c \in Fields /\ copy[c] \in Copy /\ tick \in [Fields -> Nat]
      /\ q = down[c] /\ q # <<>>
  BY DEF LockInv, LockstepTypeOK, TypeOK, Following, ReadsNext, Readable
<1>8. 1 \in DOMAIN q
  BY <1>2
<1>3. \A f \in Fields : copy[c].ticks[f] \in Nat /\ tick[f] \in Nat
  BY <1>2 DEF Copy
<1>4. q[1].type = "INPUT" => q[1].fld # c
  BY <1>2, <1>8 DEF LockInv, GoodMessages, GoodDown
<1>5. \A f \in Fields \ {c} : OtherTicks(c, f)
  BY DEF LockInv, DownInv
<1>6. ASSUME NEW f \in Fields PROVE Applied(c, f, q[1])
  <2>1. copy[c].ticks[f] <= copy'[c].ticks[f]
    BY <1>1, <1>3 DEF MoveEffect
  <2>2. ASSUME q[1].type = "INPUT", q[1].fld = f PROVE q[1].tick + 1 <= copy'[c].ticks[f]
    <3>1. 1 \in DownInputs(q, f) /\ f # c
      BY <1>8, <1>4, <2>2 DEF DownInputs
    <3>2. q[1].tick = copy[c].ticks[f]
      BY <1>2, <1>3, <1>5, <3>1, NextInput
    <3>3. copy'[c].ticks[f] = copy[c].ticks[f] + 1
      BY <1>1, <2>2 DEF MoveEffect
    <3>4. QED BY <1>3, <3>2, <3>3
  <2>3. f \in copy[c].gone => f \in copy'[c].gone
    BY <1>1 DEF MoveEffect
  <2>4. q[1] = [type |-> "QUIT", fld |-> f] => f \in copy'[c].gone
    BY <1>1 DEF MoveEffect
  <2>5. QED BY <2>1, <2>2, <2>3, <2>4 DEF Applied
<1>7. QED BY <1>1, <1>6

(* The client follows the match when it has read a message.                *)
LEMMA ReadFollows ==
  ASSUME LockInv, NEW c \in Following, NEW q \in Seq(DownMessage), ReadsNext(c, q)
  PROVE  Follows(c)'
<1>1. /\ MoveEffect(copy[c], copy'[c], q[1], c)
      /\ \A f \in Fields : Applied(c, f, q[1])
  BY ReadApplies
<1>2. /\ c \in Fields /\ copy[c] \in Copy /\ copy'[c] \in Copy
      /\ q = down[c] /\ q # <<>> /\ down'[c] = Tail(q) /\ loseAt \in [Fields -> Nat]
      /\ remote' = remote /\ gbTo' = gbTo /\ log' = log /\ loseAt' = loseAt
      /\ tick' = tick /\ players' = players /\ phase' = phase
      /\ log \in [Fields -> Seq(Entry)] /\ tick \in [Fields -> Nat]
  BY <1>1 DEF LockInv, LockstepTypeOK, TypeOK, Following, ReadsNext, Readable, MoveEffect,
              matchVars, vars
<1>14. 1 \in DOMAIN q /\ q[1] \in DownMessage
  BY <1>2
<1>3. Follows(c)
  BY DEF LockInv, DownInv, Follows
<1>4. \A f \in Fields : /\ copy[c].ticks[f] \in Nat /\ copy[c].log[f] \in Seq(Entry)
                        /\ log[f] \in Seq(Entry) /\ tick[f] \in Nat
  BY <1>2 DEF Copy
<1>5. copy[c].ticks \in [Fields -> Nat] /\ copy'[c].ticks \in [Fields -> Nat]
  BY <1>2 DEF Copy
<1>6. ~Nameless(q[1])
  <2>1. Objection(copy[c], q[1], c) = ""
    BY DEF ReadsNext, Readable
  <2>2. q[1].type = "DROP" => copy[c].on
    BY <2>1 DEF Objection
  <2>3. q[1].type = "DROP" => Found(copy[c], q[1], c)
    BY <2>1, <2>2 DEF Objection
  <2>4. QED BY <2>3 DEF Found, Nameless
<1>7. ASSUME NEW f \in Fields \ {c} PROVE OtherLog(c, f)' /\ OtherTicks(c, f)'
  <2>1. OtherLog(c, f) /\ OtherTicks(c, f)
    BY <1>3 DEF Follows
  <2>2. \/ ~About(q[1], f) /\ copy'[c].log[f] = copy[c].log[f]
        \/ /\ About(q[1], f) /\ UpEntry(q[1]) \in Entry
           /\ copy'[c].log[f] = Append(copy[c].log[f], UpEntry(q[1]))
    <3>1. CASE About(q[1], f)
      <4>1. q[1].type \in {"INPUT", "DROP", "WAIT"}
        BY <3>1 DEF About
      <4>2. UpEntry(q[1]) \in Entry
        BY <1>14, <4>1, EntryOfMessage
      <4>3. QED BY <1>1, <3>1, <4>2 DEF MoveEffect, Writes
    <3>2. CASE ~About(q[1], f)
      BY <1>1, <3>2 DEF MoveEffect, Writes
    <3>3. QED BY <3>1, <3>2
  <2>3. OtherLog(c, f)'
    <3>1. log'[f] = log[f]
      BY <1>2
    <3>2. QED BY <1>2, <1>4, <1>6, <2>1, <2>2, <3>1, OtherLogRead
  <2>4. copy'[c].ticks[f] = copy[c].ticks[f] + (IF 1 \in DownInputs(q, f) THEN 1 ELSE 0)
    <3>1. 1 \in DownInputs(q, f) <=> q[1].type = "INPUT" /\ q[1].fld = f
      BY <1>14 DEF DownInputs
    <3>2. QED BY <1>1, <1>4, <3>1 DEF MoveEffect
  <2>5. OtherTicks(c, f)'
    BY <1>2, <1>4, <2>1, <2>4, OtherTicksRead
  <2>6. QED BY <2>3, <2>5
<1>8. Farewells(c)'
  BY <1>1, <1>2, <1>3, FarewellsRead DEF Follows
<1>9. DownInWindow(c)'
  BY <1>1, <1>2, <1>3, <1>5, WindowRead DEF Follows
<1>10. copy'[c].on = (q[1].type = "GAME" \/ (q[1].type # "LOBBY" /\ copy[c].on))
  BY <1>1 DEF MoveEffect
<1>11. Announced(c)'
  BY <1>2, <1>3, <1>10, AnnouncedRead DEF Follows
<1>12. CopyClock(c)'
  <2>1. \A i \in DOMAIN Tail(q) : i + 1 \in DOMAIN q /\ Tail(q)[i] = q[i + 1]
    BY <1>2, HeadRead
  <2>2. DOMAIN Tail(q) \in SUBSET (Nat \ {0})
    BY <1>2
  <2>3. CASE Anchored(copy[c]) /\ (q[1].type = "QUIT" => copy[c].on)
    <3>1. Anchored(copy'[c])
      BY <1>1, <2>3 DEF MoveEffect
    <3>2. Anchored(copy[c])'
      BY <3>1, <1>2 DEF Anchored, LostIn
    <3>3. QED BY <3>2 DEF CopyClock
  <2>4. CASE ~Anchored(copy[c])
    <3>1. ~copy[c].on /\ \A i \in DOMAIN q : q[i].type \notin {"INPUT", "GAME"}
      BY <1>2, <1>3, <2>4 DEF Follows, CopyClock
    <3>2. \A i \in DOMAIN Tail(q) : Tail(q)[i].type \notin {"INPUT", "GAME"}
      BY <2>1, <3>1
    <3>3. ~copy'[c].on
      BY <1>10, <1>14, <3>1
    <3>4. QED BY <1>2, <3>2, <3>3 DEF CopyClock
  <2>5. CASE q[1].type = "QUIT" /\ ~copy[c].on
    <3>1. \A i \in DOMAIN q : q[i].type # "INPUT"
      BY <1>2, <1>3, <2>5 DEF Follows, Announced
    <3>2. \A i \in DOMAIN q : q[i].type = "GAME" => i = 1
      BY <1>2, <1>3 DEF Follows, Announced
    <3>3. \A i \in DOMAIN Tail(q) : Tail(q)[i].type \notin {"INPUT", "GAME"}
      BY <2>1, <2>2, <3>1, <3>2
    <3>4. ~copy'[c].on
      BY <1>10, <2>5
    <3>5. QED BY <1>2, <3>3, <3>4 DEF CopyClock
  <2>6. QED BY <2>3, <2>4, <2>5
<1>13. QED BY <1>7, <1>8, <1>9, <1>11, <1>12 DEF Follows

(* Nothing is said to it, and nothing changes for it but its own field.    *)
Undisturbed(c) ==
  /\ down'[c] = down[c] /\ copy'[c] \in Copy
  /\ UNCHANGED <<matchVars, remote, loseAt, log, gbTo>>
  /\ copy'[c].on = copy[c].on /\ copy'[c].gone = copy[c].gone
  /\ copy[c].ticks[c] <= copy'[c].ticks[c]
  /\ \A f \in Fields \ {c} :
       copy'[c].log[f] = copy[c].log[f] /\ copy'[c].ticks[f] = copy[c].ticks[f]
  /\ Anchored(copy[c]) => Anchored(copy'[c])

(* The client goes on following the match.                                 *)
LEMMA UndisturbedFollows ==
  ASSUME LockInv, NEW c \in Following, Undisturbed(c)
  PROVE  Follows(c)'
<1>1. /\ c \in Fields /\ copy[c] \in Copy /\ copy'[c] \in Copy /\ loseAt \in [Fields -> Nat]
      /\ down'[c] = down[c] /\ copy'[c].on = copy[c].on /\ copy'[c].gone = copy[c].gone
      /\ remote' = remote /\ gbTo' = gbTo /\ log' = log /\ loseAt' = loseAt
      /\ tick' = tick /\ players' = players /\ phase' = phase
  BY DEF LockInv, LockstepTypeOK, TypeOK, Following, Undisturbed, matchVars, vars
<1>2. Follows(c)
  BY DEF LockInv, DownInv, Follows
<1>3. ASSUME NEW f \in Fields \ {c} PROVE OtherLog(c, f)' /\ OtherTicks(c, f)'
  <2>1. OtherLog(c, f) /\ OtherTicks(c, f)
    BY <1>2 DEF Follows
  <2>2. copy'[c].log[f] = copy[c].log[f] /\ copy'[c].ticks[f] = copy[c].ticks[f]
    BY DEF Undisturbed
  <2>6. SureNews(down[c], f)' = SureNews(down[c], f) /\ Read(down[c], f)' = Read(down[c], f)
    BY <1>1 DEF SureNews, Read, Clear, Nameless, About, UpEntry, Key, Drop
  <2>7. log'[f] = log[f]
    BY <1>1
  <2>3. OtherLog(c, f)'
    BY <1>1, <2>1, <2>2, <2>6, <2>7 DEF OtherLog
  <2>4. OtherTicks(c, f)'
    BY <1>1, <2>1, <2>2 DEF OtherTicks, DownInputs, Consecutive
  <2>5. QED BY <2>3, <2>4
<1>4. Farewells(c)'
  BY <1>1, <1>2 DEF Follows, Farewells
<1>5. Announced(c)'
  BY <1>1, <1>2 DEF Follows, Announced
<1>6. CopyClock(c)'
  <2>1. Anchored(copy'[c]) => Anchored(copy[c])'
    BY <1>1 DEF Anchored, LostIn
  <2>2. Anchored(copy[c]) => Anchored(copy'[c])
    BY DEF Undisturbed
  <2>3. QED BY <1>1, <1>2, <2>1, <2>2 DEF Follows, CopyClock
<1>7. DownInWindow(c)'
  <2>1. \A f \in Fields : copy[c].ticks[f] <= copy'[c].ticks[f]
                          /\ copy[c].ticks[f] \in Nat /\ copy'[c].ticks[f] \in Nat
    <3> TAKE f \in Fields
    <3>1. copy[c].ticks[f] \in Nat /\ copy'[c].ticks[f] \in Nat
      BY <1>1 DEF Copy
    <3>2. f # c => copy'[c].ticks[f] = copy[c].ticks[f]
      BY DEF Undisturbed
    <3>3. copy[c].ticks[c] <= copy'[c].ticks[c]
      BY DEF Undisturbed
    <3>4. QED BY <3>1, <3>2, <3>3
  <2>2. \A f \in Fields : DownInputs(down[c], f)' = DownInputs(down[c], f)
    BY <1>1 DEF DownInputs
  <2>3. \A i : \A f \in Fields, t \in Nat : WillReach(c, i, f, t) => WillReach(c, i, f, t)'
    BY <1>1, <2>1, <2>2 DEF WillReach
  <2>4. \A i : \A f \in Fields : WillBeLost(c, i, f) => WillBeLost(c, i, f)'
    BY <1>1, <2>3 DEF WillBeLost
  <2>5. DownInWindow(c)
    BY <1>2 DEF Follows
  <2>6. ASSUME NEW i \in DOMAIN down[c], down[c][i].type = "INPUT", ~down[c][i].hasty,
               NEW f \in Fields \ {down[c][i].fld}
        PROVE  \/ WillBeLost(c, i, f)'
               \/ \E t \in Nat : WillReach(c, i, f, t)' /\ down[c][i].tick + 1 < t + LagMax
    BY <2>3, <2>4, <2>5, <2>6 DEF DownInWindow
  <2>7. QED BY <1>1, <2>6 DEF DownInWindow
<1>8. QED BY <1>3, <1>4, <1>5, <1>6, <1>7 DEF Follows

-----------------------------------------------------------------------------
(* From a client to the server.                                            *)
UpLog(q) == [i \in DOMAIN q |-> UpEntry(q[i])]
Sends(c) == OwnLog(c) /\ OwnTicks(c) /\ UpInWindow(c)

(* The entries of the messages of a queue.                                 *)
LEMMA UpMessages ==
  ASSUME NEW q \in Seq(UpMessage)
  PROVE  /\ UpLog(q) \in Seq(Entry) /\ Len(UpLog(q)) = Len(q) /\ DOMAIN q = 1..Len(q)
         /\ \A i \in DOMAIN q : UpLog(q)[i] = UpEntry(q[i]) /\ UpEntry(q[i]) \in Entry
         /\ \A i \in UpInputs(q) : i \in DOMAIN q /\ q[i].tick \in Nat
<1>1. \A m \in UpMessage : UpEntry(m) \in Entry /\ (m.type = "INPUT" => m.tick \in Nat)
  BY DEF UpMessage, UpEntry, Entry, Key, Drop
<1>2. DOMAIN q = 1..Len(q) /\ Len(q) \in Nat /\ \A i \in DOMAIN q : q[i] \in UpMessage
  OBVIOUS
<1>3. \A i \in DOMAIN q : UpLog(q)[i] = UpEntry(q[i]) /\ UpEntry(q[i]) \in Entry
  BY <1>1, <1>2 DEF UpLog
<1>4. \A i \in UpInputs(q) : i \in DOMAIN q /\ q[i].tick \in Nat
  BY <1>1, <1>2 DEF UpInputs
<1>5. DOMAIN UpLog(q) = 1..Len(q)
  BY <1>2 DEF UpLog
<1> DEFINE n == Len(q)
           u == UpLog(q)
<1>6. n \in Nat /\ u = [i \in 1..n |-> u[i]] /\ \A i \in 1..n : u[i] \in Entry
  BY <1>2, <1>3 DEF UpLog
<1> HIDE DEF n, u
<1>7. u \in Seq(Entry) /\ Len(u) = n
  BY <1>6
<1>8. QED BY <1>2, <1>3, <1>4, <1>7 DEF n, u

(* A concatenation, entry by entry.                                        *)
Joins(s, l, u) ==
  /\ Len(s) = Len(l) + Len(u)
  /\ \A i \in 1..Len(l) : s[i] = l[i]
  /\ \A i \in 1..Len(u) : s[Len(l) + i] = u[i]

(* A concatenation is known by its entries.                                *)
LEMMA ConcatByEntry ==
  ASSUME NEW S, NEW s \in Seq(S), NEW l \in Seq(S), NEW u \in Seq(S)
  PROVE  s = l \o u <=> Joins(s, l, u)
<1>1. ASSUME Len(s) = Len(l) + Len(u), \A i \in 1..Len(l) : s[i] = l[i],
             \A i \in 1..Len(u) : s[Len(l) + i] = u[i]
      PROVE  s = l \o u
  <2>1. l \o u \in Seq(S) /\ Len(l \o u) = Len(s)
    BY <1>1
  <2>2. \A i \in 1..Len(s) : s[i] = (l \o u)[i]
    <3> TAKE i \in 1..Len(s)
    <3>1. CASE i \in 1..Len(l)
      BY <3>1, <1>1
    <3>2. CASE i \notin 1..Len(l)
      <4>1. i - Len(l) \in 1..Len(u) /\ Len(l) + (i - Len(l)) = i
        BY <3>2, <1>1
      <4>2. s[i] = u[i - Len(l)]
        BY <4>1, <1>1
      <4>3. QED BY <4>1, <4>2, <3>2
    <3>3. QED BY <3>1, <3>2
  <2>3. QED BY <2>1, <2>2, SeqEqual
<1>2. ASSUME s = l \o u
      PROVE  /\ Len(s) = Len(l) + Len(u)
             /\ \A i \in 1..Len(l) : s[i] = l[i]
             /\ \A i \in 1..Len(u) : s[Len(l) + i] = u[i]
  BY <1>2
<1>3. QED BY <1>1, <1>2 DEF Joins

(* The client sends what it has just done, if anything.                    *)
Says(c, r) ==
  /\ r \in Seq(UpMessage) /\ Len(r) <= 1 /\ up'[c] = up[c] \o r
  /\ log'[c] = log[c] /\ tick'[c] = tick[c]
  /\ copy'[c] \in Copy
  /\ copy'[c].log[c] = copy[c].log[c] \o UpLog(r)
  /\ \/ UpInputs(r) = {} /\ copy'[c].ticks[c] = copy[c].ticks[c]
     \/ /\ UpInputs(r) = {1} /\ r[1].tick = copy[c].ticks[c]
        /\ copy'[c].ticks[c] = copy[c].ticks[c] + 1
        /\ ~r[1].hasty =>
             \A f \in Fields \ {c} : lost[f] \/ r[1].tick + 1 < copy[c].ticks[f] + LagMax
  /\ \A f \in Fields \ {c} :
       copy[c].ticks[f] <= copy'[c].ticks[f] /\ (lost[f] => lost'[f])

(* The server will hear it.                                                *)
LEMMA SaysSends ==
  ASSUME LockInv, NEW c \in Fields, Sending(c), NEW r, Says(c, r)
  PROVE  Sends(c)'
<1>1. PICK q \in Seq(UpMessage) : q = up[c]
  BY DEF LockInv, LockstepTypeOK
<1>2. /\ copy[c] \in Copy /\ copy'[c] \in Copy /\ log[c] \in Seq(Entry) /\ tick[c] \in Nat
      /\ r \in Seq(UpMessage) /\ up'[c] = q \o r /\ log'[c] = log[c] /\ tick'[c] = tick[c]
      /\ copy'[c].log[c] = copy[c].log[c] \o UpLog(r)
  BY <1>1 DEF LockInv, LockstepTypeOK, TypeOK, Says
<1>3. /\ copy[c].ticks \in [Fields -> Nat] /\ copy'[c].ticks \in [Fields -> Nat]
      /\ copy[c].log[c] \in Seq(Entry) /\ copy'[c].log[c] \in Seq(Entry)
  BY <1>2 DEF Copy
<1>4. OwnLog(c) /\ OwnTicks(c) /\ UpInWindow(c)
  BY DEF LockInv, UpInv
<1> DEFINE p == q \o r
<1>5. /\ p \in Seq(UpMessage) /\ Len(p) = Len(q) + Len(r)
      /\ \A i \in DOMAIN q : i \in DOMAIN p /\ p[i] = q[i]
      /\ \A j \in DOMAIN r : Len(q) + j \in DOMAIN p /\ p[Len(q) + j] = r[j]
      /\ \A i \in DOMAIN p : i \in DOMAIN q \/ (i - Len(q) \in DOMAIN r /\ p[i] = r[i - Len(q)])
  BY <1>2, AddedAtEnd
<1>6. up'[c] = p
  BY <1>2
<1>13. /\ DOMAIN p \in SUBSET Nat /\ DOMAIN q = 1..Len(q) /\ DOMAIN r = 1..Len(r)
       /\ Len(q) \in Nat /\ Len(r) \in Nat
  BY <1>2
<1> HIDE DEF p
<1>7. /\ UpLog(q) \in Seq(Entry) /\ Len(UpLog(q)) = Len(q)
      /\ UpLog(r) \in Seq(Entry) /\ Len(UpLog(r)) = Len(r)
      /\ UpLog(p) \in Seq(Entry) /\ Len(UpLog(p)) = Len(p)
      /\ \A i \in DOMAIN q : UpLog(q)[i] = UpEntry(q[i])
      /\ \A i \in DOMAIN r : UpLog(r)[i] = UpEntry(r[i])
      /\ \A i \in DOMAIN p : UpLog(p)[i] = UpEntry(p[i])
      /\ \A i \in UpInputs(q) : i \in DOMAIN q /\ q[i].tick \in Nat
  BY <1>2, <1>5, UpMessages
<1>8. UpLog(p) = UpLog(q) \o UpLog(r)
  <2>1. \A i \in 1..Len(q) : UpLog(p)[i] = UpLog(q)[i]
    BY <1>5, <1>7, <1>13
  <2>2. ASSUME NEW i \in 1..Len(r) PROVE UpLog(p)[Len(q) + i] = UpLog(r)[i]
    <3>1. i \in DOMAIN r /\ Len(q) + i \in DOMAIN p /\ p[Len(q) + i] = r[i]
      BY <1>5, <1>13
    <3>2. UpLog(p)[Len(q) + i] = UpEntry(p[Len(q) + i]) /\ UpLog(r)[i] = UpEntry(r[i])
      BY <3>1, <1>7
    <3>3. QED BY <3>1, <3>2
  <2>3. Len(UpLog(p)) = Len(UpLog(q)) + Len(UpLog(r))
    BY <1>5, <1>7
  <2> DEFINE x == UpLog(p)
             y == UpLog(q)
             z == UpLog(r)
  <2>4. /\ x \in Seq(Entry) /\ y \in Seq(Entry) /\ z \in Seq(Entry)
        /\ Len(x) = Len(y) + Len(z) /\ Len(y) = Len(q) /\ Len(z) = Len(r)
        /\ \A i \in 1..Len(q) : x[i] = y[i]
        /\ \A i \in 1..Len(r) : x[Len(q) + i] = z[i]
    BY <2>1, <2>2, <2>3, <1>7
  <2> HIDE DEF x, y, z
  <2>5. Joins(x, y, z)
    BY <2>4 DEF Joins
  <2>6. x = y \o z
    <3>1. x \in Seq(Entry) /\ y \in Seq(Entry) /\ z \in Seq(Entry)
      BY <2>4
    <3>2. QED BY <3>1, <2>5, ConcatByEntry, Zenon
  <2>7. QED BY <2>6 DEF x, y, z
<1>9. OwnLog(c)'
  <2>1. copy[c].log[c] = log[c] \o UpLog(q)
    BY <1>1, <1>4 DEF OwnLog, UpLog
  <2>4. log[c] \in Seq(Entry) /\ UpLog(q) \in Seq(Entry) /\ UpLog(r) \in Seq(Entry)
    BY <1>2, <1>7
  <2>5. (log[c] \o UpLog(q)) \o UpLog(r) = log[c] \o (UpLog(q) \o UpLog(r))
    <3>1. \A s, t, u \in Seq(Entry) : (s \o t) \o u = s \o (t \o u)
      BY ConcatAssociative
    <3>2. QED BY <3>1, <2>4, Zenon
  <2>2. copy'[c].log[c] = log[c] \o UpLog(p)
    BY <1>2, <1>8, <2>1, <2>5, Zenon
  <2>3. UpLog(p) = [i \in DOMAIN up[c] |-> UpEntry(up[c][i])]'
    BY <1>6 DEF UpLog, UpEntry, Key, Drop
  <2>6. QED BY <1>2, <2>2, <2>3 DEF OwnLog
<1>10. \A i \in DOMAIN p :
         i \in UpInputs(p) <=> i \in UpInputs(q) \/ (i \notin DOMAIN q /\ i - Len(q) \in UpInputs(r))
  BY <1>5 DEF UpInputs
<1>14. UpInputs(p) \subseteq DOMAIN p /\ UpInputs(q) \subseteq DOMAIN p
  BY <1>5 DEF UpInputs
<1>15. \/ UpInputs(p) = UpInputs(q) /\ UpInputs(r) = {}
       \/ UpInputs(p) = UpInputs(q) \union {Len(q) + 1}
  <2>1. CASE UpInputs(r) = {}
    BY <2>1, <1>10, <1>14
  <2>2. CASE UpInputs(r) = {1}
    <3>1. 1 \in DOMAIN r
      BY <2>2 DEF UpInputs
    <3>2. Len(q) + 1 \in DOMAIN p /\ (Len(q) + 1) - Len(q) = 1 /\ Len(q) + 1 \notin DOMAIN q
      BY <3>1, <1>5, <1>13
    <3>3. \A i \in DOMAIN p : i - Len(q) = 1 <=> i = Len(q) + 1
      BY <1>13
    <3>4. QED BY <2>2, <3>2, <3>3, <1>10, <1>14
  <2>3. QED BY <2>1, <2>2 DEF Says
<1>16. UpInputs(r) # {} => 1 \in DOMAIN r /\ r # <<>>
  BY <1>13 DEF Says, UpInputs
<1>17. UpInputs(p) = UpInputs(up[c])'
  BY <1>6 DEF UpInputs
<1>11. OwnTicks(c)'
  <2>1. Consecutive(q, UpInputs(q), tick[c], copy[c].ticks[c]) /\ UpInputs(q) \in SUBSET DOMAIN q
    BY <1>1, <1>4 DEF OwnTicks, UpInputs
  <2>2. copy[c].ticks[c] \in Nat
    BY <1>3
  <2>3. CASE UpInputs(r) = {} /\ copy'[c].ticks[c] = copy[c].ticks[c]
    <3>1. UpInputs(p) = UpInputs(q)
      BY <2>3, <1>10, <1>14
    <3>2. Consecutive(p, UpInputs(q), tick[c], copy[c].ticks[c])
      BY <1>2, <1>7, <2>1, <2>2, ConsecutiveMore DEF p
    <3>3. QED BY <1>2, <1>6, <1>17, <2>3, <3>1, <3>2 DEF OwnTicks, Consecutive
  <2>4. CASE /\ UpInputs(r) = {1} /\ r[1].tick = copy[c].ticks[c]
             /\ copy'[c].ticks[c] = copy[c].ticks[c] + 1
    <3>1. UpInputs(p) = UpInputs(q) \union {Len(q) + 1}
      BY <2>4, <1>15
    <3>2. r # <<>> /\ r[1].tick = copy[c].ticks[c]
      BY <2>4, <1>16
    <3>3. Consecutive(p, UpInputs(q) \union {Len(q) + 1}, tick[c], copy[c].ticks[c] + 1)
      BY <1>2, <1>7, <2>1, <2>2, <3>2, ConsecutiveMore DEF p
    <3>4. QED BY <1>2, <1>6, <1>17, <2>4, <3>1, <3>3 DEF OwnTicks, Consecutive
  <2>5. QED BY <2>3, <2>4 DEF Says
<1>12. UpInWindow(c)'
  <2> SUFFICES ASSUME NEW i \in UpInputs(p), ~p[i].hasty, NEW f \in Fields \ {c}
               PROVE  lost'[f] \/ p[i].tick + 1 < copy'[c].ticks[f] + LagMax
    BY <1>6, <1>17 DEF UpInWindow
  <2>1. /\ copy[c].ticks[f] <= copy'[c].ticks[f] /\ (lost[f] => lost'[f])
        /\ copy[c].ticks[f] \in Nat /\ copy'[c].ticks[f] \in Nat
    BY <1>3 DEF Says
  <2>2. p[i].tick \in Nat
    BY <1>5, UpMessages
  <2>3. lost[f] \/ p[i].tick + 1 < copy[c].ticks[f] + LagMax
    <3>1. CASE i \in UpInputs(q)
      <4>1. p[i] = q[i]
        BY <3>1, <1>5 DEF UpInputs
      <4>2. QED BY <3>1, <4>1, <1>1, <1>4 DEF UpInWindow
    <3>2. CASE i \notin UpInputs(q)
      <4>1. i - Len(q) \in UpInputs(r) /\ i \in DOMAIN p /\ i \notin DOMAIN q
        BY <3>2, <1>10, <1>14
      <4>2. UpInputs(r) = {1} /\ i - Len(q) = 1 /\ p[i] = r[i - Len(q)]
        BY <4>1, <1>5 DEF Says
      <4>3. p[i] = r[1]
        BY <4>2
      <4>4. QED BY <4>2, <4>3 DEF Says
    <3>3. QED BY <3>1, <3>2
  <2>4. p[i].tick + 1 < copy[c].ticks[f] + LagMax => p[i].tick + 1 < copy'[c].ticks[f] + LagMax
    <3>1. copy[c].ticks[f] <= copy'[c].ticks[f] /\ copy[c].ticks[f] \in Nat /\ copy'[c].ticks[f] \in Nat
      BY <2>1
    <3>2. \A x, t, u \in Nat : t <= u /\ x + 1 < t + LagMax => x + 1 < u + LagMax
      BY LagAssumption
    <3>3. QED BY <3>1, <3>2, <2>2, Zenon
  <2>5. QED BY <2>1, <2>3, <2>4, Zenon
<1>18. QED BY <1>9, <1>11, <1>12 DEF Sends

(* The server applies the next message of the client.                      *)
IsHeard(c, q) ==
  /\ q = up[c] /\ q # <<>> /\ up'[c] = Tail(q)
  /\ log'[c] \in Seq(Entry) /\ copy'[c] = copy[c]
  /\ log'[c] = Append(log[c], UpEntry(q[1]))
  /\ tick'[c] = IF q[1].type = "INPUT" THEN tick[c] + 1 ELSE tick[c]
  /\ \A f \in Fields \ {c} : lost[f] => lost'[f]

(* What is left is what the server will hear, and it was next.             *)
LEMMA HeardSends ==
  ASSUME LockInv, NEW c \in Fields, Sending(c), NEW q \in Seq(UpMessage), IsHeard(c, q)
  PROVE  Sends(c)' /\ (q[1].type = "INPUT" => q[1].tick = tick[c])
<1>2. /\ copy[c] \in Copy /\ log[c] \in Seq(Entry) /\ log'[c] \in Seq(Entry) /\ tick[c] \in Nat
      /\ q = up[c] /\ q # <<>> /\ up'[c] = Tail(q) /\ copy'[c] = copy[c]
      /\ log'[c] = Append(log[c], UpEntry(q[1]))
  BY DEF LockInv, LockstepTypeOK, TypeOK, IsHeard
<1>3. copy[c].ticks \in [Fields -> Nat] /\ copy[c].log[c] \in Seq(Entry)
  BY <1>2 DEF Copy
<1>4. OwnLog(c) /\ OwnTicks(c) /\ UpInWindow(c)
  BY DEF LockInv, UpInv
<1> DEFINE p == Tail(q)
<1>5. /\ p \in Seq(UpMessage) /\ Len(p) = Len(q) - 1 /\ 1 \in DOMAIN q
      /\ \A i \in DOMAIN p : i + 1 \in DOMAIN q /\ p[i] = q[i + 1]
      /\ \A i \in DOMAIN q : i = 1 \/ (i - 1 \in DOMAIN p /\ p[i - 1] = q[i])
  BY <1>2, HeadRead
<1>6. up'[c] = p
  BY <1>2
<1>7. /\ DOMAIN p \in SUBSET (Nat \ {0}) /\ DOMAIN q = 1..Len(q) /\ DOMAIN p = 1..Len(p)
      /\ Len(q) \in Nat /\ Len(p) \in Nat
  BY <1>2
<1> HIDE DEF p
<1>8. /\ UpLog(q) \in Seq(Entry) /\ Len(UpLog(q)) = Len(q)
      /\ UpLog(p) \in Seq(Entry) /\ Len(UpLog(p)) = Len(p)
      /\ \A i \in DOMAIN q : UpLog(q)[i] = UpEntry(q[i])
      /\ \A i \in DOMAIN p : UpLog(p)[i] = UpEntry(p[i])
      /\ \A i \in UpInputs(q) : i \in DOMAIN q /\ q[i].tick \in Nat
  BY <1>2, <1>5, UpMessages
<1>9. OwnLog(c)'
  <2> DEFINE l == log[c]
             k == log'[c]
             s == copy[c].log[c]
             x == UpLog(q)
             y == UpLog(p)
             e == UpEntry(q[1])
  <2>1. s = l \o x
    BY <1>2, <1>4 DEF OwnLog, UpLog
  <2>2. /\ s \in Seq(Entry) /\ l \in Seq(Entry) /\ k \in Seq(Entry) /\ x \in Seq(Entry)
        /\ y \in Seq(Entry) /\ k = Append(l, e)
    BY <1>2, <1>3, <1>8
  <2>3. x[1] = e /\ Len(y) = Len(x) - 1
    BY <1>5, <1>8
  <2>4. ASSUME NEW i \in 1..Len(y) PROVE y[i] = x[i + 1]
    <3>1. i \in DOMAIN p /\ i + 1 \in DOMAIN q /\ p[i] = q[i + 1]
      BY <1>5, <1>7, <1>8
    <3>2. QED BY <3>1, <1>8
  <2>5. Len(x) >= 1
    BY <1>5, <1>7, <1>8
  <2> HIDE DEF l, k, s, x, y, e
  <2>6. Joins(s, l, x)
    BY <2>1, <2>2, ConcatByEntry, Zenon
  <2>7. Len(k) = Len(l) + 1 /\ k[Len(l) + 1] = e /\ \A i \in 1..Len(l) : k[i] = l[i]
    BY <2>2
  <2>8. Joins(s, k, y)
    <3>1. Len(s) = Len(k) + Len(y)
      BY <2>2, <2>3, <2>5, <2>6, <2>7 DEF Joins
    <3>2. ASSUME NEW i \in 1..Len(k) PROVE s[i] = k[i]
      <4>1. CASE i \in 1..Len(l)
        BY <4>1, <2>6, <2>7 DEF Joins
      <4>2. CASE i = Len(l) + 1
        <5>1. 1 \in 1..Len(x)
          BY <2>2, <2>5
        <5>2. s[Len(l) + 1] = x[1]
          BY <5>1, <2>6 DEF Joins
        <5>3. QED BY <4>2, <5>2, <2>3, <2>7
      <4>3. QED BY <4>1, <4>2, <2>2, <2>7
    <3>3. ASSUME NEW i \in 1..Len(y) PROVE s[Len(k) + i] = y[i]
      <4>1. i + 1 \in 1..Len(x) /\ Len(l) + (i + 1) = Len(k) + i
        BY <2>2, <2>3, <2>5, <2>7
      <4>2. s[Len(l) + (i + 1)] = x[i + 1]
        BY <4>1, <2>6 DEF Joins
      <4>3. QED BY <4>1, <4>2, <2>4
    <3>4. QED BY <3>1, <3>2, <3>3 DEF Joins
  <2>9. s = k \o y
    <3>1. s \in Seq(Entry) /\ k \in Seq(Entry) /\ y \in Seq(Entry)
      BY <2>2
    <3>2. QED BY <3>1, <2>8, ConcatByEntry, Zenon
  <2>10. y = [i \in DOMAIN up[c] |-> UpEntry(up[c][i])]'
    BY <1>6 DEF y, UpLog, UpEntry, Key, Drop
  <2>11. QED BY <1>2, <2>9, <2>10 DEF OwnLog, s, k
<1>10. UpInputs(p) = Shifted(UpInputs(q)) /\ UpInputs(p) = UpInputs(up[c])'
  <2>1. \A i \in Nat \ {0} : i + 1 \in DOMAIN q => i \in DOMAIN p
    BY <1>5, <1>7
  <2>2. UpInputs(p) = Shifted(UpInputs(q))
    BY <1>5, <1>7, <2>1 DEF UpInputs, Shifted
  <2>3. QED BY <2>2, <1>6 DEF UpInputs
<1>11. OwnTicks(c)' /\ (q[1].type = "INPUT" => q[1].tick = tick[c])
  <2>1. Consecutive(q, UpInputs(q), tick[c], copy[c].ticks[c]) /\ UpInputs(q) \in SUBSET DOMAIN q
    BY <1>2, <1>4 DEF OwnTicks, UpInputs
  <2>2. copy[c].ticks[c] \in Nat
    BY <1>3
  <2>3. 1 \in UpInputs(q) <=> q[1].type = "INPUT"
    BY <1>5 DEF UpInputs
  <2>4. /\ 1 \in UpInputs(q) => /\ q[1].tick = tick[c]
                                /\ Consecutive(p, UpInputs(p), tick[c] + 1, copy[c].ticks[c])
        /\ 1 \notin UpInputs(q) => Consecutive(p, UpInputs(p), tick[c], copy[c].ticks[c])
    <3>1. Shifted(UpInputs(q)) = UpInputs(p) /\ p = Tail(q) /\ copy[c].ticks[c] \in Nat
      BY <1>10, <2>2 DEF p
    <3>2. /\ 1 \in UpInputs(q) => /\ q[1].tick = tick[c]
                                  /\ Consecutive(Tail(q), Shifted(UpInputs(q)), tick[c] + 1, copy[c].ticks[c])
          /\ 1 \notin UpInputs(q) =>
                Consecutive(Tail(q), Shifted(UpInputs(q)), tick[c], copy[c].ticks[c])
      BY <1>2, <1>8, <2>1, <2>2, ConsecutiveRead
    <3>3. QED BY <3>1, <3>2
  <2>5. Consecutive(p, UpInputs(p), tick'[c], copy[c].ticks[c])
    BY <2>3, <2>4 DEF IsHeard
  <2>6. QED BY <1>2, <1>6, <1>10, <2>3, <2>4, <2>5 DEF OwnTicks, Consecutive
<1>12. UpInWindow(c)'
  <2> SUFFICES ASSUME NEW i \in UpInputs(p), ~p[i].hasty, NEW f \in Fields \ {c}
               PROVE  lost'[f] \/ p[i].tick + 1 < copy[c].ticks[f] + LagMax
    BY <1>2, <1>6, <1>10 DEF UpInWindow
  <2>1. i + 1 \in UpInputs(q) /\ p[i] = q[i + 1]
    BY <1>5, <1>10 DEF UpInputs, Shifted
  <2>2. lost[f] \/ p[i].tick + 1 < copy[c].ticks[f] + LagMax
    BY <2>1, <1>2, <1>4 DEF UpInWindow
  <2>3. QED BY <2>2 DEF IsHeard
<1>13. QED BY <1>9, <1>11, <1>12 DEF Sends

-----------------------------------------------------------------------------
(* What the server's step of a field tells the clients.                    *)

(* Once it has read what is on its way, a client knows as much as the      *)
(* server.                                                                 *)
LEMMA KnowsAll ==
  ASSUME LockInv, phase = "GAME", NEW c \in Following, NEW f \in Fields
  PROVE  /\ \A t \in 0..tick[f] : WillReach(c, Len(down[c]) + 1, f, t)
         /\ lost[f] => WillBeLost(c, Len(down[c]) + 1, f)
<1>1. /\ c \in Fields /\ copy[c] \in Copy /\ tick[f] \in Nat /\ loseAt[f] \in Nat
      /\ Follows(c) /\ Sending(c)
  BY DEF LockInv, LockstepTypeOK, TypeOK, Following, DownInv, Follows, Sending, Served,
         ServerRefusals
<1>2. PICK q \in Seq(DownMessage) : q = down[c]
  BY <1>1 DEF LockInv, LockstepTypeOK
<1>3. copy[c].ticks[f] \in Nat
  BY <1>1 DEF Copy
<1>4. \A i \in DOMAIN q : i < Len(q) + 1
  OBVIOUS
<1>5. ASSUME NEW t \in 0..tick[f] PROVE WillReach(c, Len(q) + 1, f, t)
  <2>1. CASE f = c
    <3>1. tick[c] <= copy[c].ticks[c]
      BY <1>1 DEF LockInv, UpInv, OwnTicks, Consecutive
    <3>2. t <= copy[c].ticks[f]
      BY <2>1, <3>1, <1>1, <1>3
    <3>3. QED BY <3>2 DEF WillReach
  <2>2. CASE f # c
    <3>1. Consecutive(q, DownInputs(q, f), copy[c].ticks[f], tick[f])
      BY <1>1, <1>2, <2>2 DEF Follows, OtherTicks
    <3>2. CASE t <= copy[c].ticks[f]
      BY <3>2 DEF WillReach
    <3>3. CASE copy[c].ticks[f] < t
      <4>1. tick[f] - 1 \in copy[c].ticks[f]..(tick[f] - 1)
        BY <3>3, <1>1, <1>3
      <4>2. PICK j \in DownInputs(q, f) : q[j].tick = tick[f] - 1
        BY <3>1, <4>1 DEF Consecutive
      <4>3. t <= q[j].tick + 1 /\ j < Len(q) + 1
        BY <4>2, <1>1, <1>4 DEF DownInputs
      <4>4. QED BY <4>3, <1>2 DEF WillReach
    <3>4. QED BY <3>2, <3>3, <1>1, <1>3
  <2>3. QED BY <2>1, <2>2
<1>6. ASSUME lost[f] PROVE WillBeLost(c, Len(q) + 1, f)
  <2>1. f \notin players \/ tick[f] >= loseAt[f]
    BY <1>6 DEF LockInv, Losses
  <2>2. CASE f \notin players
    <3>1. f \in copy[c].gone \/ \E i \in DOMAIN q : q[i] = [type |-> "QUIT", fld |-> f]
      BY <1>1, <1>2, <2>2 DEF Follows, Farewells
    <3>2. QED BY <3>1, <1>2, <1>4 DEF WillBeLost
  <2>3. CASE tick[f] >= loseAt[f]
    <3>1. loseAt[f] \in 0..tick[f]
      BY <2>3, <1>1
    <3>2. QED BY <3>1, <1>5 DEF WillBeLost
  <2>4. QED BY <2>1, <2>2, <2>3
<1>7. QED BY <1>2, <1>5, <1>6

(* The sequence p is a followed by b.                                      *)
Appended(p, a, b) ==
  /\ Len(p) = Len(a) + Len(b)
  /\ \A j \in DOMAIN a : j \in DOMAIN p /\ p[j] = a[j]
  /\ \A j \in DOMAIN b : Len(a) + j \in DOMAIN p /\ p[Len(a) + j] = b[j]
  /\ \A j \in DOMAIN p : j \in DOMAIN a \/ (j - Len(a) \in DOMAIN b /\ p[j] = b[j - Len(a)])

(* A queue to which messages have been added, message by message.          *)
LEMMA Appending ==
  ASSUME NEW S, NEW a \in Seq(S), NEW b \in Seq(S)
  PROVE  a \o b \in Seq(S) /\ Appended(a \o b, a, b)
BY AddedAtEnd DEF Appended

(* Four sequences of at most one message, one after the other.             *)
Somewhere(m, r, n) == \E j \in DOMAIN r : j > n /\ r[j] = m

Parts(r, a, b, d, e) ==
  /\ Len(r) >= Len(a) /\ \A j \in DOMAIN a : j \in DOMAIN r /\ r[j] = a[j]
  /\ \A j \in DOMAIN r :
       \/ j \in DOMAIN a
       \/ j > Len(a) /\ \/ \E i \in DOMAIN b : r[j] = b[i]
                        \/ \E i \in DOMAIN d : r[j] = d[i]
                        \/ \E i \in DOMAIN e : r[j] = e[i]
  /\ \A i \in DOMAIN d : Somewhere(d[i], r, Len(a))

(* What is sent in four parts has the messages of the four.                *)
LEMMA FourParts ==
  ASSUME NEW S, NEW a \in Seq(S), NEW b \in Seq(S), NEW d \in Seq(S), NEW e \in Seq(S), NEW r,
         r = a \o b \o d \o e
  PROVE  r \in Seq(S) /\ Parts(r, a, b, d, e)
<1> DEFINE p == a \o b
           q == p \o d
<1>13. p \in Seq(S) /\ Appended(p, a, b)
  BY Appending, Zenon
<1> HIDE DEF p
<1>14. q \in Seq(S) /\ Appended(q, p, d)
  BY <1>13, Appending, Zenon
<1>5. r = q \o e
  BY DEF p
<1> HIDE DEF q
<1>15. r \in Seq(S) /\ Appended(r, q, e)
  BY <1>5, <1>14, Appending, Zenon
<1>1. /\ p \in Seq(S) /\ Len(p) = Len(a) + Len(b)
      /\ \A j \in DOMAIN a : j \in DOMAIN p /\ p[j] = a[j]
      /\ \A j \in DOMAIN p : j \in DOMAIN a \/ (j - Len(a) \in DOMAIN b /\ p[j] = b[j - Len(a)])
  BY <1>13 DEF Appended
<1>2. DOMAIN p = 1..Len(p) /\ DOMAIN a = 1..Len(a) /\ Len(a) \in Nat /\ Len(b) \in Nat
      /\ DOMAIN b = 1..Len(b)
  BY <1>1
<1>3. /\ q \in Seq(S) /\ Len(q) = Len(p) + Len(d)
      /\ \A j \in DOMAIN p : j \in DOMAIN q /\ q[j] = p[j]
      /\ \A j \in DOMAIN d : Len(p) + j \in DOMAIN q /\ q[Len(p) + j] = d[j]
      /\ \A j \in DOMAIN q : j \in DOMAIN p \/ (j - Len(p) \in DOMAIN d /\ q[j] = d[j - Len(p)])
  BY <1>14 DEF Appended
<1>4. DOMAIN q = 1..Len(q) /\ DOMAIN d = 1..Len(d) /\ Len(d) \in Nat /\ Len(p) \in Nat
  BY <1>1, <1>3
<1>6. /\ r \in Seq(S) /\ Len(r) = Len(q) + Len(e)
      /\ \A j \in DOMAIN q : j \in DOMAIN r /\ r[j] = q[j]
      /\ \A j \in DOMAIN r : j \in DOMAIN q \/ (j - Len(q) \in DOMAIN e /\ r[j] = e[j - Len(q)])
  BY <1>15 DEF Appended
<1>7. DOMAIN r = 1..Len(r) /\ DOMAIN e = 1..Len(e) /\ Len(e) \in Nat /\ Len(q) \in Nat
  BY <1>3, <1>6
<1>8. \A j \in DOMAIN a : j \in DOMAIN r /\ r[j] = a[j]
  BY <1>1, <1>3, <1>6
<1>9. ASSUME NEW j \in DOMAIN r, j \notin DOMAIN a
      PROVE  j > Len(a) /\ \/ \E i \in DOMAIN b : r[j] = b[i]
                           \/ \E i \in DOMAIN d : r[j] = d[i]
                           \/ \E i \in DOMAIN e : r[j] = e[i]
  <2>1. j > Len(a)
    BY <1>2, <1>7, <1>9
  <2>2. CASE j \notin DOMAIN q
    BY <2>1, <2>2, <1>6
  <2>3. CASE j \in DOMAIN q /\ j \notin DOMAIN p
    BY <2>1, <2>3, <1>3, <1>6
  <2>4. CASE j \in DOMAIN p
    <3>1. r[j] = p[j] /\ p[j] = b[j - Len(a)] /\ j - Len(a) \in DOMAIN b
      BY <2>4, <1>1, <1>3, <1>6, <1>9
    <3>2. QED BY <2>1, <3>1
  <2>5. QED BY <2>2, <2>3, <2>4, <1>3
<1>10. ASSUME NEW i \in DOMAIN d PROVE Somewhere(d[i], r, Len(a))
  <2>1. Len(p) + i \in DOMAIN r /\ r[Len(p) + i] = d[i]
    BY <1>3, <1>6
  <2>2. Len(p) + i > Len(a)
    BY <1>1, <1>2, <1>4
  <2>3. QED BY <2>1, <2>2 DEF Somewhere
<1>11. Len(r) >= Len(a)
  BY <1>1, <1>2, <1>3, <1>4, <1>6, <1>7
<1>12. QED BY <1>6, <1>8, <1>9, <1>10, <1>11 DEF Parts

(* What a step of field f, with the garbages dropped by it, changes.       *)
StepWrites(f, gbs) ==
  /\ gbTo' \in Seq(Fields) /\ IsPrefix(gbTo, gbTo') /\ Len(gbTo') = Len(gbTo) + Len(gbs)
  /\ gbs = <<>> \/ (gbs = <<Len(gbTo) + 1>> /\ gbTo' = Append(gbTo, f))
  /\ wait' \in [Fields -> Seq(Nat)] /\ log' \in [Fields -> Seq(Entry)]
  /\ \A g \in Fields \ {f} : log'[g] = log[g]
  /\ \/ (f \in remote \/ gbs = <<>>) /\ log'[f] = Append(log[f], Key(tick[f]))
     \/ /\ f \notin remote /\ gbs # <<>>
        /\ log'[f] = Append(Append(log[f], Key(tick[f])), Drop(Len(gbTo) + 1))

(* What the server writes of a step (onGarbageDrop).                       *)
LEMMA DropOrWaitWrites ==
  ASSUME LockInv, NEW f \in Fields, NEW gbs \in NextDrop(f), DropOrWait(f, gbs)
  PROVE  StepWrites(f, gbs)
<1>1. /\ log \in [Fields -> Seq(Entry)] /\ wait \in [Fields -> Seq(Nat)] /\ gbTo \in Seq(Fields)
      /\ tick[f] \in Nat /\ Key(tick[f]) \in Entry
  BY DEF LockInv, LockstepTypeOK, TypeOK, Entry, Key
<1> DEFINE k == Len(gbTo) + 1
           s == Append(log[f], Key(tick[f]))
<1>2. s \in Seq(Entry) /\ k \in Nat /\ Drop(k) \in Entry
  BY <1>1 DEF Entry, Drop
<1>3. gbs = <<>> \/ gbs = <<k>>
  BY DEF NextDrop
<1>4. gbTo' = gbTo \o [i \in DOMAIN gbs |-> f]
  BY DEF DropOrWait
<1> HIDE DEF s, k
<1>5. CASE gbs = <<>>
  <2>1. [i \in DOMAIN gbs |-> f] = <<>> /\ [i \in DOMAIN gbs |-> Drop(gbs[i])] = <<>>
    BY <1>5
  <2>2. gbTo' = gbTo
    BY <1>1, <1>4, <2>1
  <2>3. /\ log' = [log EXCEPT ![f] = s] \/ log' = [log EXCEPT ![f] = s \o <<>>]
        /\ wait' = [wait EXCEPT ![f] = @ \o gbs] \/ wait' = wait
    BY <2>1 DEF DropOrWait, s
  <2>4. s \o <<>> = s /\ wait[f] \o <<>> = wait[f]
    BY <1>1, <1>2
  <2>5. log' = [log EXCEPT ![f] = s] /\ wait' = wait
    BY <1>1, <1>5, <2>3, <2>4
  <2>6. IsPrefix(gbTo, gbTo') /\ Len(gbTo') = Len(gbTo) + Len(gbs)
    BY <1>1, <1>5, <2>2, PrefixByEntry
  <2>7. log' \in [Fields -> Seq(Entry)] /\ log'[f] = s /\ \A g \in Fields \ {f} : log'[g] = log[g]
    BY <1>1, <1>2, <2>5
  <2>8. gbTo' \in Seq(Fields) /\ wait' \in [Fields -> Seq(Nat)]
    BY <1>1, <2>2, <2>5
  <2>9. (f \in remote \/ gbs = <<>>) /\ log'[f] = Append(log[f], Key(tick[f]))
    BY <1>5, <2>7 DEF s
  <2>10. QED BY <1>5, <2>6, <2>7, <2>8, <2>9 DEF StepWrites
<1>6. CASE gbs = <<k>>
  <2>1. [i \in DOMAIN gbs |-> f] = <<f>> /\ [i \in DOMAIN gbs |-> Drop(gbs[i])] = <<Drop(k)>>
    BY <1>6
  <2>2. gbTo' = Append(gbTo, f)
    BY <1>1, <1>4, <2>1
  <2>3. gbTo' \in Seq(Fields) /\ IsPrefix(gbTo, gbTo') /\ Len(gbTo') = Len(gbTo) + Len(gbs)
    <3>1. gbTo' \in Seq(Fields) /\ Len(gbTo') = Len(gbTo) + 1 /\ \A i \in 1..Len(gbTo) : gbTo'[i] = gbTo[i]
      BY <1>1, <2>2
    <3>2. Len(gbTo) <= Len(gbTo')
      BY <1>1, <3>1
    <3>3. IsPrefix(gbTo, gbTo')
      BY <1>1, <3>1, <3>2, PrefixByEntry, Zenon
    <3>4. QED BY <1>6, <3>1, <3>3
  <2>4. wait' \in [Fields -> Seq(Nat)]
    <3>1. wait' = wait \/ wait' = [wait EXCEPT ![f] = @ \o gbs]
      BY DEF DropOrWait
    <3>2. wait[f] \o gbs \in Seq(Nat)
      BY <1>1, <1>2, <1>6
    <3>3. QED BY <1>1, <3>1, <3>2
  <2>5. CASE f \in remote
    <3>1. log' = [log EXCEPT ![f] = s]
      BY <2>5 DEF DropOrWait, s
    <3>2. log' \in [Fields -> Seq(Entry)] /\ log'[f] = s /\ \A g \in Fields \ {f} : log'[g] = log[g]
      BY <1>1, <1>2, <3>1
    <3>3. QED BY <1>6, <2>2, <2>3, <2>4, <2>5, <3>2 DEF StepWrites, s, k
  <2>6. CASE f \notin remote
    <3>1. log' = [log EXCEPT ![f] = s \o <<Drop(k)>>]
      BY <2>1, <2>6 DEF DropOrWait, s
    <3>2. s \o <<Drop(k)>> = Append(s, Drop(k)) /\ Append(s, Drop(k)) \in Seq(Entry)
      BY <1>2
    <3>3. /\ log' \in [Fields -> Seq(Entry)] /\ log'[f] = Append(s, Drop(k))
          /\ \A g \in Fields \ {f} : log'[g] = log[g]
      BY <1>1, <3>1, <3>2
    <3>4. gbs # <<>>
      BY <1>6
    <3>5. QED BY <1>6, <2>2, <2>3, <2>4, <2>6, <3>3, <3>4 DEF StepWrites, s, k
  <2>7. QED BY <2>5, <2>6
<1>7. QED BY <1>3, <1>5, <1>6

(* And what it tells.                                                      *)
Relay(f) == [type |-> "INPUT", fld |-> f, tick |-> tick[f], hasty |-> Above(matchTick, tick, lost)]
Inputs(c, f) == IF c = f THEN <<>> ELSE <<Relay(f)>>
Waits(gbs) == [i \in DOMAIN gbs |-> [type |-> "WAIT", gb |-> gbs[i]]]
Drops(f, gbs) == IF f \in remote THEN <<>> ELSE [i \in DOMAIN gbs |-> [type |-> "DROP", gb |-> 0]]
Broadcast(c, f, gbs) == Inputs(c, f) \o Waits(gbs) \o Drops(f, gbs) \o IfOver

(* What a client is sent of a step of the server.                          *)
LEMMA StepBroadcasts ==
  ASSUME LockInv, NEW f \in Fields, ServerStep(f)
  PROVE  \E gbs \in NextDrop(f) :
           /\ DropOrWait(f, gbs)
           /\ \A c \in Following : down'[c] = down[c] \o Broadcast(c, f, gbs)
<1>1. PICK gbs \in NextDrop(f) :
        /\ DropOrWait(f, gbs)
        /\ Tell([c \in Fields |-> Broadcast(c, f, gbs)])
  BY DEF ServerStep, Broadcast, Inputs, Relay, Waits, Drops
<1>2. Following \subseteq Fields
  BY DEF LockInv, LockstepTypeOK, Following
<1>3. QED BY <1>1, <1>2 DEF Tell

(* The messages of a broadcast.                                            *)
LEMMA BroadcastParts ==
  ASSUME LockInv, NEW f \in Fields, NEW c \in Fields, NEW gbs \in NextDrop(f), NEW r,
         r = Broadcast(c, f, gbs)
  PROVE  /\ r \in Seq(DownMessage)
         /\ c # f => r # <<>> /\ r[1] = Relay(f)
         /\ \A j \in DOMAIN r :
              \/ c # f /\ j = 1 /\ r[j] = Relay(f)
              \/ /\ c # f => j > 1
                 /\ \/ r[j] = [type |-> "WAIT", gb |-> Len(gbTo) + 1] /\ gbs # <<>>
                    \/ r[j] = [type |-> "DROP", gb |-> 0] /\ f \notin remote /\ gbs # <<>>
                    \/ r[j] = [type |-> "LOBBY"] /\ phase' = "LOBBY"
         /\ f \notin remote /\ gbs # <<>> =>
              \E j \in DOMAIN r : r[j] = [type |-> "DROP", gb |-> 0]
<1> DEFINE a == Inputs(c, f)
           b == Waits(gbs)
           d == Drops(f, gbs)
           e == IfOver
           M == DownMessage
<1>1. /\ Relay(f) \in M /\ [type |-> "LOBBY"] \in M
      /\ [type |-> "DROP", gb |-> 0] \in M /\ [type |-> "WAIT", gb |-> Len(gbTo) + 1] \in M
  <2>1. tick[f] \in Nat /\ gbTo \in Seq(Fields)
    BY DEF LockInv, LockstepTypeOK, TypeOK
  <2>2. Above(matchTick, tick, lost) \in BOOLEAN
    BY DEF Above
  <2>3. Relay(f) \in M
    BY <2>1, <2>2 DEF Relay, DownMessage
  <2>4. [type |-> "LOBBY"] \in M
    BY DEF DownMessage
  <2>5. [type |-> "DROP", gb |-> 0] \in M
    BY DEF DownMessage
  <2>6. Len(gbTo) + 1 \in Nat
    BY <2>1
  <2>7. [type |-> "WAIT", gb |-> Len(gbTo) + 1] \in M
    BY <2>6 DEF DownMessage
  <2>8. QED BY <2>3, <2>4, <2>5, <2>7
<1>2. gbs = <<>> \/ gbs = <<Len(gbTo) + 1>>
  BY DEF NextDrop
<1>3. /\ a \in Seq(M) /\ Len(a) = (IF c = f THEN 0 ELSE 1)
      /\ \A i \in DOMAIN a : i = 1 /\ c # f /\ a[i] = Relay(f)
      /\ c # f => 1 \in DOMAIN a
  BY <1>1 DEF Inputs
<1>4. /\ b \in Seq(M)
      /\ \A i \in DOMAIN b : b[i] = [type |-> "WAIT", gb |-> Len(gbTo) + 1] /\ gbs # <<>>
  <2>1. CASE gbs = <<>>
    <3>1. b = <<>>
      BY <2>1 DEF Waits
    <3>2. QED BY <3>1
  <2>2. CASE gbs = <<Len(gbTo) + 1>>
    <3>1. b = <<[type |-> "WAIT", gb |-> Len(gbTo) + 1]>>
      BY <2>2 DEF Waits
    <3>2. gbs # <<>>
      BY <2>2
    <3>3. QED BY <3>1, <3>2, <1>1
  <2>3. QED BY <2>1, <2>2, <1>2
<1>5. /\ d \in Seq(M)
      /\ \A i \in DOMAIN d : d[i] = [type |-> "DROP", gb |-> 0] /\ f \notin remote /\ gbs # <<>>
      /\ f \notin remote /\ gbs # <<>> => 1 \in DOMAIN d
  BY <1>1, <1>2 DEF Drops
<1>6. e \in Seq(M) /\ \A i \in DOMAIN e : e[i] = [type |-> "LOBBY"] /\ phase' = "LOBBY"
  BY <1>1 DEF IfOver
<1>7. r = a \o b \o d \o e
  BY DEF Broadcast
<1> HIDE DEF a, b, d, e, M
<1>8. r \in Seq(M) /\ Parts(r, a, b, d, e)
  <2>1. a \in Seq(M) /\ b \in Seq(M) /\ d \in Seq(M) /\ e \in Seq(M)
    BY <1>3, <1>4, <1>5, <1>6
  <2>2. QED BY <2>1, <1>7, FourParts, Zenon
<1>9. c # f => r # <<>> /\ r[1] = Relay(f)
  BY <1>3, <1>8 DEF Parts
<1>10. ASSUME NEW j \in DOMAIN r
       PROVE  \/ c # f /\ j = 1 /\ r[j] = Relay(f)
              \/ /\ c # f => j > 1
                 /\ \/ r[j] = [type |-> "WAIT", gb |-> Len(gbTo) + 1] /\ gbs # <<>>
                    \/ r[j] = [type |-> "DROP", gb |-> 0] /\ f \notin remote /\ gbs # <<>>
                    \/ r[j] = [type |-> "LOBBY"] /\ phase' = "LOBBY"
  BY <1>3, <1>4, <1>5, <1>6, <1>8 DEF Parts
<1>11. f \notin remote /\ gbs # <<>> => \E j \in DOMAIN r : r[j] = [type |-> "DROP", gb |-> 0]
  BY <1>5, <1>8 DEF Parts, Somewhere
<1>12. QED BY <1>8, <1>9, <1>10, <1>11 DEF M

(* A client is told of a step of the server as the invariant wants it.     *)
LEMMA StepTold ==
  ASSUME LockInv, NEW f \in Fields, ServerStep(f), UNCHANGED <<remote, loseAt, copy>>,
         NEW c \in Following
  PROVE  \E r : Told(c, r)
<1>1. PICK gbs \in NextDrop(f) : DropOrWait(f, gbs) /\ down'[c] = down[c] \o Broadcast(c, f, gbs)
  BY StepBroadcasts
<1>2. StepWrites(f, gbs)
  BY <1>1, DropOrWaitWrites
<1>3. /\ c \in Fields /\ tick \in [Fields -> Nat] /\ log \in [Fields -> Seq(Entry)]
      /\ gbTo \in Seq(Fields) /\ matchTick \in Nat
  BY DEF LockInv, LockstepTypeOK, TypeOK, Following
<1>4. /\ phase = "GAME" /\ f \in players /\ tick[f] + 1 < matchTick + LagMax
      /\ tick' = [tick EXCEPT ![f] = @ + 1] /\ players' = players
  BY DEF ServerStep, StepField, MayStep
<1>18. PICK r : r = Broadcast(c, f, gbs)
  OBVIOUS
<1>5. /\ r \in Seq(DownMessage)
      /\ c # f => r # <<>> /\ r[1] = Relay(f)
      /\ \A j \in DOMAIN r :
           \/ c # f /\ j = 1 /\ r[j] = Relay(f)
           \/ /\ c # f => j > 1
              /\ \/ r[j] = [type |-> "WAIT", gb |-> Len(gbTo) + 1] /\ gbs # <<>>
                 \/ r[j] = [type |-> "DROP", gb |-> 0] /\ f \notin remote /\ gbs # <<>>
                 \/ r[j] = [type |-> "LOBBY"] /\ phase' = "LOBBY"
      /\ f \notin remote /\ gbs # <<>> => \E j \in DOMAIN r : r[j] = [type |-> "DROP", gb |-> 0]
  BY <1>3, <1>18, BroadcastParts
<1>6. down'[c] = down[c] \o r
  BY <1>1, <1>18
<1>7. Relay(f).type = "INPUT" /\ Relay(f).fld = f /\ Relay(f).tick = tick[f]
      /\ Relay(f).hasty = Above(matchTick, tick, lost)
  BY DEF Relay
<1>8. \A j \in DOMAIN r :
        /\ r[j].type \in {"INPUT", "WAIT", "DROP", "LOBBY"}
        /\ r[j].type = "INPUT" => j = 1 /\ c # f /\ r[j] = Relay(f)
        /\ r[j].type = "DROP" => r[j].gb = 0 /\ ~(c # f /\ j = 1)
        /\ r[j].type = "LOBBY" => phase' = "LOBBY" /\ ~(c # f /\ j = 1)
  BY <1>5, <1>7
<1>9. ASSUME NEW g \in Fields \ {c} PROVE FieldTold(g, r)
  <2>1. 0 \notin DOMAIN gbTo'
    BY <1>2 DEF StepWrites
  <2>2. \A j \in DOMAIN r : About(r[j], g)' <=> r[j].type = "INPUT" /\ g = f
    BY <1>7, <1>8, <2>1 DEF About
  <2>3. log'[g] \in Seq(Entry) /\ log[g] \in Seq(Entry)
    BY <1>2, <1>3 DEF StepWrites
  <2>4. CASE g # f
    <3>1. log'[g] = log[g] /\ tick'[g] = tick[g]
      BY <1>2, <1>3, <1>4, <2>4 DEF StepWrites
    <3>2. \A j \in DOMAIN r : ~About(r[j], g)'
      BY <2>2, <2>4
    <3>3. DownInputs(r, g) = {}
      BY <1>7, <1>8, <2>4 DEF DownInputs
    <3>4. IsPrefix(log[g], log'[g])
      BY <2>3, <3>1, PrefixByEntry
    <3>5. QED BY <2>3, <3>1, <3>2, <3>3, <3>4 DEF FieldTold
  <2>5. CASE g = f
    <3>1. r # <<>> /\ r[1] = Relay(f) /\ 1 \in DOMAIN r
      BY <1>5, <2>5
    <3>2. About(r[1], g)' /\ ~Nameless(r[1]) /\ \A j \in DOMAIN r : j # 1 => ~About(r[j], g)'
      BY <1>7, <1>8, <2>2, <2>5, <3>1 DEF Nameless
    <3>3. DownInputs(r, g) = {1} /\ r[1].tick = tick[g]
      BY <1>7, <1>8, <2>5, <3>1 DEF DownInputs
    <3>4. tick'[g] = tick[g] + 1
      BY <1>3, <1>4, <2>5
    <3>5. UpEntry(r[1]) = Key(tick[g])
      BY <1>7, <2>5, <3>1 DEF UpEntry
    <3>6. Key(tick[g]) \in Entry /\ Drop(Len(gbTo) + 1) \in Entry
      <4>1. tick[g] \in Nat /\ Len(gbTo) + 1 \in Nat
        BY <1>3
      <4>2. QED BY <4>1 DEF Entry, Key, Drop
    <3>7. /\ Len(log'[g]) > Len(log[g]) /\ log'[g][Len(log[g]) + 1] = Key(tick[g])
          /\ \A i \in 1..Len(log[g]) : log'[g][i] = log[g][i]
          /\ Len(log'[g]) = Len(log[g]) + 1 \/ (f \notin remote /\ gbs # <<>>)
      <4>1. CASE log'[g] = Append(log[g], Key(tick[g]))
        BY <4>1, <2>3, <3>6
      <4>2. CASE /\ log'[g] = Append(Append(log[g], Key(tick[g])), Drop(Len(gbTo) + 1))
                 /\ f \notin remote /\ gbs # <<>>
        BY <4>2, <2>3, <3>6
      <4>3. QED BY <1>2, <2>5, <4>1, <4>2 DEF StepWrites
    <3>8. IsPrefix(log[g], log'[g])
      <4>1. Len(log[g]) <= Len(log'[g])
        BY <2>3, <3>7
      <4>2. QED BY <2>3, <3>7, <4>1, PrefixByEntry, Zenon
    <3>9. f \notin remote /\ gbs # <<>> => \E j \in DOMAIN r : Nameless(r[j])
      BY <1>5 DEF Nameless
    <3>10. QED BY <2>3, <2>5, <3>1, <3>2, <3>3, <3>4, <3>5, <3>7, <3>8, <3>9 DEF FieldTold
  <2>6. QED BY <2>4, <2>5
<1>10. ASSUME r # <<>>, r[1].type = "INPUT", ~r[1].hasty
       PROVE  InWindowAt(c, Len(down[c]) + 1, r[1])
  <2>1. 1 \in DOMAIN r
    BY <1>5, <1>10
  <2>2. r[1] = Relay(f)
    BY <1>8, <1>10, <2>1
  <2>3. \A g \in Fields : lost[g] \/ ~(tick[g] < matchTick)
    BY <1>7, <1>10, <2>2 DEF Above
  <2>4. ASSUME NEW g \in Fields
        PROVE  \/ WillBeLost(c, Len(down[c]) + 1, g)
               \/ \E t \in Nat : WillReach(c, Len(down[c]) + 1, g, t) /\ r[1].tick + 1 < t + LagMax
    <3>1. CASE lost[g]
      BY <3>1, <1>4, KnowsAll
    <3>2. CASE ~lost[g]
      <4>1. tick[g] \in 0..tick[g] /\ tick[g] \in Nat
        BY <1>3
      <4>2. WillReach(c, Len(down[c]) + 1, g, tick[g])
        BY <1>4, <4>1, KnowsAll
      <4>3. tick[g] >= matchTick
        BY <1>3, <2>3, <3>2, <4>1
      <4>4. r[1].tick + 1 < tick[g] + LagMax
        <5>1. \A x, y, z \in Nat : x + 1 < y + LagMax /\ z >= y => x + 1 < z + LagMax
          BY LagAssumption
        <5>2. r[1].tick = tick[f] /\ tick[f] \in Nat
          BY <1>3, <1>7, <2>2
        <5>3. QED BY <1>3, <1>4, <4>1, <4>3, <5>1, <5>2
      <4>5. QED BY <4>1, <4>2, <4>4
    <3>3. QED BY <3>1, <3>2
  <2>5. QED BY <2>4 DEF InWindowAt
<1>11. \A j \in DOMAIN r : r[j].type # "GAME" /\ (r[j].type = "LOBBY" => phase' # "GAME")
  BY <1>8
<1>12. \A i, j \in DOMAIN r : r[i].type = "LOBBY" /\ r[j].type = "INPUT" => j < i
  <2>1. \A i \in DOMAIN r : i \in Nat /\ i >= 1
    BY <1>5
  <2>2. QED BY <1>8, <2>1
<1>13. \A j \in DOMAIN r : r[j].type = "INPUT" => j = 1
  BY <1>8
<1>14. IsPrefix(gbTo, gbTo') /\ gbTo' \in Seq(Fields)
  BY <1>2 DEF StepWrites
<1>15. copy'[c] = copy[c] /\ remote' = remote /\ loseAt' = loseAt
  OBVIOUS
<1>19. \A j \in DOMAIN r : GoodDown(r[j], c)'
  <2>1. ASSUME gbs # <<>> PROVE Len(gbTo) + 1 \in DOMAIN gbTo' /\ gbTo' # <<>>
    <3>1. gbs = <<Len(gbTo) + 1>> /\ Len(gbTo') = Len(gbTo) + Len(gbs) /\ gbTo' \in Seq(Fields)
      BY <1>2, <2>1 DEF StepWrites
    <3>2. Len(gbTo') = Len(gbTo) + 1 /\ Len(gbTo) \in Nat
      BY <1>3, <3>1
    <3>3. Len(gbTo) + 1 \in DOMAIN gbTo'
      BY <3>1, <3>2
    <3>4. gbTo' # <<>>
      BY <3>3
    <3>5. QED BY <3>3, <3>4
  <2>2. 0 \in 0..Len(gbTo')
    BY <1>14
  <2>3. QED BY <1>5, <1>7, <2>1, <2>2 DEF GoodDown
<1>16. Told(c, r)
  BY <1>4, <1>5, <1>6, <1>9, <1>10, <1>11, <1>12, <1>13, <1>14, <1>15, <1>19 DEF Told, Hears
<1>17. QED BY <1>16

(* What the drop of a garbage tells, in processPktGarbageState.            *)
LEMMA DropTold ==
  ASSUME LockInv, phase = "GAME", NEW c \in Fields, NEW m \in UpMessage, m.type = "DROP",
         GoodUp(m, c), log' = [log EXCEPT ![c] = Append(@, Drop(m.gb))],
         UNCHANGED <<matchVars, gbTo, copy, remote, loseAt>>,
         NEW d \in Following, down'[d] = down[d] \o <<m>>
  PROVE  Told(d, <<m>>)
<1>1. /\ d \in Fields /\ log \in [Fields -> Seq(Entry)] /\ gbTo \in Seq(Fields)
      /\ tick' = tick /\ players' = players /\ phase' = phase /\ gbTo' = gbTo
      /\ remote' = remote /\ loseAt' = loseAt /\ copy' = copy
  BY DEF LockInv, LockstepTypeOK, TypeOK, Following, matchVars, vars
<1>2. m.gb \in DOMAIN gbTo /\ gbTo[m.gb] = c /\ m.gb \in Nat /\ m.gb # 0
  BY <1>1 DEF GoodUp
<1>3. m \in DownMessage
  BY <1>2 DEF DownMessage, UpMessage
<1> DEFINE r == <<m>>
<1>4. r \in Seq(DownMessage) /\ DOMAIN r = {1} /\ r[1] = m /\ r # <<>>
  BY <1>3
<1> HIDE DEF r
<1>5. ASSUME NEW f \in Fields \ {d} PROVE FieldTold(f, r)
  <2>1. \A j \in DOMAIN r : About(r[j], f)' <=> f = c
    BY <1>1, <1>2, <1>4 DEF About
  <2>2. DownInputs(r, f) = {}
    BY <1>4 DEF DownInputs
  <2>3. Drop(m.gb) \in Entry /\ UpEntry(m) = Drop(m.gb) /\ ~Nameless(m)
    BY <1>2 DEF Entry, Drop, UpEntry, Nameless
  <2>4. /\ log'[f] \in Seq(Entry) /\ log[f] \in Seq(Entry)
        /\ f # c => log'[f] = log[f]
        /\ f = c => log'[f] = Append(log[f], Drop(m.gb))
    BY <1>1, <2>3
  <2>5. CASE f # c
    <3>1. IsPrefix(log[f], log'[f])
      BY <2>4, <2>5, PrefixByEntry
    <3>2. QED BY <1>1, <2>1, <2>2, <2>4, <2>5, <3>1 DEF FieldTold
  <2>6. CASE f = c
    <3>1. /\ Len(log'[f]) = Len(log[f]) + 1 /\ Len(log'[f]) > Len(log[f])
          /\ Len(log[f]) <= Len(log'[f]) /\ log'[f][Len(log[f]) + 1] = Drop(m.gb)
          /\ \A i \in 1..Len(log[f]) : log'[f][i] = log[f][i]
      BY <2>3, <2>4, <2>6
    <3>2. IsPrefix(log[f], log'[f])
      BY <2>4, <3>1, PrefixByEntry, Zenon
    <3>3. About(r[1], f)' /\ \A j \in DOMAIN r : j # 1 => ~About(r[j], f)'
      BY <1>4, <2>1, <2>6
    <3>4. QED BY <1>1, <1>4, <2>2, <2>3, <2>4, <3>1, <3>2, <3>3 DEF FieldTold
  <2>7. QED BY <2>5, <2>6
<1>6. \A j \in DOMAIN r : r[j].type = "DROP"
  BY <1>4
<1>7. IsPrefix(gbTo, gbTo') /\ gbTo' \in Seq(Fields)
  BY <1>1, PrefixByEntry
<1>8. down'[d] = down[d] \o r
  BY DEF r
<1>9. \A f \in players \ players' : \E j \in DOMAIN r : r[j] = [type |-> "QUIT", fld |-> f]
  BY <1>1
<1>10. /\ \A i \in DOMAIN r : r[i].type # "GAME" /\ r[i].type # "LOBBY"
       /\ \A j \in DOMAIN r : r[j].type # "INPUT"
  BY <1>6
<1>13. \A j \in DOMAIN r : GoodDown(r[j], d)'
  BY <1>1, <1>2, <1>4 DEF GoodDown
<1>11. Told(d, r)
  BY <1>1, <1>4, <1>5, <1>7, <1>8, <1>9, <1>10, <1>13 DEF Told, Hears
<1>12. QED BY <1>11 DEF r

(* The player of f is removed because the connection of c has ended.       *)
Leaving(c, f) ==
  /\ c \in remote /\ Leave(f) /\ Refuse(c, "closed")
  /\ down' = Silenced(QuitTold(f), {c, f}) /\ up' = Silenced(up, {c, f})
  /\ UNCHANGED <<remote, loseAt, log, wait, gbTo, copy>>

(* What a departure tells those who stay, in removePlayer.                 *)
LEMMA LeaveTold ==
  ASSUME LockInv, NEW c, NEW f \in Fields, Leaving(c, f),
         NEW d \in Following, d \notin {c, f}
  PROVE  \E r : Told(d, r)
<1>1. /\ d \in Fields /\ log \in [Fields -> Seq(Entry)] /\ gbTo \in Seq(Fields)
      /\ tick' = tick /\ players' = players \ {f} /\ phase = "GAME"
      /\ gbTo' = gbTo /\ log' = log /\ copy' = copy /\ remote' = remote /\ loseAt' = loseAt
  BY DEF LockInv, LockstepTypeOK, TypeOK, Following, Leaving, Leave
<1> DEFINE q == [type |-> "QUIT", fld |-> f]
<1>2. down'[d] = down[d] \o (IfOver \o <<q>>)
  BY <1>1 DEF Leaving, Silenced, QuitTold
<1>3. PICK r : r = IfOver \o <<q>>
  OBVIOUS
<1>4. q \in DownMessage /\ [type |-> "LOBBY"] \in DownMessage
  BY DEF DownMessage
<1>5. q.type = "QUIT"
  OBVIOUS
<1>6. /\ r \in Seq(DownMessage) /\ r # <<>> /\ \E j \in DOMAIN r : r[j] = q
      /\ \A j \in DOMAIN r : r[j] = q \/ (r[j] = [type |-> "LOBBY"] /\ phase' = "LOBBY")
  <2> DEFINE e == IfOver
             x == <<q>>
  <2>1. /\ e \in Seq(DownMessage)
        /\ \A j \in DOMAIN e : e[j] = [type |-> "LOBBY"] /\ phase' = "LOBBY"
    BY <1>4 DEF IfOver
  <2> HIDE DEF q
  <2>2. x \in Seq(DownMessage) /\ DOMAIN x = {1} /\ x[1] = q
    BY <1>4
  <2>3. r = e \o x
    BY <1>3
  <2> HIDE DEF e, x
  <2>4. r \in Seq(DownMessage) /\ Appended(r, e, x)
    BY <2>1, <2>2, <2>3, Appending, Zenon
  <2>5. Len(e) + 1 \in DOMAIN r /\ r[Len(e) + 1] = q
    BY <2>2, <2>4 DEF Appended
  <2>6. \A j \in DOMAIN r : r[j] = q \/ (r[j] = [type |-> "LOBBY"] /\ phase' = "LOBBY")
    BY <2>1, <2>2, <2>4 DEF Appended
  <2>7. r # <<>>
    BY <2>5
  <2>8. QED BY <2>4, <2>5, <2>6, <2>7
<1>7. down'[d] = down[d] \o r
  BY <1>2, <1>3
<1>8. \A j \in DOMAIN r : r[j].type \in {"QUIT", "LOBBY"} /\ (r[j].type = "LOBBY" => phase' = "LOBBY")
  BY <1>5, <1>6
<1>9. \A g \in players \ players' : \E j \in DOMAIN r : r[j] = [type |-> "QUIT", fld |-> g]
  BY <1>1, <1>6
<1> HIDE DEF q
<1>10. ASSUME NEW g \in Fields \ {d} PROVE FieldTold(g, r)
  <2>1. \A j \in DOMAIN r : ~About(r[j], g)'
    BY <1>8 DEF About
  <2>2. DownInputs(r, g) = {}
    BY <1>8 DEF DownInputs
  <2>3. IsPrefix(log[g], log'[g]) /\ log'[g] \in Seq(Entry) /\ log'[g] = log[g]
    <3>1. log[g] \in Seq(Entry) /\ log'[g] = log[g]
      BY <1>1
    <3>2. QED BY <3>1, PrefixByEntry
  <2>4. QED BY <1>1, <2>1, <2>2, <2>3 DEF FieldTold
<1>11. IsPrefix(gbTo, gbTo') /\ gbTo' \in Seq(Fields)
  BY <1>1, PrefixByEntry
<1>12. /\ \A i \in DOMAIN r : r[i].type # "GAME" /\ (r[i].type = "LOBBY" => phase' # "GAME")
       /\ \A i \in DOMAIN r : r[i].type # "INPUT"
  BY <1>8
<1>13. /\ 1 \in DOMAIN r
       /\ r # <<>> /\ r[1].type = "INPUT" /\ ~r[1].hasty => InWindowAt(d, Len(down[d]) + 1, r[1])
  BY <1>6, <1>12
<1>16. \A j \in DOMAIN r : GoodDown(r[j], d)'
  <2>1. f \notin players'
    BY <1>1
  <2>2. q.fld = f
    BY DEF q
  <2>3. QED BY <1>5, <1>6, <2>1, <2>2 DEF GoodDown
<1>14. Told(d, r)
  BY <1>1, <1>6, <1>7, <1>9, <1>10, <1>11, <1>12, <1>13, <1>16 DEF Told, Hears
<1>15. QED BY <1>14

-----------------------------------------------------------------------------
(* The other parts of the invariant.                                       *)

(* What exists goes on existing, and who has left does not come back.      *)
LEMMA GoodKept ==
  ASSUME gbTo \in Seq(Fields), gbTo' \in Seq(Fields), IsPrefix(gbTo, gbTo'), players' \subseteq players
  PROVE  \A m, c : (GoodUp(m, c) => GoodUp(m, c)') /\ (GoodDown(m, c) => GoodDown(m, c)')
<1>1. /\ Len(gbTo) <= Len(gbTo') /\ \A i \in 1..Len(gbTo) : gbTo'[i] = gbTo[i]
      /\ Len(gbTo) \in Nat /\ Len(gbTo') \in Nat
      /\ DOMAIN gbTo = 1..Len(gbTo) /\ DOMAIN gbTo' = 1..Len(gbTo')
  BY PrefixByEntry
<1>2. \A g \in DOMAIN gbTo : g \in DOMAIN gbTo' /\ gbTo'[g] = gbTo[g]
  BY <1>1
<1>3. 0..Len(gbTo) \subseteq 0..Len(gbTo')
  BY <1>1
<1>4. gbTo # <<>> => gbTo' # <<>>
  BY <1>1
<1>5. ASSUME NEW m, NEW c, GoodUp(m, c) PROVE GoodUp(m, c)'
  BY <1>2, <1>5 DEF GoodUp
<1>6. ASSUME NEW m, NEW c, GoodDown(m, c) PROVE GoodDown(m, c)'
  BY <1>2, <1>3, <1>4, <1>6 DEF GoodDown
<1>7. QED BY <1>5, <1>6

(* The queues of the clients, when each hears something or nothing, has    *)
(* read a message, or is emptied.                                          *)
EachHears ==
  /\ gbTo' \in Seq(Fields) /\ IsPrefix(gbTo, gbTo') /\ players' \subseteq players
  /\ down' = [c \in Fields |-> down'[c]]
  /\ \A c \in Fields :
       \/ down'[c] \in {down[c], <<>>}
       \/ down[c] # <<>> /\ down'[c] = Tail(down[c])
       \/ \E r : Hears(c, r)

(* They hold good messages.                                                *)
LEMMA EachHearsGood ==
  ASSUME LockInv, EachHears
  PROVE  /\ down' \in [Fields -> Seq(DownMessage)]
         /\ \A c \in Fields : (\A i \in DOMAIN down[c] : GoodDown(down[c][i], c))'
<1>1. gbTo \in Seq(Fields) /\ down \in [Fields -> Seq(DownMessage)]
  BY DEF LockInv, LockstepTypeOK
<1>2. \A m, c : GoodDown(m, c) => GoodDown(m, c)'
  BY <1>1, GoodKept DEF EachHears
<1>3. ASSUME NEW c \in Fields
      PROVE  down'[c] \in Seq(DownMessage) /\ (\A i \in DOMAIN down[c] : GoodDown(down[c][i], c))'
  <2>1. PICK q \in Seq(DownMessage) : q = down[c]
    BY <1>1
  <2>2. \A i \in DOMAIN q : GoodDown(q[i], c)'
    BY <1>2, <2>1 DEF LockInv, GoodMessages
  <2>3. ASSUME NEW p \in Seq(DownMessage), down'[c] = p, \A i \in DOMAIN p : GoodDown(p[i], c)'
        PROVE  /\ down'[c] \in Seq(DownMessage)
               /\ (\A i \in DOMAIN down[c] : GoodDown(down[c][i], c))'
    BY <2>3 DEF GoodDown
  <2>4. CASE down'[c] = down[c]
    BY <2>1, <2>2, <2>3, <2>4
  <2>5. ASSUME NEW r, Hears(c, r)
        PROVE  /\ down'[c] \in Seq(DownMessage)
               /\ (\A i \in DOMAIN down[c] : GoodDown(down[c][i], c))'
    <3> DEFINE p == q \o r
    <3>1. r \in Seq(DownMessage) /\ down'[c] = p /\ \A j \in DOMAIN r : GoodDown(r[j], c)'
      BY <2>1, <2>5 DEF Hears
    <3>2. p \in Seq(DownMessage) /\ Appended(p, q, r)
      BY <3>1, Appending, Zenon
    <3> HIDE DEF p
    <3>3. \A i \in DOMAIN p : GoodDown(p[i], c)'
      BY <2>2, <3>1, <3>2 DEF Appended
    <3>4. QED BY <2>3, <3>1, <3>2, <3>3
  <2>6. CASE down'[c] = <<>>
    BY <2>3, <2>6
  <2>7. CASE q # <<>> /\ down'[c] = Tail(q)
    <3>1. Tail(q) \in Seq(DownMessage) /\ \A i \in DOMAIN Tail(q) : i + 1 \in DOMAIN q /\ Tail(q)[i] = q[i + 1]
      BY <2>7, HeadRead
    <3>2. \A i \in DOMAIN Tail(q) : GoodDown(Tail(q)[i], c)'
      BY <2>2, <3>1
    <3>3. QED BY <2>3, <2>7, <3>1, <3>2
  <2>8. QED BY <2>1, <2>4, <2>5, <2>6, <2>7 DEF EachHears
<1>4. down' \in [Fields -> Seq(DownMessage)]
  BY <1>3 DEF EachHears
<1>5. QED BY <1>3, <1>4

(* The queues of the server, when each client says something, or has been  *)
(* heard, or its queue is emptied, or nothing.                             *)
EachSays ==
  /\ gbTo' \in Seq(Fields) /\ IsPrefix(gbTo, gbTo') /\ players' \subseteq players
  /\ up' = [c \in Fields |-> up'[c]]
  /\ \A c \in Fields :
       \/ up'[c] \in {up[c], <<>>}
       \/ up[c] # <<>> /\ up'[c] = Tail(up[c])
       \/ \E m \in UpMessage : GoodUp(m, c)' /\ up'[c] = Append(up[c], m)

(* They hold good messages.                                                *)
LEMMA EachSaysGood ==
  ASSUME LockInv, EachSays
  PROVE  /\ up' \in [Fields -> Seq(UpMessage)]
         /\ \A c \in Fields : (\A i \in DOMAIN up[c] : GoodUp(up[c][i], c))'
<1>1. gbTo \in Seq(Fields) /\ up \in [Fields -> Seq(UpMessage)]
  BY DEF LockInv, LockstepTypeOK
<1>2. \A m, c : GoodUp(m, c) => GoodUp(m, c)'
  BY <1>1, GoodKept DEF EachSays
<1>3. ASSUME NEW c \in Fields
      PROVE  up'[c] \in Seq(UpMessage) /\ (\A i \in DOMAIN up[c] : GoodUp(up[c][i], c))'
  <2>1. PICK q \in Seq(UpMessage) : q = up[c]
    BY <1>1
  <2>2. \A i \in DOMAIN q : GoodUp(q[i], c)'
    BY <1>2, <2>1 DEF LockInv, GoodMessages
  <2>3. ASSUME NEW p \in Seq(UpMessage), up'[c] = p, \A i \in DOMAIN p : GoodUp(p[i], c)'
        PROVE  /\ up'[c] \in Seq(UpMessage)
               /\ (\A i \in DOMAIN up[c] : GoodUp(up[c][i], c))'
    BY <2>3 DEF GoodUp
  <2>4. CASE up'[c] = up[c]
    BY <2>1, <2>2, <2>3, <2>4
  <2>5. ASSUME NEW m \in UpMessage, GoodUp(m, c)', up'[c] = Append(up[c], m)
        PROVE  /\ up'[c] \in Seq(UpMessage)
               /\ (\A i \in DOMAIN up[c] : GoodUp(up[c][i], c))'
    <3> DEFINE p == Append(q, m)
    <3>1. /\ p \in Seq(UpMessage) /\ DOMAIN p = 1..(Len(q) + 1) /\ p[Len(q) + 1] = m
          /\ \A i \in 1..(Len(q) + 1) : i = Len(q) + 1 \/ (i \in DOMAIN q /\ p[i] = q[i])
      OBVIOUS
    <3>2. up'[c] = p
      BY <2>1, <2>5
    <3> HIDE DEF p
    <3>3. \A i \in DOMAIN p : GoodUp(p[i], c)'
      BY <2>2, <2>5, <3>1
    <3>4. QED BY <2>3, <3>1, <3>2, <3>3
  <2>6. CASE up'[c] = <<>>
    BY <2>3, <2>6
  <2>7. CASE q # <<>> /\ up'[c] = Tail(q)
    <3>1. Tail(q) \in Seq(UpMessage) /\ \A i \in DOMAIN Tail(q) : i + 1 \in DOMAIN q /\ Tail(q)[i] = q[i + 1]
      BY <2>7, HeadRead
    <3>2. \A i \in DOMAIN Tail(q) : GoodUp(Tail(q)[i], c)'
      BY <2>2, <3>1
    <3>3. QED BY <2>3, <2>7, <3>1, <3>2
  <2>8. QED BY <2>1, <2>4, <2>5, <2>6, <2>7 DEF EachSays
<1>4. up' \in [Fields -> Seq(UpMessage)]
  BY <1>3 DEF EachSays
<1>5. QED BY <1>3, <1>4

(* The input at the head of the queue is for the next tick of the field.   *)
LEMMA NextUp ==
  ASSUME LockInv, NEW c \in Fields, Sending(c), NEW q \in Seq(UpMessage),
         q = up[c], q # <<>>, q[1].type = "INPUT"
  PROVE  q[1].tick = tick[c]
<1>1. Consecutive(q, UpInputs(q), tick[c], copy[c].ticks[c])
  BY DEF LockInv, UpInv, OwnTicks
<1>2. \A i \in UpInputs(q) : q[i].tick \in Nat /\ i \in DOMAIN q
  BY UpMessages
<1>3. 1 \in UpInputs(q)
  BY HeadRead DEF UpInputs
<1>4. tick[c] \in Nat /\ copy[c].ticks[c] \in Nat
  BY DEF LockInv, LockstepTypeOK, TypeOK, Copy
<1>5. QED BY <1>1, <1>2, <1>3, <1>4, ConsecutiveRead


(* A log that goes on with an input or with a drop.                        *)
LEMMA DatedMore ==
  ASSUME NEW l \in Seq(Entry), NEW t \in Nat, Dated(l, t), NEW g \in Nat
  PROVE  Dated(Append(l, Key(t)), t + 1) /\ Dated(Append(l, Drop(g)), t)
<1> DEFINE K(s) == {i \in DOMAIN s : s[i].type = "KEY"}
           x == Append(l, Key(t))
           y == Append(l, Drop(g))
           n == Len(l) + 1
<1>1. /\ n \in Nat /\ DOMAIN x = DOMAIN l \union {n} /\ DOMAIN y = DOMAIN l \union {n}
      /\ x[n] = Key(t) /\ y[n] = Drop(g)
      /\ \A i \in DOMAIN l : x[i] = l[i] /\ y[i] = l[i] /\ i \in Nat /\ i < n
  <2>1. Key(t) \in Entry /\ Drop(g) \in Entry
    BY DEF Key, Drop, Entry
  <2>2. QED BY <2>1
<1>2. {l[i].n : i \in K(l)} = 0..(t - 1) /\ \A i, j \in K(l) : i < j => l[i].n < l[j].n
  BY DEF Dated
<1>3. Key(t).type = "KEY" /\ Key(t).n = t /\ Drop(g).type = "DROP"
  BY DEF Key, Drop
<1> HIDE DEF x, y, n
<1>4. K(x) = K(l) \union {n} /\ K(y) = K(l)
  BY <1>1, <1>3
<1>5. \A i \in K(l) : x[i].n = l[i].n /\ y[i].n = l[i].n /\ i < n /\ i \in Nat /\ l[i].n \in 0..(t - 1)
  <2>1. \A i \in K(l) : l[i].n \in {l[j].n : j \in K(l)}
    OBVIOUS
  <2>2. QED BY <1>1, <1>2, <2>1
<1>6. x[n].n = t
  BY <1>1, <1>3
<1>7. Dated(y, t)
  <2>1. {y[i].n : i \in K(y)} = {l[i].n : i \in K(l)}
    BY <1>4, <1>5
  <2>2. \A i, j \in K(y) : i < j => y[i].n < y[j].n
    BY <1>2, <1>4, <1>5
  <2>3. QED BY <1>2, <2>1, <2>2 DEF Dated
<1>8. Dated(x, t + 1)
  <2>1. {x[i].n : i \in K(x)} = {l[i].n : i \in K(l)} \union {t}
    BY <1>4, <1>5, <1>6
  <2>2. 0..((t + 1) - 1) = 0..(t - 1) \union {t}
    OBVIOUS
  <2>3. \A i, j \in K(x) : i < j => x[i].n < x[j].n
    <3> HIDE DEF K
    <3> SUFFICES ASSUME NEW i \in K(x), NEW j \in K(x), i < j PROVE x[i].n < x[j].n
      OBVIOUS
    <3>1. i \in K(l)
      BY <1>1, <1>4, <1>5
    <3>2. CASE j \in K(l)
      BY <3>1, <3>2, <1>2, <1>5
    <3>3. CASE j = n
      BY <3>1, <3>3, <1>5, <1>6
    <3>4. QED BY <3>2, <3>3, <1>4
  <2>4. {x[i].n : i \in K(x)} = 0..((t + 1) - 1)
    BY <1>2, <2>1, <2>2
  <2>5. QED BY <2>3, <2>4 DEF Dated
<1>9. QED BY <1>7, <1>8 DEF x, y

(* A prefix of a log is one of what the log becomes.                       *)
LEMMA PrefixOfMore ==
  ASSUME NEW S, NEW s \in Seq(S), NEW l \in Seq(S), NEW k \in Seq(S),
         IsPrefix(s, l), IsPrefix(l, k)
  PROVE  IsPrefix(s, k)
<1>1. Len(s) <= Len(l) /\ \A i \in 1..Len(s) : s[i] = l[i]
  BY PrefixByEntry
<1>2. Len(l) <= Len(k) /\ \A i \in 1..Len(l) : l[i] = k[i]
  BY PrefixByEntry
<1>3. Len(s) <= Len(k)
  BY <1>1, <1>2
<1>4. \A i \in 1..Len(s) : s[i] = k[i]
  BY <1>1, <1>2
<1>5. QED BY <1>3, <1>4, PrefixByEntry, Zenon

(* What a sequence is added to is a prefix of the whole.                   *)
LEMMA JoinsPrefix ==
  ASSUME NEW S, NEW s \in Seq(S), NEW l \in Seq(S), NEW u \in Seq(S), Joins(s, l, u)
  PROVE  IsPrefix(l, s)
<1>1. Len(s) = Len(l) + Len(u) /\ \A i \in 1..Len(l) : s[i] = l[i]
  BY DEF Joins
<1>2. Len(l) \in Nat /\ Len(u) \in Nat
  OBVIOUS
<1>3. Len(l) <= Len(s)
  <2> \A x, y, z \in Nat : x = y + z => y <= x
    OBVIOUS
  <2> QED BY <1>1, <1>2
<1>4. QED BY <1>1, <1>3, PrefixByEntry

(* A client whose channels the invariant speaks of has copies that agree;  *)
(* the copies of another do not move any more.                             *)
CopiesFrozen ==
  /\ remote' = remote /\ players' \subseteq players
  /\ \A f \in Fields : IsPrefix(log[f], log'[f])
  /\ \A c \in Fields : c \notin Following' => copy'[c] = copy[c]
  /\ \A c \in remote : c \notin Served' /\ c \in players' /\ phase' = "GAME" =>
       phase = "GAME" /\ log'[c] = log[c]

(* A client that has refused nothing is served.                            *)
LEMMA FollowingServed == Following \subseteq Served /\ Following' \subseteq Served'
<1>1. "" \notin ServerRefusals \union {"closed"}
  BY Zenon DEF ServerRefusals
<1>2. QED BY <1>1, Zenon DEF Following, Served

(* The copies agree after the step.                                        *)
LEMMA CopiesStay ==
  ASSUME LockInv, LockstepTypeOK', UpInv', DownInv', CopiesFrozen
  PROVE  CopiesAgree'
<1> SUFFICES ASSUME NEW c \in remote \intersect players', NEW f \in Fields
             PROVE  /\ c = f /\ phase' = "GAME" => IsPrefix(log'[f], copy'[c].log[f])
                    /\ c # f => IsPrefix(copy'[c].log[f], log'[f])
  BY DEF CopiesFrozen, CopiesAgree
<1>1. /\ c \in Fields /\ c \in players /\ copy[c] \in Copy /\ copy'[c] \in Copy
      /\ log[f] \in Seq(Entry) /\ log'[f] \in Seq(Entry)
  BY DEF LockInv, LockstepTypeOK, TypeOK, CopiesFrozen
<1>2. copy[c].log[f] \in Seq(Entry) /\ copy'[c].log[f] \in Seq(Entry)
  BY <1>1 DEF Copy
<1>3. CASE c # f
  <2>1. CASE c \in Following'
    <3>1. OtherLog(c, f)'
      BY <1>1, <1>3, <2>1 DEF DownInv
    <3>2. QED BY <1>3, <3>1 DEF OtherLog
  <2>2. CASE c \notin Following'
    <3>1. copy'[c] = copy[c] /\ IsPrefix(log[f], log'[f])
      BY <1>1, <2>2 DEF CopiesFrozen
    <3>2. IsPrefix(copy[c].log[f], log[f])
      BY <1>1, <1>3 DEF LockInv, CopiesAgree
    <3>3. IsPrefix(copy[c].log[f], log'[f])
      BY <1>1, <1>2, <3>1, <3>2, PrefixOfMore, Zenon
    <3>4. QED BY <1>3, <3>1, <3>3
  <2>3. QED BY <2>1, <2>2
<1>4. CASE c = f /\ phase' = "GAME"
  <2>1. CASE c \in Served'
    <3>1. OwnLog(c)'
      BY <1>1, <1>4, <2>1 DEF UpInv, Sending
    <3>2. up'[c] \in Seq(UpMessage)
      BY <1>1 DEF LockstepTypeOK
    <3>3. UpLog(up'[c]) \in Seq(Entry)
      BY <3>2, UpMessages
    <3>4. UpLog(up'[c]) = [i \in DOMAIN up[c] |-> UpEntry(up[c][i])]'
      BY DEF UpLog, UpEntry, Key, Drop
    <3>5. copy'[c].log[c] = log'[c] \o UpLog(up'[c])
      BY <3>1, <3>4 DEF OwnLog
    <3>6. log'[c] \in Seq(Entry) /\ copy'[c].log[c] \in Seq(Entry)
      BY <1>1, <1>2, <1>4
    <3>7. Joins(copy'[c].log[c], log'[c], UpLog(up'[c]))
      BY <3>3, <3>5, <3>6, ConcatByEntry, Zenon
    <3>9. IsPrefix(log'[c], copy'[c].log[c])
      BY <3>3, <3>6, <3>7, JoinsPrefix, Zenon
    <3>10. QED BY <3>9, <1>4
  <2>2. CASE c \notin Served'
    <3>1. phase = "GAME" /\ log'[c] = log[c] /\ copy'[c] = copy[c]
      <4>1. phase = "GAME" /\ log'[c] = log[c]
        BY <1>1, <1>4, <2>2 DEF CopiesFrozen
      <4>2. c \notin Following'
        BY <2>2, FollowingServed, Zenon
      <4>3. QED BY <1>1, <4>1, <4>2 DEF CopiesFrozen
    <3>2. IsPrefix(log[c], copy[c].log[c])
      BY <1>1, <3>1 DEF LockInv, CopiesAgree
    <3>3. QED BY <1>4, <3>1, <3>2
  <2>3. QED BY <2>1, <2>2
<1>5. QED BY <1>3, <1>4

(* Every step of the inputs is a step of the match, or none.               *)
LEMMA LockstepIsMatch ==
  ASSUME remote \subseteq Fields, LockstepNext \/ UNCHANGED allVars
  PROVE  [Next]_vars
<1>1. CASE UNCHANGED allVars
  BY <1>1 DEF allVars, vars
<1>2. CASE (Over \/ AtBound \/ Abandoned) /\ UNCHANGED allVars
  BY <1>2, <1>1
<1>3. ASSUME NEW c \in Fields, Do(LocalStep(c)) PROVE [Next]_vars
  BY <1>3 DEF Do, LocalStep, ServerStep, Next
<1>4. ASSUME NEW c \in Fields, Do(ServerReads(c)) PROVE [Next]_vars
  BY <1>4 DEF Do, ServerReads, ReadInput, ReadDrop, ServerStep, Next, matchVars, vars
<1>5. ASSUME NEW c \in Fields, Do(Disconnect(c)) PROVE [Next]_vars
  <2>1. PICK f \in Reported(c) : IF f \in players THEN Leave(f) ELSE UNCHANGED matchVars
    BY <1>5 DEF Do, Disconnect
  <2>2. CASE f \in players /\ Leave(f)
    <3>1. f \in Fields
      BY <1>5, <2>1 DEF Do, Disconnect, Reported
    <3>2. QED BY <2>2, <3>1 DEF Next
  <2>3. CASE UNCHANGED matchVars
    BY <2>3 DEF matchVars
  <2>4. QED BY <2>1, <2>2, <2>3
<1>6. ASSUME NEW c \in Fields, Do(ClientStep(c)) PROVE [Next]_vars
  BY <1>6 DEF Do, ClientStep, matchVars, vars
<1>7. ASSUME NEW c \in Fields, Do(ClientReads(c)) PROVE [Next]_vars
  BY <1>7 DEF Do, ClientReads, matchVars, vars
<1>8. QED BY <1>1, <1>2, <1>3, <1>4, <1>5, <1>6, <1>7 DEF LockstepNext


-----------------------------------------------------------------------------
(* Putting the invariant together.                                         *)

(* What a step has to give besides the match and the copies, which follow. *)
LEMMA Gathered ==
  ASSUME LockInv, [Next]_vars, LockstepTypeOK', Losses', GoodMessages', UpInv', DownInv',
         CopiesFrozen
  PROVE  LockInv'
<1>1. MatchInv'
  BY MatchInvStep DEF LockInv
<1>2. CopiesAgree'
  BY CopiesStay
<1>3. QED BY <1>1, <1>2 DEF LockInv

(* The ticks of a copy are numbers.                                        *)
LEMMA CopyTicks == \A k \in Copy : \A f \in Fields : k.ticks[f] \in Nat
BY DEF Copy

(* A client that says nothing and is not heard.                            *)
Silent(c) ==
  /\ up'[c] = up[c] /\ log'[c] = log[c] /\ tick'[c] = tick[c]
  /\ copy'[c] \in Copy
  /\ copy'[c].log[c] = copy[c].log[c] /\ copy'[c].ticks[c] = copy[c].ticks[c]
  /\ \A f \in Fields \ {c} :
       copy[c].ticks[f] <= copy'[c].ticks[f] /\ (lost[f] => lost'[f])

(* What the server will hear from it stays the same.                       *)
LEMMA SilentSends ==
  ASSUME LockInv, NEW c \in Fields, Sending(c), Silent(c)
  PROVE  Sends(c)'
<1>1. up[c] \in Seq(UpMessage) /\ copy[c].log[c] \in Seq(Entry)
  BY DEF LockInv, LockstepTypeOK, Copy
<1>2. up'[c] = up[c] \o <<>>
  BY <1>1 DEF Silent
<1>3. UpLog(<<>>) = <<>> /\ UpInputs(<<>>) = {}
  BY DEF UpLog, UpInputs
<1>4. copy[c].log[c] = copy[c].log[c] \o <<>>
  BY <1>1
<1>5. copy'[c].log[c] = copy[c].log[c] \o UpLog(<<>>)
  BY <1>3, <1>4 DEF Silent
<1>6. Len(<<>>) <= 1 /\ <<>> \in Seq(UpMessage)
  OBVIOUS
<1>7. Says(c, <<>>)
  BY <1>2, <1>3, <1>5, <1>6, Zenon DEF Says, Silent
<1>8. QED BY <1>7, SaysSends, Zenon

(* A sequence is a prefix of itself...                                     *)
LEMMA PrefixOfItself ==
  ASSUME NEW S, NEW l \in Seq(S)
  PROVE  IsPrefix(l, l)
<1>1. Len(l) <= Len(l) /\ \A i \in 1..Len(l) : l[i] = l[i]
  OBVIOUS
<1>2. QED BY <1>1, PrefixByEntry, Zenon

(* ... and of what it becomes when an entry is added.                      *)
LEMMA PrefixOfAppend ==
  ASSUME NEW S, NEW l \in Seq(S), NEW x \in S
  PROVE  Append(l, x) \in Seq(S) /\ IsPrefix(l, Append(l, x))
<1>1. Append(l, x) \in Seq(S)
  OBVIOUS
<1>2. Len(l) <= Len(Append(l, x)) /\ \A i \in 1..Len(l) : l[i] = Append(l, x)[i]
  OBVIOUS
<1>3. QED BY <1>1, <1>2, PrefixByEntry, Zenon

(* The channels of each client give the channels.                          *)
LEMMA ByClient ==
  ASSUME \A c \in Following' : Follows(c)', \A c \in Fields : Sending(c)' => Sends(c)'
  PROVE  DownInv' /\ UpInv'
<1>1. DownInv'
  BY DEF DownInv, Follows
<1>2. UpInv'
  BY DEF UpInv, Sends
<1>3. QED BY <1>1, <1>2

(* A client whose connection ends neither follows nor is served.           *)
LEMMA ClosedLeaves ==
  ASSUME NEW c \in Fields, refusal \in [Fields -> Refusals], remote \subseteq Fields,
         refusal' = [refusal EXCEPT ![c] = "closed"], remote' = remote,
         NEW gone, players' = players \ gone
  PROVE  /\ Following' \subseteq Following \ ({c} \union gone)
         /\ Served' \subseteq Served \ ({c} \union gone)
         /\ refusal' \in [Fields -> Refusals]
<1>1. "closed" \in Refusals /\ "closed" # ""
  BY Zenon DEF Refusals
<1>2. refusal'[c] = "closed" /\ \A d \in Fields \ {c} : refusal'[d] = refusal[d]
  BY Zenon
<1>3. refusal' \in [Fields -> Refusals]
  BY <1>1
<1>4. Following' \subseteq Following \ ({c} \union gone)
  BY <1>1, <1>2, Zenon DEF Following
<1>5. Served' \subseteq Served \ ({c} \union gone)
  BY <1>1, <1>2, Zenon DEF Served
<1>6. QED BY <1>3, <1>4, <1>5

-----------------------------------------------------------------------------
(* The server steps a field, of its own or because it has read an input.   *)

(* What is done to the field.                                              *)
LEMMA StepDoes ==
  ASSUME LockInv, NEW f \in Fields, ServerStep(f)
  PROVE  /\ phase = "GAME" /\ players' = players /\ ~lost[f] /\ f \in players
         /\ tick' \in [Fields -> Nat] /\ lost' \in [Fields -> BOOLEAN]
         /\ \A g \in Fields : tick'[g] = IF g = f THEN tick[g] + 1 ELSE tick[g]
         /\ \A g \in Fields \ {f} : lost'[g] = lost[g]
         /\ lost'[f] <=> tick'[f] >= loseAt[f]
         /\ \E gbs : StepWrites(f, gbs)
         /\ down' = [c \in Fields |-> down'[c]]
         /\ \A c \in Fields \ Following : down'[c] = down[c]
<1>1. /\ tick \in [Fields -> Nat] /\ lost \in [Fields -> BOOLEAN] /\ loseAt \in [Fields -> Nat]
  BY DEF LockInv, LockstepTypeOK, TypeOK
<1>2. /\ phase = "GAME" /\ players' = players /\ ~lost[f] /\ f \in players
      /\ tick' = [tick EXCEPT ![f] = @ + 1]
      /\ lost' = [lost EXCEPT ![f] = tick'[f] >= loseAt[f]]
  BY DEF ServerStep, StepField, MayStep
<1>3. PICK gbs \in NextDrop(f) : DropOrWait(f, gbs) /\ \E told : Tell(told)
  BY DEF ServerStep
<1>4. StepWrites(f, gbs)
  BY <1>3, DropOrWaitWrites
<1>5. /\ down' = [c \in Fields |-> down'[c]]
      /\ \A c \in Fields \ Following : down'[c] = down[c]
  BY <1>3 DEF Tell
<1>6. tick' \in [Fields -> Nat] /\ \A g \in Fields : tick'[g] = IF g = f THEN tick[g] + 1 ELSE tick[g]
  BY <1>1, <1>2
<1>7. /\ lost' \in [Fields -> BOOLEAN] /\ \A g \in Fields \ {f} : lost'[g] = lost[g]
      /\ lost'[f] <=> tick'[f] >= loseAt[f]
  <2>1. (tick'[f] >= loseAt[f]) \in BOOLEAN
    BY <1>1, <1>6
  <2>2. QED BY <1>1, <1>2, <2>1, Zenon
<1>8. QED BY <1>2, <1>4, <1>5, <1>6, <1>7

(* The rest of the state.                                                  *)
Stepping(f) ==
  /\ ServerStep(f) /\ UNCHANGED <<remote, loseAt, copy, refusal>>
  /\ \/ f \notin remote /\ up' = up
     \/ /\ f \in Served /\ up[f] # <<>> /\ Head(up[f]).type = "INPUT"
        /\ up' = [up EXCEPT ![f] = Tail(@)]

(* The invariant after a step of the server.                               *)
LEMMA SteppingInv ==
  ASSUME LockInv, NEW f \in Fields, Stepping(f), [Next]_vars
  PROVE  LockInv'
<1>1. /\ phase = "GAME" /\ players' = players /\ ~lost[f] /\ f \in players
      /\ tick' \in [Fields -> Nat] /\ lost' \in [Fields -> BOOLEAN]
      /\ \A g \in Fields : tick'[g] = IF g = f THEN tick[g] + 1 ELSE tick[g]
      /\ \A g \in Fields \ {f} : lost'[g] = lost[g]
      /\ lost'[f] <=> tick'[f] >= loseAt[f]
      /\ \E gbs : StepWrites(f, gbs)
      /\ down' = [c \in Fields |-> down'[c]]
      /\ \A c \in Fields \ Following : down'[c] = down[c]
  BY StepDoes DEF Stepping
<1>2. PICK gbs : StepWrites(f, gbs)
  BY <1>1
<1>3. /\ remote' = remote /\ loseAt' = loseAt /\ copy' = copy /\ refusal' = refusal
      /\ Following' = Following /\ Served' = Served /\ Following \subseteq Fields
  BY <1>1 DEF Stepping, Following, Served, LockInv, LockstepTypeOK
<1>4. TypeOK' /\ TypeOK
  <2>1. MatchInv'
    BY MatchInvStep DEF LockInv
  <2>2. QED BY <2>1 DEF MatchInv, LockInv
<1>5. /\ log \in [Fields -> Seq(Entry)] /\ log' \in [Fields -> Seq(Entry)]
      /\ copy \in [Fields -> Copy] /\ tick \in [Fields -> Nat]
      /\ gbTo \in Seq(Fields) /\ gbTo' \in Seq(Fields) /\ IsPrefix(gbTo, gbTo')
      /\ up \in [Fields -> Seq(UpMessage)] /\ wait' \in [Fields -> Seq(Nat)]
      /\ remote \subseteq Fields /\ loseAt \in [Fields -> Nat]
      /\ refusal \in [Fields -> Refusals]
  BY <1>2 DEF LockInv, LockstepTypeOK, TypeOK, StepWrites
<1>6. \A g \in Fields : Dated(log'[g], tick'[g]) /\ IsPrefix(log[g], log'[g])
  <2> TAKE g \in Fields
  <2>0. log[g] \in Seq(Entry) /\ log'[g] \in Seq(Entry) /\ tick[g] \in Nat /\ Dated(log[g], tick[g])
    BY <1>5 DEF LockInv, LockstepTypeOK
  <2>1. CASE g # f
    <3>1. log'[g] = log[g] /\ tick'[g] = tick[g]
      BY <1>1, <1>2, <2>1 DEF StepWrites
    <3>2. QED BY <2>0, <3>1, PrefixByEntry
  <2>2. CASE g = f
    <3> DEFINE k == Append(log[g], Key(tick[g]))
               n == Len(gbTo) + 1
    <3>1. n \in Nat /\ tick'[g] = tick[g] + 1 /\ tick[g] + 1 \in Nat
      <4>0. gbTo \in Seq(Fields)
        BY <1>5
      <4>1. Len(gbTo) \in Nat
        BY <4>0
      <4>2. tick'[g] = tick[g] + 1
        BY <1>1, <2>2, Zenon
      <4>3. QED BY <2>0, <4>1, <4>2
    <3>2. log'[g] = k \/ log'[g] = Append(k, Drop(n))
      BY <1>2, <2>2 DEF StepWrites
    <3>3. Key(tick[g]) \in Entry /\ Drop(n) \in Entry
      BY <2>0, <3>1 DEF Key, Drop, Entry
    <3>4. k \in Seq(Entry) /\ IsPrefix(log[g], k)
      BY <2>0, <3>3, PrefixOfAppend, Zenon
    <3>5. Dated(k, tick[g] + 1)
      BY <2>0, <3>1, DatedMore
    <3> HIDE DEF k, n
    <3>6. Append(k, Drop(n)) \in Seq(Entry) /\ IsPrefix(k, Append(k, Drop(n)))
      BY <3>3, <3>4, PrefixOfAppend, Zenon
    <3>7. Dated(Append(k, Drop(n)), tick[g] + 1)
      BY <3>1, <3>4, <3>5, DatedMore
    <3>8. IsPrefix(log[g], Append(k, Drop(n)))
      BY <2>0, <3>4, <3>6, PrefixOfMore, Zenon
    <3>9. QED BY <3>1, <3>2, <3>4, <3>5, <3>7, <3>8
  <2>3. QED BY <2>1, <2>2
<1>7. EachHears
  <2>1. ASSUME NEW c \in Fields PROVE down'[c] = down[c] \/ \E r : Hears(c, r)
    <3>1. CASE c \in Following
      <4>1. PICK r : Told(c, r)
        BY <3>1, StepTold DEF Stepping
      <4>2. QED BY <4>1 DEF Told
    <3>2. CASE c \notin Following
      BY <1>1, <3>2
    <3>3. QED BY <3>1, <3>2
  <2>2. players' \subseteq players
    BY <1>1
  <2>3. QED BY <1>1, <1>5, <2>1, <2>2 DEF EachHears
<1>8. EachSays
  <2>1. up' = [c \in Fields |-> up'[c]]
    BY <1>5 DEF Stepping
  <2>2. ASSUME NEW c \in Fields
        PROVE  up'[c] = up[c] \/ (up[c] # <<>> /\ up'[c] = Tail(up[c]))
    BY <1>5 DEF Stepping
  <2>3. players' \subseteq players
    BY <1>1
  <2>4. QED BY <1>5, <2>1, <2>2, <2>3 DEF EachSays
<1>9. LockstepTypeOK'
  <2>1. down' \in [Fields -> Seq(DownMessage)] /\ up' \in [Fields -> Seq(UpMessage)]
    BY <1>7, <1>8, EachHearsGood, EachSaysGood
  <2>2. \A c, g \in Fields : Dated(copy[c].log[g], copy[c].ticks[g])
    BY DEF LockInv, LockstepTypeOK
  <2>3. (\A g \in Fields : Dated(log[g], tick[g]))'
    BY <1>6 DEF Dated
  <2>4. (\A c, g \in Fields : Dated(copy[c].log[g], copy[c].ticks[g]))'
    BY <1>3, <2>2 DEF Dated
  <2>5. QED BY <1>3, <1>4, <1>5, <2>1, <2>3, <2>4 DEF LockstepTypeOK
<1>10. Losses'
  <2>1. \A g \in Fields \ {f} : lost'[g] <=> g \notin players' \/ tick'[g] >= loseAt'[g]
    BY <1>1, <1>3 DEF LockInv, Losses
  <2>2. lost'[f] <=> f \notin players' \/ tick'[f] >= loseAt'[f]
    BY <1>1, <1>3
  <2>3. QED BY <2>1, <2>2 DEF Losses
<1>11. GoodMessages'
  <2>1. \A c \in Fields : copy'[c].gone \intersect players' = {}
    BY <1>1, <1>3 DEF LockInv, GoodMessages
  <2>2. QED BY <1>7, <1>8, <2>1, EachHearsGood, EachSaysGood DEF GoodMessages
<1>12. \A c \in Following' : Follows(c)'
  <2> TAKE c \in Following'
  <2>1. c \in Following /\ c \in Fields
    BY <1>3
  <2>2. PICK r : Told(c, r)
    BY <2>1, StepTold DEF Stepping
  <2>3. QED BY <1>1, <2>1, <2>2, ToldFollows
<1>13. \A c \in Fields : Sending(c)' => Sends(c)'
  <2> SUFFICES ASSUME NEW c \in Fields, Sending(c)' PROVE Sends(c)'
    OBVIOUS
  <2>1. Sending(c)
    BY <1>1, <1>3 DEF Sending
  <2>2. CASE c # f
    <3>1. up'[c] = up[c] /\ log'[c] = log[c] /\ tick'[c] = tick[c]
      BY <1>1, <1>2, <1>5, <2>2 DEF Stepping, StepWrites
    <3>2. \A g \in Fields \ {c} : lost[g] => lost'[g]
      BY <1>1, Zenon
    <3>3. \A g \in Fields : copy[c].ticks[g] <= copy'[c].ticks[g]
      <4>1. \A g \in Fields : copy[c].ticks[g] \in Nat
        BY <1>5 DEF Copy
      <4>2. \A t \in Nat : t <= t
        OBVIOUS
      <4>3. QED BY <1>3, <4>1, <4>2, Zenon
    <3>4. Silent(c)
      BY <1>3, <1>5, <3>1, <3>2, <3>3 DEF Silent
    <3>5. QED BY <2>1, <3>4, SilentSends
  <2>3. CASE c = f
    <3>1. f \in remote
      BY <2>1, <2>3 DEF Sending, Served
    <3>2. PICK q \in Seq(UpMessage) : q = up[f]
      BY <1>5
    <3>3. q # <<>> /\ Head(q).type = "INPUT" /\ up'[f] = Tail(q)
      BY <1>5, <3>1, <3>2 DEF Stepping
    <3>4. q[1].type = "INPUT"
      BY <3>3
    <3>5. q[1].tick = tick[f]
      BY <2>1, <2>3, <3>2, <3>3, <3>4, NextUp
    <3>6. UpEntry(q[1]) = Key(tick[f])
      BY <3>4, <3>5 DEF UpEntry
    <3>7. log'[f] = Append(log[f], UpEntry(q[1]))
      BY <1>2, <3>1, <3>6 DEF StepWrites
    <3>8. \A g \in Fields \ {f} : lost[g] => lost'[g]
      BY <1>1, Zenon
    <3>9. IsHeard(f, q)
      BY <1>1, <1>3, <1>5, <3>2, <3>3, <3>4, <3>7, <3>8 DEF IsHeard
    <3>10. QED BY <2>1, <2>3, <3>9, HeardSends
  <2>4. QED BY <2>2, <2>3
<1>14. CopiesFrozen
  <2>1. ASSUME NEW c \in remote, c \notin Served' PROVE log'[c] = log[c]
    <3>1. c \in Fields /\ c \notin Served
      BY <1>3, <1>5, <2>1
    <3>2. c # f
      BY <2>1, <3>1 DEF Stepping
    <3>3. QED BY <1>2, <3>1, <3>2 DEF StepWrites
  <2>2. remote' = remote /\ players' \subseteq players
    BY <1>1, <1>3
  <2>3. QED BY <1>1, <1>3, <1>6, <2>1, <2>2, Zenon DEF CopiesFrozen
<1>15. DownInv' /\ UpInv'
  BY <1>12, <1>13, ByClient
<1>16. QED BY <1>9, <1>10, <1>11, <1>14, <1>15, Gathered

-----------------------------------------------------------------------------
(* A message is refused, or ignored, or a connection ends.                 *)

(* Only channels change, and only of a client that nothing follows.        *)
Dropping(c) ==
  /\ UNCHANGED <<matchVars, remote, loseAt, log, wait, gbTo, copy>>
  /\ up' = [d \in Fields |-> up'[d]] /\ down' = [d \in Fields |-> down'[d]]
  /\ \A d \in Fields \ {c} : up'[d] = up[d] /\ down'[d] = down[d]
  /\ \/ up'[c] = up[c]
     \/ ~Sending(c)' /\ (up'[c] = <<>> \/ (up[c] # <<>> /\ up'[c] = Tail(up[c])))
  /\ \/ down'[c] = down[c]
     \/ c \notin Following' /\ down'[c] = <<>>
  /\ refusal' \in [Fields -> Refusals]
  /\ Following' \subseteq Following /\ Served' \subseteq Served
  /\ \A d \in Fields \ {c} : refusal'[d] = refusal[d]
  /\ c \in Following' => refusal'[c] = refusal[c]

(* The invariant after a message has been refused.                         *)
LEMMA DroppingInv ==
  ASSUME LockInv, NEW c \in Fields, Dropping(c), [Next]_vars
  PROVE  LockInv'
<1>1. /\ tick' = tick /\ lost' = lost /\ players' = players /\ phase' = phase
      /\ remote' = remote /\ loseAt' = loseAt /\ log' = log /\ wait' = wait /\ gbTo' = gbTo
      /\ copy' = copy /\ matchVars' = matchVars
  BY DEF Dropping, matchVars, vars
<1>2. TypeOK'
  <2>1. MatchInv'
    BY MatchInvStep DEF LockInv
  <2>2. QED BY <2>1 DEF MatchInv
<1>3. /\ log \in [Fields -> Seq(Entry)] /\ wait \in [Fields -> Seq(Nat)]
      /\ copy \in [Fields -> Copy] /\ remote \subseteq Fields /\ loseAt \in [Fields -> Nat]
      /\ tick \in [Fields -> Nat]
  BY DEF LockInv, LockstepTypeOK, TypeOK
<1>4. gbTo \in Seq(Fields) /\ IsPrefix(gbTo, gbTo)
  <2>1. gbTo \in Seq(Fields)
    BY DEF LockInv, LockstepTypeOK
  <2>2. QED BY <2>1, PrefixByEntry
<1>5. \A f \in Fields : IsPrefix(log[f], log[f])
  <2>1. \A f \in Fields : log[f] \in Seq(Entry)
    BY <1>3
  <2>2. QED BY <2>1, PrefixOfItself, Zenon
<1>6. EachHears /\ EachSays
  <2>1. \A d \in Fields : down'[d] \in {down[d], <<>>}
    BY DEF Dropping
  <2>2. \A d \in Fields : up'[d] \in {up[d], <<>>} \/ (up[d] # <<>> /\ up'[d] = Tail(up[d]))
    BY DEF Dropping
  <2>3. up' = [d \in Fields |-> up'[d]] /\ down' = [d \in Fields |-> down'[d]]
    BY DEF Dropping
  <2>4. EachHears
    BY <1>1, <1>4, <2>1, <2>3 DEF EachHears
  <2>5. EachSays
    BY <1>1, <1>4, <2>2, <2>3 DEF EachSays
  <2>6. QED BY <2>4, <2>5
<1>7. LockstepTypeOK'
  <2>1. down' \in [Fields -> Seq(DownMessage)] /\ up' \in [Fields -> Seq(UpMessage)]
    BY <1>6, EachHearsGood, EachSaysGood
  <2>2. /\ \A g \in Fields : Dated(log[g], tick[g])
        /\ \A d, g \in Fields : Dated(copy[d].log[g], copy[d].ticks[g])
    BY DEF LockInv, LockstepTypeOK
  <2>3. (\A g \in Fields : Dated(log[g], tick[g]))'
    BY <1>1, <2>2 DEF Dated
  <2>4. (\A d, g \in Fields : Dated(copy[d].log[g], copy[d].ticks[g]))'
    BY <1>1, <2>2 DEF Dated
  <2>5. refusal' \in [Fields -> Refusals]
    BY DEF Dropping
  <2>6. QED BY <1>1, <1>2, <1>3, <1>4, <2>1, <2>3, <2>4, <2>5 DEF LockstepTypeOK
<1>8. Losses'
  BY <1>1 DEF LockInv, Losses
<1>9. GoodMessages'
  <2>1. \A d \in Fields : copy'[d].gone \intersect players' = {}
    BY <1>1 DEF LockInv, GoodMessages
  <2>2. QED BY <1>6, <2>1, EachHearsGood, EachSaysGood DEF GoodMessages
<1>10. \A d \in Following' : Follows(d)'
  <2> TAKE d \in Following'
  <2>1. d \in Following /\ d \in Fields
    BY <1>3 DEF Dropping, Following
  <2>2. down'[d] = down[d]
    BY <2>1 DEF Dropping
  <2>3. copy[d] \in Copy /\ \A f \in Fields : copy[d].ticks[f] \in Nat
    BY <1>3, <2>1, CopyTicks, Zenon
  <2>4. copy[d].ticks[d] <= copy'[d].ticks[d]
    <3>1. \A t \in Nat : t <= t
      OBVIOUS
    <3>2. QED BY <1>1, <2>1, <2>3, <3>1, Zenon
  <2>5. Undisturbed(d)
    BY <1>1, <2>2, <2>3, <2>4, Zenon DEF Undisturbed
  <2>6. QED BY <2>1, <2>5, UndisturbedFollows
<1>11. \A d \in Fields : Sending(d)' => Sends(d)'
  <2> SUFFICES ASSUME NEW d \in Fields, Sending(d)' PROVE Sends(d)'
    OBVIOUS
  <2>1. Sending(d)
    BY <1>1 DEF Dropping, Sending
  <2>2. up'[d] = up[d]
    BY DEF Dropping
  <2>3. copy[d] \in Copy /\ \A f \in Fields : copy[d].ticks[f] \in Nat
    BY <1>3, CopyTicks, Zenon
  <2>4. \A f \in Fields : copy[d].ticks[f] <= copy'[d].ticks[f]
    <3>1. \A t \in Nat : t <= t
      OBVIOUS
    <3>2. QED BY <1>1, <2>3, <3>1, Zenon
  <2>5. Silent(d)
    BY <1>1, <2>2, <2>3, <2>4, Zenon DEF Silent
  <2>6. QED BY <2>1, <2>5, SilentSends
<1>12. CopiesFrozen
  <2>1. players' \subseteq players
    BY <1>1
  <2>2. QED BY <1>1, <1>5, <2>1, Zenon DEF CopiesFrozen
<1>13. DownInv' /\ UpInv'
  BY <1>10, <1>11, ByClient
<1>14. QED BY <1>7, <1>8, <1>9, <1>12, <1>13, Gathered

-----------------------------------------------------------------------------
(* The server is told of a drop: the garbage is dropped on its copy.       *)
Confirming(c, m) ==
  /\ c \in Served /\ phase = "GAME" /\ up[c] # <<>> /\ m = Head(up[c])
  /\ up' = [up EXCEPT ![c] = Tail(@)]
  /\ m.type = "DROP"
  /\ Tell([d \in Fields |-> <<m>>])
  /\ log' = [log EXCEPT ![c] = Append(@, Drop(m.gb))]
  /\ wait[c] # <<>> /\ wait' = [wait EXCEPT ![c] = Tail(@)]
  /\ UNCHANGED <<matchVars, gbTo, copy, refusal, remote, loseAt>>

(* The invariant after it has been.                                        *)
LEMMA ConfirmingInv ==
  ASSUME LockInv, NEW c \in Fields, NEW m, Confirming(c, m), [Next]_vars
  PROVE  LockInv'
<1>1. /\ tick' = tick /\ lost' = lost /\ players' = players /\ phase' = phase
      /\ remote' = remote /\ loseAt' = loseAt /\ gbTo' = gbTo /\ refusal' = refusal
      /\ copy' = copy /\ matchVars' = matchVars /\ phase = "GAME"
      /\ Following' = Following /\ Served' = Served
  BY DEF Confirming, matchVars, vars, Following, Served
<1>2. TypeOK'
  <2>1. MatchInv'
    BY MatchInvStep DEF LockInv
  <2>2. QED BY <2>1 DEF MatchInv
<1>3. /\ log \in [Fields -> Seq(Entry)] /\ wait \in [Fields -> Seq(Nat)]
      /\ copy \in [Fields -> Copy] /\ remote \subseteq Fields /\ loseAt \in [Fields -> Nat]
      /\ tick \in [Fields -> Nat] /\ up \in [Fields -> Seq(UpMessage)]
      /\ refusal \in [Fields -> Refusals]
  BY DEF LockInv, LockstepTypeOK, TypeOK
<1>4. gbTo \in Seq(Fields) /\ IsPrefix(gbTo, gbTo)
  <2>1. gbTo \in Seq(Fields)
    BY DEF LockInv, LockstepTypeOK
  <2>2. QED BY <2>1, PrefixByEntry
<1>5. PICK q \in Seq(UpMessage) : q = up[c]
  BY <1>3
<1>6. q # <<>> /\ m = q[1] /\ m \in UpMessage /\ m.type = "DROP" /\ up'[c] = Tail(q) /\ 1 \in DOMAIN q
  <2>1. q # <<>> /\ m = Head(q) /\ m.type = "DROP" /\ up'[c] = Tail(q)
    BY <1>3, <1>5 DEF Confirming
  <2>2. QED BY <2>1
<1>7. GoodUp(m, c) /\ UpEntry(m) = Drop(m.gb) /\ m.gb \in Nat
  <2>1. GoodUp(q[1], c)
    BY <1>5, <1>6 DEF LockInv, GoodMessages
  <2>2. QED BY <1>6, <2>1 DEF UpEntry, UpMessage
<1>8. /\ log' \in [Fields -> Seq(Entry)] /\ log'[c] = Append(log[c], Drop(m.gb))
      /\ \A f \in Fields \ {c} : log'[f] = log[f]
      /\ wait' \in [Fields -> Seq(Nat)]
  <2>1. Drop(m.gb) \in Entry
    BY <1>7 DEF Drop, Entry
  <2>2. Append(log[c], Drop(m.gb)) \in Seq(Entry)
    <3>1. log[c] \in Seq(Entry)
      BY <1>3
    <3>2. QED BY <2>1, <3>1, PrefixOfAppend, Zenon
  <2>3. wait[c] # <<>> /\ wait[c] \in Seq(Nat)
    BY <1>3 DEF Confirming
  <2>4. Tail(wait[c]) \in Seq(Nat)
    BY <2>3
  <2>5. QED BY <1>3, <2>2, <2>4 DEF Confirming
<1>9. \A f \in Fields : IsPrefix(log[f], log'[f]) /\ Dated(log'[f], tick[f])
  <2> TAKE f \in Fields
  <2>1. log[f] \in Seq(Entry) /\ tick[f] \in Nat /\ Dated(log[f], tick[f])
    BY <1>3 DEF LockInv, LockstepTypeOK
  <2>2. CASE f # c
    BY <1>8, <2>1, <2>2, PrefixByEntry
  <2>3. CASE f = c
    <3>1. Drop(m.gb) \in Entry
      BY <1>7 DEF Drop, Entry
    <3>2. IsPrefix(log[f], Append(log[f], Drop(m.gb)))
      BY <2>1, <3>1, PrefixOfAppend, Zenon
    <3>3. Dated(Append(log[f], Drop(m.gb)), tick[f])
      BY <1>7, <2>1, DatedMore, Zenon
    <3>4. QED BY <1>8, <2>3, <3>2, <3>3
  <2>4. QED BY <2>2, <2>3
<1>10. /\ \A d \in Following : down'[d] = down[d] \o <<m>> /\ Told(d, <<m>>)
       /\ \A d \in Fields \ Following : down'[d] = down[d]
       /\ down' = [d \in Fields |-> down'[d]]
  <2>1. Following \subseteq Fields
    BY <1>3 DEF Following
  <2>2. /\ \A d \in Following : down'[d] = down[d] \o <<m>>
        /\ \A d \in Fields \ Following : down'[d] = down[d]
        /\ down' = [d \in Fields |-> down'[d]]
    BY <2>1 DEF Confirming, Tell
  <2>3. /\ log' = [log EXCEPT ![c] = Append(@, Drop(m.gb))]
        /\ UNCHANGED <<matchVars, gbTo, copy, remote, loseAt>>
    BY DEF Confirming
  <2>4. \A d \in Following : Told(d, <<m>>)
    BY <1>1, <1>6, <1>7, <2>2, <2>3, DropTold
  <2>5. QED BY <2>2, <2>4
<1>11. EachHears /\ EachSays
  <2>1. \A d \in Fields : down'[d] = down[d] \/ \E r : Hears(d, r)
    BY <1>10 DEF Told
  <2>2. \A d \in Fields : up'[d] = up[d] \/ (up[d] # <<>> /\ up'[d] = Tail(up[d]))
    BY <1>3 DEF Confirming
  <2>3. up' = [d \in Fields |-> up'[d]]
    BY <1>3 DEF Confirming
  <2>4. EachHears
    BY <1>1, <1>4, <1>10, <2>1 DEF EachHears
  <2>5. EachSays
    BY <1>1, <1>4, <2>2, <2>3 DEF EachSays
  <2>6. QED BY <2>4, <2>5
<1>12. LockstepTypeOK'
  <2>1. down' \in [Fields -> Seq(DownMessage)] /\ up' \in [Fields -> Seq(UpMessage)]
    BY <1>11, EachHearsGood, EachSaysGood
  <2>2. \A d, g \in Fields : Dated(copy[d].log[g], copy[d].ticks[g])
    BY DEF LockInv, LockstepTypeOK
  <2>3. (\A g \in Fields : Dated(log[g], tick[g]))'
    BY <1>1, <1>9 DEF Dated
  <2>4. (\A d, g \in Fields : Dated(copy[d].log[g], copy[d].ticks[g]))'
    BY <1>1, <2>2 DEF Dated
  <2>5. QED BY <1>1, <1>2, <1>3, <1>4, <1>8, <2>1, <2>3, <2>4 DEF LockstepTypeOK
<1>13. Losses'
  BY <1>1 DEF LockInv, Losses
<1>14. GoodMessages'
  <2>1. \A d \in Fields : copy'[d].gone \intersect players' = {}
    BY <1>1 DEF LockInv, GoodMessages
  <2>2. QED BY <1>11, <2>1, EachHearsGood, EachSaysGood DEF GoodMessages
<1>15. \A d \in Following' : Follows(d)'
  <2> TAKE d \in Following'
  <2>1. d \in Following /\ d \in Fields
    BY <1>1, <1>3 DEF Following
  <2>2. Told(d, <<m>>) /\ tick' \in [Fields -> Nat]
    BY <1>1, <1>3, <1>10, <2>1
  <2>3. QED BY <2>1, <2>2, ToldFollows, Zenon
<1>16. \A d \in Fields : Sending(d)' => Sends(d)'
  <2> SUFFICES ASSUME NEW d \in Fields, Sending(d)' PROVE Sends(d)'
    OBVIOUS
  <2>1. Sending(d)
    BY <1>1 DEF Sending
  <2>2. copy[d] \in Copy /\ \A f \in Fields : copy[d].ticks[f] \in Nat
    BY <1>3, CopyTicks, Zenon
  <2>3. CASE d # c
    <3>1. up'[d] = up[d] /\ log'[d] = log[d]
      BY <1>3, <1>8, <2>3 DEF Confirming
    <3>2. \A f \in Fields : copy[d].ticks[f] <= copy'[d].ticks[f]
      <4>1. \A t \in Nat : t <= t
        OBVIOUS
      <4>2. QED BY <1>1, <2>2, <4>1, Zenon
    <3>3. Silent(d)
      BY <1>1, <2>2, <3>1, <3>2, Zenon DEF Silent
    <3>4. QED BY <2>1, <3>3, SilentSends
  <2>4. CASE d = c
    <3>1. IsHeard(c, q)
      BY <1>1, <1>5, <1>6, <1>7, <1>8 DEF IsHeard
    <3>2. QED BY <2>1, <2>4, <3>1, HeardSends
  <2>5. QED BY <2>3, <2>4
<1>17. CopiesFrozen
  <2>1. ASSUME NEW d \in remote, d \notin Served' PROVE log'[d] = log[d]
    <3>1. d # c /\ d \in Fields
      BY <1>1, <1>3, <2>1 DEF Confirming
    <3>2. QED BY <1>8, <3>1
  <2>2. players' \subseteq players
    BY <1>1
  <2>3. QED BY <1>1, <1>9, <2>1, <2>2, Zenon DEF CopiesFrozen
<1>18. DownInv' /\ UpInv'
  BY <1>15, <1>16, ByClient
<1>19. QED BY <1>12, <1>13, <1>14, <1>17, <1>18, Gathered

-----------------------------------------------------------------------------
(* The connection of a client ends.                                        *)

(* The invariant after a player has left for it.                           *)
LEMMA LeavingInv ==
  ASSUME LockInv, NEW c \in Fields, NEW f \in Fields, Leaving(c, f), [Next]_vars
  PROVE  LockInv'
<1>1. /\ tick' = tick /\ players' = players \ {f} /\ f \in players /\ c \in remote
      /\ lost' = [lost EXCEPT ![f] = TRUE]
      /\ remote' = remote /\ loseAt' = loseAt /\ gbTo' = gbTo
      /\ refusal' = [refusal EXCEPT ![c] = "closed"]
      /\ copy' = copy /\ phase = "GAME" /\ log' = log /\ wait' = wait
      /\ up' = Silenced(up, {c, f})
  BY DEF Leaving, Leave, Refuse
<1>2. TypeOK'
  <2>1. MatchInv'
    BY MatchInvStep DEF LockInv
  <2>2. QED BY <2>1 DEF MatchInv
<1>3. /\ log \in [Fields -> Seq(Entry)] /\ wait \in [Fields -> Seq(Nat)]
      /\ copy \in [Fields -> Copy] /\ remote \subseteq Fields /\ loseAt \in [Fields -> Nat]
      /\ tick \in [Fields -> Nat] /\ up \in [Fields -> Seq(UpMessage)]
      /\ down \in [Fields -> Seq(DownMessage)] /\ lost \in [Fields -> BOOLEAN]
      /\ refusal \in [Fields -> Refusals]
  BY DEF LockInv, LockstepTypeOK, TypeOK
<1>4. gbTo \in Seq(Fields) /\ IsPrefix(gbTo, gbTo)
  <2>1. gbTo \in Seq(Fields)
    BY DEF LockInv, LockstepTypeOK
  <2>2. QED BY <2>1, PrefixByEntry
<1>5. \A g \in Fields : IsPrefix(log[g], log[g])
  <2>1. \A g \in Fields : log[g] \in Seq(Entry)
    BY <1>3
  <2>2. QED BY <2>1, PrefixOfItself, Zenon
<1>6. \A g \in Fields : lost'[g] <=> g = f \/ lost[g]
  BY <1>1, <1>3, Zenon
<1>15. Following' \subseteq Following \ {c, f} /\ Served' \subseteq Served \ {c, f}
  <2>1. players' = players \ {f} /\ {c} \union {f} = {c, f}
    BY <1>1
  <2>2. QED BY <1>1, <1>3, <2>1, ClosedLeaves, Zenon
<1>16. refusal' \in [Fields -> Refusals]
  BY <1>1, <1>3, ClosedLeaves, Zenon
<1>7. EachHears /\ EachSays
  <2>1. /\ down' = [d \in Fields |-> down'[d]]
        /\ \A d \in Fields : down'[d] = IF d \in {c, f} THEN <<>> ELSE QuitTold(f)[d]
        /\ \A d \in Fields \ Following : QuitTold(f)[d] = down[d]
    BY DEF Leaving, Silenced, QuitTold
  <2>4. \A d \in Fields : down'[d] \in {down[d], <<>>} \/ \E r : Hears(d, r)
    <3> SUFFICES ASSUME NEW d \in Following, d \notin {c, f} PROVE \E r : Hears(d, r)
      BY <2>1
    <3>1. PICK r : Told(d, r)
      BY LeaveTold
    <3>2. QED BY <3>1 DEF Told
  <2>5. \A d \in Fields : up'[d] \in {up[d], <<>>}
    BY <1>1, <1>3 DEF Silenced
  <2>6. up' = [d \in Fields |-> up'[d]] /\ players' \subseteq players
    BY <1>1, <1>3 DEF Silenced
  <2>7. EachHears
    BY <1>1, <1>4, <2>1, <2>4, <2>6 DEF EachHears
  <2>8. EachSays
    BY <1>1, <1>4, <2>5, <2>6 DEF EachSays
  <2>9. QED BY <2>7, <2>8
<1>8. LockstepTypeOK'
  <2>1. down' \in [Fields -> Seq(DownMessage)] /\ up' \in [Fields -> Seq(UpMessage)]
    BY <1>7, EachHearsGood, EachSaysGood
  <2>2. /\ \A g \in Fields : Dated(log[g], tick[g])
        /\ \A d, g \in Fields : Dated(copy[d].log[g], copy[d].ticks[g])
    BY DEF LockInv, LockstepTypeOK
  <2>3. (\A g \in Fields : Dated(log[g], tick[g]))'
    BY <1>1, <2>2 DEF Dated
  <2>4. (\A d, g \in Fields : Dated(copy[d].log[g], copy[d].ticks[g]))'
    BY <1>1, <2>2 DEF Dated
  <2>5. QED BY <1>1, <1>2, <1>3, <1>4, <1>16, <2>1, <2>3, <2>4 DEF LockstepTypeOK
<1>9. Losses'
  <2>1. \A g \in Fields : lost'[g] <=> g \notin players' \/ tick'[g] >= loseAt'[g]
    BY <1>1, <1>6 DEF LockInv, Losses
  <2>2. QED BY <2>1 DEF Losses
<1>10. GoodMessages'
  <2>1. \A d \in Fields : copy'[d].gone \intersect players' = {}
    BY <1>1 DEF LockInv, GoodMessages
  <2>2. QED BY <1>7, <2>1, EachHearsGood, EachSaysGood DEF GoodMessages
<1>11. \A d \in Following' : Follows(d)'
  <2> TAKE d \in Following'
  <2>1. d \in Following /\ d \in Fields /\ d \notin {c, f}
    BY <1>3, <1>15 DEF Following
  <2>2. PICK r : Told(d, r)
    BY <2>1, LeaveTold
  <2>3. tick' \in [Fields -> Nat]
    BY <1>1, <1>3
  <2>4. QED BY <2>1, <2>2, <2>3, ToldFollows
<1>12. \A d \in Fields : Sending(d)' => Sends(d)'
  <2> SUFFICES ASSUME NEW d \in Fields, Sending(d)' PROVE Sends(d)'
    OBVIOUS
  <2>1. Sending(d) /\ d \notin {c, f}
    BY <1>1, <1>15 DEF Sending
  <2>2. copy[d] \in Copy /\ \A g \in Fields : copy[d].ticks[g] \in Nat
    BY <1>3, CopyTicks, Zenon
  <2>3. up'[d] = up[d]
    BY <1>1, <1>3, <2>1 DEF Silenced
  <2>4. \A g \in Fields : copy[d].ticks[g] <= copy'[d].ticks[g]
    <3>1. \A t \in Nat : t <= t
      OBVIOUS
    <3>2. QED BY <1>1, <2>2, <3>1, Zenon
  <2>5. Silent(d)
    BY <1>1, <1>6, <2>2, <2>3, <2>4, Zenon DEF Silent
  <2>6. QED BY <2>1, <2>5, SilentSends
<1>13. CopiesFrozen
  <2>1. players' \subseteq players
    BY <1>1
  <2>2. QED BY <1>1, <1>5, <2>1, Zenon DEF CopiesFrozen
<1>14. DownInv' /\ UpInv'
  BY <1>11, <1>12, ByClient
<1>19. QED BY <1>8, <1>9, <1>10, <1>13, <1>14, Gathered

(* No player leaves for it: the one who is reported has left already.      *)
LEMMA ClosingDrops ==
  ASSUME LockInv, NEW c \in Fields, c \in remote, Refuse(c, "closed"),
         down' = Silenced(down, {c}), up' = Silenced(up, {c}),
         UNCHANGED <<matchVars, remote, loseAt, log, wait, gbTo, copy>>
  PROVE  Dropping(c)
<1>1. /\ up \in [Fields -> Seq(UpMessage)] /\ down \in [Fields -> Seq(DownMessage)]
      /\ refusal \in [Fields -> Refusals] /\ remote \subseteq Fields
      /\ remote' = remote /\ players' = players /\ players' \subseteq players
      /\ refusal' = [refusal EXCEPT ![c] = "closed"]
  BY DEF LockInv, LockstepTypeOK, matchVars, vars, Refuse
<1>2. /\ up' = [d \in Fields |-> up'[d]] /\ up'[c] = <<>>
      /\ down' = [d \in Fields |-> down'[d]] /\ down'[c] = <<>>
      /\ \A d \in Fields \ {c} : up'[d] = up[d] /\ down'[d] = down[d]
  BY <1>1 DEF Silenced
<1>3. /\ Following' \subseteq Following \ {c} /\ Served' \subseteq Served \ {c}
      /\ refusal' \in [Fields -> Refusals]
  <2>1. players' = players \ {} /\ {c} \union {} = {c}
    BY <1>1
  <2>2. QED BY <1>1, <2>1, ClosedLeaves, Zenon
<1>4. c \notin Following' /\ ~Sending(c)'
  BY <1>3 DEF Sending
<1>5. \A d \in Fields \ {c} : refusal'[d] = refusal[d]
  BY <1>1
<1>6. QED BY <1>2, <1>3, <1>4, <1>5, Zenon DEF Dropping

(* The invariant after a connection has ended.                             *)
LEMMA DisconnectInv ==
  ASSUME LockInv, NEW c \in Fields, Disconnect(c), UNCHANGED <<remote, loseAt>>, [Next]_vars
  PROVE  LockInv'
<1>1. /\ c \in remote /\ Refuse(c, "closed") /\ UNCHANGED <<log, wait, gbTo, copy>>
  BY DEF Disconnect
<1>2. PICK f \in Reported(c) :
        IF f \in players
        THEN /\ Leave(f)
             /\ down' = Silenced(QuitTold(f), {c, f}) /\ up' = Silenced(up, {c, f})
        ELSE /\ UNCHANGED matchVars
             /\ down' = Silenced(down, {c}) /\ up' = Silenced(up, {c})
  BY DEF Disconnect
<1>3. f \in Fields
  BY <1>1, <1>2 DEF Reported, LockInv, LockstepTypeOK
<1>4. CASE f \in players
  <2>1. Leaving(c, f)
    BY <1>1, <1>2, <1>4 DEF Leaving
  <2>2. QED BY <1>3, <2>1, LeavingInv
<1>5. CASE f \notin players
  <2>1. Dropping(c)
    BY <1>1, <1>2, <1>5, ClosingDrops
  <2>2. QED BY <2>1, DroppingInv
<1>6. QED BY <1>4, <1>5

-----------------------------------------------------------------------------
(* A client moves its copy: it steps its field, or reads a message.        *)
Moving(c) ==
  /\ UNCHANGED <<matchVars, remote, loseAt, log, wait, gbTo, refusal>>
  /\ copy' = [d \in Fields |-> copy'[d]]
  /\ \A d \in Fields \ {c} : copy'[d] = copy[d] /\ up'[d] = up[d] /\ down'[d] = down[d]
  /\ copy'[c] \in Copy /\ copy'[c].gone \intersect players = {}
  /\ \A f \in Fields : Dated(copy'[c].log[f], copy'[c].ticks[f])

(* The invariant after it has, when its own channels are what they should. *)
LEMMA MovingInv ==
  ASSUME LockInv, NEW c \in Fields, c \in Following, Moving(c), [Next]_vars, EachHears, EachSays,
         Follows(c)', Sending(c) => Sends(c)'
  PROVE  LockInv'
<1>1. /\ tick' = tick /\ lost' = lost /\ players' = players /\ phase' = phase
      /\ remote' = remote /\ loseAt' = loseAt /\ log' = log /\ wait' = wait /\ gbTo' = gbTo
      /\ refusal' = refusal /\ matchVars' = matchVars
      /\ Following' = Following /\ Served' = Served
  BY DEF Moving, matchVars, vars, Following, Served
<1>2. TypeOK'
  <2>1. MatchInv'
    BY MatchInvStep DEF LockInv
  <2>2. QED BY <2>1 DEF MatchInv
<1>3. /\ log \in [Fields -> Seq(Entry)] /\ wait \in [Fields -> Seq(Nat)]
      /\ copy \in [Fields -> Copy] /\ remote \subseteq Fields /\ loseAt \in [Fields -> Nat]
      /\ refusal \in [Fields -> Refusals]
      /\ gbTo \in Seq(Fields) /\ tick \in [Fields -> Nat]
  BY DEF LockInv, LockstepTypeOK, TypeOK
<1>4. \A f \in Fields : IsPrefix(log[f], log[f])
  <2>1. \A f \in Fields : log[f] \in Seq(Entry)
    BY <1>3
  <2>2. QED BY <2>1, PrefixOfItself, Zenon
<1>5. copy' \in [Fields -> Copy]
  BY <1>3 DEF Moving
<1>6. LockstepTypeOK'
  <2>1. down' \in [Fields -> Seq(DownMessage)] /\ up' \in [Fields -> Seq(UpMessage)]
    BY EachHearsGood, EachSaysGood
  <2>2. /\ \A g \in Fields : Dated(log[g], tick[g])
        /\ \A d, g \in Fields : Dated(copy[d].log[g], copy[d].ticks[g])
    BY DEF LockInv, LockstepTypeOK
  <2>3. (\A g \in Fields : Dated(log[g], tick[g]))'
    BY <1>1, <2>2 DEF Dated
  <2>4. \A d, g \in Fields : Dated(copy'[d].log[g], copy'[d].ticks[g])
    BY <2>2 DEF Moving
  <2>5. (\A d, g \in Fields : Dated(copy[d].log[g], copy[d].ticks[g]))'
    BY <2>4 DEF Dated
  <2>6. QED BY <1>1, <1>2, <1>3, <1>5, <2>1, <2>3, <2>5 DEF LockstepTypeOK
<1>7. Losses'
  BY <1>1 DEF LockInv, Losses
<1>8. GoodMessages'
  <2>1. \A d \in Fields : copy'[d].gone \intersect players' = {}
    BY <1>1 DEF LockInv, GoodMessages, Moving
  <2>2. QED BY <2>1, EachHearsGood, EachSaysGood DEF GoodMessages
<1>9. \A d \in Following' : Follows(d)'
  <2> SUFFICES ASSUME NEW d \in Following', d # c PROVE Follows(d)'
    OBVIOUS
  <2>1. d \in Following /\ d \in Fields
    BY <1>1, <1>3 DEF Following
  <2>2. down'[d] = down[d] /\ copy'[d] = copy[d]
    BY <2>1 DEF Moving
  <2>3. copy[d] \in Copy /\ \A f \in Fields : copy[d].ticks[f] \in Nat
    BY <1>3, <2>1, CopyTicks, Zenon
  <2>4. copy[d].ticks[d] <= copy'[d].ticks[d]
    <3>1. \A t \in Nat : t <= t
      OBVIOUS
    <3>2. QED BY <2>1, <2>2, <2>3, <3>1, Zenon
  <2>5. Undisturbed(d)
    BY <1>1, <2>2, <2>3, <2>4, Zenon DEF Undisturbed
  <2>6. QED BY <2>1, <2>5, UndisturbedFollows
<1>10. \A d \in Fields : Sending(d)' => Sends(d)'
  <2> SUFFICES ASSUME NEW d \in Fields, Sending(d)' PROVE Sends(d)'
    OBVIOUS
  <2>1. Sending(d)
    BY <1>1 DEF Sending
  <2>2. CASE d = c
    BY <2>1, <2>2
  <2>3. CASE d # c
    <3>1. up'[d] = up[d] /\ copy'[d] = copy[d]
      BY <2>3 DEF Moving
    <3>2. copy[d] \in Copy /\ \A f \in Fields : copy[d].ticks[f] \in Nat
      BY <1>3, CopyTicks, Zenon
    <3>3. \A f \in Fields : copy[d].ticks[f] <= copy'[d].ticks[f]
      <4>1. \A t \in Nat : t <= t
        OBVIOUS
      <4>2. QED BY <3>1, <3>2, <4>1, Zenon
    <3>4. Silent(d)
      BY <1>1, <3>1, <3>2, <3>3, Zenon DEF Silent
    <3>5. QED BY <2>1, <3>4, SilentSends
  <2>4. QED BY <2>2, <2>3
<1>11. CopiesFrozen
  <2>1. \A d \in Fields : d \notin Following' => copy'[d] = copy[d]
    BY <1>1 DEF Moving
  <2>2. players' \subseteq players
    BY <1>1
  <2>3. QED BY <1>1, <1>4, <2>1, <2>2, Zenon DEF CopiesFrozen
<1>12. DownInv' /\ UpInv'
  BY <1>9, <1>10, ByClient
<1>13. QED BY <1>6, <1>7, <1>8, <1>11, <1>12, Gathered

(* A client steps its field: an input that is not hasty is in the window   *)
(* of every field that lives, for the client and hence for the server.     *)
LEMMA InputInWindow ==
  ASSUME LockInv, NEW c \in Following, InWindow(copy[c], c),
         ~Above(copy[c].tick, copy[c].ticks, LostIn(copy[c]))
  PROVE  \A f \in Fields \ {c} :
           lost[f] \/ copy[c].ticks[c] + 1 < copy[c].ticks[f] + LagMax
<1> DEFINE v == copy[c]
<1>1. /\ c \in Fields /\ v \in Copy /\ tick \in [Fields -> Nat] /\ loseAt \in [Fields -> Nat]
      /\ lost \in [Fields -> BOOLEAN]
  BY DEF LockInv, LockstepTypeOK, TypeOK, Following
<1>2. \A f \in Fields : v.ticks[f] \in Nat /\ tick[f] \in Nat /\ loseAt[f] \in Nat
  BY <1>1 DEF Copy
<1>3. v.tick \in Nat
  BY <1>1 DEF Copy
<1>4. \A f \in Fields \ {c} : v.ticks[f] <= tick[f]
  BY <1>1 DEF LockInv, DownInv, OtherTicks, Consecutive
<1>5. v.ticks[c] + 1 < v.tick + LagMax
  BY DEF InWindow
<1>6. \A f \in Fields : LostIn(v)[f] \/ ~(v.ticks[f] < v.tick)
  BY DEF Above
<1>7. \A f \in Fields : LostIn(v)[f] <=> f \in v.gone \/ v.ticks[f] >= loseAt[f]
  BY DEF LostIn
<1>8. \A f \in Fields : f \in v.gone => f \notin players
  BY <1>1 DEF LockInv, GoodMessages
<1> HIDE DEF v
<1>9. ASSUME NEW f \in Fields \ {c} PROVE lost[f] \/ v.ticks[c] + 1 < v.ticks[f] + LagMax
  <2>1. CASE f \in v.gone
    BY <1>8, <2>1, Zenon DEF LockInv, Losses
  <2>2. CASE v.ticks[f] >= loseAt[f]
    <3>1. tick[f] >= loseAt[f]
      BY <1>2, <1>4, <2>2
    <3>2. QED BY <3>1, Zenon DEF LockInv, Losses
  <2>3. CASE ~(v.ticks[f] < v.tick)
    <3>1. v.ticks[c] + 1 < v.ticks[f] + LagMax
      BY <1>1, <1>2, <1>3, <1>5, <2>3, LagAssumption
    <3>2. QED BY <3>1
  <2>4. QED BY <1>6, <1>7, <2>1, <2>2, <2>3
<1>10. QED BY <1>9 DEF v

(* The invariant after a client has stepped its field.                     *)
LEMMA ClientStepInv ==
  ASSUME LockInv, NEW c \in Fields, ClientStep(c), UNCHANGED <<remote, loseAt>>, [Next]_vars
  PROVE  LockInv'
<1> DEFINE v == copy[c]
           w == copy'[c]
           t == v.ticks[c]
           h == Above(v.tick, v.ticks, LostIn(v))
           m == [type |-> "INPUT", tick |-> t, hasty |-> h]
<1>1. /\ copy \in [Fields -> Copy] /\ up \in [Fields -> Seq(UpMessage)]
      /\ loseAt \in [Fields -> Nat] /\ gbTo \in Seq(Fields) /\ v \in Copy
      /\ down = [d \in Fields |-> down[d]]
  BY DEF LockInv, LockstepTypeOK
<1>2. \A f \in Fields : v.ticks[f] \in Nat /\ v.log[f] \in Seq(Entry)
  BY <1>1 DEF Copy
<1>3. /\ c \in Following /\ InWindow(v, c)
      /\ copy' = [copy EXCEPT ![c] = Stepped(v, c, t)]
      /\ up' = [up EXCEPT ![c] = Append(@, m)]
      /\ UNCHANGED <<matchVars, log, wait, gbTo, down, refusal, remote, loseAt>>
  BY DEF ClientStep
<1>4. StepEffect(v, w, c, t)
  <2>1. w = Stepped(v, c, t)
    BY <1>1, <1>3
  <2>2. StepEffect(v, Stepped(v, c, t), c, t)
    BY <1>1, <1>2, SteppedKeeps
  <2>3. QED BY <2>1, <2>2
<1>5. h \in BOOLEAN /\ m \in UpMessage
  BY <1>2 DEF Above, UpMessage
<1>6. /\ w \in Copy /\ w.on = v.on /\ w.gone = v.gone
      /\ w.ticks[c] = t + 1 /\ w.log[c] = Append(v.log[c], Key(t))
      /\ \A f \in Fields \ {c} : w.ticks[f] = v.ticks[f] /\ w.log[f] = v.log[f]
      /\ Anchored(v) => Anchored(w)
  BY <1>4 DEF StepEffect
<1>7. /\ copy' = [d \in Fields |-> copy'[d]] /\ up' = [d \in Fields |-> up'[d]]
      /\ \A d \in Fields \ {c} : copy'[d] = copy[d] /\ up'[d] = up[d] /\ down'[d] = down[d]
      /\ up'[c] = Append(up[c], m) /\ down' = down
      /\ tick' = tick /\ lost' = lost /\ players' = players /\ log' = log /\ gbTo' = gbTo
  BY <1>1, <1>3 DEF matchVars, vars
<1>8. \A f \in Fields : v.ticks[f] <= w.ticks[f]
  BY <1>2, <1>6
<1>9. Moving(c)
  <2>1. w.gone \intersect players = {}
    BY <1>6 DEF LockInv, GoodMessages
  <2>2. \A f \in Fields : Dated(v.log[f], v.ticks[f])
    BY DEF LockInv, LockstepTypeOK
  <2>3. Dated(Append(v.log[c], Key(t)), t + 1)
    BY <1>2, <2>2, DatedMore
  <2>4. \A f \in Fields : Dated(w.log[f], w.ticks[f])
    BY <1>6, <2>2, <2>3
  <2>5. QED BY <1>3, <1>6, <1>7, <2>1, <2>4 DEF Moving
<1> HIDE DEF m
<1>10. EachHears
  BY <1>1, <1>7, PrefixOfItself DEF EachHears
<1>11. EachSays
  <2>1. GoodUp(m, c)'
    BY DEF GoodUp, m
  <2>2. IsPrefix(gbTo, gbTo') /\ gbTo' \in Seq(Fields) /\ players' \subseteq players
    BY <1>1, <1>7, PrefixOfItself
  <2>3. \A d \in Fields : \/ up'[d] = up[d]
                          \/ \E x \in UpMessage : GoodUp(x, d)' /\ up'[d] = Append(up[d], x)
    <3>1. \E x \in UpMessage : GoodUp(x, c)' /\ up'[c] = Append(up[c], x)
      <4>1. up'[c] = Append(up[c], m) /\ m.type # "DROP"
        BY <1>7 DEF m
      <4>2. QED BY <1>5, <4>1 DEF GoodUp
    <3>2. \A d \in Fields \ {c} : up'[d] = up[d]
      BY <1>7
    <3>3. QED BY <3>1, <3>2, Zenon
  <2>4. QED BY <1>7, <2>2, <2>3 DEF EachSays
<1>12. Follows(c)'
  <2>1. Undisturbed(c)
    BY <1>3, <1>6, <1>7, <1>8, Zenon DEF Undisturbed
  <2>2. QED BY <1>3, <2>1, UndisturbedFollows
<1>13. ASSUME Sending(c) PROVE Sends(c)'
  <2>1. /\ <<m>> \in Seq(UpMessage) /\ Len(<<m>>) <= 1 /\ up'[c] = up[c] \o <<m>>
        /\ DOMAIN <<m>> = {1} /\ <<m>>[1] = m
    BY <1>1, <1>5, <1>7
  <2>2. UpInputs(<<m>>) = {1} /\ <<m>>[1].tick = t /\ <<m>>[1].hasty = h
    BY <2>1 DEF UpInputs, m
  <2>3. UpEntry(m) = Key(t)
    BY DEF UpEntry, m
  <2>4. UpLog(<<m>>) = <<Key(t)>>
    BY <2>1, <2>3 DEF UpLog
  <2>5. w.log[c] = v.log[c] \o UpLog(<<m>>)
    <3>1. v.log[c] \in Seq(Entry) /\ Key(t) \in Entry
      BY <1>2 DEF Key, Entry
    <3>2. Append(v.log[c], Key(t)) = v.log[c] \o <<Key(t)>>
      BY <3>1, AppendIsConcat, Zenon
    <3>3. QED BY <1>6, <2>4, <3>2
  <2>6. ~<<m>>[1].hasty =>
          \A f \in Fields \ {c} : lost[f] \/ <<m>>[1].tick + 1 < v.ticks[f] + LagMax
    BY <1>3, <2>2, InputInWindow
  <2>7. Says(c, <<m>>)
    BY <1>6, <1>7, <1>8, <2>1, <2>2, <2>5, <2>6, Zenon DEF Says
  <2>8. QED BY <1>13, <2>7, SaysSends
<1>14. QED BY <1>3, <1>9, <1>10, <1>11, <1>12, <1>13, MovingInv

(* The client's copies stay in order of ticks when it reads a message.     *)
LEMMA ReadDated ==
  ASSUME LockInv, NEW c \in Following, NEW q \in Seq(DownMessage), ReadsNext(c, q),
         NEW f \in Fields
  PROVE  Dated(copy'[c].log[f], copy'[c].ticks[f])
<1> DEFINE v == copy[c]
           w == copy'[c]
<1>1. /\ c \in Fields /\ copy \in [Fields -> Copy] /\ tick \in [Fields -> Nat]
      /\ q = down[c] /\ q # <<>> /\ gbTo \in Seq(Fields)
  BY DEF LockInv, LockstepTypeOK, TypeOK, Following, ReadsNext, Readable
<1>2. v \in Copy /\ v.ticks[f] \in Nat /\ v.log[f] \in Seq(Entry) /\ tick[f] \in Nat
  BY <1>1 DEF Copy
<1>3. PICK m \in DownMessage : m = q[1] /\ 1 \in DOMAIN q
  BY <1>1
<1>4. GoodDown(m, c)
  BY <1>1, <1>3 DEF LockInv, GoodMessages
<1>5. MoveEffect(v, w, m, c)
  BY <1>3, ReadApplies
<1>6. /\ w.ticks[f] = IF m.type = "INPUT" /\ m.fld = f THEN v.ticks[f] + 1 ELSE v.ticks[f]
      /\ w.log[f] = IF Writes(m, f, c) THEN Append(v.log[f], UpEntry(m)) ELSE v.log[f]
  BY <1>5 DEF MoveEffect
<1>7. Dated(v.log[f], v.ticks[f])
  BY <1>1 DEF LockInv, LockstepTypeOK
<1> HIDE DEF v, w
<1>8. CASE m.type = "INPUT" /\ m.fld = f
  <2>1. f # c
    BY <1>4, <1>8 DEF GoodDown
  <2>2. 1 \in DownInputs(q, f)
    BY <1>3, <1>8 DEF DownInputs
  <2>3. OtherTicks(c, f)
    BY <1>1, <2>1 DEF LockInv, DownInv
  <2>4. m.tick = v.ticks[f]
    BY <1>1, <1>2, <1>3, <2>2, <2>3, NextInput DEF v
  <2>5. Writes(m, f, c) /\ UpEntry(m) = Key(v.ticks[f])
    BY <1>8, <2>1, <2>4 DEF Writes, About, UpEntry
  <2>6. Dated(Append(v.log[f], Key(v.ticks[f])), v.ticks[f] + 1)
    BY <1>2, <1>7, DatedMore
  <2>7. Dated(w.log[f], w.ticks[f])
    BY <1>6, <1>8, <2>5, <2>6, Zenon
  <2>8. QED BY <2>7 DEF w
<1>9. CASE ~(m.type = "INPUT" /\ m.fld = f) /\ Writes(m, f, c)
  <2>1. UpEntry(m) = Drop(m.gb) /\ m.gb \in Nat
    BY <1>3, <1>9 DEF Writes, About, UpEntry, DownMessage
  <2>2. Dated(Append(v.log[f], Drop(m.gb)), v.ticks[f])
    BY <1>2, <1>7, <2>1, DatedMore
  <2>3. Dated(w.log[f], w.ticks[f])
    BY <1>6, <1>9, <2>1, <2>2, Zenon
  <2>4. QED BY <2>3 DEF w
<1>10. CASE ~(m.type = "INPUT" /\ m.fld = f) /\ ~Writes(m, f, c)
  <2>1. Dated(w.log[f], w.ticks[f])
    BY <1>6, <1>7, <1>10, Zenon
  <2>2. QED BY <2>1 DEF w
<1>11. QED BY <1>8, <1>9, <1>10

(* A client reads a message it does not refuse.                            *)
Reading(c, q) ==
  /\ ReadsNext(c, q)
  /\ copy' = [copy EXCEPT ![c] = copy'[c]] /\ down' = [down EXCEPT ![c] = Tail(q)]
  /\ up' = IF q[1].type = "WAIT" /\ gbTo[q[1].gb] = c
           THEN [up EXCEPT ![c] = Append(@, [type |-> "DROP", gb |-> q[1].gb])] ELSE up
  /\ UNCHANGED <<wait, refusal>>

(* What the server will hear from it: the drop of its own garbage.         *)
LEMMA ReadingSends ==
  ASSUME LockInv, NEW c \in Following, NEW q \in Seq(DownMessage), Reading(c, q), Sending(c)
  PROVE  Sends(c)'
<1> DEFINE v == copy[c]
           w == copy'[c]
<1>1. /\ c \in Fields /\ copy \in [Fields -> Copy] /\ up \in [Fields -> Seq(UpMessage)]
      /\ q = down[c] /\ q # <<>> /\ gbTo \in Seq(Fields) /\ ReadsNext(c, q)
      /\ tick' = tick /\ log' = log /\ lost' = lost /\ Fields # {}
  BY DEF LockInv, LockstepTypeOK, Following, Reading, ReadsNext, Readable, matchVars, vars
<1>2. v \in Copy /\ v.log[c] \in Seq(Entry)
  BY <1>1 DEF Copy
<1>3. PICK m \in DownMessage : m = q[1] /\ 1 \in DOMAIN q
  <2>1. q # <<>>
    BY <1>1
  <2>2. QED BY <2>1
<1>4. GoodDown(m, c)
  BY <1>1, <1>3 DEF LockInv, GoodMessages
<1>5. MoveEffect(v, w, m, c)
  BY <1>1, <1>3, ReadApplies
<1>6. /\ w.ticks[c] = IF m.type = "INPUT" /\ m.fld = c THEN v.ticks[c] + 1 ELSE v.ticks[c]
      /\ w.log[c] = IF Writes(m, c, c) THEN Append(v.log[c], UpEntry(m)) ELSE v.log[c]
      /\ w \in Copy
  BY <1>1, <1>5 DEF MoveEffect
<1>7. w.ticks[c] = v.ticks[c]
  BY <1>4, <1>6 DEF GoodDown
<1>8. \A f \in Fields \ {c} : v.ticks[f] <= w.ticks[f] /\ (lost[f] => lost'[f])
  <2>1. \A f \in Fields : v.ticks[f] <= w.ticks[f]
    BY <1>1, ReadApplies DEF Applied
  <2>2. QED BY <1>1, <2>1
<1> HIDE DEF v, w
<1>9. CASE Writes(m, c, c)
  <2> DEFINE x == [type |-> "DROP", gb |-> m.gb]
  <2>1. m.type = "WAIT" /\ gbTo[m.gb] = c /\ m.gb \in Nat
    BY <1>3, <1>9 DEF Writes, DownMessage
  <2>2. x \in UpMessage /\ UpEntry(x) = Drop(m.gb) /\ UpEntry(m) = Drop(m.gb)
        /\ x.type # "INPUT" /\ Drop(m.gb) \in Entry
    BY <2>1 DEF UpMessage, UpEntry, Drop, Entry
  <2>3. up'[c] = Append(up[c], x)
    BY <1>1, <1>3, <2>1 DEF Reading
  <2> HIDE DEF x
  <2>4. /\ <<x>> \in Seq(UpMessage) /\ Len(<<x>>) <= 1 /\ up'[c] = up[c] \o <<x>>
        /\ DOMAIN <<x>> = {1} /\ <<x>>[1] = x
    BY <1>1, <2>2, <2>3
  <2>5. UpInputs(<<x>>) = {}
    BY <2>2, <2>4 DEF UpInputs
  <2>6. UpLog(<<x>>) = <<Drop(m.gb)>>
    BY <2>2, <2>4 DEF UpLog
  <2>7. w.log[c] = v.log[c] \o UpLog(<<x>>)
    <3>1. Append(v.log[c], Drop(m.gb)) = v.log[c] \o <<Drop(m.gb)>>
      BY <1>2, <2>2, AppendIsConcat, Zenon
    <3>2. QED BY <1>6, <1>9, <2>2, <2>6, <3>1
  <2>8. Says(c, <<x>>)
    BY <1>1, <1>6, <1>7, <1>8, <2>4, <2>5, <2>7, Zenon DEF Says, v, w
  <2>9. QED BY <1>1, <2>8, SaysSends
<1>10. CASE ~Writes(m, c, c)
  <2>1. ~(m.type = "WAIT" /\ gbTo[m.gb] = c)
    BY <1>10 DEF Writes
  <2>2. up'[c] = up[c]
    BY <1>3, <2>1 DEF Reading
  <2>3. w.log[c] = v.log[c]
    BY <1>6, <1>10
  <2>4. Silent(c)
    BY <1>1, <1>6, <1>7, <1>8, <2>2, <2>3, Zenon DEF Silent, v, w
  <2>5. QED BY <1>1, <2>4, SilentSends
<1>11. QED BY <1>9, <1>10

(* The invariant after a client has read a message.                        *)
LEMMA ReadingInv ==
  ASSUME LockInv, NEW c \in Following, NEW q \in Seq(DownMessage), Reading(c, q), [Next]_vars
  PROVE  LockInv'
<1>1. /\ c \in Fields /\ copy \in [Fields -> Copy] /\ up \in [Fields -> Seq(UpMessage)]
      /\ down \in [Fields -> Seq(DownMessage)]
      /\ q = down[c] /\ q # <<>> /\ gbTo \in Seq(Fields) /\ ReadsNext(c, q)
      /\ gbTo' = gbTo /\ players' = players
      /\ UNCHANGED <<matchVars, remote, loseAt, log, wait, gbTo, refusal>>
  BY DEF LockInv, LockstepTypeOK, Following, Reading, ReadsNext, Readable, matchVars, vars
<1>2. PICK m \in DownMessage : m = q[1] /\ 1 \in DOMAIN q
  BY <1>1
<1>3. GoodDown(m, c)
  BY <1>1, <1>2 DEF LockInv, GoodMessages
<1>4. MoveEffect(copy[c], copy'[c], m, c)
  BY <1>1, <1>2, ReadApplies
<1>5. copy'[c] \in Copy /\ copy'[c].gone \intersect players = {}
  <2>1. copy[c].gone \intersect players = {}
    BY <1>1 DEF LockInv, GoodMessages
  <2>2. QED BY <1>3, <1>4, <2>1 DEF MoveEffect, GoodDown
<1>6. /\ copy' = [d \in Fields |-> copy'[d]]
      /\ \A d \in Fields \ {c} : copy'[d] = copy[d]
  BY <1>1 DEF Reading
<1>7. /\ down' = [d \in Fields |-> down'[d]] /\ down'[c] = Tail(q)
      /\ \A d \in Fields \ {c} : down'[d] = down[d]
  BY <1>1 DEF Reading
<1>8. /\ up' = [d \in Fields |-> up'[d]]
      /\ \A d \in Fields \ {c} : up'[d] = up[d]
      /\ \/ up'[c] = up[c]
         \/ /\ m.type = "WAIT" /\ gbTo[m.gb] = c
            /\ up'[c] = Append(up[c], [type |-> "DROP", gb |-> m.gb])
  BY <1>1, <1>2 DEF Reading
<1>9. Moving(c)
  <2>1. \A f \in Fields : Dated(copy'[c].log[f], copy'[c].ticks[f])
    BY <1>1, ReadDated
  <2>2. QED BY <1>1, <1>5, <1>6, <1>7, <1>8, <2>1 DEF Moving
<1>10. IsPrefix(gbTo, gbTo') /\ gbTo' \in Seq(Fields) /\ players' \subseteq players
  BY <1>1, PrefixOfItself
<1>11. EachHears
  <2>1. \A d \in Fields : down'[d] = down[d] \/ (down[d] # <<>> /\ down'[d] = Tail(down[d]))
    BY <1>1, <1>7
  <2>2. QED BY <1>7, <1>10, <2>1 DEF EachHears
<1>12. EachSays
  <2>1. up'[c] = up[c] \/ \E x \in UpMessage : GoodUp(x, c)' /\ up'[c] = Append(up[c], x)
    <3>1. CASE up'[c] = up[c]
      BY <3>1
    <3>2. CASE up'[c] # up[c]
      <4> DEFINE x == [type |-> "DROP", gb |-> m.gb]
      <4>1. m.type = "WAIT" /\ gbTo[m.gb] = c /\ up'[c] = Append(up[c], x)
        BY <1>8, <3>2
      <4>2. m.gb \in DOMAIN gbTo /\ m.gb \in Nat
        BY <1>1, <1>2, <1>3, <4>1 DEF GoodDown, DownMessage
      <4>3. x \in UpMessage
        BY <4>2 DEF UpMessage
      <4>4. x.gb = m.gb
        OBVIOUS
      <4> HIDE DEF x
      <4>5. QED BY <1>1, <4>1, <4>2, <4>3, <4>4 DEF GoodUp
    <3>3. QED BY <3>1, <3>2
  <2>2. QED BY <1>8, <1>10, <2>1 DEF EachSays
<1>13. Follows(c)'
  BY <1>1, ReadFollows
<1>14. Sending(c) => Sends(c)'
  BY ReadingSends
<1>15. QED BY <1>1, <1>9, <1>11, <1>12, <1>13, <1>14, MovingInv

-----------------------------------------------------------------------------
(* Every step.                                                             *)

(* A client refuses a message, and reads no other.                         *)
LEMMA ClientRefuses ==
  ASSUME LockInv, NEW c \in Following, NEW why \in ClientRefusals, Refuse(c, why),
         down' = [down EXCEPT ![c] = <<>>],
         UNCHANGED <<matchVars, log, wait, gbTo, copy, up, remote, loseAt>>
  PROVE  Dropping(c)
<1>1. /\ up \in [Fields -> Seq(UpMessage)] /\ down \in [Fields -> Seq(DownMessage)]
      /\ refusal \in [Fields -> Refusals]
      /\ remote' = remote /\ players' = players /\ c \in Fields
      /\ c \in remote \intersect players /\ refusal[c] = ""
  BY DEF LockInv, LockstepTypeOK, TypeOK, Following, matchVars, vars
<1>2. refusal' = [refusal EXCEPT ![c] = why]
  BY DEF Refuse
<1>3. why # ""
  BY Zenon DEF ClientRefusals
<1>4. refusal'[c] = why /\ \A d \in Fields \ {c} : refusal'[d] = refusal[d]
  BY <1>1, <1>2, Zenon
<1>5. refusal' \in [Fields -> Refusals]
  <2>1. why \in Refusals
    BY Zenon DEF Refusals
  <2>2. QED BY <1>1, <1>2, <2>1, Zenon
<1>6. c \notin Following' /\ Following' \subseteq Following
  <2>1. \A d \in Following' : d \in remote \intersect players /\ refusal'[d] = ""
    BY <1>1, Zenon DEF Following
  <2>2. remote \subseteq Fields
    BY DEF LockInv, LockstepTypeOK
  <2>3. QED BY <1>3, <1>4, <2>1, <2>2, Zenon DEF Following
<1>8. Served' \subseteq Served
  <2>1. c \in Served
    BY FollowingServed
  <2>2. \A d \in Served' : /\ d \in remote \intersect players
                           /\ refusal'[d] \notin ServerRefusals \union {"closed"}
    BY <1>1, Zenon DEF Served
  <2>3. remote \subseteq Fields
    BY DEF LockInv, LockstepTypeOK
  <2>4. QED BY <1>4, <2>1, <2>2, <2>3, Zenon DEF Served
<1>9. /\ up' = [d \in Fields |-> up'[d]] /\ up'[c] = up[c]
      /\ down' = [d \in Fields |-> down'[d]] /\ down'[c] = <<>>
      /\ \A d \in Fields \ {c} : up'[d] = up[d] /\ down'[d] = down[d]
  BY <1>1
<1>10. QED BY <1>4, <1>5, <1>6, <1>8, <1>9 DEF Dropping

(* The server refuses one, or ignores an input that comes too late.        *)
LEMMA ServerDrops ==
  ASSUME LockInv, NEW c \in Served, up[c] # <<>>, up' = [up EXCEPT ![c] = Tail(@)],
         \/ phase = "LOBBY" /\ refusal' = refusal
         \/ \E why \in ServerRefusals : Refuse(c, why),
         UNCHANGED <<matchVars, log, wait, gbTo, copy, down, remote, loseAt>>
  PROVE  Dropping(c)
<1>1. /\ up \in [Fields -> Seq(UpMessage)] /\ down \in [Fields -> Seq(DownMessage)]
      /\ refusal \in [Fields -> Refusals]
      /\ remote' = remote /\ players' = players /\ c \in Fields /\ phase' = phase
      /\ remote \subseteq Fields
  BY DEF LockInv, LockstepTypeOK, TypeOK, Served, matchVars, vars
<1>2. /\ up' = [d \in Fields |-> up'[d]] /\ up'[c] = Tail(up[c])
      /\ down' = [d \in Fields |-> down'[d]] /\ down' = down
      /\ \A d \in Fields \ {c} : up'[d] = up[d] /\ down'[d] = down[d]
  BY <1>1
<1>3. CASE phase = "LOBBY" /\ refusal' = refusal
  <2>1. Following' = Following /\ Served' = Served /\ ~Sending(c)'
    BY <1>1, <1>3 DEF Following, Served, Sending
  <2>2. QED BY <1>1, <1>2, <1>3, <2>1 DEF Dropping
<1>4. ASSUME NEW why \in ServerRefusals, Refuse(c, why) PROVE Dropping(c)
  <2>1. refusal' = [refusal EXCEPT ![c] = why]
    BY <1>4 DEF Refuse
  <2>2. why # ""
    BY Zenon DEF ServerRefusals
  <2>3. refusal'[c] = why /\ \A d \in Fields \ {c} : refusal'[d] = refusal[d]
    BY <1>1, <2>1
  <2>4. refusal' \in [Fields -> Refusals]
    <3>1. why \in Refusals
      BY Zenon DEF Refusals
    <3>2. QED BY <1>1, <2>1, <3>1, Zenon
  <2>5. c \notin Following' /\ Following' \subseteq Following
    <3>1. \A d \in Following' : d \in remote \intersect players /\ refusal'[d] = ""
      BY <1>1, Zenon DEF Following
    <3>2. QED BY <1>1, <2>2, <2>3, <3>1, Zenon DEF Following
  <2>6. c \notin Served' /\ Served' \subseteq Served
    <3>1. \A d \in Served' : /\ d \in remote \intersect players
                             /\ refusal'[d] \notin ServerRefusals \union {"closed"}
      BY <1>1, Zenon DEF Served
    <3>2. QED BY <1>1, <2>3, <3>1, Zenon DEF Served
  <2>7. ~Sending(c)'
    BY <2>6 DEF Sending
  <2>8. QED BY <1>2, <2>3, <2>4, <2>5, <2>6, <2>7 DEF Dropping
<1>5. QED BY <1>3, <1>4

(* Of an input that is not past and is refused, there is a reason.         *)
LEMMA RefusedInput ==
  ASSUME LockInv, NEW c \in Served, up[c] # <<>>, Head(up[c]).type = "INPUT"
  PROVE  /\ InputRefusal(c, Head(up[c]).tick) \in ServerRefusals
         /\ InputRefusal(c, Head(up[c]).tick) = "server: lag" =>
              Head(up[c]).tick >= tick[c] /\ ~lost[c]
<1>1. c \in Fields /\ tick[c] \in Nat /\ lost[c] \in BOOLEAN /\ up[c] \in Seq(UpMessage)
  BY DEF LockInv, LockstepTypeOK, TypeOK, Served
<1>2. Head(up[c]).tick \in Nat
  <2>1. Head(up[c]) \in UpMessage
    BY <1>1
  <2>2. QED BY <2>1 DEF UpMessage
<1>3. PICK t \in Nat : t = Head(up[c]).tick
  BY <1>2
<1>4. t < tick[c] \/ t >= tick[c]
  BY <1>1
<1>5. CASE t < tick[c]
  <2>1. InputRefusal(c, t) = "server: past" /\ ~(t >= tick[c])
    <3>1. ~(t >= tick[c])
      BY <1>1, <1>5
    <3>2. QED BY <1>5, <3>1, Zenon DEF InputRefusal
  <2>2. QED BY <1>3, <2>1 DEF ServerRefusals
<1>6. CASE t >= tick[c] /\ lost[c]
  <2>1. InputRefusal(c, t) = "server: lost"
    <3>1. ~(t < tick[c])
      BY <1>1, <1>6
    <3>2. QED BY <1>6, <3>1, Zenon DEF InputRefusal
  <2>2. QED BY <1>3, <2>1 DEF ServerRefusals
<1>7. CASE t >= tick[c] /\ ~lost[c]
  <2>1. InputRefusal(c, t) = "server: lag"
    <3>1. ~(t < tick[c])
      BY <1>1, <1>7
    <3>2. QED BY <1>7, <3>1, Zenon DEF InputRefusal
  <2>2. QED BY <1>3, <1>7, <2>1 DEF ServerRefusals
<1>8. QED BY <1>4, <1>5, <1>6, <1>7

(* The invariant after the server has read a message.                      *)
LEMMA ServerReadsInv ==
  ASSUME LockInv, NEW c \in Fields, ServerReads(c), UNCHANGED <<remote, loseAt>>, [Next]_vars
  PROVE  LockInv'
<1>1. c \in Served /\ up[c] # <<>> /\ up' = [up EXCEPT ![c] = Tail(@)]
  BY DEF ServerReads
<1>2. CASE ReadInput(c)
  <2>1. copy' = copy /\ Head(up[c]).type = "INPUT"
    BY <1>2 DEF ReadInput
  <2>2. CASE ServerStep(c) /\ UNCHANGED refusal
    <3>1. Stepping(c)
      BY <1>1, <2>1, <2>2 DEF Stepping
    <3>2. QED BY <3>1, SteppingInv
  <2>3. CASE phase = "LOBBY" /\ UNCHANGED <<matchVars, log, wait, gbTo, down, refusal>>
    <3>1. Dropping(c)
      BY <1>1, <2>1, <2>3, ServerDrops
    <3>2. QED BY <3>1, DroppingInv
  <2>4. CASE /\ Refuse(c, InputRefusal(c, Head(up[c]).tick))
             /\ UNCHANGED <<matchVars, log, wait, gbTo, down>>
    <3>1. \E why \in ServerRefusals : Refuse(c, why)
      BY <1>1, <2>1, <2>4, RefusedInput
    <3>2. Dropping(c)
      BY <1>1, <2>1, <2>4, <3>1, ServerDrops
    <3>3. QED BY <3>2, DroppingInv
  <2>5. QED BY <1>2, <2>2, <2>3, <2>4, Zenon DEF ReadInput
<1>3. CASE ReadDrop(c)
  <2>1. PICK m : m = Head(up[c])
    OBVIOUS
  <2>2. /\ m.type = "DROP" /\ UNCHANGED <<matchVars, gbTo, copy>>
    BY <1>3, <2>1 DEF ReadDrop
  <2>3. CASE /\ phase = "GAME" /\ wait[c] # <<>> /\ Head(wait[c]) = m.gb
             /\ Tell([d \in Fields |-> <<m>>])
             /\ log' = [log EXCEPT ![c] = Append(@, Drop(m.gb))]
             /\ wait' = [wait EXCEPT ![c] = Tail(@)]
             /\ UNCHANGED refusal
    <3>1. Confirming(c, m)
      BY <1>1, <2>1, <2>2, <2>3 DEF Confirming
    <3>2. QED BY <3>1, ConfirmingInv
  <2>4. CASE /\ Refuse(c, IF phase # "GAME" THEN "server: not running" ELSE "server: not found")
             /\ UNCHANGED <<log, wait, down>>
    <3>1. \E why \in ServerRefusals : Refuse(c, why)
      BY <2>4 DEF ServerRefusals
    <3>2. Dropping(c)
      BY <1>1, <2>2, <2>4, <3>1, ServerDrops
    <3>3. QED BY <3>2, DroppingInv
  <2>5. QED BY <1>3, <2>1, <2>3, <2>4 DEF ReadDrop
<1>4. QED BY <1>2, <1>3 DEF ServerReads

(* A client that objects gives one of its reasons.                         *)
LEMMA ObjectionIsOne ==
  ASSUME NEW v, NEW m, NEW c, Objection(v, m, c) # ""
  PROVE  Objection(v, m, c) \in ClientRefusals
<1>1. CASE m.type \in {"INPUT", "WAIT", "DROP"} /\ ~v.on
  BY <1>1, Zenon DEF Objection, ClientRefusals
<1>2. CASE m.type = "INPUT" /\ v.on
  <2>1. Objection(v, m, c) = InputObjection(v, m)
    BY <1>2, Zenon DEF Objection
  <2>2. InputObjection(v, m) \in ClientRefusals \union {""}
    BY Zenon DEF InputObjection, ClientRefusals
  <2>3. QED BY <2>1, <2>2, Zenon
<1>3. CASE m.type = "DROP" /\ v.on /\ ~Found(v, m, c)
  BY <1>3, Zenon DEF Objection, ClientRefusals
<1>4. QED BY <1>1, <1>2, <1>3, Zenon DEF Objection

(* The invariant after a client has read one.                              *)
LEMMA ClientReadsInv ==
  ASSUME LockInv, NEW c \in Fields, ClientReads(c), UNCHANGED <<remote, loseAt>>, [Next]_vars
  PROVE  LockInv'
<1>1. /\ copy \in [Fields -> Copy] /\ down \in [Fields -> Seq(DownMessage)]
  BY DEF LockInv, LockstepTypeOK
<1>2. PICK q \in Seq(DownMessage) : q = down[c]
  BY <1>1
<1>3. c \in Following /\ q # <<>> /\ UNCHANGED <<matchVars, log, wait, gbTo>>
  BY <1>2 DEF ClientReads
<1>4. Head(q) = q[1] /\ q[1] = Head(down[c])
  BY <1>2, <1>3
<1>5. CASE Objection(copy[c], q[1], c) = ""
  <2>1. /\ down' = [down EXCEPT ![c] = Tail(@)]
        /\ copy' = [copy EXCEPT ![c] = Move(@, q[1], c)]
        /\ up' = IF q[1].type = "WAIT" /\ gbTo[q[1].gb] = c
                 THEN [up EXCEPT ![c] = Append(@, [type |-> "DROP", gb |-> q[1].gb])] ELSE up
        /\ UNCHANGED refusal
    BY <1>4, <1>5 DEF ClientReads
  <2>2. /\ down'[c] = Tail(q) /\ down' = [down EXCEPT ![c] = Tail(q)]
        /\ copy'[c] = Move(copy[c], q[1], c) /\ copy' = [copy EXCEPT ![c] = copy'[c]]
    BY <1>1, <1>2, <2>1
  <2>3. ReadsNext(c, q)
    BY <1>2, <1>3, <1>5, <2>2 DEF ReadsNext, Readable
  <2>4. Reading(c, q)
    BY <1>3, <2>1, <2>2, <2>3 DEF Reading
  <2>5. QED BY <1>3, <2>4, ReadingInv
<1>6. CASE Objection(copy[c], q[1], c) # ""
  <2>1. PICK why : why = Objection(copy[c], q[1], c)
    OBVIOUS
  <2>2. /\ Refuse(c, why) /\ down' = [down EXCEPT ![c] = <<>>] /\ UNCHANGED <<copy, up>>
    BY <1>4, <1>6, <2>1 DEF ClientReads
  <2>3. why \in ClientRefusals
    BY <1>6, <2>1, ObjectionIsOne
  <2>4. Dropping(c)
    BY <1>3, <2>2, <2>3, ClientRefuses
  <2>5. QED BY <2>4, DroppingInv
<1>7. QED BY <1>5, <1>6

(* Every step preserves the invariant.                                     *)
LEMMA LockInvStep ==
  ASSUME LockInv, [LockstepNext]_allVars
  PROVE  LockInv'
<1>1. [Next]_vars
  BY LockstepIsMatch DEF LockInv, LockstepTypeOK
<1>2. CASE UNCHANGED allVars
  <2>1. /\ tick' = tick /\ lost' = lost /\ rank' = rank /\ players' = players
        /\ matchTick' = matchTick /\ phase' = phase /\ remote' = remote /\ loseAt' = loseAt
        /\ log' = log /\ wait' = wait /\ gbTo' = gbTo /\ copy' = copy /\ up' = up
        /\ down' = down /\ refusal' = refusal
    BY <1>2 DEF allVars, lockVars, vars
  <2>2. CASE \E c : c \in Fields
    <3>1. PICK c \in Fields : TRUE
      BY <2>2
    <3>2. Dropping(c)
      <4>1. up = [d \in Fields |-> up[d]] /\ down = [d \in Fields |-> down[d]]
        BY DEF LockInv, LockstepTypeOK
      <4>2. refusal \in [Fields -> Refusals]
        BY DEF LockInv, LockstepTypeOK
      <4>3. Following' = Following /\ Served' = Served
        BY <2>1 DEF Following, Served
      <4>4. QED BY <2>1, <4>1, <4>2, <4>3 DEF Dropping, matchVars, vars
    <3>3. QED BY <1>1, <3>2, DroppingInv
  <2>3. \E c : c \in Fields
    BY FieldsAssumption DEF Fields
  <2>4. QED BY <2>2, <2>3
<1>3. ASSUME NEW c \in Fields, Do(LocalStep(c)) PROVE LockInv'
  <2>1. Stepping(c)
    BY <1>3 DEF Do, LocalStep, Stepping
  <2>2. QED BY <1>1, <2>1, SteppingInv
<1>4. ASSUME NEW c \in Fields, Do(ServerReads(c)) PROVE LockInv'
  BY <1>1, <1>4, ServerReadsInv DEF Do
<1>5. ASSUME NEW c \in Fields, Do(Disconnect(c)) PROVE LockInv'
  BY <1>1, <1>5, DisconnectInv DEF Do
<1>6. ASSUME NEW c \in Fields, Do(ClientStep(c)) PROVE LockInv'
  BY <1>1, <1>6, ClientStepInv DEF Do
<1>7. ASSUME NEW c \in Fields, Do(ClientReads(c)) PROVE LockInv'
  BY <1>1, <1>7, ClientReadsInv DEF Do
<1>8. QED BY <1>2, <1>3, <1>4, <1>5, <1>6, <1>7 DEF LockstepNext

-----------------------------------------------------------------------------
(* The start of a match.                                                   *)

(* What a copy of a field is before anything happens to it.                *)
LEMMA NothingYet ==
  /\ Dated(<<>>, 0)
  /\ Consecutive(<<>>, {}, 0, 0)
  /\ IsPrefix(<<>>, <<>>)
<1>1. 0..(0 - 1) = {}
  OBVIOUS
<1>2. Dated(<<>>, 0)
  BY <1>1 DEF Dated
<1>3. Consecutive(<<>>, {}, 0, 0)
  BY <1>1 DEF Consecutive
<1>4. IsPrefix(<<>>, <<>>)
  BY <1>1 DEF IsPrefix
<1>5. QED BY <1>2, <1>3, <1>4

(* A function with one value.                                              *)
LEMMA Constantly ==
  ASSUME NEW S, NEW T, NEW e \in T
  PROVE  [x \in S |-> e] \in [S -> T]
OBVIOUS

(* A client's copy of a match to come.                                     *)
LEMMA CopyAtStart ==
  ASSUME NEW a \in [Fields -> Nat], NEW b \in [Fields -> Seq(Entry)],
         NEW d \in [Fields -> Seq(Nat)],
         NEW k, k = [on |-> FALSE, ticks |-> a, log |-> b, wait |-> d, gone |-> {}, tick |-> 0]
  PROVE  /\ k \in Copy /\ k.gone = {} /\ k.tick = 0 /\ ~k.on
         /\ k.ticks = a /\ k.log = b
<1>1. {} \in SUBSET Fields /\ 0 \in Nat /\ FALSE \in BOOLEAN
  OBVIOUS
<1>2. k \in Copy
  BY <1>1 DEF Copy
<1>3. k.gone = {} /\ k.tick = 0 /\ k.on = FALSE /\ k.ticks = a /\ k.log = b
  OBVIOUS
<1>4. QED BY <1>2, <1>3

(* The start is in the invariant.                                          *)
LEMMA LockInvInit ==
  ASSUME LockstepInit
  PROVE  LockInv
<1> DEFINE game == [type |-> "GAME"]
           start == <<game>>
<1>1. MatchInv
  BY MatchInvInit DEF LockstepInit
<1>2. /\ tick = [f \in Fields |-> 0] /\ lost = [f \in Fields |-> FALSE]
      /\ players = Fields /\ phase = "GAME"
      /\ gbTo = <<>> /\ refusal = [c \in Fields |-> ""]
      /\ up = [c \in Fields |-> <<>>] /\ down = [c \in Fields |-> start]
      /\ log = [f \in Fields |-> <<>>] /\ wait = [f \in Fields |-> <<>>]
  BY DEF LockstepInit, Init
<1>3. \A f \in Fields : tick[f] = 0 /\ log[f] = <<>> /\ up[f] = <<>> /\ down[f] = start
  BY <1>2
<1>4. \A c \in Fields : /\ copy[c] \in Copy /\ copy[c].gone = {} /\ copy[c].tick = 0
                        /\ ~copy[c].on
                        /\ \A f \in Fields : copy[c].ticks[f] = 0 /\ copy[c].log[f] = <<>>
  <2>1. \A c \in Fields : copy[c] = [on |-> FALSE, ticks |-> tick, log |-> log, wait |-> wait,
                                     gone |-> {}, tick |-> 0]
    BY DEF LockstepInit
  <2>2. tick \in [Fields -> Nat] /\ log \in [Fields -> Seq(Entry)] /\ wait \in [Fields -> Seq(Nat)]
    <3>1. tick \in [Fields -> Nat]
      BY <1>2
    <3>2. <<>> \in Seq(Entry) /\ <<>> \in Seq(Nat)
      OBVIOUS
    <3>3. QED BY <1>2, <3>1, <3>2, Constantly, Zenon
  <2>3. ASSUME NEW c \in Fields
        PROVE  /\ copy[c] \in Copy /\ copy[c].gone = {} /\ copy[c].tick = 0 /\ ~copy[c].on
               /\ copy[c].ticks = tick /\ copy[c].log = log
    <3>1. PICK k : k = copy[c]
      OBVIOUS
    <3>2. k = [on |-> FALSE, ticks |-> tick, log |-> log, wait |-> wait, gone |-> {}, tick |-> 0]
      BY <2>1, <3>1
    <3>3. /\ k \in Copy /\ k.gone = {} /\ k.tick = 0 /\ ~k.on /\ k.ticks = tick /\ k.log = log
      BY <2>2, <3>2, CopyAtStart
    <3>4. QED BY <3>1, <3>3
  <2>4. QED BY <1>3, <2>3
<1>5. loseAt \in [Fields -> Nat] /\ \A f \in Fields : ~(tick[f] >= loseAt[f])
  <2>1. \A t \in Countdown + 1..MaxTick + 1 : t \in Nat /\ ~(0 >= t)
    BY BoundsAssumption
  <2>2. QED BY <1>3, <2>1 DEF LockstepInit
<1>6. remote \subseteq Fields
  <2>1. PICK n \in Fields : remote = 1..n
    BY DEF LockstepInit
  <2>2. QED BY <2>1, FieldsAssumption DEF Fields
<1>7. /\ start \in Seq(DownMessage) /\ Len(start) = 1 /\ DOMAIN start = {1}
      /\ start[1] = game /\ start # <<>> /\ game.type = "GAME"
  BY DEF DownMessage
<1> HIDE DEF game, start
<1>8. LockstepTypeOK
  <2>1. TypeOK
    BY <1>1 DEF MatchInv
  <2>2. copy \in [Fields -> Copy]
    <3>1. copy = [c \in Fields |-> copy[c]]
      BY DEF LockstepInit
    <3>2. QED BY <1>4, <3>1
  <2>3. /\ \A f \in Fields : Dated(log[f], tick[f])
        /\ \A c, f \in Fields : Dated(copy[c].log[f], copy[c].ticks[f])
    BY <1>3, <1>4, NothingYet
  <2>4. up \in [Fields -> Seq(UpMessage)] /\ down \in [Fields -> Seq(DownMessage)]
    <3>1. <<>> \in Seq(UpMessage)
      OBVIOUS
    <3>2. QED BY <1>2, <1>7, <3>1, Constantly, Zenon
  <2>5. /\ log \in [Fields -> Seq(Entry)] /\ wait \in [Fields -> Seq(Nat)] /\ gbTo \in Seq(Fields)
        /\ refusal \in [Fields -> Refusals]
    <3>1. <<>> \in Seq(Entry) /\ <<>> \in Seq(Nat) /\ <<>> \in Seq(Fields)
      OBVIOUS
    <3>2. "" \in Refusals
      BY Zenon DEF Refusals
    <3>3. QED BY <1>2, <3>1, <3>2, Constantly, Zenon
  <2>6. QED BY <1>5, <1>6, <2>1, <2>2, <2>3, <2>4, <2>5 DEF LockstepTypeOK
<1>9. Losses
  BY <1>2, <1>5 DEF Losses
<1>10. GoodMessages
  <2>1. \A c \in Fields : \A i \in DOMAIN up[c] : GoodUp(up[c][i], c)
    BY <1>3
  <2>2. \A c \in Fields : \A i \in DOMAIN down[c] : GoodDown(down[c][i], c)
    BY <1>3, <1>7 DEF GoodDown
  <2>3. QED BY <1>4, <2>1, <2>2 DEF GoodMessages
<1>11. UpInv
  <2> SUFFICES ASSUME NEW c \in Fields PROVE OwnLog(c) /\ OwnTicks(c) /\ UpInWindow(c)
    BY DEF UpInv
  <2>1. UpInputs(<<>>) = {} /\ [i \in DOMAIN <<>> |-> UpEntry(up[c][i])] = <<>>
    BY DEF UpInputs
  <2>2. OwnLog(c)
    BY <1>3, <1>4, <2>1 DEF OwnLog
  <2>3. OwnTicks(c)
    BY <1>3, <1>4, <2>1, NothingYet DEF OwnTicks
  <2>4. UpInWindow(c)
    BY <1>3, <2>1 DEF UpInWindow
  <2>5. QED BY <2>2, <2>3, <2>4
<1>12. DownInv
  <2> SUFFICES ASSUME NEW c \in Fields
               PROVE  /\ \A f \in Fields \ {c} : OtherLog(c, f) /\ OtherTicks(c, f)
                      /\ Farewells(c) /\ DownInWindow(c) /\ Announced(c) /\ CopyClock(c)
    BY <1>6 DEF DownInv, Following
  <2>1. /\ DOMAIN down[c] = {1} /\ down[c] # <<>> /\ down[c][1].type = "GAME"
        /\ down[c] \in Seq(DownMessage)
    BY <1>3, <1>7
  <2>2. ASSUME NEW f \in Fields PROVE OtherLog(c, f)
    <3>1. ~About(down[c][1], f)
      BY <2>1 DEF About
    <3>2. Read(down[c], f) \subseteq DOMAIN down[c]
      BY DEF Read, Clear
    <3>3. \A i \in Read(down[c], f) : ~About(down[c][i], f)
      BY <2>1, <3>1, <3>2
    <3>4. DOMAIN SureNews(down[c], f) = {}
      BY <3>3 DEF SureNews
    <3>5. Bring(SureNews(down[c], f), 0, 0, <<>>)
      BY <3>4, BringNothing
    <3>6. copy[c].log[f] = <<>> /\ log[f] = <<>> /\ Len(<<>>) = 0
      BY <1>3, <1>4
    <3>7. \E m \in Len(copy[c].log[f])..Len(log[f]) :
            /\ Bring(SureNews(down[c], f), Len(copy[c].log[f]), m, log[f])
            /\ Read(down[c], f) = DOMAIN down[c] => m = Len(log[f])
      <4>1. 0 \in 0..0
        OBVIOUS
      <4>2. QED BY <3>5, <3>6, <4>1, Zenon
    <3>8. QED BY <3>6, <3>7, NothingYet DEF OtherLog
  <2>3. ASSUME NEW f \in Fields PROVE OtherTicks(c, f)
    <3>1. DownInputs(down[c], f) = {}
      BY <2>1 DEF DownInputs
    <3>2. Consecutive(down[c], {}, 0, 0)
      BY DEF Consecutive
    <3>3. QED BY <1>3, <1>4, <3>1, <3>2 DEF OtherTicks
  <2>4. Farewells(c)
    BY <1>2 DEF Farewells
  <2>5. DownInWindow(c)
    BY <2>1 DEF DownInWindow
  <2>6. Announced(c)
    BY <2>1 DEF Announced
  <2>7. CopyClock(c)
    BY <1>4 DEF CopyClock, Anchored
  <2>8. QED BY <2>2, <2>3, <2>4, <2>5, <2>6, <2>7
<1>13. CopiesAgree
  <2>1. \A c, f \in Fields : copy[c].log[f] = <<>> /\ log[f] = <<>>
    BY <1>3, <1>4
  <2>2. \A c, f \in Fields : IsPrefix(log[f], copy[c].log[f]) /\ IsPrefix(copy[c].log[f], log[f])
    BY <2>1, NothingYet, Zenon
  <2>3. QED BY <1>6, <2>2 DEF CopiesAgree
<1>14. QED BY <1>1, <1>8, <1>9, <1>10, <1>11, <1>12, <1>13 DEF LockInv

-----------------------------------------------------------------------------
(* The theorems.                                                           *)

(* The invariant of the channels (updateTick, processPktInput and          *)
(* processPktGarbageState on both sides).                                  *)
THEOREM LockInvariant == LockstepSpec => []LockInv
<1>1. LockstepInit => LockInv
  BY LockInvInit
<1>2. LockInv /\ [LockstepNext]_allVars => LockInv'
  BY LockInvStep
<1>3. QED BY <1>1, <1>2, PTL DEF LockstepSpec

(* The inputs in lockstep play a match of Match, so that what is proved of *)
(* a match holds for the server while its clients lag, err and leave.      *)
THEOREM LockstepPlaysMatch == LockstepSpec => Spec
<1>1. LockstepInit => Init
  BY DEF LockstepInit
<1>2. LockInv /\ [LockstepNext]_allVars => [Next]_vars
  BY LockstepIsMatch DEF LockInv, LockstepTypeOK
<1>3. QED BY <1>1, <1>2, LockInvariant, PTL DEF LockstepSpec, Spec

(* The types, and every copy of a field has every tick once, in order.     *)
THEOREM LockstepTypesCorrect == LockstepSpec => []LockstepTypeOK
<1>1. LockInv => LockstepTypeOK
  BY DEF LockInv
<1>2. QED BY <1>1, LockInvariant, PTL

(* The copies of a field never diverge.                                    *)
THEOREM CopiesNeverDiverge == LockstepSpec => []CopiesAgree
<1>1. LockInv => CopiesAgree
  BY DEF LockInv
<1>2. QED BY <1>1, LockInvariant, PTL

(* What is missing in a copy is on its way to it, in order.                *)
THEOREM NothingGoesMissing == LockstepSpec => []NothingMissing
<1>1. LockInv => NothingMissing
  <2> SUFFICES ASSUME LockInv, NEW c \in Following, NEW f \in Fields
               PROVE  /\ c = f /\ phase = "GAME" =>
                            copy[c].log[f] = log[f] \o [i \in DOMAIN up[c] |-> UpEntry(up[c][i])]
                      /\ c # f /\ (f \in remote \/ gbTo = <<>>) =>
                            /\ IsPrefix(copy[c].log[f], log[f])
                            /\ Bring(NewsOf(down[c], f), Len(copy[c].log[f]), Len(log[f]), log[f])
    BY DEF NothingMissing
  <2>1. c \in Fields /\ c \in Served
    BY FollowingServed DEF LockInv, LockstepTypeOK, Following
  <2>2. CASE c = f /\ phase = "GAME"
    BY <2>1, <2>2 DEF LockInv, UpInv, Sending, OwnLog
  <2>3. CASE c # f /\ (f \in remote \/ gbTo = <<>>)
    <3>1. OtherLog(c, f)
      BY <2>3 DEF LockInv, DownInv
    <3>2. Read(down[c], f) = DOMAIN down[c]
      <4>1. CASE f \in remote
        BY <4>1 DEF Read
      <4>2. CASE gbTo = <<>>
        <5>1. \A i \in DOMAIN down[c] : ~Nameless(down[c][i])
          BY <2>1, <4>2 DEF LockInv, GoodMessages, GoodDown, Nameless
        <5>2. PICK q \in Seq(DownMessage) : q = down[c]
          BY <2>1 DEF LockInv, LockstepTypeOK
        <5>3. \A i \in DOMAIN q : 1..i \subseteq DOMAIN q
          OBVIOUS
        <5>4. Clear(q) = DOMAIN q
          BY <5>1, <5>2, <5>3 DEF Clear
        <5>5. QED BY <5>2, <5>4 DEF Read
      <4>3. QED BY <2>3, <4>1, <4>2
    <3>3. SureNews(down[c], f) = NewsOf(down[c], f)
      BY <3>2 DEF SureNews, NewsOf
    <3>4. QED BY <2>2, <2>3, <3>1, <3>2, <3>3 DEF OtherLog
  <2>4. QED BY <2>2, <2>3
<1>2. QED BY <1>1, LockInvariant, PTL

(* The head of a queue.                                                    *)
LEMMA QueueHead ==
  ASSUME NEW S, NEW q \in Seq(S), q # <<>>
  PROVE  /\ 1 \in DOMAIN q /\ Head(q) = q[1] /\ q[1] \in S
         /\ \A i \in DOMAIN q : ~(i < 1)
OBVIOUS

(* A window slides with the clock.                                         *)
LEMMA WindowSlides ==
  \A x, y, z \in Nat : x <= y /\ z + 1 < x + LagMax => z + 1 < y + LagMax
BY LagAssumption

(* What the window lets through on one side, it does on the other: if a    *)
(* client's input was in the window of every field that lives (or is the   *)
(* field's own), it is in that of the clock, which is anchored.            *)
LEMMA InAnyWindow ==
  ASSUME NEW ticks \in [Fields -> Nat], NEW dead \in [Fields -> BOOLEAN], NEW clock \in Nat,
         \/ \E f \in Fields : ~dead[f] /\ ticks[f] = clock
         \/ \A f \in Fields : ticks[f] <= clock,
         NEW c \in Fields,
         \A f \in Fields \ {c} : dead[f] \/ ticks[c] + 1 < ticks[f] + LagMax
  PROVE  ticks[c] + 1 < clock + LagMax
<1>1. \A x \in Nat : x + 1 < x + LagMax
  BY LagAssumption
<1>2. \A x, y \in Nat : x <= y => x + 1 < y + LagMax
  BY LagAssumption
<1>3. ticks[c] \in Nat
  OBVIOUS
<1>4. CASE \E f \in Fields : ~dead[f] /\ ticks[f] = clock
  <2>1. PICK f \in Fields : ~dead[f] /\ ticks[f] = clock
    BY <1>4
  <2>2. CASE f = c
    BY <1>1, <1>3, <2>1, <2>2
  <2>3. CASE f # c
    <3>1. dead[f] \/ ticks[c] + 1 < ticks[f] + LagMax
      BY <2>3
    <3>2. ticks[c] + 1 < ticks[f] + LagMax
      BY <2>1, <3>1, Zenon
    <3>3. QED BY <2>1, <3>2
  <2>4. QED BY <2>2, <2>3
<1>5. CASE \A f \in Fields : ticks[f] <= clock
  BY <1>2, <1>3, <1>5
<1>6. QED BY <1>4, <1>5

(* An input the server finds late was hasty (stepRemotePlayer).            *)
LEMMA ServerLag ==
  ASSUME LockInv, NEW c \in Served, c \in Following, phase = "GAME", up[c] # <<>>,
         Head(up[c]).type = "INPUT", ~lost[c], ~MayStep(c)
  PROVE  Head(up[c]).hasty
<1>1. /\ c \in Fields /\ c \in players /\ tick \in [Fields -> Nat] /\ lost \in [Fields -> BOOLEAN]
      /\ copy \in [Fields -> Copy] /\ matchTick \in Nat /\ up \in [Fields -> Seq(UpMessage)]
  BY DEF LockInv, LockstepTypeOK, TypeOK, Served
<1>2. PICK q \in Seq(UpMessage) : q = up[c]
  BY <1>1
<1>3. q # <<>> /\ Head(q) = q[1] /\ q[1].type = "INPUT" /\ 1 \in DOMAIN q
  BY <1>2
<1>4. Sending(c)
  BY DEF Sending
<1>5. q[1].tick = tick[c]
  BY <1>1, <1>2, <1>3, <1>4, NextUp
<1>6. SUFFICES ASSUME ~q[1].hasty PROVE FALSE
  BY <1>2, <1>3
<1>7. \A f \in Fields : tick[f] \in Nat /\ copy[c].ticks[f] \in Nat
  BY <1>1 DEF Copy
<1>8. \A f \in Fields \ {c} : lost[f] \/ tick[c] + 1 < tick[f] + LagMax
  <2> TAKE f \in Fields \ {c}
  <2>1. lost[f] \/ tick[c] + 1 < copy[c].ticks[f] + LagMax
    <3>1. 1 \in UpInputs(up[c])
      BY <1>2, <1>3 DEF UpInputs
    <3>2. lost[f] \/ up[c][1].tick + 1 < copy[c].ticks[f] + LagMax
      BY <1>1, <1>2, <1>4, <1>6, <3>1 DEF LockInv, UpInv, UpInWindow
    <3>3. QED BY <1>2, <1>5, <3>2, Zenon
  <2>2. copy[c].ticks[f] <= tick[f]
    BY <1>1 DEF LockInv, DownInv, OtherTicks, Consecutive
  <2>3. QED BY <1>1, <1>7, <2>1, <2>2, WindowSlides, Zenon
<1>9. \/ \E f \in Fields : ~lost[f] /\ tick[f] = matchTick
      \/ \A f \in Fields : tick[f] <= matchTick
  BY DEF LockInv, MatchInv, ClockAnchored, Alive
<1>10. tick[c] + 1 < matchTick + LagMax
  BY <1>1, <1>8, <1>9, InAnyWindow, Zenon
<1>11. QED BY <1>1, <1>10 DEF MayStep

(* And so was an input a client finds late (processPktInput).              *)
LEMMA ClientLag ==
  ASSUME LockInv, NEW c \in Following, down[c] # <<>>,
         Objection(copy[c], Head(down[c]), c) = "client: lag"
  PROVE  Head(down[c]).hasty
<1> DEFINE v == copy[c]
<1>1. /\ c \in Fields /\ tick \in [Fields -> Nat] /\ loseAt \in [Fields -> Nat]
      /\ v \in Copy /\ down \in [Fields -> Seq(DownMessage)]
  BY DEF LockInv, LockstepTypeOK, TypeOK, Following
<1>2. PICK q \in Seq(DownMessage) : q = down[c]
  BY <1>1
<1>3. PICK m \in DownMessage : m = q[1] /\ m = Head(q) /\ 1 \in DOMAIN q /\ q # <<>>
  <2>1. q # <<>>
    BY <1>2
  <2>2. QED BY <2>1, QueueHead, Zenon
<1>4. m.type = "INPUT" /\ ~LostIn(v)[m.fld] /\ ~InWindow(v, m.fld)
  <2>1. Objection(v, m, c) = "client: lag"
    BY <1>2, <1>3
  <2>2. m.type = "INPUT" /\ InputObjection(v, m) = "client: lag"
    BY <2>1 DEF Objection
  <2>3. QED BY <2>2 DEF InputObjection
<1>5. m.fld \in Fields /\ m.fld # c
  <2>1. GoodDown(m, c)
    BY <1>1, <1>2, <1>3 DEF LockInv, GoodMessages
  <2>2. QED BY <1>4, <2>1 DEF GoodDown, DownMessage
<1>6. SUFFICES ASSUME ~m.hasty PROVE FALSE
  BY <1>2, <1>3
<1>7. v.ticks \in [Fields -> Nat] /\ v.tick \in Nat /\ LostIn(v) \in [Fields -> BOOLEAN]
  BY <1>1, LostInType DEF Copy
<1>8. \A f \in Fields : v.ticks[f] \in Nat /\ tick[f] \in Nat /\ loseAt[f] \in Nat
  BY <1>1, <1>7
<1>9. m.tick = v.ticks[m.fld] /\ m.tick \in Nat
  <2>1. OtherTicks(c, m.fld)
    BY <1>5 DEF LockInv, DownInv
  <2>2. 1 \in DownInputs(q, m.fld)
    BY <1>3, <1>4 DEF DownInputs
  <2>3. copy[c].ticks[m.fld] \in Nat /\ tick[m.fld] \in Nat
    BY <1>5, <1>8
  <2>4. q[1].tick = copy[c].ticks[m.fld]
    BY <1>1, <1>2, <1>3, <1>5, <2>1, <2>2, <2>3, NextInput, Zenon
  <2>5. QED BY <1>3, <1>5, <1>8, <2>4
<1>10. DownInWindow(c) /\ CopyClock(c)
  BY DEF LockInv, DownInv
<1>11. \A f \in Fields \ {m.fld} : LostIn(v)[f] \/ v.ticks[m.fld] + 1 < v.ticks[f] + LagMax
  <2> TAKE f \in Fields \ {m.fld}
  <2>1. \/ WillBeLost(c, 1, f)
        \/ \E t \in Nat : WillReach(c, 1, f, t) /\ m.tick + 1 < t + LagMax
    BY <1>2, <1>3, <1>4, <1>6, <1>10 DEF DownInWindow
  <2>2. \A i \in DOMAIN q : ~(i < 1)
    BY <1>3, QueueHead, Zenon
  <2>3. \A j \in DownInputs(down[c], f) : ~(j < 1)
    BY <1>2, <2>2 DEF DownInputs
  <2>4. \A t \in Nat : WillReach(c, 1, f, t) => t <= v.ticks[f]
    BY <2>3 DEF WillReach
  <2>5. CASE WillBeLost(c, 1, f)
    <3>1. loseAt[f] <= v.ticks[f] \/ f \in v.gone
      BY <1>2, <1>8, <2>2, <2>4, <2>5 DEF WillBeLost
    <3>2. loseAt[f] <= v.ticks[f] => v.ticks[f] >= loseAt[f]
      BY <1>8
    <3>3. LostIn(v)[f]
      BY <3>1, <3>2 DEF LostIn
    <3>4. QED BY <3>3
  <2>6. ASSUME NEW t \in Nat, WillReach(c, 1, f, t), m.tick + 1 < t + LagMax
        PROVE  v.ticks[m.fld] + 1 < v.ticks[f] + LagMax
    <3>1. t <= v.ticks[f]
      BY <2>4, <2>6
    <3>2. QED BY <1>5, <1>8, <1>9, <2>6, <3>1, WindowSlides, Zenon
  <2>7. QED BY <2>1, <2>5, <2>6
<1>12. Anchored(v)
  BY <1>2, <1>3, <1>4, <1>10 DEF CopyClock
<1> HIDE DEF v
<1>13. v.ticks[m.fld] + 1 < v.tick + LagMax
  BY <1>5, <1>7, <1>11, <1>12, InAnyWindow, Zenon DEF Anchored
<1>14. QED BY <1>4, <1>13 DEF InWindow

(* An input is refused for its lag, by the server or by a client, only if  *)
(* it was hasty: let through by a match tick above that of a living field. *)
THEOREM OnlyHastyInputsLag == LockstepSpec => OnlyHastyRefused
<1> DEFINE Late(c) ==
      /\ refusal'[c] = "server: lag" /\ refusal[c] = "" => Head(up[c]).hasty
      /\ refusal'[c] = "client: lag" /\ refusal[c] = "" => Head(down[c]).hasty
<1>1. ASSUME LockInv, [LockstepNext]_allVars, NEW c \in remote PROVE Late(c)
  <2>1. /\ c \in Fields /\ refusal = [d \in Fields |-> refusal[d]]
    BY <1>1 DEF LockInv, LockstepTypeOK
  <2>2. CASE refusal' = refusal
    BY <2>2
  <2>3. ASSUME NEW d \in Fields, Do(ServerReads(d)), refusal' # refusal PROVE Late(c)
    <3>1. PICK why \in ServerRefusals :
            /\ Refuse(d, why)
            /\ why = "server: lag" =>
                 phase = "GAME" /\ ~MayStep(d) /\ ~lost[d] /\ Head(up[d]).type = "INPUT"
      <4>1. CASE ReadInput(d)
        <5>1. /\ Refuse(d, InputRefusal(d, Head(up[d]).tick)) /\ phase = "GAME"
              /\ Head(up[d]).tick < tick[d] \/ ~MayStep(d)
              /\ Head(up[d]).type = "INPUT"
          BY <2>3, <4>1 DEF ReadInput
        <5>2. d \in Served /\ up[d] # <<>>
          BY <2>3 DEF Do, ServerReads
        <5>3. PICK why : why = InputRefusal(d, Head(up[d]).tick)
          OBVIOUS
        <5>4. why \in ServerRefusals
              /\ (why = "server: lag" => Head(up[d]).tick >= tick[d] /\ ~lost[d])
          BY <1>1, <5>1, <5>2, <5>3, RefusedInput
        <5>5. ~(Head(up[d]).tick < tick[d] /\ Head(up[d]).tick >= tick[d])
          <6>1. /\ tick[d] \in Nat /\ up[d] \in Seq(UpMessage)
            BY <1>1, <5>2 DEF LockInv, LockstepTypeOK, TypeOK, Served
          <6>2. Head(up[d]) \in UpMessage
            BY <5>2, <6>1
          <6>3. Head(up[d]).tick \in Nat
            BY <5>1, <6>2 DEF UpMessage
          <6>4. QED BY <6>1, <6>3
        <5>6. QED BY <5>1, <5>3, <5>4, <5>5
      <4>2. CASE ReadDrop(d)
        BY <2>3, <4>2 DEF ReadDrop, ServerRefusals
      <4>3. QED BY <2>3, <4>1, <4>2 DEF Do, ServerReads
    <3>2. d \in Served /\ up[d] # <<>>
      BY <2>3 DEF Do, ServerReads
    <3>3. refusal'[c] = IF c = d THEN why ELSE refusal[c]
      BY <2>1, <3>1 DEF Refuse
    <3>4. why # "client: lag"
      BY DEF ServerRefusals
    <3>5. ASSUME refusal'[c] = "server: lag", refusal[c] = "" PROVE Head(up[c]).hasty
      <4>1. c = d /\ why = "server: lag"
        BY <3>3, <3>5
      <4>2. c \in Following
        BY <1>1, <3>2, <3>5, <4>1, Zenon DEF Following, Served
      <4>3. QED BY <1>1, <3>1, <3>2, <4>1, <4>2, ServerLag
    <3>6. QED BY <3>3, <3>4, <3>5
  <2>4. ASSUME NEW d \in Fields, Do(ClientReads(d)), refusal' # refusal PROVE Late(c)
    <3>1. PICK why : why = Objection(copy[d], Head(down[d]), d)
      OBVIOUS
    <3>2. Refuse(d, why) /\ d \in Following /\ down[d] # <<>> /\ why # ""
      BY <2>4, <3>1 DEF Do, ClientReads
    <3>3. refusal'[c] = IF c = d THEN why ELSE refusal[c]
      BY <2>1, <3>2 DEF Refuse
    <3>4. why # "server: lag"
      <4>1. why \in ClientRefusals
        BY <3>1, <3>2, ObjectionIsOne, Zenon
      <4>2. QED BY <4>1, Zenon DEF ClientRefusals
    <3>5. ASSUME refusal'[c] = "client: lag", refusal[c] = "" PROVE Head(down[c]).hasty
      <4>1. c = d /\ why = "client: lag"
        BY <3>3, <3>5
      <4>2. QED BY <1>1, <3>1, <3>2, <4>1, ClientLag
    <3>6. QED BY <3>3, <3>4, <3>5
  <2>5. CASE refusal' # refusal
    <3>1. ASSUME NEW d \in Fields, Do(LocalStep(d)) PROVE refusal' = refusal
      BY <3>1 DEF Do, LocalStep
    <3>2. ASSUME NEW d \in Fields, Do(Disconnect(d)) PROVE Late(c)
      <4>1. refusal'[c] = IF c = d THEN "closed" ELSE refusal[c]
        BY <2>1, <3>2 DEF Do, Disconnect, Refuse
      <4>2. QED BY <4>1, Zenon
    <3>3. ASSUME NEW d \in Fields, Do(ClientStep(d)) PROVE refusal' = refusal
      BY <3>3 DEF Do, ClientStep
    <3>4. UNCHANGED allVars => refusal' = refusal
      BY DEF allVars, lockVars
    <3>5. QED BY <1>1, <2>3, <2>4, <2>5, <3>1, <3>2, <3>3, <3>4 DEF LockstepNext
  <2>6. QED BY <2>2, <2>5
<1>2. LockInv /\ [LockstepNext]_allVars => [\A c \in remote : Late(c)]_allVars
  BY <1>1
<1>3. [][\A c \in remote : Late(c)]_allVars => OnlyHastyRefused
  BY PTL DEF OnlyHastyRefused
<1>4. QED BY <1>2, <1>3, LockInvariant, PTL DEF LockstepSpec

=============================================================================
