--------------------------- MODULE SettingsProofs ---------------------------
(***************************************************************************)
(* Proofs about the settings of players, for any nicknames, configurations *)
(* and players and any number of commands.                                 *)
(*                                                                         *)
(* What is on its way decides everything: the events the client has not    *)
(* read yet take its copy to the players of the server, and the commands   *)
(* the server has not read yet take its nicknames to those the client has  *)
(* set already.  Both are folds over a channel.                            *)
(***************************************************************************)
EXTENDS Settings, FiniteSetTheorems, SequenceTheorems, TLAPS

-----------------------------------------------------------------------------
(* What is on its way.                                                     *)

Types == {"JOIN", "CONF", "STATE", "CHAT"}
Asking == {"LOBBY", "LOBBY_READY"}
ServerStates == {"LOBBY", "PREPARING", "GAME"}
Slots == [type : Types, plid : Nat]

Commands ==
  [type : {"JOIN"}, plid : {0}, nick : Nicks \union {None}]
    \union [type : {"CONF"}, plid : Nat, nick : Nicks \union {None},
            conf : FieldConfs \union {Unknown, Invalid, None}, hasty : BOOLEAN]
    \union [type : {"STATE"}, plid : Nat, state : Asking]
    \union [type : {"CHAT"}, plid : Nat]

Messages ==
  [type : {"CONF"}, plid : Nat, nick : Nicks \union {None}, conf : FieldConfs \union {None}]
    \union [type : {"STATE"}, plid : Nat, state : Asking]
    \union [type : {"GAME"}]
    \union [type : {"CHAT"}, plid : Nat]
    \union [type : {"RESPONSE"}, to : Types, ok : BOOLEAN, plid : Nat,
            new : Players \union {None}]

(* A join that succeeds, and the messages about a player.                  *)
Joins(m) == m.type = "RESPONSE" /\ m.to = "JOIN" /\ m.ok
Names(m) == m.type \in {"CONF", "STATE", "CHAT"} \/ Joins(m)

(* The state of a player for who reads the messages: "away" as long as it  *)
(* has not been told of the player, "lost" once it has been told of it too *)
(* soon.                                                                   *)
StateAt(f, p) == IF p \in DOMAIN f THEN f[p].state ELSE "away"

StateStep(p, s, m) ==
  IF s = "lost" THEN s
  ELSE IF m.type = "GAME" THEN IF s = "LOBBY_READY" THEN "GAME" ELSE s
  ELSE IF ~ Names(m) \/ m.plid # p THEN s
  ELSE IF Joins(m) THEN "LOBBY"
  ELSE IF s = "away"
       THEN IF m.type = "CONF" /\ None \notin {m.nick, m.conf} THEN "LOBBY" ELSE "lost"
  ELSE IF m.type = "STATE" THEN m.state ELSE s

StateAfter(p, s, q) == FoldLeft(LAMBDA x, m : StateStep(p, x, m), s, q)

(* The nickname, or the configuration, of a player for who reads them.     *)
Given(k, m) == IF k = "nick" THEN m.nick ELSE m.conf
At(k, f, p) == IF p \in DOMAIN f THEN Given(k, f[p]) ELSE None

Said(k, p, v, m) ==
  IF m.type = "CONF" /\ m.plid = p /\ Given(k, m) # None THEN Given(k, m)
  ELSE IF Joins(m) /\ m.plid = p THEN Given(k, m.new) ELSE v

SaidAfter(k, p, v, q) == FoldLeft(LAMBDA x, m : Said(k, p, x, m), v, q)

-----------------------------------------------------------------------------
(* The folds, without message, with one, and in two parts.                 *)

StateHeld(c, k, s) == s = c.v
Stating == INSTANCE Loops WITH Step <- LAMBDA c, s, m : StateStep(c.p, s, m), Inv <- StateHeld

(* The state a player has after the messages of a channel.                 *)
LEMMA StateFold ==
  ASSUME NEW p
  PROVE  /\ \A s : StateAfter(p, s, <<>>) = s
         /\ \A s, m : StateAfter(p, s, <<m>>) = StateStep(p, s, m)
         /\ \A S : \A q, r \in Seq(S) : \A s :
              StateAfter(p, s, q \o r) = StateAfter(p, StateAfter(p, s, q), r)
<1> DEFINE c == [p |-> p, v |-> "away"]
<1>0. c.p = p
  OBVIOUS
<1>1. \A s, q : StateAfter(p, s, q) = Stating!Loop(c, s, q)
  BY <1>0 DEF StateAfter, Stating!Loop, Stating!MapThenFoldSet,
              Stating!Max, FoldLeft, MapThenFoldSet, Max
<1> HIDE DEF c
<1>2. \A s : Stating!Loop(c, s, <<>>) = s
  BY Stating!LoopEmpty
<1>3. \A s, m : Stating!Loop(c, s, <<m>>) = StateStep(p, s, m)
  BY <1>0, Stating!LoopOne
<1>4. \A S : \A q, r \in Seq(S) : \A s :
        Stating!Loop(c, s, q \o r) = Stating!Loop(c, Stating!Loop(c, s, q), r)
  BY Stating!LoopConcat
<1>5. QED BY <1>1, <1>2, <1>3, <1>4

(* A state no message changes stays.                                       *)
LEMMA StateStays ==
  ASSUME NEW p, NEW v, NEW S, NEW q \in Seq(S),
         \A i \in DOMAIN q : StateStep(p, v, q[i]) = v
  PROVE  StateAfter(p, v, q) = v
<1> DEFINE c == [p |-> p, v |-> v]
           n == Len(q)
<1>1. c.p = p /\ c.v = v /\ n \in Nat /\ DOMAIN q = 1..n
  OBVIOUS
<1>2. StateAfter(p, v, q) = Stating!Loop(c, v, q)
  BY <1>1 DEF StateAfter, Stating!Loop, Stating!MapThenFoldSet,
              Stating!Max, FoldLeft, MapThenFoldSet, Max
<1> HIDE DEF c, n
<1>3. StateHeld(c, 0, v)
  BY <1>1 DEF StateHeld
<1>4. \A k \in 1..n : \A s : StateHeld(c, k - 1, s) => StateHeld(c, k, StateStep(c.p, s, q[k]))
  BY <1>1 DEF StateHeld
<1>5. StateHeld(c, n, Stating!Loop(c, v, q))
  BY <1>1, <1>3, <1>4, Stating!LoopInvariant
<1>6. QED BY <1>1, <1>2, <1>5 DEF StateHeld

SaidSince(c, k, s) == s = IF c.h[k] = None THEN c.v ELSE c.h[k]
Saying == INSTANCE Loops WITH Step <- LAMBDA c, s, m : Said(c.k, c.p, s, m), Inv <- SaidSince

(* What has been said of a player after the messages of a channel.         *)
LEMMA SaidFold ==
  ASSUME NEW f, NEW p
  PROVE  /\ \A v : SaidAfter(f, p, v, <<>>) = v
         /\ \A v, m : SaidAfter(f, p, v, <<m>>) = Said(f, p, v, m)
         /\ \A S : \A q, r \in Seq(S) : \A v :
              SaidAfter(f, p, v, q \o r) = SaidAfter(f, p, SaidAfter(f, p, v, q), r)
<1> DEFINE c == [k |-> f, p |-> p]
<1>0. c.p = p /\ c.k = f
  OBVIOUS
<1>1. \A s, q : SaidAfter(f, p, s, q) = Saying!Loop(c, s, q)
  BY <1>0 DEF SaidAfter, Saying!Loop, Saying!MapThenFoldSet,
              Saying!Max, FoldLeft, MapThenFoldSet, Max
<1> HIDE DEF c
<1>2. \A s : Saying!Loop(c, s, <<>>) = s
  BY Saying!LoopEmpty
<1>3. \A s, m : Saying!Loop(c, s, <<m>>) = Said(f, p, s, m)
  BY <1>0, Saying!LoopOne
<1>4. \A S : \A q, r \in Seq(S) : \A s :
        Saying!Loop(c, s, q \o r) = Saying!Loop(c, Saying!Loop(c, s, q), r)
  BY Saying!LoopConcat
<1>5. QED BY <1>1, <1>2, <1>3, <1>4

(* The first message, and then the others.                                 *)
LEMMA SaidHead ==
  \A f, p, v, S, m, q : m \in S /\ q \in Seq(S) =>
    SaidAfter(f, p, v, <<m>> \o q) = SaidAfter(f, p, Said(f, p, v, m), q)
<1> SUFFICES ASSUME NEW f, NEW p, NEW v, NEW S, NEW m \in S, NEW q \in Seq(S)
             PROVE  SaidAfter(f, p, v, <<m>> \o q) = SaidAfter(f, p, Said(f, p, v, m), q)
  OBVIOUS
<1> DEFINE h == <<m>>
<1>1. h \in Seq(S)
  OBVIOUS
<1>2. SaidAfter(f, p, v, h) = Said(f, p, v, m)
  <2>1. \A u, x : SaidAfter(f, p, u, <<x>>) = Said(f, p, u, x)
    BY SaidFold
  <2>2. QED BY <2>1
<1> HIDE DEF h
<1>3. SaidAfter(f, p, v, h \o q) = SaidAfter(f, p, SaidAfter(f, p, v, h), q)
  BY <1>1, SaidFold
<1>4. QED BY <1>2, <1>3 DEF h

(* The same for the state.                                                 *)
LEMMA StateHead ==
  \A p, s, S, m, q : m \in S /\ q \in Seq(S) =>
    StateAfter(p, s, <<m>> \o q) = StateAfter(p, StateStep(p, s, m), q)
<1> SUFFICES ASSUME NEW p, NEW s, NEW S, NEW m \in S, NEW q \in Seq(S)
             PROVE  StateAfter(p, s, <<m>> \o q) = StateAfter(p, StateStep(p, s, m), q)
  OBVIOUS
<1> DEFINE h == <<m>>
<1>1. h \in Seq(S)
  OBVIOUS
<1>2. StateAfter(p, s, h) = StateStep(p, s, m)
  <2>1. \A u, x : StateAfter(p, u, <<x>>) = StateStep(p, u, x)
    BY StateFold
  <2>2. QED BY <2>1
<1> HIDE DEF h
<1>3. StateAfter(p, s, h \o q) = StateAfter(p, StateAfter(p, s, h), q)
  BY <1>1, StateFold
<1>4. QED BY <1>2, <1>3 DEF h

(* What was known before counts only for who is told nothing.              *)
LEMMA SaidFrom ==
  ASSUME NEW f, NEW p, NEW v, NEW S, NEW q \in Seq(S),
         \A i \in DOMAIN q : Joins(q[i]) => Given(f, q[i].new) # None
  PROVE  SaidAfter(f, p, v, q)
           = IF SaidAfter(f, p, None, q) = None THEN v ELSE SaidAfter(f, p, None, q)
<1> DEFINE d == [k |-> f, p |-> p]
           n == Len(q)
<1>1. d.p = p /\ d.k = f /\ n \in Nat /\ DOMAIN q = 1..n
  OBVIOUS
<1>2. \A s : SaidAfter(f, p, s, q) = Saying!Loop(d, s, q)
  BY <1>1 DEF SaidAfter, Saying!Loop, Saying!MapThenFoldSet,
              Saying!Max, FoldLeft, MapThenFoldSet, Max
<1> HIDE DEF d, n
<1>3. PICK h : Saying!Stages(d, None, q, n, h)
  BY <1>1, Saying!LoopStages
<1>4. /\ h[0] = None /\ h[n] = SaidAfter(f, p, None, q)
      /\ \A k \in 1..n : h[k] = Said(f, p, h[k - 1], q[k])
  BY <1>1, <1>2, <1>3 DEF Saying!Stages
<1> DEFINE c == [k |-> f, p |-> p, v |-> v, h |-> h]
<1>5. c.p = p /\ c.k = f /\ c.v = v /\ c.h = h
  OBVIOUS
<1>6. SaidAfter(f, p, v, q) = Saying!Loop(c, v, q)
  BY <1>5 DEF SaidAfter, Saying!Loop, Saying!MapThenFoldSet,
              Saying!Max, FoldLeft, MapThenFoldSet, Max
<1> HIDE DEF c
<1>7. SaidSince(c, 0, v)
  BY <1>4, <1>5 DEF SaidSince
<1>8. ASSUME NEW k \in 1..n, NEW s, SaidSince(c, k - 1, s)
      PROVE  SaidSince(c, k, Said(c.k, c.p, s, q[k]))
  <2>1. h[k] = Said(f, p, h[k - 1], q[k])
    BY <1>4
  <2>2. s = IF h[k - 1] = None THEN v ELSE h[k - 1]
    BY <1>5, <1>8 DEF SaidSince
  <2>3. Joins(q[k]) => Given(f, q[k].new) # None
    BY <1>1
  <2>4. Said(f, p, s, q[k]) = IF h[k] = None THEN v ELSE h[k]
    BY <2>1, <2>2, <2>3, Zenon DEF Said
  <2>5. QED BY <2>4, <1>5 DEF SaidSince
<1>9. SaidSince(c, n, Saying!Loop(c, v, q))
  BY <1>1, <1>7, <1>8, Saying!LoopInvariant
<1>10. QED BY <1>4, <1>5, <1>6, <1>9 DEF SaidSince

-----------------------------------------------------------------------------
(* The answers on their way.                                               *)

AnswerTo(a, m) == IF m.type = "RESPONSE" THEN Append(a, AnswerOf(m)) ELSE a

Collected(c, k, s) ==
  /\ s \in Seq(Slots) /\ c.h[k] \in Seq(Slots) /\ s = c.a \o c.h[k]
  /\ \A i \in 1..k : c.q[i].type = "RESPONSE" =>
       \E j \in DOMAIN c.h[k] : c.h[k][j] = AnswerOf(c.q[i])

Answering == INSTANCE Loops WITH Step <- LAMBDA c, s, m : AnswerTo(s, m), Inv <- Collected

AnswersAfter(a, q) == Answering!Loop(<<>>, a, q)

(* What a loop carries along beside its value does not matter.             *)
LEMMA AnswersLoop == \A c, a, q : Answering!Loop(c, a, q) = AnswersAfter(a, q)
BY DEF AnswersAfter, Answering!Loop, Answering!MapThenFoldSet,
       Answering!Max

(* The answers are collected from none.                                    *)
LEMMA AnswersAre == \A q : Answers(q) = AnswersAfter(<<>>, q)
BY DEF Answers, AnswersAfter, AnswerTo, Answering!Loop,
         Answering!MapThenFoldSet, Answering!Max, FoldLeft, MapThenFoldSet, Max

(* A response on its way is an answer to some command.                     *)
LEMMA AnswerSlot ==
  \A m \in Messages : m.type = "RESPONSE" => AnswerOf(m) \in Slots /\ m.to \in Types
BY DEF Messages, AnswerOf, Slots, Types

(* The answers come after those there were, each in its place.             *)
LEMMA AnswersCollected ==
  ASSUME NEW a \in Seq(Slots), NEW q \in Seq(Messages)
  PROVE  /\ Answers(q) \in Seq(Slots) /\ AnswersAfter(a, q) = a \o Answers(q)
         /\ \A i \in DOMAIN q : q[i].type = "RESPONSE" =>
              \E j \in DOMAIN Answers(q) : Answers(q)[j] = AnswerOf(q[i])
<1> DEFINE n == Len(q)
<1>1. n \in Nat /\ DOMAIN q = 1..n
  OBVIOUS
<1>m. \A k \in 1..n : q[k] \in Messages
  OBVIOUS
<1> HIDE DEF n
<1>2. PICK h : Answering!Stages(<<>>, <<>>, q, n, h)
  BY <1>1, Answering!LoopStages
<1>3. /\ h[0] = <<>> /\ h[n] = Answers(q)
      /\ \A k \in 1..n : h[k] = AnswerTo(h[k - 1], q[k])
  BY <1>2, AnswersAre DEF Answering!Stages, AnswersAfter
<1> DEFINE c == [a |-> a, q |-> q, h |-> h]
<1>4. c.a = a /\ c.q = q /\ c.h = h
  OBVIOUS
<1> HIDE DEF c
<1>5. Collected(c, 0, a)
  <2>1. <<>> \in Seq(Slots) /\ a \o <<>> = a
    BY EmptySeq, ConcatEmptySeq
  <2>2. 1..0 = {}
    OBVIOUS
  <2>3. QED BY <2>1, <2>2, <1>3, <1>4 DEF Collected
<1>6. ASSUME NEW k \in 1..n, NEW s, Collected(c, k - 1, s)
      PROVE  Collected(c, k, AnswerTo(s, q[k]))
  <2> DEFINE m == q[k]
             o == h[k - 1]
  <2>1. m \in Messages /\ h[k] = AnswerTo(o, m) /\ k - 1 \in Nat
    BY <1>1, <1>m, <1>3
  <2>2. /\ s \in Seq(Slots) /\ o \in Seq(Slots) /\ s = a \o o
        /\ \A i \in 1..(k - 1) : q[i].type = "RESPONSE" =>
             \E j \in DOMAIN o : o[j] = AnswerOf(q[i])
    BY <1>4, <1>6 DEF Collected
  <2>3. \A i \in 1..k : i \in 1..(k - 1) \/ i = k
    BY <1>1
  <2>4. CASE m.type # "RESPONSE"
    <3>1. AnswerTo(s, m) = s /\ h[k] = o
      BY <2>1, <2>4 DEF AnswerTo
    <3>2. \A i \in 1..k : q[i].type = "RESPONSE" => \E j \in DOMAIN o : o[j] = AnswerOf(q[i])
      BY <2>2, <2>3, <2>4
    <3> HIDE DEF o
    <3>3. QED BY <3>1, <3>2, <2>2, <1>4 DEF Collected
  <2>5. CASE m.type = "RESPONSE"
    <3> DEFINE w == AnswerOf(m)
    <3>1. AnswerTo(s, m) = Append(s, w) /\ h[k] = Append(o, w)
      BY <2>1, <2>5 DEF AnswerTo
    <3>2. w \in Slots
      BY <2>1, <2>5, AnswerSlot
    <3> HIDE DEF w, o
    <3>3. Append(s, w) \in Seq(Slots) /\ Append(o, w) \in Seq(Slots)
          /\ Append(s, w) = a \o Append(o, w)
      <4>1. Append(s, w) \in Seq(Slots) /\ Append(o, w) \in Seq(Slots)
        BY <2>2, <3>2
      <4>2. <<w>> \in Seq(Slots)
        BY <3>2
      <4>3. Append(s, w) = s \o <<w>> /\ Append(o, w) = o \o <<w>>
        BY <2>2, <3>2, AppendIsConcat
      <4>4. (a \o o) \o <<w>> = a \o (o \o <<w>>)
        BY <2>2, <4>2, ConcatAssociative
      <4>5. QED BY <4>1, <4>3, <4>4, <2>2
    <3>4. ASSUME NEW i \in 1..k, q[i].type = "RESPONSE"
          PROVE  \E j \in DOMAIN Append(o, w) : Append(o, w)[j] = AnswerOf(q[i])
      <4>1. CASE i = k
        <5>1. Len(o) + 1 \in DOMAIN Append(o, w) /\ Append(o, w)[Len(o) + 1] = w
          BY <2>2, <3>2
        <5>2. QED BY <5>1, <4>1 DEF w
      <4>2. CASE i \in 1..(k - 1)
        <5>1. PICK j \in DOMAIN o : o[j] = AnswerOf(q[i])
          BY <4>2, <3>4, <2>2
        <5>2. j \in DOMAIN Append(o, w) /\ Append(o, w)[j] = o[j]
          BY <2>2, <3>2
        <5>3. QED BY <5>1, <5>2
      <4>3. QED BY <4>1, <4>2, <2>3
    <3>5. QED BY <3>1, <3>3, <3>4, <1>4 DEF Collected
  <2>6. QED BY <2>4, <2>5
<1>7. Collected(c, n, Answering!Loop(c, a, q))
  BY <1>1, <1>5, <1>6, Answering!LoopInvariant
<1>8. Collected(c, n, AnswersAfter(a, q))
  BY <1>7, AnswersLoop
<1>9. QED BY <1>1, <1>3, <1>4, <1>8 DEF Collected

(* The answers of a channel in two parts, and those of one message.        *)
LEMMA AnswersConcat ==
  ASSUME NEW q \in Seq(Messages), NEW r \in Seq(Messages)
  PROVE  Answers(q \o r) = Answers(q) \o Answers(r)
<1>1. Answers(q) \in Seq(Slots)
  BY AnswersCollected, EmptySeq
<1>2. AnswersAfter(Answers(q), r) = Answers(q) \o Answers(r)
  BY <1>1, AnswersCollected
<1>3. AnswersAfter(<<>>, q \o r) = AnswersAfter(AnswersAfter(<<>>, q), r)
  BY Answering!LoopConcat DEF AnswersAfter
<1>4. QED BY <1>2, <1>3, AnswersAre

(* No message, and one.                                                    *)
LEMMA AnswersOne ==
  /\ Answers(<<>>) = <<>>
  /\ \A m : Answers(<<m>>) = IF m.type = "RESPONSE" THEN <<AnswerOf(m)>> ELSE <<>>
<1>1. Answers(<<>>) = <<>>
  BY AnswersAre, Answering!LoopEmpty DEF AnswersAfter
<1>2. ASSUME NEW m PROVE Answers(<<m>>) = AnswerTo(<<>>, m)
  BY AnswersAre, Answering!LoopOne DEF AnswersAfter
<1>3. \A w : Append(<<>>, w) = <<w>>
  OBVIOUS
<1>4. QED BY <1>1, <1>2, <1>3 DEF AnswerTo

-----------------------------------------------------------------------------
(* Channels.                                                               *)

(* A channel that is not empty is its first message, and the others.       *)
LEMMA HeadAndTail ==
  ASSUME NEW S, NEW s \in Seq(S), s # <<>>
  PROVE  /\ Head(s) \in S /\ Tail(s) \in Seq(S) /\ s = <<Head(s)>> \o Tail(s)
         /\ Head(s) = s[1] /\ 1 \in DOMAIN s /\ Len(s) = Len(Tail(s)) + 1
         /\ \A i \in DOMAIN Tail(s) : i + 1 \in DOMAIN s /\ Tail(s)[i] = s[i + 1]
OBVIOUS

(* A channel that begins with a message.                                   *)
LEMMA HeadOfConcat ==
  ASSUME NEW S, NEW w \in S, NEW s \in Seq(S)
  PROVE  Head(<<w>> \o s) = w /\ Tail(<<w>> \o s) = s /\ <<w>> \o s # <<>>
OBVIOUS

(* The messages of two channels, one after the other.                      *)
LEMMA Concatenated ==
  ASSUME NEW S, NEW q \in Seq(S), NEW r \in Seq(S)
  PROVE  /\ q \o r \in Seq(S)
         /\ \A i \in DOMAIN q : i \in DOMAIN (q \o r) /\ (q \o r)[i] = q[i]
         /\ \A i \in DOMAIN r : Len(q) + i \in DOMAIN (q \o r) /\ (q \o r)[Len(q) + i] = r[i]
         /\ \A i \in DOMAIN (q \o r) :
              \/ i \in DOMAIN q /\ (q \o r)[i] = q[i]
              \/ \E j \in DOMAIN r : i = Len(q) + j /\ (q \o r)[i] = r[j]
<1>1. /\ q \o r \in Seq(S) /\ Len(q \o r) = Len(q) + Len(r)
      /\ \A i \in 1..(Len(q) + Len(r)) :
           (q \o r)[i] = IF i <= Len(q) THEN q[i] ELSE r[i - Len(q)]
  BY ConcatProperties
<1>2. /\ Len(q) \in Nat /\ Len(r) \in Nat /\ DOMAIN q = 1..Len(q) /\ DOMAIN r = 1..Len(r)
      /\ DOMAIN (q \o r) = 1..(Len(q) + Len(r))
  BY <1>1
<1> DEFINE u == q \o r
           n == Len(q)
           m == Len(r)
<1>3. /\ u \in Seq(S) /\ n \in Nat /\ m \in Nat /\ DOMAIN q = 1..n /\ DOMAIN r = 1..m
      /\ DOMAIN u = 1..(n + m)
      /\ \A i \in 1..(n + m) : u[i] = IF i <= n THEN q[i] ELSE r[i - n]
  BY <1>1, <1>2
<1> HIDE DEF u, n, m
<1>4. \A i \in DOMAIN q : i \in DOMAIN u /\ u[i] = q[i]
  BY <1>3
<1>5. ASSUME NEW i \in DOMAIN r PROVE n + i \in DOMAIN u /\ u[n + i] = r[i]
  <2>1. i \in Nat /\ n + i \in 1..(n + m) /\ ~ (n + i <= n) /\ (n + i) - n = i
    BY <1>3
  <2>2. QED BY <2>1, <1>3
<1>6. ASSUME NEW i \in DOMAIN u
      PROVE  \/ i \in DOMAIN q /\ u[i] = q[i]
             \/ \E j \in DOMAIN r : i = n + j /\ u[i] = r[j]
  <2>1. i \in 1..(n + m)
    BY <1>3
  <2>2. CASE i <= n
    BY <2>1, <2>2, <1>3
  <2>3. CASE ~ (i <= n)
    <3>1. i - n \in DOMAIN r /\ i = n + (i - n) /\ u[i] = r[i - n]
      BY <2>1, <2>3, <1>3
    <3>2. QED BY <3>1
  <2>4. QED BY <2>2, <2>3
<1>7. QED BY <1>3, <1>4, <1>5, <1>6 DEF u, n

-----------------------------------------------------------------------------
(* What a channel tells.                                                   *)

(* A message about players there are in g.                                 *)
Sound(m, g) ==
  /\ Names(m) => m.plid \in DOMAIN g
  /\ Joins(m) => m.new \in Players /\ m.new.state = "LOBBY"

Sounds(q, g) == q \in Seq(Messages) /\ \A i \in DOMAIN q : Sound(q[i], g)

(* Who knows f and reads q knows g, but for nicknames.                     *)
Carries(f, q, g) ==
  /\ Sounds(q, g)
  /\ \A p \in Nat : /\ StateAfter(p, StateAt(f, p), q) = StateAt(g, p)
                    /\ SaidAfter("conf", p, At("conf", f, p), q) = At("conf", g, p)

(* The nicknames that q tells, or that do not change, from f to g: except  *)
(* for those of U, known to be wrong before, and those of V, wrong after.  *)
NicksTold(f, U, q, g, V) ==
  \A p \in DOMAIN g \ V :
    LET said == SaidAfter("nick", p, None, q)
    IN  IF said = None THEN p \in DOMAIN f \ U /\ f[p].nick = g[p].nick
                       ELSE said = g[p].nick

(* Messages about players there are, and then some about more players.     *)
LEMMA SoundsConcat ==
  ASSUME NEW g, NEW h, DOMAIN g \subseteq DOMAIN h, NEW q, NEW r, Sounds(q, g), Sounds(r, h)
  PROVE  Sounds(q \o r, h)
<1>1. q \in Seq(Messages) /\ r \in Seq(Messages)
  BY DEF Sounds
<1>2. q \o r \in Seq(Messages)
  BY <1>1
<1>3. ASSUME NEW i \in DOMAIN (q \o r) PROVE Sound((q \o r)[i], h)
  <2>1. \/ i \in DOMAIN q /\ (q \o r)[i] = q[i]
        \/ \E j \in DOMAIN r : i = Len(q) + j /\ (q \o r)[i] = r[j]
    BY <1>1, Concatenated
  <2>2. CASE i \in DOMAIN q /\ (q \o r)[i] = q[i]
    BY <2>2 DEF Sounds, Sound
  <2>3. CASE \E j \in DOMAIN r : i = Len(q) + j /\ (q \o r)[i] = r[j]
    BY <2>3 DEF Sounds
  <2>4. QED BY <2>1, <2>2, <2>3
<1>4. QED BY <1>2, <1>3 DEF Sounds

(* One channel, and then the other.                                        *)
LEMMA CarriesConcat ==
  ASSUME NEW f, NEW q, NEW g, NEW r, NEW h,
         DOMAIN g \subseteq DOMAIN h, Carries(f, q, g), Carries(g, r, h)
  PROVE  Carries(f, q \o r, h)
<1>1. q \in Seq(Messages) /\ r \in Seq(Messages) /\ Sounds(q \o r, h)
  BY SoundsConcat DEF Carries, Sounds
<1>2. ASSUME NEW p \in Nat
      PROVE  /\ StateAfter(p, StateAt(f, p), q \o r) = StateAt(h, p)
             /\ SaidAfter("conf", p, At("conf", f, p), q \o r) = At("conf", h, p)
  <2>1. StateAfter(p, StateAt(f, p), q \o r) = StateAfter(p, StateAfter(p, StateAt(f, p), q), r)
    BY <1>1, StateFold
  <2>2. SaidAfter("conf", p, At("conf", f, p), q \o r)
          = SaidAfter("conf", p, SaidAfter("conf", p, At("conf", f, p), q), r)
    BY <1>1, SaidFold
  <2>3. QED BY <2>1, <2>2 DEF Carries
<1>3. QED BY <1>1, <1>2 DEF Carries

(* No message, nothing new.                                                *)
LEMMA CarriesNothing == \A f : Carries(f, <<>>, f)
<1> SUFFICES ASSUME NEW f PROVE Carries(f, <<>>, f)
  OBVIOUS
<1>1. Sounds(<<>>, f)
  <2>1. <<>> \in Seq(Messages) /\ DOMAIN <<>> = {}
    BY EmptySeq
  <2>2. QED BY <2>1 DEF Sounds
<1>2. ASSUME NEW p \in Nat
      PROVE  /\ StateAfter(p, StateAt(f, p), <<>>) = StateAt(f, p)
             /\ SaidAfter("conf", p, At("conf", f, p), <<>>) = At("conf", f, p)
  <2>1. \A s : StateAfter(p, s, <<>>) = s
    BY StateFold
  <2>2. \A v : SaidAfter("conf", p, v, <<>>) = v
    BY SaidFold
  <2>3. QED BY <2>1, <2>2
<1>3. QED BY <1>1, <1>2 DEF Carries

(* One message.                                                            *)
LEMMA CarriesOne ==
  ASSUME NEW f, NEW g, NEW m \in Messages, Sound(m, g),
         \A p \in Nat : /\ StateStep(p, StateAt(f, p), m) = StateAt(g, p)
                        /\ Said("conf", p, At("conf", f, p), m) = At("conf", g, p)
  PROVE  Carries(f, <<m>>, g)
<1>1. Sounds(<<m>>, g)
  <2>1. <<m>> \in Seq(Messages) /\ DOMAIN <<m>> = {1} /\ <<m>>[1] = m
    OBVIOUS
  <2>2. QED BY <2>1 DEF Sounds
<1>2. ASSUME NEW p \in Nat
      PROVE  /\ StateAfter(p, StateAt(f, p), <<m>>) = StateAt(g, p)
             /\ SaidAfter("conf", p, At("conf", f, p), <<m>>) = At("conf", g, p)
  <2>1. \A s, x : StateAfter(p, s, <<x>>) = StateStep(p, s, x)
    BY StateFold
  <2>2. \A v, x : SaidAfter("conf", p, v, <<x>>) = Said("conf", p, v, x)
    BY SaidFold
  <2>3. QED BY <2>1, <2>2
<1>3. QED BY <1>1, <1>2 DEF Carries

(* A join that succeeds says a nickname and a configuration.               *)
LEMMA JoinsSay ==
  ASSUME NEW q, NEW g, Sounds(q, g)
  PROVE  \A i \in DOMAIN q : Joins(q[i]) =>
           Given("nick", q[i].new) # None /\ Given("conf", q[i].new) # None
BY NoneAssumption DEF Sounds, Sound, Given, Players

(* What is said of a nickname by one channel and then another.             *)
LEMMA NickSaidLast ==
  \A q, r, g, h, p : Sounds(q, g) /\ Sounds(r, h) =>
    SaidAfter("nick", p, None, q \o r)
      = IF SaidAfter("nick", p, None, r) = None
        THEN SaidAfter("nick", p, None, q) ELSE SaidAfter("nick", p, None, r)
<1> SUFFICES ASSUME NEW q, NEW r, NEW g, NEW h, NEW p, Sounds(q, g), Sounds(r, h)
             PROVE  SaidAfter("nick", p, None, q \o r)
                      = IF SaidAfter("nick", p, None, r) = None
                        THEN SaidAfter("nick", p, None, q) ELSE SaidAfter("nick", p, None, r)
  OBVIOUS
<1> DEFINE first == SaidAfter("nick", p, None, q)
           second == SaidAfter("nick", p, None, r)
<1>1. q \in Seq(Messages) /\ r \in Seq(Messages)
  BY DEF Sounds
<1>2. SaidAfter("nick", p, None, q \o r) = SaidAfter("nick", p, first, r)
  BY <1>1, SaidFold
<1>3. SaidAfter("nick", p, first, r) = IF second = None THEN first ELSE second
  BY <1>1, JoinsSay, SaidFrom
<1>4. QED BY <1>2, <1>3

(* Three channels, one after the other.                                    *)
LEMMA MessagesAssociative ==
  \A q, r, s \in Seq(Messages) : (q \o r) \o s = q \o (r \o s)
BY ConcatAssociative

(* Nicknames told by one channel and then by another.                      *)
LEMMA NicksConcat ==
  ASSUME NEW f, NEW U, NEW q, NEW g, NEW V, NEW r, NEW h, NEW W,
         Sounds(q, g), Sounds(r, h), NicksTold(f, U, q, g, V), NicksTold(g, V, r, h, W)
  PROVE  NicksTold(f, U, q \o r, h, W)
<1> SUFFICES ASSUME NEW p \in DOMAIN h \ W
             PROVE  LET said == SaidAfter("nick", p, None, q \o r)
                    IN  IF said = None THEN p \in DOMAIN f \ U /\ f[p].nick = h[p].nick
                                       ELSE said = h[p].nick
  BY DEF NicksTold
<1> DEFINE first == SaidAfter("nick", p, None, q)
           second == SaidAfter("nick", p, None, r)
<1>1. SaidAfter("nick", p, None, q \o r) = IF second = None THEN first ELSE second
  BY NickSaidLast, Zenon
<1>2. IF second = None THEN p \in DOMAIN g \ V /\ g[p].nick = h[p].nick
                       ELSE second = h[p].nick
  BY DEF NicksTold
<1>3. p \in DOMAIN g \ V => IF first = None THEN p \in DOMAIN f \ U /\ f[p].nick = g[p].nick
                                            ELSE first = g[p].nick
  BY DEF NicksTold
<1>4. QED BY <1>1, <1>2, <1>3

-----------------------------------------------------------------------------
(* What each message tells, to the client and of the server alike.         *)

Lists(f) == DOMAIN f \in SUBSET Nat /\ f \in [DOMAIN f -> Players]

(* The players of g are those of f, but for one.                           *)
Others(f, g, p) ==
  p \in DOMAIN f /\ DOMAIN g = DOMAIN f /\ \A q \in DOMAIN f \ {p} : g[q] = f[q]

Set(value, given) == IF given = None THEN value ELSE given

(* The settings of a player.                                               *)
LEMMA ConfCarries ==
  ASSUME NEW f, NEW g, NEW p, Lists(f), Lists(g), Others(f, g, p),
         NEW m \in Messages, m.type = "CONF", m.plid = p,
         g[p].state = f[p].state, g[p].conf = Set(f[p].conf, m.conf)
  PROVE  Carries(f, <<m>>, g)
<1>1. Sound(m, g)
  BY DEF Sound, Joins, Others
<1>2. ASSUME NEW q \in Nat PROVE StateStep(q, StateAt(f, q), m) = StateAt(g, q)
  <2>1. f[p].state \in States
    BY DEF Lists, Others, Players
  <2>2. f[p].state # "lost" /\ f[p].state # "away"
    BY <2>1 DEF States
  <2>3. CASE q = p
    BY <2>2, <2>3 DEF StateStep, StateAt, Others, Names, Joins
  <2>4. CASE q # p
    BY <2>4 DEF StateStep, StateAt, Others, Names, Joins
  <2>5. QED BY <2>3, <2>4
<1>3. ASSUME NEW q \in Nat
      PROVE  Said("conf", q, At("conf", f, q), m) = At("conf", g, q)
  <2>1. CASE q = p
    BY <2>1 DEF Said, At, Given, Others, Joins, Set
  <2>2. CASE q # p
    BY <2>2 DEF Said, At, Given, Others, Joins
  <2>3. QED BY <2>1, <2>2
<1>4. QED BY <1>1, <1>2, <1>3, CarriesOne

(* A player nobody knows yet, in full or as the answer to a join.          *)
Introduces(m, p, v) ==
  /\ m \in Messages /\ m.plid = p
  /\ \/ m.type = "CONF" /\ m.nick = v.nick /\ m.conf = v.conf
     \/ Joins(m) /\ m.new = v

(* Such a message makes the player known, with no setting of its own.      *)
LEMMA NewcomerCarries ==
  ASSUME NEW f, Lists(f), NEW p \in Nat, NEW v \in Players, v.state = "LOBBY",
         NEW m, Introduces(m, p, v), p \notin DOMAIN f \/ Joins(m)
  PROVE  Carries(f, <<m>>, With(f, p, v))
<1> DEFINE g == With(f, p, v)
<1>1. /\ DOMAIN g = DOMAIN f \union {p} /\ g[p] = v
      /\ \A q \in DOMAIN f \ {p} : g[q] = f[q]
  BY DEF With
<1> HIDE DEF g
<1>2. m \in Messages /\ m.type # "GAME" /\ Names(m) /\ m.plid = p
  BY DEF Introduces, Names, Joins
<1>3. Sound(m, g)
  BY <1>1 DEF Sound, Introduces, Joins
<1>4. v.nick # None /\ v.conf # None
  BY NoneAssumption DEF Players
<1>5. ASSUME NEW q \in Nat PROVE StateStep(q, StateAt(f, q), m) = StateAt(g, q)
  <2>1. CASE q = p
    <3>1. StateAt(g, q) = "LOBBY"
      BY <2>1, <1>1 DEF StateAt
    <3>2. Joins(m) \/ (StateAt(f, q) = "away" /\ m.type = "CONF" /\ None \notin {m.nick, m.conf})
      BY <2>1, <1>4 DEF Introduces, StateAt
    <3>3. StateAt(f, q) # "lost"
      BY DEF StateAt, Lists, Players, States
    <3>4. QED BY <3>1, <3>2, <3>3, <2>1, <1>2 DEF StateStep
  <2>2. CASE q # p
    <3>1. StateAt(g, q) = StateAt(f, q)
      BY <2>2, <1>1 DEF StateAt
    <3>2. QED BY <3>1, <2>2, <1>2 DEF StateStep
  <2>3. QED BY <2>1, <2>2
<1>6. ASSUME NEW q \in Nat
      PROVE  Said("conf", q, At("conf", f, q), m) = At("conf", g, q)
  <2>1. CASE q = p
    BY <2>1, <1>1, <1>4 DEF Said, At, Given, Introduces, Joins
  <2>2. CASE q # p
    <3>1. At("conf", g, q) = At("conf", f, q)
      BY <2>2, <1>1 DEF At
    <3>2. QED BY <3>1, <2>2, <1>2 DEF Said
  <2>3. QED BY <2>1, <2>2
<1>7. Carries(f, <<m>>, g)
  BY <1>2, <1>3, <1>5, <1>6, CarriesOne
<1>8. QED BY <1>7 DEF g

(* The state of a player.                                                  *)
LEMMA StateCarries ==
  ASSUME NEW f, NEW g, NEW p, Lists(f), Lists(g), Others(f, g, p),
         NEW m \in Messages, m.type = "STATE", m.plid = p,
         g[p].state = m.state, g[p].conf = f[p].conf
  PROVE  Carries(f, <<m>>, g)
<1>1. Sound(m, g)
  BY DEF Sound, Joins, Others
<1>2. ASSUME NEW q \in Nat PROVE StateStep(q, StateAt(f, q), m) = StateAt(g, q)
  <2>1. f[p].state \in States
    BY DEF Lists, Others, Players
  <2>2. f[p].state # "lost" /\ f[p].state # "away"
    BY <2>1 DEF States
  <2>3. CASE q = p
    BY <2>2, <2>3 DEF StateStep, StateAt, Others, Names, Joins
  <2>4. CASE q # p
    BY <2>4 DEF StateStep, StateAt, Others, Names, Joins
  <2>5. QED BY <2>3, <2>4
<1>3. ASSUME NEW q \in Nat
      PROVE  Said("conf", q, At("conf", f, q), m) = At("conf", g, q)
  <2>1. CASE q = p
    BY <2>1 DEF Said, At, Given, Others, Joins
  <2>2. CASE q # p
    BY <2>2 DEF Said, At, Given, Others, Joins
  <2>3. QED BY <2>1, <2>2
<1>4. QED BY <1>1, <1>2, <1>3, CarriesOne

(* The start of the match, for all who are ready.                          *)
LEMMA GameCarries ==
  ASSUME NEW f, Lists(f), NEW m \in Messages, m.type = "GAME"
  PROVE  Carries(f, <<m>>, Move(f, "LOBBY_READY", "GAME"))
<1> DEFINE g == Move(f, "LOBBY_READY", "GAME")
<1>1. /\ DOMAIN g = DOMAIN f
      /\ \A q \in DOMAIN f :
           g[q] = IF f[q].state = "LOBBY_READY" THEN [f[q] EXCEPT !.state = "GAME"] ELSE f[q]
  BY DEF Move
<1> HIDE DEF g
<1>2. ASSUME NEW q \in DOMAIN f
      PROVE  /\ f[q].state \in States /\ g[q].conf = f[q].conf
             /\ g[q].state = IF f[q].state = "LOBBY_READY" THEN "GAME" ELSE f[q].state
  <2>1. f[q] \in Players
    BY DEF Lists
  <2>2. QED BY <2>1, <1>1 DEF Players
<1>3. Sound(m, g)
  BY DEF Sound, Names, Joins
<1>4. ASSUME NEW q \in Nat PROVE StateStep(q, StateAt(f, q), m) = StateAt(g, q)
  <2>1. CASE q \in DOMAIN f
    <3>1. StateAt(f, q) = f[q].state /\ StateAt(g, q) = g[q].state
      BY <2>1, <1>1 DEF StateAt
    <3>2. f[q].state # "lost"
      BY <2>1, <1>2 DEF States
    <3>3. QED BY <2>1, <3>1, <3>2, <1>2 DEF StateStep
  <2>2. CASE q \notin DOMAIN f
    BY <2>2, <1>1 DEF StateStep, StateAt
  <2>3. QED BY <2>1, <2>2
<1>5. ASSUME NEW q \in Nat
      PROVE  Said("conf", q, At("conf", f, q), m) = At("conf", g, q)
  <2>1. At("conf", g, q) = At("conf", f, q)
    BY <1>1, <1>2 DEF At, Given
  <2>2. QED BY <2>1 DEF Said, Joins
<1>6. Carries(f, <<m>>, g)
  BY <1>3, <1>4, <1>5, CarriesOne
<1>7. QED BY <1>6 DEF g

(* A chat, and the answers to all but joins.                               *)
Quiet(m, f) ==
  /\ m \in Messages /\ m.type \in {"CHAT", "RESPONSE"} /\ ~ Joins(m)
  /\ m.type = "CHAT" => m.plid \in DOMAIN f

(* They change nothing.                                                    *)
LEMMA QuietCarries ==
  ASSUME NEW f, Lists(f), NEW m, Quiet(m, f)
  PROVE  Carries(f, <<m>>, f)
<1>1. Sound(m, f) /\ m \in Messages
  BY DEF Sound, Quiet, Names
<1>2. ASSUME NEW q \in Nat PROVE StateStep(q, StateAt(f, q), m) = StateAt(f, q)
  <2>1. CASE q \in DOMAIN f
    <3>1. f[q].state \in States
      BY <2>1 DEF Lists, Players
    <3>2. f[q].state # "away" /\ f[q].state # "lost"
      BY <3>1 DEF States
    <3>3. QED BY <2>1, <3>2 DEF StateStep, StateAt, Quiet
  <2>2. CASE q \notin DOMAIN f
    BY <2>2 DEF StateStep, StateAt, Quiet, Names
  <2>3. QED BY <2>1, <2>2
<1>3. \A q \in Nat : Said("conf", q, At("conf", f, q), m) = At("conf", f, q)
  BY DEF Said, Quiet
<1>4. QED BY <1>1, <1>2, <1>3, CarriesOne

(* Nicknames, with no message and with one.                                *)
LEMMA NicksNothing ==
  ASSUME NEW f, NEW U, NEW g, NEW V,
         \A p \in DOMAIN g \ V : p \in DOMAIN f \ U /\ f[p].nick = g[p].nick
  PROVE  NicksTold(f, U, <<>>, g, V)
<1>1. ASSUME NEW p PROVE SaidAfter("nick", p, None, <<>>) = None
  BY SaidFold
<1>2. QED BY <1>1 DEF NicksTold

(* One message tells the nickname it says.                                 *)
LEMMA NicksOne ==
  ASSUME NEW f, NEW U, NEW g, NEW V, NEW m,
         \A p \in DOMAIN g \ V :
           IF Said("nick", p, None, m) = None
           THEN p \in DOMAIN f \ U /\ f[p].nick = g[p].nick
           ELSE Said("nick", p, None, m) = g[p].nick
  PROVE  NicksTold(f, U, <<m>>, g, V)
<1>1. ASSUME NEW p PROVE SaidAfter("nick", p, None, <<m>>) = Said("nick", p, None, m)
  <2>1. \A v, x : SaidAfter("nick", p, v, <<x>>) = Said("nick", p, v, x)
    BY SaidFold
  <2>2. QED BY <2>1
<1>2. QED BY <1>1 DEF NicksTold

(* A message that names nobody, with nicknames that stay.                  *)
LEMMA NicksStay ==
  ASSUME NEW f, NEW U, NEW g, DOMAIN g = DOMAIN f, NEW m, m.type # "CONF", ~ Joins(m),
         \A p \in DOMAIN f : g[p].nick = f[p].nick
  PROVE  NicksTold(f, U, <<m>>, g, U)
<1>1. \A p : Said("nick", p, None, m) = None
  BY DEF Said
<1>2. QED BY <1>1, NicksOne

Tells(f, U, q, g, V) ==
  /\ Lists(g) /\ V \in SUBSET DOMAIN g
  /\ Carries(f, q, g) /\ NicksTold(f, U, q, g, V)

(* Who comes in, introduced by the message.                                *)
LEMMA NewcomerTold ==
  ASSUME NEW f, Lists(f), NEW U \in SUBSET DOMAIN f, NEW p \in Nat,
         NEW v \in Players, v.state = "LOBBY", NEW m, Introduces(m, p, v),
         p \notin DOMAIN f \/ Joins(m)
  PROVE  Tells(f, U, <<m>>, With(f, p, v), U)
<1> DEFINE g == With(f, p, v)
<1>1. /\ DOMAIN g = DOMAIN f \union {p} /\ g[p] = v
      /\ \A q \in DOMAIN f \ {p} : g[q] = f[q]
      /\ g = [q \in DOMAIN g |-> g[q]]
  BY DEF With
<1>2. Carries(f, <<m>>, g)
  BY NewcomerCarries
<1> HIDE DEF g
<1>3. Lists(g)
  BY <1>1 DEF Lists
<1>4. m.plid = p /\ v.nick # None
  BY NoneAssumption DEF Introduces, Players
<1>5. ASSUME NEW q \in DOMAIN g \ U
      PROVE  IF Said("nick", q, None, m) = None
             THEN q \in DOMAIN f \ U /\ f[q].nick = g[q].nick
             ELSE Said("nick", q, None, m) = g[q].nick
  <2>1. CASE q = p
    BY <2>1, <1>1, <1>4 DEF Said, Given, Introduces, Joins
  <2>2. CASE q # p
    <3>1. q \in DOMAIN f /\ g[q] = f[q]
      BY <2>2, <1>1
    <3>2. Said("nick", q, None, m) = None
      BY <2>2, <1>4 DEF Said
    <3>3. QED BY <3>1, <3>2
  <2>3. QED BY <2>1, <2>2
<1>6. NicksTold(f, U, <<m>>, g, U)
  BY <1>5, NicksOne
<1>7. QED BY <1>1, <1>2, <1>3, <1>6 DEF g, Tells

-----------------------------------------------------------------------------
(* What the handlers of the server leave, and what they tell.              *)

(* The change of a nickname, of a configuration, or of both.               *)
Renamed(p, nick) == nick # None /\ nick # player[p].nick
ToldNick(p, nick) == IF Renamed(p, nick) THEN nick ELSE None
Settled(p, nick, conf) ==
  [nick |-> Set(player[p].nick, nick),
   conf |-> IF Known(conf) THEN conf ELSE player[p].conf, state |-> player[p].state]

ConfAnswered(p, nick, conf, o) ==
  /\ o.state = state /\ o.ok \in BOOLEAN
  /\ o.player = [q \in DOMAIN player |-> IF q = p THEN Settled(p, nick, conf) ELSE player[q]]
  /\ \/ /\ conf = None \/ Known(conf)
        /\ o.untold = IF Renamed(p, nick) THEN untold \ {p} ELSE untold
        /\ o.events = IF Known(conf) \/ Renamed(p, nick)
                      THEN <<ConfEvent(p, ToldNick(p, nick), conf)>> ELSE <<>>
     \/ /\ conf # None /\ ~ Known(conf) /\ o.events = <<>>
        /\ o.untold = IF Renamed(p, nick) THEN untold \union {p} ELSE untold

(* That is what the handler does (playerSetNick, processPktPlayerConf).    *)
LEMMA SetConfAnswers ==
  ASSUME Lists(player), NEW p \in DOMAIN player,
         NEW nick \in Nicks \union {None}, NEW conf \in FieldConfs \union {Unknown, None}
  PROVE  ConfAnswered(p, nick, conf, SetConf(p, nick, conf))
<1> DEFINE renamed == nick # None /\ nick # player[p].nick
           pl == IF renamed THEN [player[p] EXCEPT !.nick = nick] ELSE player[p]
           told == IF renamed THEN nick ELSE None
           o == [Nothing EXCEPT !.player[p] = pl,
                                !.untold = IF renamed THEN @ \ {p} ELSE @]
           r == SetConf(p, nick, conf)
<1>0. player[p] \in Players /\ player \in [DOMAIN player -> Players]
  BY DEF Lists
<1>1. ~ Known(None)
  BY NoneAssumption DEF Known
<1>2. pl = [nick |-> Set(player[p].nick, nick), conf |-> player[p].conf,
            state |-> player[p].state]
  BY <1>0 DEF Players, Set
<1> HIDE DEF pl
<1>3. /\ DOMAIN o = {"state", "player", "untold", "ok", "events"}
      /\ o.state = state /\ o.player = [player EXCEPT ![p] = pl]
      /\ o.untold = (IF renamed THEN untold \ {p} ELSE untold)
      /\ o.ok = TRUE /\ o.events = <<>>
  BY DEF Nothing
<1>4. [player EXCEPT ![p] = pl] = [q \in DOMAIN player |-> IF q = p THEN pl ELSE player[q]]
  BY <1>0
<1> HIDE DEF o
<1>5. r = CASE conf = None ->
                 [o EXCEPT !.events = IF renamed THEN <<ConfEvent(p, told, None)>> ELSE <<>>]
            [] conf # None /\ Known(conf) ->
                 [o EXCEPT !.player[p].conf = conf, !.events = <<ConfEvent(p, told, conf)>>]
            [] OTHER ->
                 [o EXCEPT !.ok = FALSE, !.untold = IF renamed THEN @ \union {p} ELSE @]
  BY DEF SetConf, o, pl
<1> HIDE DEF r
<1>6. CASE conf = None
  <2>1. r = [o EXCEPT !.events = IF renamed THEN <<ConfEvent(p, told, None)>> ELSE <<>>]
    BY <1>5, <1>6
  <2>2. Settled(p, nick, conf) = pl
    BY <1>1, <1>2, <1>6 DEF Settled
  <2>3. /\ r.state = state /\ r.ok = TRUE
        /\ r.player = [q \in DOMAIN player |-> IF q = p THEN pl ELSE player[q]]
        /\ r.untold = IF renamed THEN untold \ {p} ELSE untold
        /\ r.events = IF renamed THEN <<ConfEvent(p, told, None)>> ELSE <<>>
    BY <2>1, <1>3, <1>4
  <2>4. QED BY <2>2, <2>3, <1>1, <1>6 DEF ConfAnswered, Renamed, ToldNick, r
<1>7. CASE conf # None /\ Known(conf)
  <2>1. r = [o EXCEPT !.player[p].conf = conf, !.events = <<ConfEvent(p, told, conf)>>]
    BY <1>5, <1>7
  <2>2. Settled(p, nick, conf) = [pl EXCEPT !.conf = conf]
    BY <1>2, <1>7 DEF Settled
  <2>3. /\ r.state = state /\ r.ok = TRUE
        /\ r.player = [q \in DOMAIN player |->
                         IF q = p THEN [pl EXCEPT !.conf = conf] ELSE player[q]]
        /\ r.untold = IF renamed THEN untold \ {p} ELSE untold
        /\ r.events = <<ConfEvent(p, told, conf)>>
    BY <2>1, <1>3, <1>4
  <2>4. QED BY <2>2, <2>3, <1>7 DEF ConfAnswered, Renamed, ToldNick, r
<1>8. CASE conf # None /\ ~ Known(conf)
  <2>1. r = [o EXCEPT !.ok = FALSE, !.untold = IF renamed THEN @ \union {p} ELSE @]
    BY <1>5, <1>8
  <2>2. Settled(p, nick, conf) = pl
    BY <1>2, <1>8 DEF Settled
  <2>3. /\ r.state = state /\ r.ok = FALSE
        /\ r.player = [q \in DOMAIN player |-> IF q = p THEN pl ELSE player[q]]
        /\ r.untold = (IF renamed THEN (IF renamed THEN untold \ {p} ELSE untold) \union {p}
                                  ELSE IF renamed THEN untold \ {p} ELSE untold)
        /\ r.events = <<>>
    BY <2>1, <1>3, <1>4
  <2>4. QED BY <2>2, <2>3, <1>8 DEF ConfAnswered, Renamed, r
<1>9. QED BY <1>6, <1>7, <1>8

(* And its events tell of it, but for a nickname it keeps to itself.       *)
LEMMA SetConfTells ==
  ASSUME Lists(player), untold \in SUBSET DOMAIN player, NEW p \in DOMAIN player,
         NEW nick \in Nicks \union {None}, NEW conf \in FieldConfs \union {Unknown, None},
         NEW o, ConfAnswered(p, nick, conf, o)
  PROVE  Tells(player, untold, o.events, o.player, o.untold)
<1> DEFINE g == o.player
           v == Settled(p, nick, conf)
           m == ConfEvent(p, ToldNick(p, nick), conf)
<1>1. g = [q \in DOMAIN player |-> IF q = p THEN v ELSE player[q]]
  BY DEF ConfAnswered
<1>2. player[p] \in Players /\ p \in Nat
  BY DEF Lists
<1>3. /\ v \in Players /\ v.state = player[p].state
      /\ v.nick = Set(player[p].nick, nick)
      /\ v.conf = IF Known(conf) THEN conf ELSE player[p].conf
  BY <1>2 DEF Settled, Players, Set, Known
<1> HIDE DEF g, v
<1>4. DOMAIN g = DOMAIN player /\ g[p] = v /\ \A q \in DOMAIN player \ {p} : g[q] = player[q]
  BY <1>1
<1>5. Lists(g) /\ Others(player, g, p)
  BY <1>1, <1>3, <1>4 DEF Lists, Others
<1>6. o.untold \in SUBSET DOMAIN g
  BY <1>4 DEF ConfAnswered
<1>7. CASE o.events = <<>>
  <2>1. ~ Known(conf)
    BY <1>7 DEF ConfAnswered
  <2>2. v.conf = player[p].conf
    BY <2>1, <1>3
  <2>3. Renamed(p, nick) => p \in o.untold
    BY <1>7 DEF ConfAnswered
  <2>4. p \notin o.untold => v.nick = player[p].nick /\ p \notin untold
    BY <2>3, <1>3 DEF Renamed, Set, ConfAnswered
  <2>5. o.untold \in SUBSET (untold \union {p}) /\ \A q \in untold : q # p => q \in o.untold
    BY DEF ConfAnswered
  <2>6. NicksTold(player, untold, <<>>, g, o.untold)
    BY <2>4, <2>5, <1>4, NicksNothing
  <2>7. Carries(player, <<>>, g)
    <3>1. Carries(player, <<>>, player)
      BY CarriesNothing
    <3>2. \A q \in Nat : StateAt(g, q) = StateAt(player, q)
                         /\ At("conf", g, q) = At("conf", player, q)
      BY <1>3, <1>4, <2>2 DEF StateAt, At, Given
    <3>3. Sounds(<<>>, g)
      BY <3>1, <1>4 DEF Carries, Sounds, Sound
    <3>4. QED BY <3>1, <3>2, <3>3 DEF Carries
  <2>8. QED BY <1>5, <1>6, <1>7, <2>6, <2>7 DEF Tells, g
<1>8. CASE o.events # <<>>
  <2>1. /\ o.events = <<m>> /\ (conf = None \/ Known(conf))
        /\ o.untold = IF Renamed(p, nick) THEN untold \ {p} ELSE untold
    BY <1>8 DEF ConfAnswered
  <2>2. /\ m \in Messages /\ m.type = "CONF" /\ m.plid = p
        /\ m.nick = ToldNick(p, nick) /\ m.conf = conf /\ ~ Joins(m)
    <3>1. ToldNick(p, nick) \in Nicks \union {None} /\ conf \in FieldConfs \union {None}
      BY <2>1 DEF ToldNick, Known
    <3>2. QED BY <3>1, <1>2 DEF ConfEvent, Messages, Joins
  <2>3. v.conf = Set(player[p].conf, conf)
    BY <2>1, <1>3, NoneAssumption DEF Set, Known
  <2> HIDE DEF m
  <2>4. Carries(player, <<m>>, g)
    BY <2>2, <2>3, <1>3, <1>4, <1>5, ConfCarries
  <2>5. ASSUME NEW q \in DOMAIN g \ o.untold
        PROVE  IF Said("nick", q, None, m) = None
               THEN q \in DOMAIN player \ untold /\ player[q].nick = g[q].nick
               ELSE Said("nick", q, None, m) = g[q].nick
    <3>1. CASE q # p
      <4>1. Said("nick", q, None, m) = None
        BY <3>1, <2>2 DEF Said
      <4>2. q \in DOMAIN player \ untold /\ player[q] = g[q]
        BY <3>1, <2>1, <1>4
      <4>3. QED BY <4>1, <4>2
    <3>2. CASE q = p /\ Renamed(p, nick)
      <4>1. m.nick = nick /\ nick # None /\ v.nick = nick
        BY <3>2, <2>2, <1>3 DEF Renamed, ToldNick, Set
      <4>2. Said("nick", q, None, m) = nick
        BY <4>1, <3>2, <2>2 DEF Said, Given
      <4>3. QED BY <4>1, <4>2, <3>2, <1>4
    <3>3. CASE q = p /\ ~ Renamed(p, nick)
      <4>1. m.nick = None /\ v.nick = player[p].nick
        BY <3>3, <2>2, <1>3 DEF Renamed, ToldNick, Set
      <4>2. Said("nick", q, None, m) = None
        BY <4>1, <3>3, <2>2 DEF Said, Given
      <4>3. QED BY <4>1, <4>2, <3>3, <2>1, <1>4
    <3>4. QED BY <3>1, <3>2, <3>3
  <2>6. NicksTold(player, untold, <<m>>, g, o.untold)
    BY <2>5, NicksOne
  <2>7. QED BY <1>5, <1>6, <2>1, <2>4, <2>6 DEF Tells, g
<1>9. QED BY <1>7, <1>8

(* The change of a state, and the start of the match when all are ready.   *)
Moved(p, st) == [player EXCEPT ![p].state = st]
StateEvent(p, st) == [type |-> "STATE", plid |-> p, state |-> st]

StateAnswered(p, st, o) ==
  /\ o.untold = untold /\ o.ok \in BOOLEAN
  /\ \/ o.state = state /\ o.player = player /\ o.events = <<>>
     \/ o.state = state /\ o.player = Moved(p, st) /\ o.events = <<StateEvent(p, st)>>
     \/ /\ o.state = "PREPARING" /\ o.player = Move(Moved(p, st), "LOBBY_READY", "GAME")
        /\ o.events = <<StateEvent(p, st)>> \o <<[type |-> "GAME"]>>

(* That is what the handler does (processPktPlayerState).                  *)
LEMMA SetStateAnswers ==
  ASSUME Lists(player), NEW p \in DOMAIN player, NEW st \in Asking
  PROVE  StateAnswered(p, st, SetState(p, st))
<1> DEFINE moved == [player EXCEPT ![p].state = st]
           ready == {q \in DOMAIN moved : moved[q].state = "LOBBY_READY"}
           ev == [type |-> "STATE", plid |-> p, state |-> st]
           o == [Nothing EXCEPT !.player = moved, !.events = <<ev>>]
           r == SetState(p, st)
<1>1. moved = Moved(p, st) /\ ev = StateEvent(p, st)
  BY DEF Moved, StateEvent
<1> HIDE DEF moved, ev, ready
<1>2. /\ DOMAIN o = {"state", "player", "untold", "ok", "events"}
      /\ o.state = state /\ o.player = moved /\ o.untold = untold /\ o.ok = TRUE
      /\ o.events = <<ev>>
  BY DEF Nothing
<1> HIDE DEF o
<1>3. r = IF st = player[p].state THEN Nothing
          ELSE IF ~ StateValid(st) THEN Refused
          ELSE IF state = "LOBBY" /\ Cardinality(ready) = PlNbMax
          THEN [o EXCEPT !.state = "PREPARING", !.player = Move(@, "LOBBY_READY", "GAME"),
                         !.events = Append(@, [type |-> "GAME"])]
          ELSE o
  BY DEF SetState, o, moved, ev, ready
<1> HIDE DEF r
<1>4. /\ Nothing.untold = untold /\ Nothing.ok \in BOOLEAN /\ Nothing.state = state
      /\ Nothing.player = player /\ Nothing.events = <<>>
      /\ Refused.untold = untold /\ Refused.ok \in BOOLEAN /\ Refused.state = state
      /\ Refused.player = player /\ Refused.events = <<>>
  BY DEF Nothing, Refused
<1> DEFINE w == [o EXCEPT !.state = "PREPARING", !.player = Move(@, "LOBBY_READY", "GAME"),
                          !.events = Append(@, [type |-> "GAME"])]
<1>5. /\ w.untold = untold /\ w.ok = TRUE /\ w.state = "PREPARING"
      /\ w.player = Move(moved, "LOBBY_READY", "GAME")
      /\ w.events = Append(<<ev>>, [type |-> "GAME"])
  BY <1>2
<1>6. Append(<<ev>>, [type |-> "GAME"]) = <<ev>> \o <<[type |-> "GAME"]>>
  OBVIOUS
<1> HIDE DEF w
<1>7. r \in {Nothing, Refused, w, o}
  BY <1>3 DEF w
<1>8. CASE r \in {Nothing, Refused}
  BY <1>4, <1>8 DEF StateAnswered, r
<1>9. CASE r = w
  BY <1>1, <1>5, <1>6, <1>9 DEF StateAnswered, r
<1>10. CASE r = o
  BY <1>1, <1>2, <1>10 DEF StateAnswered, r
<1>11. QED BY <1>7, <1>8, <1>9, <1>10

(* Nothing, and messages that change nothing.                              *)
LEMMA TellsNothing ==
  ASSUME NEW f, Lists(f), NEW U \in SUBSET DOMAIN f
  PROVE  Tells(f, U, <<>>, f, U)
<1>1. NicksTold(f, U, <<>>, f, U)
  BY NicksNothing
<1>2. QED BY <1>1, CarriesNothing DEF Tells

(* A chat, or an answer, tells nothing.                                    *)
LEMMA TellsQuiet ==
  ASSUME NEW f, Lists(f), NEW U \in SUBSET DOMAIN f, NEW m, Quiet(m, f)
  PROVE  Tells(f, U, <<m>>, f, U)
<1>1. NicksTold(f, U, <<m>>, f, U)
  BY NicksStay DEF Quiet
<1>2. QED BY <1>1, QuietCarries DEF Tells

(* One change, and then another.                                           *)
LEMMA TellsConcat ==
  ASSUME NEW f, NEW U, NEW q, NEW g, NEW V, NEW r, NEW h, NEW W,
         DOMAIN g \subseteq DOMAIN h, Tells(f, U, q, g, V), Tells(g, V, r, h, W)
  PROVE  Tells(f, U, q \o r, h, W)
<1>1. Carries(f, q \o r, h)
  BY CarriesConcat DEF Tells
<1>2. Sounds(q, g) /\ Sounds(r, h)
  BY DEF Tells, Carries
<1>3. NicksTold(f, U, q \o r, h, W)
  BY <1>2, NicksConcat DEF Tells
<1>4. QED BY <1>1, <1>3 DEF Tells

(* One player's state, and the start of the match.                         *)
LEMMA StateTold ==
  ASSUME NEW f, Lists(f), NEW U \in SUBSET DOMAIN f, NEW p \in DOMAIN f, NEW st \in Asking
  PROVE  LET g == [f EXCEPT ![p].state = st]
         IN  /\ Tells(f, U, <<StateEvent(p, st)>>, g, U) /\ Others(f, g, p)
             /\ g[p].state = st /\ g[p].nick = f[p].nick /\ g[p].conf = f[p].conf
<1> DEFINE g == [f EXCEPT ![p].state = st]
           m == StateEvent(p, st)
<1>1. f[p] \in Players /\ p \in Nat /\ f \in [DOMAIN f -> Players] /\ st \in States
  BY DEF Lists, Asking, States
<1>2. [f[p] EXCEPT !.state = st] \in Players
  BY <1>1 DEF Players
<1>3. /\ DOMAIN g = DOMAIN f /\ g[p] = [f[p] EXCEPT !.state = st]
      /\ \A q \in DOMAIN f \ {p} : g[q] = f[q]
      /\ g = [q \in DOMAIN f |-> g[q]]
  BY <1>1
<1> HIDE DEF g
<1>4. g[p].state = st /\ g[p].nick = f[p].nick /\ g[p].conf = f[p].conf
  BY <1>1, <1>3 DEF Players
<1>5. Lists(g) /\ Others(f, g, p)
  BY <1>1, <1>2, <1>3 DEF Lists, Others
<1>6. m \in Messages /\ m.type = "STATE" /\ m.plid = p /\ m.state = st /\ ~ Joins(m)
  BY <1>1 DEF StateEvent, Messages, Joins
<1> HIDE DEF m
<1>7. Carries(f, <<m>>, g)
  BY <1>4, <1>5, <1>6, StateCarries
<1>8. \A q \in DOMAIN f : g[q].nick = f[q].nick
  BY <1>3, <1>4
<1>9. NicksTold(f, U, <<m>>, g, U)
  BY <1>3, <1>6, <1>8, NicksStay
<1>10. QED BY <1>3, <1>4, <1>5, <1>7, <1>9 DEF g, m, Tells

(* The start of the match moves all who are ready, and tells it.           *)
LEMMA MoveTold ==
  ASSUME NEW f, Lists(f), NEW U \in SUBSET DOMAIN f
  PROVE  LET g == Move(f, "LOBBY_READY", "GAME")
         IN  /\ Tells(f, U, <<[type |-> "GAME"]>>, g, U) /\ DOMAIN g = DOMAIN f
             /\ \A q \in DOMAIN f : /\ g[q].nick = f[q].nick
                                    /\ f[q].state = "LOBBY" => g[q].state = "LOBBY"
<1> DEFINE g == Move(f, "LOBBY_READY", "GAME")
           m == [type |-> "GAME"]
<1>1. /\ DOMAIN g = DOMAIN f
      /\ \A q \in DOMAIN f :
           g[q] = IF f[q].state = "LOBBY_READY" THEN [f[q] EXCEPT !.state = "GAME"] ELSE f[q]
      /\ g = [q \in DOMAIN f |-> g[q]]
  BY DEF Move
<1>2. m \in Messages /\ m.type = "GAME" /\ ~ Joins(m)
  BY DEF Messages, Joins
<1>3. Carries(f, <<m>>, g)
  BY <1>2, GameCarries
<1> HIDE DEF g, m
<1>4. ASSUME NEW q \in DOMAIN f
      PROVE  /\ g[q] \in Players /\ g[q].nick = f[q].nick
             /\ f[q].state = "LOBBY" => g[q].state = "LOBBY"
  <2>1. f[q] \in Players
    BY DEF Lists
  <2>2. CASE f[q].state = "LOBBY_READY"
    BY <2>1, <2>2, <1>1 DEF Players, States
  <2>3. CASE f[q].state # "LOBBY_READY"
    BY <2>1, <2>3, <1>1
  <2>4. QED BY <2>2, <2>3
<1>5. Lists(g)
  BY <1>1, <1>4 DEF Lists
<1>6. NicksTold(f, U, <<m>>, g, U)
  BY <1>1, <1>2, <1>4, NicksStay
<1>7. QED BY <1>1, <1>3, <1>4, <1>5, <1>6 DEF g, m, Tells

(* The events of a change of state tell of it, and of no other player.     *)
LEMMA SetStateTells ==
  ASSUME Lists(player), untold \in SUBSET DOMAIN player, NEW p \in DOMAIN player,
         NEW st \in Asking, NEW o, StateAnswered(p, st, o)
  PROVE  /\ Tells(player, untold, o.events, o.player, o.untold)
         /\ DOMAIN o.player = DOMAIN player
         /\ \A q \in DOMAIN player :
              /\ o.player[q].nick = player[q].nick
              /\ q # p /\ player[q].state = "LOBBY" => o.player[q].state = "LOBBY"
<1> DEFINE g == Moved(p, st)
           h == Move(g, "LOBBY_READY", "GAME")
<1>1. /\ Tells(player, untold, <<StateEvent(p, st)>>, g, untold) /\ Others(player, g, p)
      /\ g[p].nick = player[p].nick
  BY StateTold DEF Moved
<1> HIDE DEF g
<1>2. Lists(g) /\ DOMAIN g = DOMAIN player /\ \A q \in DOMAIN player \ {p} : g[q] = player[q]
  BY <1>1 DEF Tells, Others
<1>3. /\ Tells(g, untold, <<[type |-> "GAME"]>>, h, untold) /\ DOMAIN h = DOMAIN g
      /\ \A q \in DOMAIN g : /\ h[q].nick = g[q].nick
                             /\ g[q].state = "LOBBY" => h[q].state = "LOBBY"
  BY <1>2, MoveTold
<1> HIDE DEF h
<1>4. Tells(player, untold, <<StateEvent(p, st)>> \o <<[type |-> "GAME"]>>, h, untold)
  BY <1>1, <1>3, TellsConcat
<1>5. CASE o.player = player /\ o.events = <<>>
  BY <1>5, TellsNothing DEF StateAnswered
<1>6. CASE o.player = g /\ o.events = <<StateEvent(p, st)>>
  BY <1>1, <1>2, <1>6 DEF StateAnswered
<1>7. CASE o.player = h /\ o.events = <<StateEvent(p, st)>> \o <<[type |-> "GAME"]>>
  BY <1>1, <1>2, <1>3, <1>4, <1>7 DEF StateAnswered
<1>8. QED BY <1>5, <1>6, <1>7 DEF StateAnswered, g, h

(* A join.                                                                 *)
JoinAnswered(nick, o) ==
  /\ o.untold = untold /\ o.state = state /\ o.events = <<>>
  /\ \/ o.ok = FALSE /\ o.player = player
     \/ o.ok = TRUE /\ o.player = With(player, Newest, NewPlayer(nick))

(* That is what the handler does (processPktPlayerJoin).                   *)
LEMMA JoinAnswers == \A nick : JoinAnswered(nick, Join(nick))
<1> SUFFICES ASSUME NEW nick PROVE JoinAnswered(nick, Join(nick))
  OBVIOUS
<1>1. CASE Cardinality(DOMAIN player) > PlNbMax
  BY <1>1 DEF Join, JoinAnswered, Refused, Nothing
<1>2. CASE ~ (Cardinality(DOMAIN player) > PlNbMax)
  <2> DEFINE g == With(player, Newest, NewPlayer(nick))
  <2>1. Join(nick) = [Nothing EXCEPT !.player = g]
    BY <1>2 DEF Join, Nothing
  <2> HIDE DEF g
  <2>2. QED BY <2>1 DEF JoinAnswered, Nothing, g
<1>3. QED BY <1>1, <1>2

(* Handlers answer nothing themselves, and tell the states of nobody else. *)
LEMMA NoAnswerAmongEvents ==
  /\ \A p, nick, conf : Answers(<<ConfEvent(p, nick, conf)>>) = <<>>
  /\ \A p \in Nat, st \in Asking :
       /\ Answers(<<StateEvent(p, st)>>) = <<>>
       /\ Answers(<<StateEvent(p, st)>> \o <<[type |-> "GAME"]>>) = <<>>
<1>1. \A p, nick, conf : Answers(<<ConfEvent(p, nick, conf)>>) = <<>>
  BY AnswersOne DEF ConfEvent
<1>2. \A p, st : Answers(<<StateEvent(p, st)>>) = <<>>
  BY AnswersOne DEF StateEvent
<1>3. Answers(<<[type |-> "GAME"]>>) = <<>>
  BY AnswersOne
<1>4. ASSUME NEW p \in Nat, NEW st \in Asking
      PROVE  Answers(<<StateEvent(p, st)>> \o <<[type |-> "GAME"]>>) = <<>>
  <2>1. StateEvent(p, st) \in Messages /\ [type |-> "GAME"] \in Messages
    BY DEF StateEvent, Messages
  <2>2. <<StateEvent(p, st)>> \in Seq(Messages) /\ <<[type |-> "GAME"]>> \in Seq(Messages)
    BY <2>1
  <2> DEFINE x == <<StateEvent(p, st)>>
             y == <<[type |-> "GAME"]>>
  <2>3. x \in Seq(Messages) /\ y \in Seq(Messages) /\ Answers(x) = <<>> /\ Answers(y) = <<>>
    BY <2>2, <1>2, <1>3
  <2>4. <<>> \o <<>> = <<>>
    OBVIOUS
  <2> HIDE DEF x, y
  <2>5. Answers(x \o y) = <<>>
    BY <2>3, <2>4, AnswersConcat
  <2>6. QED BY <2>5 DEF x, y
<1>5. QED BY <1>1, <1>2, <1>4

-----------------------------------------------------------------------------
(* The commands on their way.                                              *)

Slot(m) == [type |-> m.type, plid |-> m.plid]

(* The callback of a command is a slot; joins have no player.              *)
LEMMA CommandSlot == \A m \in Commands : Slot(m) \in Slots /\ (m.type = "JOIN" => m.plid = 0)
BY DEF Commands, Slot, Slots, Types

(* The slots of the commands, in order.                                    *)
LEMMA AskedTyped ==
  ASSUME NEW q \in Seq(Commands)
  PROVE  /\ Asked(q) \in Seq(Slots) /\ DOMAIN Asked(q) = DOMAIN q
         /\ \A i \in DOMAIN q : Asked(q)[i] = Slot(q[i])
<1>1. \A i \in DOMAIN q : q[i] \in Commands
  OBVIOUS
<1>2. Asked(q) = [i \in 1..Len(q) |-> Slot(q[i])]
  BY DEF Asked, Slot
<1>3. \A i \in 1..Len(q) : Slot(q[i]) \in Slots
  BY <1>1, CommandSlot
<1>4. QED BY <1>2, <1>3

(* The slot of the first command comes first.                              *)
LEMMA AskedHead ==
  ASSUME NEW q \in Seq(Commands), q # <<>>
  PROVE  Asked(q) = <<Slot(Head(q))>> \o Asked(Tail(q))
<1> DEFINE a == Asked(q)
           b == Asked(Tail(q))
           w == Slot(Head(q))
<1>1. /\ Tail(q) \in Seq(Commands) /\ Head(q) = q[1] /\ 1 \in DOMAIN q
      /\ Len(q) = Len(Tail(q)) + 1 /\ Len(Tail(q)) \in Nat
      /\ \A i \in DOMAIN Tail(q) : i + 1 \in DOMAIN q /\ Tail(q)[i] = q[i + 1]
  BY HeadAndTail
<1>2. /\ a \in Seq(Slots) /\ DOMAIN a = DOMAIN q /\ \A i \in DOMAIN q : a[i] = Slot(q[i])
      /\ b \in Seq(Slots) /\ DOMAIN b = DOMAIN Tail(q)
      /\ \A i \in DOMAIN Tail(q) : b[i] = Slot(Tail(q)[i])
  BY <1>1, AskedTyped
<1> HIDE DEF a, b
<1>3. Len(a) = Len(b) + 1 /\ a[1] = w /\ a # <<>>
  <2>1. Len(a) = Len(q)
    BY <1>2
  <2>2. Len(b) = Len(Tail(q))
    <3> DEFINE t == Tail(q)
    <3>1. t \in Seq(Commands) /\ b \in Seq(Slots) /\ DOMAIN b = DOMAIN t
      BY <1>1, <1>2
    <3> HIDE DEF t
    <3>2. Len(b) = Len(t)
      BY <3>1
    <3>3. QED BY <3>2 DEF t
  <2>3. a[1] = w
    BY <1>1, <1>2
  <2>4. QED BY <2>1, <2>2, <2>3, <1>1, <1>2
<1>4. \A i \in DOMAIN b : b[i] = a[i + 1]
  BY <1>1, <1>2
<1>5. Head(a) = w /\ Tail(a) \in Seq(Slots) /\ Len(Tail(a)) = Len(b)
  BY <1>2, <1>3
<1>6. \A i \in 1..Len(b) : Tail(a)[i] = a[i + 1]
  BY <1>2, <1>3
<1>7. Tail(a) = b
  BY <1>2, <1>4, <1>5, <1>6
<1>8. a = <<Head(a)>> \o Tail(a)
  BY <1>2, <1>3, HeadAndTail
<1>9. QED BY <1>5, <1>7, <1>8 DEF a, b

(* The slot of the last command comes last.                                *)
LEMMA AskedAppend ==
  ASSUME NEW q \in Seq(Commands), NEW m \in Commands
  PROVE  Asked(Append(q, m)) = Append(Asked(q), Slot(m))
<1> DEFINE r == Append(q, m)
           w == Slot(m)
           a == Asked(q)
           b == Asked(r)
<1>1. /\ r \in Seq(Commands) /\ DOMAIN r = 1..(Len(q) + 1) /\ DOMAIN q = 1..Len(q)
      /\ Len(q) \in Nat
      /\ \A i \in 1..Len(q) : r[i] = q[i]
      /\ r[Len(q) + 1] = m
  OBVIOUS
<1>2. /\ a \in Seq(Slots) /\ DOMAIN a = DOMAIN q /\ \A i \in DOMAIN q : a[i] = Slot(q[i])
      /\ b \in Seq(Slots) /\ DOMAIN b = DOMAIN r /\ \A i \in DOMAIN r : b[i] = Slot(r[i])
  BY <1>1, AskedTyped
<1>3. w \in Slots
  BY CommandSlot
<1> HIDE DEF a, b, r, w
<1>4. Len(a) = Len(q) /\ Len(b) = Len(q) + 1
  BY <1>1, <1>2
<1>5. \A i \in 1..Len(q) : b[i] = a[i]
  BY <1>1, <1>2
<1>6. b[Len(q) + 1] = w
  BY <1>1, <1>2 DEF w
<1>7. Append(a, w) \in Seq(Slots) /\ Len(Append(a, w)) = Len(q) + 1
      /\ \A i \in 1..Len(q) : Append(a, w)[i] = a[i]
      /\ Append(a, w)[Len(q) + 1] = w
  BY <1>2, <1>3, <1>4
<1>8. \A i \in 1..(Len(q) + 1) : b[i] = Append(a, w)[i]
  <2>1. \A i \in 1..(Len(q) + 1) : i \in 1..Len(q) \/ i = Len(q) + 1
    BY <1>1
  <2>2. QED BY <2>1, <1>5, <1>6, <1>7
<1>9. b = Append(a, w)
  BY <1>2, <1>4, <1>7, <1>8
<1>10. QED BY <1>9 DEF a, b, r, w

-----------------------------------------------------------------------------
(* The invariant.                                                          *)

Open == thrown = ""
Reasons == {"", "match is running", "hasty", "invalid configuration"}

Kinds ==
  /\ state \in ServerStates /\ Lists(player) /\ Lists(copy)
  /\ DOMAIN copy \in SUBSET DOMAIN player /\ untold \in SUBSET DOMAIN player
  /\ mine \in SUBSET (DOMAIN player \ LocalOnes)
  /\ toServer \in Seq(Commands) /\ asks \in 0..AskMax /\ changes \in 0..ChangeMax
  /\ \A i \in DOMAIN toServer : toServer[i].type # "JOIN" => toServer[i].plid \in mine

(* IDs are given in order, and each join on its way may take one more.     *)
Numbered ==
  \E n \in Nat : /\ DOMAIN player = 1..n /\ LocalOnes \in SUBSET (1..n)
                 /\ n + Len(toServer) <= Cardinality(LocalOnes) + changes + asks

(* Nicknames: what the client is told last is the nickname on the server;  *)
(* as long as it is told nothing it has that one, or the one the server    *)
(* will have once it has read what the client asks.                        *)
NickSoon(f, p, q) == SaidAfter("nick", p, f[p].nick, q)

NicksFollow ==
  \A p \in DOMAIN player \ untold :
    LET said == SaidAfter("nick", p, None, toClient)
    IN  IF said = None
        THEN p \in DOMAIN copy /\ copy[p].nick \in {player[p].nick, NickSoon(player, p, toServer)}
        ELSE said = player[p].nick

(* Settings that were not sent in haste find their player in the lobby: it *)
(* is there, and no change of its state comes before them.                 *)
Patient(m) == m.type = "CONF" /\ ~ m.hasty

PatientInLobby ==
  \A i \in DOMAIN toServer : Patient(toServer[i]) =>
    /\ player[toServer[i].plid].state = "LOBBY"
    /\ \A j \in DOMAIN toServer :
         j < i => ~ (toServer[j].type = "STATE" /\ toServer[j].plid = toServer[i].plid)

(* A player of the client changes state because the client has asked: the  *)
(* answer comes after the event.                                           *)
StateAnswer(m, p) == m.type = "RESPONSE" /\ m.to = "STATE" /\ m.plid = p

AnsweredIn(q, M) ==
  \A i \in DOMAIN q : q[i].type = "STATE" /\ q[i].plid \in M =>
    \E j \in DOMAIN q : i < j /\ StateAnswer(q[j], q[i].plid)

Told ==
  /\ callbacks = Answers(toClient) \o Asked(toServer)
  /\ Carries(copy, toClient, player) /\ NicksFollow
  /\ PatientInLobby /\ AnsweredIn(toClient, mine)

SettingsInv ==
  /\ Kinds /\ Numbered /\ thrown \in Reasons
  /\ Open => Told

-----------------------------------------------------------------------------
(* The server goes on.                                                     *)

(* Nicknames go on being followed when the server tells more.              *)
LEMMA NicksKept ==
  ASSUME NEW e, Sounds(toClient, player), Sounds(e, player'), NicksFollow,
         NicksTold(player, untold, e, player', untold'), toClient' = toClient \o e, copy' = copy,
         \A p \in DOMAIN player \ untold : player'[p].nick = player[p].nick =>
           NickSoon(player', p, toServer') = NickSoon(player, p, toServer)
  PROVE  NicksFollow'
<1> SUFFICES ASSUME NEW p \in DOMAIN player' \ untold'
             PROVE  LET said == SaidAfter("nick", p, None, toClient')
                    IN  IF said = None
                        THEN /\ p \in DOMAIN copy'
                             /\ copy'[p].nick \in {player'[p].nick, NickSoon(player', p, toServer')}
                        ELSE said = player'[p].nick
  BY DEF NicksFollow
<1> DEFINE first == SaidAfter("nick", p, None, toClient)
           second == SaidAfter("nick", p, None, e)
<1>1. SaidAfter("nick", p, None, toClient \o e) = IF second = None THEN first ELSE second
  BY NickSaidLast, Zenon
<1>2. IF second = None THEN p \in DOMAIN player \ untold /\ player[p].nick = player'[p].nick
                       ELSE second = player'[p].nick
  BY DEF NicksTold
<1>3. p \in DOMAIN player \ untold =>
        IF first = None
        THEN p \in DOMAIN copy /\ copy[p].nick \in {player[p].nick, NickSoon(player, p, toServer)}
        ELSE first = player[p].nick
  BY DEF NicksFollow
<1> HIDE DEF first, second
<1>4. CASE second = None
  <2>1. p \in DOMAIN player \ untold /\ player[p].nick = player'[p].nick
        /\ NickSoon(player', p, toServer') = NickSoon(player, p, toServer)
    BY <1>2, <1>4
  <2>2. QED BY <1>1, <1>3, <1>4, <2>1
<1>5. CASE second # None
  BY <1>1, <1>2, <1>5
<1>6. QED BY <1>4, <1>5

(* What the events and the answer of a handler do to what is on its way.   *)
LEMMA ServerTold ==
  ASSUME Lists(player), Lists(copy), Carries(copy, toClient, player), NicksFollow,
         NEW o, NEW answer, Become(o, answer), copy' = copy,
         o.events \in Seq(Messages), answer \in Seq(Messages),
         Tells(player, untold, o.events \o answer, o.player, o.untold),
         DOMAIN player \subseteq DOMAIN o.player,
         \A p \in DOMAIN player \ untold :
           o.player[p].nick = player[p].nick =>
             NickSoon(o.player, p, toServer') = NickSoon(player, p, toServer)
  PROVE  /\ Lists(player') /\ untold' \in SUBSET DOMAIN player'
         /\ Carries(copy', toClient', player') /\ NicksFollow'
         /\ toClient' = toClient \o (o.events \o answer)
         /\ Answers(toClient') = Answers(toClient) \o Answers(o.events \o answer)
<1> DEFINE e == o.events \o answer
<1>1. state' = o.state /\ player' = o.player /\ untold' = o.untold
      /\ toClient' = (toClient \o o.events) \o answer
  BY DEF Become
<1>2. toClient \in Seq(Messages) /\ Sounds(toClient, player)
  BY DEF Carries, Sounds
<1>3. toClient' = toClient \o e /\ e \in Seq(Messages)
  <2>1. (toClient \o o.events) \o answer = toClient \o (o.events \o answer)
    BY <1>2, MessagesAssociative
  <2>2. o.events \o answer \in Seq(Messages)
    BY ConcatProperties
  <2>3. QED BY <1>1, <2>1, <2>2
<1>4. Tells(player, untold, e, player', untold')
  BY <1>1
<1> HIDE DEF e
<1>5. Answers(toClient') = Answers(toClient) \o Answers(e)
  BY <1>2, <1>3, AnswersConcat
<1>6. /\ Lists(player') /\ untold' \in SUBSET DOMAIN player'
      /\ Carries(player, e, player') /\ NicksTold(player, untold, e, player', untold')
  BY <1>4 DEF Tells
<1>7. Carries(copy', toClient', player')
  BY <1>1, <1>3, <1>6, CarriesConcat
<1>8. Sounds(e, player')
  BY <1>6 DEF Carries
<1>9. NicksFollow'
  BY <1>1, <1>2, <1>3, <1>6, <1>8, NicksKept
<1>10. QED BY <1>3, <1>5, <1>6, <1>7, <1>9 DEF e

(* Settings on their way are not disturbed by changes of other players.    *)
LEMMA PatientKept ==
  ASSUME Kinds, PatientInLobby, toServer' = toServer,
         \A p \in mine : player[p].state = "LOBBY" => player'[p].state = "LOBBY"
  PROVE  PatientInLobby'
<1> SUFFICES ASSUME NEW i \in DOMAIN toServer, Patient(toServer[i])
             PROVE  /\ player'[toServer[i].plid].state = "LOBBY"
                    /\ \A j \in DOMAIN toServer : j < i =>
                         ~ (toServer[j].type = "STATE" /\ toServer[j].plid = toServer[i].plid)
  BY DEF PatientInLobby
<1>1. toServer[i].plid \in mine
  BY DEF Kinds, Patient
<1>2. QED BY <1>1 DEF PatientInLobby

(* Events that are answered, in two channels one after the other.          *)
LEMMA AnsweredConcat ==
  ASSUME NEW q \in Seq(Messages), NEW r \in Seq(Messages), NEW M,
         AnsweredIn(q, M), AnsweredIn(r, M)
  PROVE  AnsweredIn(q \o r, M)
<1> DEFINE u == q \o r
           n == Len(q)
<1>1. /\ \A i \in DOMAIN q : i \in DOMAIN u /\ u[i] = q[i]
      /\ \A i \in DOMAIN r : n + i \in DOMAIN u /\ u[n + i] = r[i]
      /\ \A i \in DOMAIN u : \/ i \in DOMAIN q /\ u[i] = q[i]
                             \/ \E j \in DOMAIN r : i = n + j /\ u[i] = r[j]
  BY Concatenated
<1>2. n \in Nat /\ DOMAIN q \in SUBSET Nat /\ DOMAIN r \in SUBSET Nat
  OBVIOUS
<1> HIDE DEF u, n
<1>3. ASSUME NEW i \in DOMAIN u, u[i].type = "STATE", u[i].plid \in M
      PROVE  \E j \in DOMAIN u : i < j /\ StateAnswer(u[j], u[i].plid)
  <2>1. CASE i \in DOMAIN q /\ u[i] = q[i]
    <3>1. PICK j \in DOMAIN q : i < j /\ StateAnswer(q[j], q[i].plid)
      BY <1>3, <2>1 DEF AnsweredIn
    <3>2. QED BY <2>1, <3>1, <1>1
  <2>2. ASSUME NEW k \in DOMAIN r, i = n + k, u[i] = r[k]
        PROVE  \E j \in DOMAIN u : i < j /\ StateAnswer(u[j], u[i].plid)
    <3>1. PICK j \in DOMAIN r : k < j /\ StateAnswer(r[j], r[k].plid)
      BY <1>3, <2>2 DEF AnsweredIn
    <3>2. n + j \in DOMAIN u /\ u[n + j] = r[j] /\ i < n + j
      BY <1>1, <1>2, <2>2, <3>1
    <3>3. QED BY <2>2, <3>1, <3>2
  <2>3. QED BY <2>1, <2>2, <1>1
<1>4. QED BY <1>3 DEF AnsweredIn, u

(* All states told in a channel are of one player.                         *)
StatesOf(q, p) == \A i \in DOMAIN q : q[i].type = "STATE" => q[i].plid = p

(* States of somebody else need no answer.                                 *)
LEMMA AnsweredOthers ==
  ASSUME NEW q, NEW p, NEW M, StatesOf(q, p), p \notin M
  PROVE  AnsweredIn(q, M)
BY DEF StatesOf, AnsweredIn

(* States of one player, then the answer about it.                         *)
LEMMA AnsweredLast ==
  ASSUME NEW q \in Seq(Messages), NEW p, NEW M, NEW m \in Messages,
         StatesOf(q, p), StateAnswer(m, p)
  PROVE  AnsweredIn(q \o <<m>>, M)
<1> DEFINE r == <<m>>
           u == q \o r
           n == Len(q)
<1>1. r \in Seq(Messages) /\ DOMAIN r = {1} /\ r[1] = m
  OBVIOUS
<1>2. n \in Nat /\ DOMAIN q = 1..n
  OBVIOUS
<1> HIDE DEF r
<1>3. /\ \A i \in DOMAIN q : i \in DOMAIN u /\ u[i] = q[i]
      /\ \A i \in DOMAIN r : n + i \in DOMAIN u /\ u[n + i] = r[i]
      /\ \A i \in DOMAIN u : \/ i \in DOMAIN q /\ u[i] = q[i]
                             \/ \E j \in DOMAIN r : i = n + j /\ u[i] = r[j]
  BY <1>1, Concatenated
<1> HIDE DEF u, n
<1>4. ASSUME NEW i \in DOMAIN u, u[i].type = "STATE", u[i].plid \in M
      PROVE  \E j \in DOMAIN u : i < j /\ StateAnswer(u[j], u[i].plid)
  <2>1. u[i] # m
    BY <1>4 DEF StateAnswer
  <2>2. i \in DOMAIN q /\ u[i] = q[i]
    BY <1>1, <1>3, <2>1
  <2>3. u[i].plid = p
    BY <1>4, <2>2 DEF StatesOf
  <2>4. n + 1 \in DOMAIN u /\ u[n + 1] = m /\ i < n + 1
    BY <1>1, <1>2, <1>3, <2>2
  <2>5. QED BY <2>3, <2>4
<1>5. QED BY <1>4 DEF AnsweredIn, u, r

-----------------------------------------------------------------------------
(* The other players.                                                      *)

(* Whatever is told of a player that is not the client's.                  *)
LEMMA OthersKeep ==
  ASSUME SettingsInv, Open, NEW p, p \notin mine, NEW o, NEW answer, Become(o, answer),
         o.events \in Seq(Messages), answer \in Seq(Messages),
         Tells(player, untold, o.events \o answer, o.player, o.untold),
         Answers(o.events \o answer) = <<>>, StatesOf(o.events \o answer, p),
         DOMAIN player \subseteq DOMAIN o.player, o.state \in ServerStates,
         \A q \in mine : player[q].state = "LOBBY" => o.player[q].state = "LOBBY",
         changes' \in 0..ChangeMax, Numbered',
         UNCHANGED <<copy, mine, toServer, callbacks, thrown, asks>>
  PROVE  SettingsInv'
<1>1. Kinds /\ Told /\ thrown \in Reasons
  BY DEF SettingsInv
<1>2. /\ Lists(player) /\ Lists(copy) /\ Carries(copy, toClient, player) /\ NicksFollow
      /\ callbacks = Answers(toClient) \o Asked(toServer) /\ PatientInLobby
      /\ AnsweredIn(toClient, mine) /\ toServer \in Seq(Commands)
  BY <1>1 DEF Kinds, Told
<1>3. /\ copy' = copy /\ mine' = mine /\ toServer' = toServer /\ callbacks' = callbacks
      /\ thrown' = thrown /\ asks' = asks
  OBVIOUS
<1>4. state' = o.state /\ player' = o.player /\ untold' = o.untold
  BY DEF Become
<1> DEFINE e == o.events \o answer
<1>5. \A q \in DOMAIN player \ untold :
        o.player[q].nick = player[q].nick =>
          NickSoon(o.player, q, toServer') = NickSoon(player, q, toServer)
  BY <1>3 DEF NickSoon
<1>6. /\ Lists(player') /\ untold' \in SUBSET DOMAIN player'
      /\ Carries(copy', toClient', player') /\ NicksFollow'
      /\ toClient' = toClient \o e /\ Answers(toClient') = Answers(toClient) \o Answers(e)
  BY <1>2, <1>3, <1>5, ServerTold
<1>7. toClient \in Seq(Messages) /\ e \in Seq(Messages)
  <2>1. toClient \in Seq(Messages)
    BY <1>2 DEF Carries, Sounds
  <2>2. e \in Seq(Messages)
    BY ConcatProperties
  <2>3. QED BY <2>1, <2>2
<1>8. Answers(e) = <<>> /\ StatesOf(e, p) /\ Answers(toClient) \in Seq(Slots)
  BY <1>7, AnswersCollected, EmptySeq
<1> HIDE DEF e
<1>9. callbacks' = Answers(toClient') \o Asked(toServer')
  <2>1. Answers(toClient') = Answers(toClient)
    BY <1>6, <1>8, ConcatEmptySeq
  <2>2. QED BY <2>1, <1>2, <1>3
<1>10. PatientInLobby'
  BY <1>1, <1>2, <1>3, <1>4, PatientKept
<1>11. AnsweredIn(toClient', mine')
  <2>1. AnsweredIn(e, mine)
    BY <1>8, AnsweredOthers
  <2>2. QED BY <2>1, <1>2, <1>3, <1>6, <1>7, AnsweredConcat
<1>12. Told'
  BY <1>6, <1>9, <1>10, <1>11 DEF Told
<1>13. Kinds'
  <2>1. /\ DOMAIN copy \in SUBSET DOMAIN player /\ mine \in SUBSET (DOMAIN player \ LocalOnes)
        /\ asks \in 0..AskMax
        /\ \A i \in DOMAIN toServer : toServer[i].type # "JOIN" => toServer[i].plid \in mine
    BY <1>1 DEF Kinds
  <2>2. DOMAIN copy' \in SUBSET DOMAIN player' /\ mine' \in SUBSET (DOMAIN player' \ LocalOnes)
    BY <2>1, <1>3, <1>4
  <2>3. QED BY <2>1, <2>2, <1>2, <1>3, <1>4, <1>6 DEF Kinds
<1>14. QED BY <1>1, <1>3, <1>12, <1>13 DEF SettingsInv

(* A change of a player that is not the client's.                          *)
LEMMA OtherChangesKeeps ==
  ASSUME SettingsInv, NEW p \in DOMAIN player, OtherChanges(p)
  PROVE  SettingsInv'
<1>1. /\ Open /\ changes < ChangeMax /\ changes' = changes + 1 /\ p \notin mine
      /\ UNCHANGED <<copy, mine, toServer, callbacks, thrown, asks>>
  BY DEF OtherChanges, Open
<1>2. Kinds /\ Numbered
  BY DEF SettingsInv
<1>3. /\ Lists(player) /\ untold \in SUBSET DOMAIN player /\ state \in ServerStates
      /\ mine \in SUBSET DOMAIN player /\ changes \in Nat /\ p \in Nat
  BY <1>2 DEF Kinds, Lists
<1>4. changes' \in 0..ChangeMax
  BY <1>1, <1>3, BoundsAssumption
<1>5. ASSUME DOMAIN player' = DOMAIN player PROVE Numbered'
  <2>1. PICK n \in Nat : /\ DOMAIN player = 1..n /\ LocalOnes \in SUBSET (1..n)
                         /\ n + Len(toServer) <= Cardinality(LocalOnes) + changes + asks
    BY <1>2 DEF Numbered
  <2>2. Cardinality(LocalOnes) \in Nat /\ Len(toServer) \in Nat /\ asks \in Nat
    BY <1>2, PlayersAssumption, FS_CardinalityType DEF Kinds
  <2>3. n + Len(toServer) <= Cardinality(LocalOnes) + (changes + 1) + asks
    BY <2>1, <2>2, <1>3
  <2>4. toServer' = toServer /\ asks' = asks
    BY <1>1
  <2>5. QED BY <2>1, <2>3, <2>4, <1>1, <1>5 DEF Numbered
<1>6. \A q : q \in Seq(Messages) => q \o <<>> = q /\ <<>> \o q = q /\ <<>> \in Seq(Messages)
  BY ConcatEmptySeq, EmptySeq
<1>7. ASSUME NEW nick \in Nicks \union {None}, NEW conf \in FieldConfs \union {Unknown, None},
             Become(SetConf(p, nick, conf), <<>>)
      PROVE  SettingsInv'
  <2> DEFINE o == SetConf(p, nick, conf)
  <2>1. ConfAnswered(p, nick, conf, o)
    BY <1>3, SetConfAnswers
  <2>2. Become(o, <<>>)
    BY <1>7
  <2> HIDE DEF o
  <2>3. Tells(player, untold, o.events, o.player, o.untold)
    BY <1>3, <2>1, SetConfTells
  <2>4. o.events \in Seq(Messages)
    BY <2>3 DEF Tells, Carries, Sounds
  <2>5. Answers(o.events) = <<>> /\ StatesOf(o.events, p)
    <3>1. CASE o.events = <<>>
      BY <3>1, AnswersOne DEF StatesOf
    <3>2. CASE o.events # <<>>
      <4>1. o.events = <<ConfEvent(p, ToldNick(p, nick), conf)>>
        BY <2>1, <3>2 DEF ConfAnswered
      <4>2. StatesOf(o.events, p)
        BY <4>1 DEF StatesOf, ConfEvent
      <4>3. QED BY <4>1, <4>2, NoAnswerAmongEvents
    <3>3. QED BY <3>1, <3>2
  <2>6. /\ DOMAIN o.player = DOMAIN player /\ o.state = state
        /\ \A q \in mine : player[q].state = "LOBBY" => o.player[q].state = "LOBBY"
    BY <1>1, <1>3, <2>1 DEF ConfAnswered
  <2>7. player' = o.player
    BY <2>2 DEF Become
  <2>8. Numbered'
    BY <1>5, <2>6, <2>7
  <2>9. o.events \o <<>> = o.events /\ <<>> \in Seq(Messages)
    BY <1>6, <2>4
  <2>10. QED BY <1>1, <1>3, <1>4, <2>2, <2>3, <2>4, <2>5, <2>6, <2>8, <2>9, OthersKeep
<1>8. ASSUME NEW st \in Asking, Become(SetState(p, st), <<>>) PROVE SettingsInv'
  <2> DEFINE o == SetState(p, st)
  <2>1. StateAnswered(p, st, o)
    BY <1>3, SetStateAnswers
  <2>2. Become(o, <<>>)
    BY <1>8
  <2> HIDE DEF o
  <2>3. /\ Tells(player, untold, o.events, o.player, o.untold)
        /\ DOMAIN o.player = DOMAIN player
        /\ \A q \in DOMAIN player :
             q # p /\ player[q].state = "LOBBY" => o.player[q].state = "LOBBY"
    BY <1>3, <2>1, SetStateTells
  <2>4. o.events \in Seq(Messages)
    BY <2>3 DEF Tells, Carries, Sounds
  <2>5. Answers(o.events) = <<>> /\ StatesOf(o.events, p)
    <3>1. CASE o.events = <<>>
      BY <3>1, AnswersOne DEF StatesOf
    <3>2. CASE o.events = <<StateEvent(p, st)>>
      BY <3>2, <1>3, NoAnswerAmongEvents DEF StatesOf, StateEvent
    <3>3. CASE o.events = <<StateEvent(p, st)>> \o <<[type |-> "GAME"]>>
      <4>1. StatesOf(o.events, p)
        BY <3>3 DEF StatesOf, StateEvent
      <4>2. QED BY <4>1, <3>3, <1>3, NoAnswerAmongEvents
    <3>4. QED BY <3>1, <3>2, <3>3, <2>1 DEF StateAnswered
  <2>6. o.state \in ServerStates
    BY <1>3, <2>1 DEF StateAnswered, ServerStates
  <2>7. \A q \in mine : player[q].state = "LOBBY" => o.player[q].state = "LOBBY"
    BY <1>1, <1>3, <2>3
  <2>8. player' = o.player
    BY <2>2 DEF Become
  <2>9. Numbered'
    BY <1>5, <2>3, <2>8
  <2>10. o.events \o <<>> = o.events /\ <<>> \in Seq(Messages)
    BY <1>6, <2>4
  <2>11. QED BY <1>1, <1>3, <1>4, <2>2, <2>3, <2>4, <2>5, <2>6, <2>7, <2>9, <2>10, OthersKeep
<1>9. ASSUME Become(Nothing, <<[type |-> "CHAT", plid |-> p]>>) PROVE SettingsInv'
  <2> DEFINE o == Nothing
             m == [type |-> "CHAT", plid |-> p]
             a == <<m>>
  <2>1. /\ o.state = state /\ o.player = player /\ o.untold = untold /\ o.events = <<>>
    BY DEF Nothing
  <2>2. Quiet(m, player)
    BY <1>3 DEF Quiet, Messages, Joins
  <2>3. Become(o, a)
    BY <1>9
  <2>4. m.type = "CHAT" /\ m \in Messages
    BY <2>2 DEF Quiet
  <2> HIDE DEF o, m
  <2>5. a \in Seq(Messages) /\ Answers(a) = <<>> /\ StatesOf(a, p)
    <3>1. a \in Seq(Messages)
      BY <2>4
    <3>2. Answers(a) = <<>>
      BY <2>4, AnswersOne
    <3>3. StatesOf(a, p)
      BY <2>4 DEF StatesOf
    <3>4. QED BY <3>1, <3>2, <3>3
  <2>6. Tells(player, untold, a, player, untold)
    BY <1>3, <2>2, TellsQuiet
  <2> HIDE DEF a
  <2>7. player' = o.player
    BY <2>3 DEF Become
  <2>8. Numbered'
    BY <1>5, <2>1, <2>7
  <2>9. o.events \o a = a /\ o.events \in Seq(Messages)
    BY <1>6, <2>1, <2>5
  <2>10. QED BY <1>1, <1>3, <1>4, <2>1, <2>3, <2>5, <2>6, <2>8, <2>9, OthersKeep
<1>10. QED BY <1>7, <1>8, <1>9 DEF OtherChanges, Asking

(* The next ID, and who gets it.                                           *)
LEMMA NewestIsNew ==
  ASSUME Kinds, Numbered
  PROVE  /\ Newest \in Nat \ DOMAIN player /\ Newest \notin LocalOnes
         /\ \E n \in Nat : /\ DOMAIN player = 1..n /\ LocalOnes \in SUBSET (1..n)
                           /\ Newest = n + 1
                           /\ DOMAIN player \union {Newest} = 1..(n + 1)
                           /\ n + Len(toServer) <= Cardinality(LocalOnes) + changes + asks
<1>1. PICK n \in Nat : /\ DOMAIN player = 1..n /\ LocalOnes \in SUBSET (1..n)
                       /\ n + Len(toServer) <= Cardinality(LocalOnes) + changes + asks
  BY DEF Numbered
<1>2. Cardinality(1..n) = n
  <2>1. Cardinality(1..n) = IF 1 > n THEN 0 ELSE n - 1 + 1
    BY FS_Interval
  <2>2. QED BY <2>1
<1>3. Newest = n + 1
  BY <1>1, <1>2 DEF Newest
<1>4. n + 1 \notin 1..n /\ (1..n) \union {n + 1} = 1..(n + 1)
  OBVIOUS
<1>5. QED BY <1>1, <1>3, <1>4

(* A new player has settings of the server's, in the lobby.                *)
LEMMA NewPlayerListed ==
  \A nick \in Nicks \union {None} :
    NewPlayer(nick) \in Players /\ NewPlayer(nick).state = "LOBBY"
<1>1. Head(Confs) \in ToSet(Confs)
  BY ConfsAssumption DEF ToSet
<1>2. QED BY <1>1, ConfsAssumption DEF NewPlayer, Players, FieldConfs, States

(* A player that is not the client's joins: its event introduces it.       *)
LEMMA OtherJoinsKeeps ==
  ASSUME SettingsInv, OtherJoins
  PROVE  SettingsInv'
<1>1. /\ Open /\ changes < ChangeMax /\ changes' = changes + 1
      /\ UNCHANGED <<copy, mine, toServer, callbacks, thrown, asks>>
  BY DEF OtherJoins, Open
<1>2. Kinds /\ Numbered
  BY DEF SettingsInv
<1>3. /\ Lists(player) /\ untold \in SUBSET DOMAIN player /\ state \in ServerStates
      /\ mine \in SUBSET DOMAIN player /\ changes \in Nat
      /\ toServer \in Seq(Commands) /\ asks \in Nat
  BY <1>2 DEF Kinds
<1>4. changes' \in 0..ChangeMax
  BY <1>1, <1>3, BoundsAssumption
<1>5. PICK nick \in Nicks \union {None} :
        LET o == Join(nick)
            pl == o.player[Newest]
        IN  o.ok /\ Become(o, <<ConfEvent(Newest, pl.nick, pl.conf)>>)
  BY DEF OtherJoins
<1> DEFINE o == Join(nick)
           p == Newest
           v == NewPlayer(nick)
           g == With(player, p, v)
           m == ConfEvent(p, v.nick, v.conf)
           a == <<m>>
<1>6. JoinAnswered(nick, o) /\ o.ok
  BY <1>5, JoinAnswers
<1>7. o.untold = untold /\ o.state = state /\ o.events = <<>> /\ o.player = g
  BY <1>6 DEF JoinAnswered
<1>8. g[p] = v /\ DOMAIN g = DOMAIN player \union {p} /\ \A q \in DOMAIN player : g[q] = player[q]
  <2>1. p \notin DOMAIN player
    BY <1>2, NewestIsNew
  <2> HIDE DEF p, v
  <2>2. QED BY <2>1 DEF With
<1>9. Become(o, a)
  BY <1>5, <1>7, <1>8
<1>10. p \in Nat \ DOMAIN player /\ v \in Players /\ v.state = "LOBBY"
  BY <1>2, NewestIsNew, NewPlayerListed
<1> HIDE DEF o, v, g, p
<1>11. Introduces(m, p, v) /\ m \in Messages /\ m.type = "CONF"
  BY <1>10 DEF Introduces, ConfEvent, Messages, Players
<1> HIDE DEF m
<1>12. Tells(player, untold, a, g, untold)
  BY <1>3, <1>10, <1>11, NewcomerTold DEF g
<1>13. a \in Seq(Messages) /\ Answers(a) = <<>> /\ StatesOf(a, p)
  <2>1. a \in Seq(Messages)
    BY <1>11
  <2>2. Answers(a) = <<>>
    BY <1>11, AnswersOne
  <2>3. StatesOf(a, p)
    BY <1>11 DEF StatesOf
  <2>4. QED BY <2>1, <2>2, <2>3
<1>14. Numbered'
  <2>1. PICK n \in Nat : /\ DOMAIN player = 1..n /\ LocalOnes \in SUBSET (1..n)
                         /\ p = n + 1 /\ DOMAIN player \union {p} = 1..(n + 1)
                         /\ n + Len(toServer) <= Cardinality(LocalOnes) + changes + asks
    BY <1>2, NewestIsNew DEF p
  <2>2. player' = g
    BY <1>7, <1>9 DEF Become
  <2>3. Cardinality(LocalOnes) \in Nat /\ Len(toServer) \in Nat
    BY <1>3, PlayersAssumption, FS_CardinalityType
  <2>4. (n + 1) + Len(toServer) <= Cardinality(LocalOnes) + (changes + 1) + asks
    BY <2>1, <2>3, <1>3
  <2>5. LocalOnes \in SUBSET (1..(n + 1)) /\ n + 1 \in Nat
    BY <2>1
  <2>6. toServer' = toServer /\ asks' = asks
    BY <1>1
  <2>7. QED BY <2>1, <2>2, <2>4, <2>5, <2>6, <1>1, <1>8 DEF Numbered
<1> HIDE DEF a
<1>15. o.events \o a = a /\ o.events \in Seq(Messages)
  BY <1>7, <1>13, ConcatEmptySeq, EmptySeq
<1>16. \A q \in mine : player[q].state = "LOBBY" => o.player[q].state = "LOBBY"
  BY <1>3, <1>7, <1>8
<1>17. DOMAIN player \subseteq DOMAIN o.player /\ p \notin mine
  BY <1>3, <1>7, <1>8, <1>10
<1>18. QED BY <1>1, <1>3, <1>4, <1>7, <1>9, <1>12, <1>13, <1>14, <1>15, <1>16, <1>17, OthersKeep

-----------------------------------------------------------------------------
(* The server reads a command.                                             *)

(* Settings on their way wait for one command less.                        *)
LEMMA PatientTail ==
  ASSUME Kinds, PatientInLobby, toServer # <<>>, toServer' = Tail(toServer),
         \A p \in mine : /\ player[p].state = "LOBBY"
                         /\ ~ (Head(toServer).type = "STATE" /\ Head(toServer).plid = p)
                         => player'[p].state = "LOBBY"
  PROVE  PatientInLobby'
<1> DEFINE t == Tail(toServer)
<1>1. /\ t \in Seq(Commands) /\ Head(toServer) = toServer[1] /\ 1 \in DOMAIN toServer
      /\ \A i \in DOMAIN t : i + 1 \in DOMAIN toServer /\ t[i] = toServer[i + 1]
  BY HeadAndTail DEF Kinds
<1>2. DOMAIN t \in SUBSET (Nat \ {0})
  BY <1>1
<1> HIDE DEF t
<1>3. ASSUME NEW i \in DOMAIN t, Patient(t[i])
      PROVE  /\ player'[t[i].plid].state = "LOBBY"
             /\ \A j \in DOMAIN t : j < i => ~ (t[j].type = "STATE" /\ t[j].plid = t[i].plid)
  <2>1. i + 1 \in DOMAIN toServer /\ t[i] = toServer[i + 1] /\ Patient(toServer[i + 1])
    BY <1>1, <1>3
  <2>2. /\ player[t[i].plid].state = "LOBBY"
        /\ \A j \in DOMAIN toServer : j < i + 1 =>
             ~ (toServer[j].type = "STATE" /\ toServer[j].plid = t[i].plid)
    BY <2>1 DEF PatientInLobby
  <2>3. t[i].plid \in mine
    BY <2>1 DEF Kinds, Patient
  <2>4. 1 < i + 1
    BY <1>2
  <2>5. ~ (Head(toServer).type = "STATE" /\ Head(toServer).plid = t[i].plid)
    BY <1>1, <2>2, <2>4
  <2>6. player'[t[i].plid].state = "LOBBY"
    BY <2>2, <2>3, <2>5
  <2>7. ASSUME NEW j \in DOMAIN t, j < i
        PROVE  ~ (t[j].type = "STATE" /\ t[j].plid = t[i].plid)
    <3>1. j + 1 \in DOMAIN toServer /\ t[j] = toServer[j + 1] /\ j + 1 < i + 1
      BY <1>1, <1>2, <2>7
    <3>2. QED BY <3>1, <2>2
  <2>8. QED BY <2>6, <2>7
<1>4. QED BY <1>3 DEF PatientInLobby, t

(* The head of the commands is about a player of the client.               *)
LEMMA HeadCommand ==
  ASSUME Kinds, toServer # <<>>
  PROVE  /\ Head(toServer) \in Commands /\ Tail(toServer) \in Seq(Commands)
         /\ toServer = <<Head(toServer)>> \o Tail(toServer)
         /\ Len(toServer) = Len(Tail(toServer)) + 1 /\ Len(Tail(toServer)) \in Nat
         /\ Head(toServer).type # "JOIN" => Head(toServer).plid \in mine
         /\ \A i \in DOMAIN Tail(toServer) :
              Tail(toServer)[i].type # "JOIN" => Tail(toServer)[i].plid \in mine
<1>1. toServer \in Seq(Commands)
  BY DEF Kinds
<1>2. /\ Head(toServer) \in Commands /\ Tail(toServer) \in Seq(Commands)
      /\ toServer = <<Head(toServer)>> \o Tail(toServer)
      /\ Head(toServer) = toServer[1] /\ 1 \in DOMAIN toServer
      /\ Len(toServer) = Len(Tail(toServer)) + 1
      /\ \A i \in DOMAIN Tail(toServer) :
           i + 1 \in DOMAIN toServer /\ Tail(toServer)[i] = toServer[i + 1]
  BY <1>1, HeadAndTail
<1>3. Len(Tail(toServer)) \in Nat
  BY <1>2
<1>4. QED BY <1>2, <1>3 DEF Kinds

(* The server's nicknames after a command that sets one, or none.          *)
LEMMA SoonAfterHead ==
  ASSUME Kinds, toServer # <<>>, NEW p, NEW f, f[p].nick = player[p].nick,
         LET m == Head(toServer)
         IN  m.type = "CONF" /\ m.plid = p /\ m.nick # None => f[p].nick = m.nick
  PROVE  NickSoon(f, p, Tail(toServer)) = NickSoon(player, p, toServer)
<1> DEFINE m == Head(toServer)
           t == Tail(toServer)
           x == player[p].nick
<1>1. m \in Commands /\ t \in Seq(Commands) /\ toServer = <<m>> \o t
  BY HeadCommand
<1>2. ~ Joins(m)
  BY <1>1 DEF Commands, Joins
<1>3. Said("nick", p, x, m) = x
  BY <1>2 DEF Said, Given
<1> HIDE DEF m, t, x
<1>4. SaidAfter("nick", p, x, <<m>> \o t) = SaidAfter("nick", p, Said("nick", p, x, m), t)
  <2>1. m \in Commands /\ t \in Seq(Commands)
    BY <1>1
  <2>2. QED BY <2>1, SaidHead
<1>5. QED BY <1>1, <1>3, <1>4 DEF NickSoon, x, t

(* What is sent to the client after its command: what the handler tells,   *)
(* and the answer.                                                         *)
LEMMA AnswerKeeps ==
  ASSUME SettingsInv, Open, toServer # <<>>, NEW o, NEW r \in Messages, r.type = "RESPONSE",
         AnswerOf(r) = Slot(Head(toServer)), Become(o, <<r>>),
         o.events \in Seq(Messages), Answers(o.events) = <<>>,
         Tells(player, untold, o.events \o <<r>>, o.player, o.untold),
         DOMAIN player \subseteq DOMAIN o.player, o.state \in ServerStates,
         AnsweredIn(o.events \o <<r>>, mine'),
         mine' \in SUBSET (DOMAIN o.player \ LocalOnes),
         mine \subseteq mine', mine' \intersect DOMAIN player \subseteq mine,
         \A q \in DOMAIN player :
           LET m == Head(toServer)
           IN  m.type = "CONF" /\ m.plid = q /\ m.nick # None => o.player[q].nick = m.nick,
         \A q \in mine : /\ player[q].state = "LOBBY"
                         /\ ~ (Head(toServer).type = "STATE" /\ Head(toServer).plid = q)
                         => o.player[q].state = "LOBBY",
         Numbered', toServer' = Tail(toServer),
         UNCHANGED <<copy, callbacks, asks, changes, thrown>>
  PROVE  SettingsInv'
<1>1. Kinds /\ Told /\ thrown \in Reasons
  BY DEF SettingsInv
<1>2. /\ Lists(player) /\ Lists(copy) /\ Carries(copy, toClient, player) /\ NicksFollow
      /\ callbacks = Answers(toClient) \o Asked(toServer) /\ PatientInLobby
      /\ AnsweredIn(toClient, mine) /\ toServer \in Seq(Commands)
  BY <1>1 DEF Kinds, Told
<1>3. /\ copy' = copy /\ callbacks' = callbacks /\ thrown' = thrown /\ asks' = asks
      /\ changes' = changes
  OBVIOUS
<1>4. state' = o.state /\ player' = o.player /\ untold' = o.untold
  BY DEF Become
<1> DEFINE a == <<r>>
           e == o.events \o a
           w == Slot(Head(toServer))
           t == Asked(Tail(toServer))
<1>5. ASSUME NEW q \in DOMAIN player \ untold, o.player[q].nick = player[q].nick
      PROVE  NickSoon(o.player, q, toServer') = NickSoon(player, q, toServer)
  BY <1>1, <1>5, SoonAfterHead
<1>6. a \in Seq(Messages) /\ Answers(a) = <<w>> /\ w \in Slots
  <2>1. a \in Seq(Messages)
    OBVIOUS
  <2>2. Answers(a) = <<w>>
    BY AnswersOne
  <2>3. w \in Slots
    BY <1>1, HeadCommand, CommandSlot
  <2>4. QED BY <2>1, <2>2, <2>3
<1> HIDE DEF a
<1>7. /\ Lists(player') /\ untold' \in SUBSET DOMAIN player'
      /\ Carries(copy', toClient', player') /\ NicksFollow'
      /\ toClient' = toClient \o e /\ Answers(toClient') = Answers(toClient) \o Answers(e)
  <2>1. Become(o, a) /\ Tells(player, untold, o.events \o a, o.player, o.untold)
    BY DEF a
  <2>2. QED BY <1>2, <1>3, <1>5, <1>6, <2>1, ServerTold
<1>8. toClient \in Seq(Messages) /\ e \in Seq(Messages) /\ Sounds(toClient, player)
  <2>1. toClient \in Seq(Messages) /\ Sounds(toClient, player)
    BY <1>2 DEF Carries, Sounds
  <2>2. e \in Seq(Messages)
    BY <1>6, ConcatProperties
  <2>3. QED BY <2>1, <2>2
<1>9. Answers(e) = <<w>>
  <2>1. Answers(e) = <<>> \o <<w>>
    BY <1>6, AnswersConcat
  <2>2. QED BY <2>1
<1>10. Answers(toClient) \in Seq(Slots)
  BY <1>8, AnswersCollected, EmptySeq
<1>11. AnsweredIn(e, mine')
  BY DEF a
<1> HIDE DEF e
<1>12. callbacks' = Answers(toClient') \o Asked(toServer')
  <2>1. Asked(toServer) = <<w>> \o t /\ t \in Seq(Slots)
    BY <1>1, <1>2, HeadCommand, AskedHead, AskedTyped
  <2>2. <<w>> \in Seq(Slots)
    BY <1>6
  <2> DEFINE b == <<w>>
             c == Answers(toClient)
  <2> HIDE DEF t, w, b, c
  <2>3. (c \o b) \o t = c \o (b \o t)
    BY <1>10, <2>1, <2>2, ConcatAssociative DEF b, c
  <2>4. callbacks = c \o (b \o t)
    BY <1>2, <2>1 DEF b, c
  <2>5. Answers(toClient') = c \o b
    BY <1>7, <1>9 DEF b, c
  <2>6. Asked(toServer') = t
    BY DEF t
  <2>7. QED BY <1>3, <2>3, <2>4, <2>5, <2>6
<1>13. PatientInLobby'
  BY <1>1, <1>2, <1>4, PatientTail
<1>14. AnsweredIn(toClient', mine')
  <2>1. AnsweredIn(toClient, mine')
    <3>1. \A i \in DOMAIN toClient : toClient[i].type = "STATE" => toClient[i].plid \in DOMAIN player
      BY <1>8 DEF Sounds, Sound, Names
    <3>2. QED BY <3>1, <1>2 DEF AnsweredIn
  <2>2. QED BY <2>1, <1>7, <1>8, <1>11, AnsweredConcat
<1>15. Told'
  BY <1>7, <1>12, <1>13, <1>14 DEF Told
<1>16. Kinds'
  <2>1. DOMAIN copy \in SUBSET DOMAIN player /\ asks \in 0..AskMax /\ changes \in 0..ChangeMax
    BY <1>1 DEF Kinds
  <2>2. DOMAIN copy' \in SUBSET DOMAIN player' /\ mine' \in SUBSET (DOMAIN player' \ LocalOnes)
    BY <2>1, <1>3, <1>4
  <2>3. toServer' \in Seq(Commands)
        /\ \A i \in DOMAIN toServer' : toServer'[i].type # "JOIN" => toServer'[i].plid \in mine'
    BY <1>1, HeadCommand
  <2>4. QED BY <2>1, <2>2, <2>3, <1>2, <1>3, <1>4, <1>7 DEF Kinds
<1>17. QED BY <1>1, <1>3, <1>15, <1>16 DEF SettingsInv

(* A command that is read leaves room for the ID it may have taken.        *)
LEMMA NumberedTail ==
  ASSUME Kinds, Numbered, toServer # <<>>, toServer' = Tail(toServer),
         DOMAIN player' = DOMAIN player \/ DOMAIN player' = DOMAIN player \union {Newest},
         UNCHANGED <<asks, changes>>
  PROVE  Numbered'
<1>1. PICK n \in Nat : /\ DOMAIN player = 1..n /\ LocalOnes \in SUBSET (1..n)
                       /\ Newest = n + 1 /\ DOMAIN player \union {Newest} = 1..(n + 1)
                       /\ n + Len(toServer) <= Cardinality(LocalOnes) + changes + asks
  BY NewestIsNew
<1>2. Len(toServer) = Len(Tail(toServer)) + 1 /\ Len(Tail(toServer)) \in Nat
  BY HeadCommand
<1>3. Cardinality(LocalOnes) \in Nat /\ changes \in Nat /\ asks \in Nat
  BY PlayersAssumption, FS_CardinalityType DEF Kinds
<1> DEFINE k == Len(toServer')
           b == Cardinality(LocalOnes) + changes' + asks'
<1>4. k \in Nat /\ b \in Nat /\ n + (k + 1) <= b
  BY <1>1, <1>2, <1>3
<1> HIDE DEF k, b
<1>5. CASE DOMAIN player' = DOMAIN player
  <2>1. n + k <= b
    BY <1>4
  <2>2. QED BY <1>1, <1>5, <2>1 DEF Numbered, k, b
<1>6. CASE DOMAIN player' = DOMAIN player \union {Newest}
  <2>1. (n + 1) + k <= b /\ n + 1 \in Nat /\ LocalOnes \in SUBSET (1..(n + 1))
    BY <1>1, <1>4
  <2>2. DOMAIN player' = 1..(n + 1)
    BY <1>1, <1>6
  <2>3. QED BY <2>1, <2>2 DEF Numbered, k, b
<1>7. QED BY <1>5, <1>6

(* A client that is thrown out is owed nothing.                            *)
LEMMA ThrowOutKeeps ==
  ASSUME SettingsInv, toServer # <<>>, toServer' = Tail(toServer),
         NEW why \in Reasons \ {""}, ThrowOut(why),
         UNCHANGED <<copy, callbacks, asks, changes>>
  PROVE  SettingsInv'
<1>1. Kinds /\ Numbered
  BY DEF SettingsInv
<1>2. thrown' = why /\ UNCHANGED <<state, player, mine, toClient, untold>>
  BY DEF ThrowOut
<1>3. Numbered'
  BY <1>1, <1>2, NumberedTail
<1>4. ~ Open' /\ thrown' \in Reasons
  BY <1>2 DEF Open
<1>5. Kinds'
  <2>1. toServer' \in Seq(Commands)
        /\ \A i \in DOMAIN toServer' : toServer'[i].type # "JOIN" => toServer'[i].plid \in mine
    BY <1>1, HeadCommand
  <2>2. QED BY <1>1, <1>2, <2>1 DEF Kinds
<1>6. QED BY <1>2, <1>3, <1>4, <1>5 DEF SettingsInv

(* The commands, one type at a time.                                       *)
ReadsHead ==
  /\ SettingsInv /\ Open /\ toServer # <<>> /\ toServer' = Tail(toServer)
  /\ UNCHANGED <<copy, callbacks, asks, changes, thrown>>

(* What the cases below start from.                                        *)
LEMMA Unchanged ==
  ASSUME ReadsHead
  PROVE  /\ SettingsInv /\ Open /\ Kinds /\ Numbered /\ toServer # <<>>
         /\ toServer' = Tail(toServer)
         /\ UNCHANGED <<copy, callbacks, asks, changes, thrown>>
         /\ Lists(player) /\ untold \in SUBSET DOMAIN player /\ state \in ServerStates
         /\ mine \in SUBSET (DOMAIN player \ LocalOnes) /\ DOMAIN player \in SUBSET Nat
         /\ Head(toServer) \in Commands
         /\ Head(toServer).type # "JOIN" => Head(toServer).plid \in mine
<1>1. /\ SettingsInv /\ Open /\ toServer # <<>> /\ toServer' = Tail(toServer)
      /\ UNCHANGED <<copy, callbacks, asks, changes, thrown>>
  BY DEF ReadsHead
<1>2. Kinds /\ Numbered
  BY <1>1 DEF SettingsInv
<1>3. QED BY <1>1, <1>2, HeadCommand DEF Kinds, Lists

(* The answer to anything but a join is for its callback, and quiet.       *)
LEMMA ResponseQuiet ==
  \A m, o, f, r :
    m \in Commands /\ m.type # "JOIN" /\ o.ok \in BOOLEAN /\ r = Response(m, o, m.plid) =>
      /\ Quiet(r, f) /\ r \in Messages /\ r.type = "RESPONSE"
      /\ AnswerOf(r) = Slot(m) /\ r.to = m.type /\ r.plid = m.plid
<1> SUFFICES ASSUME NEW m \in Commands, m.type # "JOIN", NEW o, o.ok \in BOOLEAN, NEW f, NEW r,
                    r = Response(m, o, m.plid)
             PROVE  /\ Quiet(r, f) /\ r \in Messages /\ r.type = "RESPONSE"
                    /\ AnswerOf(r) = Slot(m) /\ r.to = m.type /\ r.plid = m.plid
  OBVIOUS
<1>1. m.type \in Types /\ m.plid \in Nat
  BY DEF Commands, Types
<1>2. r = [type |-> "RESPONSE", to |-> m.type, ok |-> o.ok, plid |-> m.plid, new |-> None]
  BY DEF Response
<1>3. r \in Messages
  BY <1>1, <1>2 DEF Messages
<1>4. AnswerOf(r) = Slot(m)
  BY <1>2 DEF AnswerOf, Slot
<1>5. Quiet(r, f)
  BY <1>2, <1>3 DEF Quiet, Joins
<1>6. QED BY <1>2, <1>3, <1>4, <1>5

(* Settings: the events and the answer take the copy along.                *)
LEMMA ReadsConf ==
  ASSUME ReadsHead, mine' = mine,
         LET m == Head(toServer)
             o == SetConf(m.plid, m.nick, m.conf)
         IN  m.type = "CONF" /\ m.conf # Invalid /\ Answer(m, o, m.plid)
  PROVE  SettingsInv'
<1> DEFINE m == Head(toServer)
           p == m.plid
           o == SetConf(p, m.nick, m.conf)
           r == Response(m, o, p)
<1>1. /\ SettingsInv /\ Open /\ Kinds /\ Numbered /\ toServer # <<>>
      /\ toServer' = Tail(toServer)
      /\ UNCHANGED <<copy, callbacks, asks, changes, thrown>>
      /\ Lists(player) /\ untold \in SUBSET DOMAIN player /\ state \in ServerStates
      /\ mine \in SUBSET (DOMAIN player \ LocalOnes) /\ DOMAIN player \in SUBSET Nat
      /\ m \in Commands /\ (m.type # "JOIN" => p \in mine)
  BY Unchanged
<1>2. /\ m.type = "CONF" /\ m.conf # Invalid /\ Become(o, <<r>>)
      /\ p \in mine /\ p \in DOMAIN player
  BY <1>1 DEF Answer
<1> HIDE DEF m
<1>3. m.nick \in Nicks \union {None} /\ m.conf \in FieldConfs \union {Unknown, None}
  BY <1>1, <1>2 DEF Commands
<1>4. ConfAnswered(p, m.nick, m.conf, o)
  BY <1>1, <1>2, <1>3, SetConfAnswers
<1>5. Tells(player, untold, o.events, o.player, o.untold)
  BY <1>1, <1>2, <1>3, <1>4, SetConfTells
<1>6. o.ok \in BOOLEAN
  BY <1>4 DEF ConfAnswered
<1> HIDE DEF o
<1>7. Quiet(r, o.player) /\ r \in Messages /\ r.type = "RESPONSE" /\ AnswerOf(r) = Slot(m)
  <2>1. m \in Commands /\ m.type # "JOIN" /\ o.ok \in BOOLEAN /\ r = Response(m, o, m.plid)
    BY <1>1, <1>2, <1>6
  <2> HIDE DEF r
  <2>2. QED BY <2>1, ResponseQuiet
<1> HIDE DEF r, p
<1>8. Tells(o.player, o.untold, <<r>>, o.player, o.untold)
  BY <1>5, <1>7, TellsQuiet DEF Tells
<1>9. Tells(player, untold, o.events \o <<r>>, o.player, o.untold)
  BY <1>5, <1>8, TellsConcat
<1>10. o.events \in Seq(Messages) /\ <<r>> \in Seq(Messages)
  <2>1. o.events \in Seq(Messages)
    BY <1>5 DEF Tells, Carries, Sounds
  <2>2. QED BY <2>1, <1>7
<1>11. Answers(o.events) = <<>> /\ AnsweredIn(o.events, mine)
  <2>1. CASE o.events = <<>>
    BY <2>1, AnswersOne DEF AnsweredIn
  <2>2. CASE o.events # <<>>
    <3>1. o.events = <<ConfEvent(p, ToldNick(p, m.nick), m.conf)>>
      BY <1>4, <2>2 DEF ConfAnswered
    <3>2. AnsweredIn(o.events, mine)
      BY <3>1 DEF AnsweredIn, ConfEvent
    <3>3. QED BY <3>1, <3>2, NoAnswerAmongEvents
  <2>3. QED BY <2>1, <2>2
<1>12. AnsweredIn(o.events \o <<r>>, mine)
  <2>1. AnsweredIn(<<r>>, mine)
    BY <1>7 DEF AnsweredIn
  <2>2. QED BY <2>1, <1>10, <1>11, AnsweredConcat
<1>13. /\ DOMAIN o.player = DOMAIN player /\ o.state = state
       /\ \A q \in DOMAIN player : q # p => o.player[q] = player[q]
       /\ o.player[p].state = player[p].state
       /\ m.nick # None => o.player[p].nick = m.nick
  <2>1. /\ Settled(p, m.nick, m.conf).state = player[p].state
        /\ m.nick # None => Settled(p, m.nick, m.conf).nick = m.nick
    BY DEF Settled, Set
  <2>2. QED BY <1>2, <1>4, <2>1 DEF ConfAnswered
<1>14. player' = o.player
  BY <1>2 DEF Become
<1>15. Numbered'
  BY <1>1, <1>13, <1>14, NumberedTail
<1>16. /\ mine' \in SUBSET (DOMAIN o.player \ LocalOnes) /\ mine \subseteq mine'
       /\ mine' \intersect DOMAIN player \subseteq mine
       /\ DOMAIN player \subseteq DOMAIN o.player
  BY <1>1, <1>13
<1>17. \A q \in DOMAIN player :
         m.type = "CONF" /\ m.plid = q /\ m.nick # None => o.player[q].nick = m.nick
  BY <1>13 DEF p
<1>18. \A q \in mine : player[q].state = "LOBBY" => o.player[q].state = "LOBBY"
  BY <1>1, <1>13
<1>19. o.state \in ServerStates /\ AnsweredIn(o.events \o <<r>>, mine')
  BY <1>1, <1>12, <1>13
<1>20. QED BY <1>1, <1>2, <1>7, <1>9, <1>10, <1>11, <1>15, <1>16, <1>17, <1>18, <1>19,
              AnswerKeeps DEF m

(* A state: the answer comes after the event, which AnsweredIn asks for.   *)
LEMMA ReadsState ==
  ASSUME ReadsHead, mine' = mine,
         LET m == Head(toServer)
             o == SetState(m.plid, m.state)
         IN  m.type = "STATE" /\ Answer(m, o, m.plid)
  PROVE  SettingsInv'
<1> DEFINE m == Head(toServer)
           p == m.plid
           o == SetState(p, m.state)
           r == Response(m, o, p)
<1>1. /\ SettingsInv /\ Open /\ Kinds /\ Numbered /\ toServer # <<>>
      /\ toServer' = Tail(toServer)
      /\ UNCHANGED <<copy, callbacks, asks, changes, thrown>>
      /\ Lists(player) /\ untold \in SUBSET DOMAIN player /\ state \in ServerStates
      /\ mine \in SUBSET (DOMAIN player \ LocalOnes) /\ DOMAIN player \in SUBSET Nat
      /\ m \in Commands /\ (m.type # "JOIN" => p \in mine)
  BY Unchanged
<1>2. m.type = "STATE" /\ Become(o, <<r>>) /\ p \in mine /\ p \in DOMAIN player /\ p \in Nat
  BY <1>1 DEF Answer
<1> HIDE DEF m
<1>3. m.state \in Asking
  BY <1>1, <1>2 DEF Commands
<1>4. StateAnswered(p, m.state, o)
  BY <1>1, <1>2, <1>3, SetStateAnswers
<1>5. /\ Tells(player, untold, o.events, o.player, o.untold)
      /\ DOMAIN o.player = DOMAIN player
      /\ \A q \in DOMAIN player :
           q # p /\ player[q].state = "LOBBY" => o.player[q].state = "LOBBY"
  BY <1>1, <1>2, <1>3, <1>4, SetStateTells
<1>6. o.ok \in BOOLEAN
  BY <1>4 DEF StateAnswered
<1> HIDE DEF o
<1>7. /\ Quiet(r, o.player) /\ r \in Messages /\ r.type = "RESPONSE" /\ AnswerOf(r) = Slot(m)
      /\ r.to = "STATE" /\ r.plid = p
  <2>1. m \in Commands /\ m.type # "JOIN" /\ o.ok \in BOOLEAN /\ r = Response(m, o, m.plid)
    BY <1>1, <1>2, <1>6
  <2> HIDE DEF r
  <2>2. QED BY <2>1, <1>2, ResponseQuiet
<1> HIDE DEF r
<1>8. Tells(o.player, o.untold, <<r>>, o.player, o.untold)
  BY <1>5, <1>7, TellsQuiet DEF Tells
<1>9. Tells(player, untold, o.events \o <<r>>, o.player, o.untold)
  BY <1>5, <1>8, TellsConcat
<1>10. o.events \in Seq(Messages)
  BY <1>5 DEF Tells, Carries, Sounds
<1> HIDE DEF p
<1>11. Answers(o.events) = <<>> /\ StatesOf(o.events, p)
  <2>1. CASE o.events = <<>>
    BY <2>1, AnswersOne DEF StatesOf
  <2>2. CASE o.events = <<StateEvent(p, m.state)>>
    BY <2>2, <1>2, <1>3, NoAnswerAmongEvents DEF StatesOf, StateEvent
  <2>3. CASE o.events = <<StateEvent(p, m.state)>> \o <<[type |-> "GAME"]>>
    <3>1. StatesOf(o.events, p)
      BY <2>3 DEF StatesOf, StateEvent
    <3>2. QED BY <3>1, <2>3, <1>2, <1>3, NoAnswerAmongEvents
  <2>4. QED BY <2>1, <2>2, <2>3, <1>4 DEF StateAnswered
<1>12. AnsweredIn(o.events \o <<r>>, mine)
  <2>1. StateAnswer(r, p)
    BY <1>7 DEF StateAnswer
  <2>2. QED BY <2>1, <1>7, <1>10, <1>11, AnsweredLast
<1>13. player' = o.player
  BY <1>2 DEF Become
<1>14. Numbered'
  BY <1>1, <1>5, <1>13, NumberedTail
<1>15. /\ mine' \in SUBSET (DOMAIN o.player \ LocalOnes) /\ mine \subseteq mine'
       /\ mine' \intersect DOMAIN player \subseteq mine
       /\ DOMAIN player \subseteq DOMAIN o.player
  BY <1>1, <1>5
<1>16. \A q \in mine : /\ player[q].state = "LOBBY" /\ ~ (m.type = "STATE" /\ m.plid = q)
                       => o.player[q].state = "LOBBY"
  BY <1>1, <1>2, <1>5 DEF p
<1>17. o.state \in ServerStates /\ AnsweredIn(o.events \o <<r>>, mine')
  BY <1>1, <1>4, <1>12 DEF StateAnswered, ServerStates
<1>18. m.type # "CONF"
  BY <1>2
<1>19. QED BY <1>1, <1>2, <1>7, <1>9, <1>10, <1>11, <1>14, <1>15, <1>16, <1>17, <1>18,
              AnswerKeeps DEF m

(* A chat is answered and no more.                                         *)
LEMMA ReadsChat ==
  ASSUME ReadsHead, mine' = mine,
         LET m == Head(toServer) IN m.type = "CHAT" /\ Answer(m, Nothing, m.plid)
  PROVE  SettingsInv'
<1> DEFINE m == Head(toServer)
           p == m.plid
           o == Nothing
           r == Response(m, o, p)
<1>1. /\ SettingsInv /\ Open /\ Kinds /\ Numbered /\ toServer # <<>>
      /\ toServer' = Tail(toServer)
      /\ UNCHANGED <<copy, callbacks, asks, changes, thrown>>
      /\ Lists(player) /\ untold \in SUBSET DOMAIN player /\ state \in ServerStates
      /\ mine \in SUBSET (DOMAIN player \ LocalOnes)
      /\ m \in Commands
  BY Unchanged
<1>2. m.type = "CHAT" /\ Become(o, <<r>>)
  BY DEF Answer
<1> HIDE DEF m
<1>3. /\ o.ok \in BOOLEAN /\ o.player = player /\ o.untold = untold /\ o.state = state
      /\ o.events = <<>>
  BY DEF Nothing
<1> HIDE DEF o
<1>4. Quiet(r, player) /\ r \in Messages /\ r.type = "RESPONSE" /\ AnswerOf(r) = Slot(m)
  <2>1. m \in Commands /\ m.type # "JOIN" /\ o.ok \in BOOLEAN /\ r = Response(m, o, m.plid)
    BY <1>1, <1>2, <1>3
  <2> HIDE DEF r
  <2>2. QED BY <2>1, ResponseQuiet
<1> HIDE DEF r
<1>5. Tells(player, untold, <<r>>, player, untold)
  BY <1>1, <1>4, TellsQuiet
<1>6. <<r>> \in Seq(Messages) /\ <<>> \in Seq(Messages)
  BY <1>4, EmptySeq
<1>7. o.events \o <<r>> = <<r>> /\ o.events \in Seq(Messages) /\ Answers(o.events) = <<>>
  BY <1>3, <1>6, ConcatEmptySeq, AnswersOne
<1>8. AnsweredIn(<<r>>, mine)
  BY <1>4 DEF AnsweredIn
<1>9. Numbered'
  <2>1. player' = player
    BY <1>2, <1>3 DEF Become
  <2>2. QED BY <1>1, <2>1, NumberedTail
<1>10. m.type # "CONF"
  BY <1>2
<1>11. QED BY <1>1, <1>2, <1>3, <1>4, <1>5, <1>7, <1>8, <1>9, <1>10, AnswerKeeps DEF m

(* A join: the answer is all that introduces the new player.               *)
LEMMA ReadsJoin ==
  ASSUME ReadsHead,
         LET m == Head(toServer)
             o == Join(m.nick)
         IN  /\ m.type = "JOIN" /\ Answer(m, o, Newest)
             /\ mine' = IF o.ok THEN mine \union {Newest} ELSE mine
  PROVE  SettingsInv'
<1> DEFINE m == Head(toServer)
           p == Newest
           o == Join(m.nick)
           r == Response(m, o, p)
           v == NewPlayer(m.nick)
<1>1. /\ SettingsInv /\ Open /\ Kinds /\ Numbered /\ toServer # <<>>
      /\ toServer' = Tail(toServer)
      /\ UNCHANGED <<copy, callbacks, asks, changes, thrown>>
      /\ Lists(player) /\ untold \in SUBSET DOMAIN player /\ state \in ServerStates
      /\ mine \in SUBSET (DOMAIN player \ LocalOnes)
      /\ m \in Commands
  BY Unchanged
<1>2. /\ m.type = "JOIN" /\ Become(o, <<r>>)
      /\ mine' = IF o.ok THEN mine \union {p} ELSE mine
  BY DEF Answer
<1> HIDE DEF m
<1>3. m.nick \in Nicks \union {None} /\ m.plid = 0
  BY <1>1, <1>2 DEF Commands
<1>4. JoinAnswered(m.nick, o)
  BY JoinAnswers
<1>5. p \in Nat \ DOMAIN player /\ p \notin LocalOnes /\ v \in Players /\ v.state = "LOBBY"
  BY <1>1, <1>3, NewestIsNew, NewPlayerListed
<1> HIDE DEF o, v
<1>6. /\ o.untold = untold /\ o.state = state /\ o.events = <<>>
      /\ \/ o.ok = FALSE /\ o.player = player
         \/ o.ok = TRUE /\ o.player = With(player, p, v)
  BY <1>4 DEF JoinAnswered, v
<1>7. /\ DOMAIN With(player, p, v) = DOMAIN player \union {p} /\ With(player, p, v)[p] = v
      /\ \A q \in DOMAIN player : With(player, p, v)[q] = player[q]
  <2> HIDE DEF p
  <2>1. QED BY <1>5 DEF With
<1> HIDE DEF p
<1>8. r = [type |-> "RESPONSE", to |-> "JOIN", ok |-> o.ok, plid |-> p,
           new |-> IF o.ok THEN o.player[p] ELSE None]
  BY <1>2 DEF Response
<1> HIDE DEF r
<1>9. /\ r.type = "RESPONSE" /\ r.to = "JOIN" /\ r.ok = o.ok /\ r.plid = p
      /\ r \in Messages
  BY <1>5, <1>6, <1>7, <1>8 DEF Messages, Types
<1>10. AnswerOf(r) = Slot(m)
  BY <1>2, <1>3, <1>9 DEF AnswerOf, Slot
<1>11. Tells(player, untold, <<r>>, o.player, o.untold)
  <2>1. CASE o.ok = FALSE /\ o.player = player
    <3>1. Quiet(r, player)
      BY <1>9, <2>1 DEF Quiet, Joins
    <3>2. QED BY <1>1, <1>6, <2>1, <3>1, TellsQuiet
  <2>2. CASE o.ok = TRUE /\ o.player = With(player, p, v)
    <3>1. r.new = v
      BY <1>7, <1>8, <2>2
    <3>2. Introduces(r, p, v)
      BY <1>9, <2>2, <3>1 DEF Introduces, Joins
    <3>3. QED BY <1>1, <1>5, <1>6, <2>2, <3>2, NewcomerTold
  <2>3. QED BY <1>6, <2>1, <2>2
<1>12. <<r>> \in Seq(Messages) /\ <<>> \in Seq(Messages)
  BY <1>9, EmptySeq
<1>13. o.events \o <<r>> = <<r>> /\ o.events \in Seq(Messages) /\ Answers(o.events) = <<>>
  BY <1>6, <1>12, ConcatEmptySeq, AnswersOne
<1>14. AnsweredIn(<<r>>, mine')
  BY <1>9 DEF AnsweredIn
<1>15. DOMAIN o.player = IF o.ok THEN DOMAIN player \union {p} ELSE DOMAIN player
  BY <1>6, <1>7
<1>16. Numbered'
  <2>1. player' = o.player
    BY <1>2 DEF Become
  <2>2. DOMAIN player' = DOMAIN player \/ DOMAIN player' = DOMAIN player \union {Newest}
    BY <1>15, <2>1 DEF p
  <2>3. QED BY <1>1, <2>2, NumberedTail
<1>17. /\ mine' \in SUBSET (DOMAIN o.player \ LocalOnes) /\ mine \subseteq mine'
       /\ mine' \intersect DOMAIN player \subseteq mine
       /\ DOMAIN player \subseteq DOMAIN o.player
  BY <1>1, <1>2, <1>5, <1>15
<1>18. \A q \in mine : player[q].state = "LOBBY" => o.player[q].state = "LOBBY"
  BY <1>1, <1>6, <1>7
<1>19. m.type # "CONF"
  BY <1>2
<1>20. QED BY <1>1, <1>2, <1>6, <1>9, <1>10, <1>11, <1>13, <1>14, <1>16, <1>17, <1>18, <1>19,
              AnswerKeeps DEF m

(* Whatever the command, answered or not.                                  *)
LEMMA ServerReadsKeeps ==
  ASSUME SettingsInv, ServerReads
  PROVE  SettingsInv'
<1> DEFINE m == Head(toServer)
           p == IF m.type = "JOIN" THEN Newest ELSE m.plid
           o == CASE m.type = "JOIN" -> Join(m.nick)
                  [] m.type = "CONF" -> SetConf(p, m.nick, m.conf)
                  [] m.type = "STATE" -> SetState(p, m.state)
                  [] m.type = "CHAT" -> Nothing
<1>1. /\ Open /\ toServer # <<>> /\ toServer' = Tail(toServer)
      /\ UNCHANGED <<copy, callbacks, asks, changes>>
      /\ CASE m.type = "JOIN" /\ state # "LOBBY" -> ThrowOut("match is running")
           [] m.type = "CONF" /\ player[p].state # "LOBBY" ->
                ThrowOut(IF m.hasty THEN "hasty" ELSE "not in lobby")
           [] m.type = "CONF" /\ player[p].state = "LOBBY" /\ m.conf = Invalid ->
                ThrowOut("invalid configuration")
           [] OTHER -> /\ Answer(m, o, p)
                       /\ mine' = IF m.type = "JOIN" /\ o.ok THEN mine \union {p} ELSE mine
                       /\ UNCHANGED thrown
  BY DEF ServerReads, Open
<1>2. Kinds /\ Told
  BY <1>1 DEF SettingsInv
<1>3. m \in Commands /\ m.type \in Types
  BY <1>1, <1>2, HeadCommand DEF Commands, Types
<1> DEFINE late == m.type = "JOIN" /\ state # "LOBBY"
           away == m.type = "CONF" /\ player[p].state # "LOBBY"
           wrong == m.type = "CONF" /\ player[p].state = "LOBBY" /\ m.conf = Invalid
<1>4. CASE late
  <2>1. ThrowOut("match is running") /\ "match is running" \in Reasons \ {""}
    BY <1>1, <1>4 DEF Reasons
  <2>2. QED BY <1>1, <2>1, ThrowOutKeeps
<1>5. CASE away
  <2>1. ThrowOut(IF m.hasty THEN "hasty" ELSE "not in lobby")
    BY <1>1, <1>5
  <2>2. m.hasty
    <3>1. Head(toServer) = toServer[1] /\ 1 \in DOMAIN toServer
      BY <1>1, <1>2, HeadAndTail DEF Kinds
    <3>2. m.type = "CONF" /\ player[m.plid].state # "LOBBY"
      BY <1>5
    <3>3. ~ Patient(m)
      BY <1>2, <3>1, <3>2 DEF Told, PatientInLobby
    <3>4. QED BY <3>2, <3>3 DEF Patient
  <2>3. ThrowOut("hasty") /\ "hasty" \in Reasons \ {""}
    BY <2>1, <2>2 DEF Reasons
  <2>4. QED BY <1>1, <2>3, ThrowOutKeeps
<1>6. CASE wrong
  <2>1. ThrowOut("invalid configuration") /\ "invalid configuration" \in Reasons \ {""}
    BY <1>1, <1>6 DEF Reasons
  <2>2. QED BY <1>1, <2>1, ThrowOutKeeps
<1>7. CASE ~ late /\ ~ away /\ ~ wrong
  <2>1. /\ Answer(m, o, p)
        /\ mine' = IF m.type = "JOIN" /\ o.ok THEN mine \union {p} ELSE mine
        /\ UNCHANGED thrown
    BY <1>1, <1>7
  <2>2. ReadsHead
    BY <1>1, <2>1 DEF ReadsHead
  <2>3. CASE m.type = "JOIN"
    <3>1. o = Join(m.nick) /\ p = Newest
      BY <2>3
    <3>2. /\ Answer(m, Join(m.nick), Newest)
          /\ mine' = IF Join(m.nick).ok THEN mine \union {Newest} ELSE mine
      BY <2>1, <2>3, <3>1
    <3>3. QED BY <2>2, <2>3, <3>2, ReadsJoin
  <2>4. CASE m.type = "CONF"
    <3>1. o = SetConf(m.plid, m.nick, m.conf) /\ p = m.plid /\ mine' = mine
      BY <2>1, <2>4
    <3>2. m.conf # Invalid
      BY <1>7, <2>4, <3>1
    <3>3. QED BY <2>1, <2>2, <2>4, <3>1, <3>2, ReadsConf
  <2>5. CASE m.type = "STATE"
    <3>1. o = SetState(m.plid, m.state) /\ p = m.plid /\ mine' = mine
      BY <2>1, <2>5
    <3>2. QED BY <2>1, <2>2, <2>5, <3>1, ReadsState
  <2>6. CASE m.type = "CHAT"
    <3>1. o = Nothing /\ p = m.plid /\ mine' = mine
      BY <2>1, <2>6
    <3>2. QED BY <2>1, <2>2, <2>6, <3>1, ReadsChat
  <2>7. QED BY <1>3, <2>3, <2>4, <2>5, <2>6 DEF Types
<1>8. QED BY <1>4, <1>5, <1>6, <1>7

(* The match starts or ends: nothing else changes.                         *)
LEMMA MatchProceedsKeeps ==
  ASSUME SettingsInv, MatchProceeds
  PROVE  SettingsInv'
<1>1. /\ UNCHANGED <<player, copy, mine, toServer, toClient>>
      /\ UNCHANGED <<callbacks, thrown, untold, asks, changes>>
      /\ state' \in ServerStates
  BY DEF MatchProceeds, ServerStates
<1>2. (Kinds => Kinds') /\ (Numbered => Numbered') /\ (Open' => Open)
  BY <1>1 DEF Kinds, Numbered, Open
<1>3. Told => Told'
  BY <1>1 DEF Told, NicksFollow, PatientInLobby
<1>4. thrown' = thrown
  BY <1>1
<1>5. QED BY <1>2, <1>3, <1>4 DEF SettingsInv

-----------------------------------------------------------------------------
(* The client sends a command.                                             *)

(* A channel with one more.                                                *)
LEMMA Appended ==
  ASSUME NEW S, NEW q \in Seq(S), NEW m \in S
  PROVE  /\ Append(q, m) \in Seq(S) /\ Len(Append(q, m)) = Len(q) + 1
         /\ Len(q) \in Nat /\ DOMAIN q = 1..Len(q) /\ DOMAIN Append(q, m) = 1..(Len(q) + 1)
         /\ \A i \in 1..Len(q) : Append(q, m)[i] = q[i]
         /\ Append(q, m)[Len(q) + 1] = m
OBVIOUS

(* A nickname is asked for by its command.                                 *)
LEMMA NickAppended ==
  ASSUME NEW f, NEW p, NEW q \in Seq(Commands), NEW m \in Commands
  PROVE  NickSoon(f, p, Append(q, m)) = Said("nick", p, NickSoon(f, p, q), m)
<1> DEFINE a == <<m>>
           x == f[p].nick
<1>1. Append(q, m) = q \o a /\ a \in Seq(Commands)
  BY AppendIsConcat
<1>2. \A v : SaidAfter("nick", p, v, a) = Said("nick", p, v, m)
  <2>1. \A v, y : SaidAfter("nick", p, v, <<y>>) = Said("nick", p, v, y)
    BY SaidFold
  <2>2. QED BY <2>1
<1> HIDE DEF a, x
<1>3. SaidAfter("nick", p, x, q \o a) = SaidAfter("nick", p, SaidAfter("nick", p, x, q), a)
  BY <1>1, SaidFold
<1>4. QED BY <1>1, <1>2, <1>3 DEF NickSoon, x

(* What a client that sends keeps of its copy: all but the nickname that   *)
(* it asks for.                                                            *)
Sends(m) ==
  /\ SettingsInv /\ m \in Commands /\ Send(m)
  /\ Lists(copy') /\ DOMAIN copy' = DOMAIN copy
  /\ \A p \in DOMAIN copy : /\ copy'[p].state = copy[p].state /\ copy'[p].conf = copy[p].conf
                            /\ copy'[p].nick = Said("nick", p, copy[p].nick, m)

(* A command goes to the back of the commands, its callback to that of the *)
(* callbacks.                                                              *)
LEMMA SendKeeps ==
  ASSUME NEW m, Sends(m), m.type # "JOIN" => m.plid \in mine,
         Patient(m) => /\ player[m.plid].state = "LOBBY"
                       /\ \A j \in DOMAIN toServer :
                            ~ (toServer[j].type = "STATE" /\ toServer[j].plid = m.plid)
  PROVE  SettingsInv'
<1>1. /\ Kinds /\ Told /\ Numbered /\ thrown \in Reasons /\ Open
      /\ m \in Commands
  BY DEF SettingsInv, Sends, Send, Open
<1>2. /\ Lists(copy') /\ DOMAIN copy' = DOMAIN copy
      /\ \A p \in DOMAIN copy : /\ copy'[p].state = copy[p].state
                                /\ copy'[p].conf = copy[p].conf
                                /\ copy'[p].nick = Said("nick", p, copy[p].nick, m)
  BY DEF Sends
<1>3. /\ toServer' = Append(toServer, m) /\ callbacks' = Append(callbacks, Slot(m))
      /\ asks < AskMax /\ asks' = asks + 1
      /\ UNCHANGED <<state, player, mine, toClient, thrown, untold, changes>>
  BY DEF Sends, Send, Slot
<1>4. toServer \in Seq(Commands) /\ asks \in Nat /\ changes \in Nat
  <2>1. Kinds
    BY <1>1
  <2>2. QED BY <2>1 DEF Kinds
<1>5. /\ toServer' \in Seq(Commands) /\ Len(toServer') = Len(toServer) + 1
      /\ Len(toServer) \in Nat /\ DOMAIN toServer = 1..Len(toServer)
      /\ DOMAIN toServer' = 1..(Len(toServer) + 1)
      /\ \A i \in 1..Len(toServer) : toServer'[i] = toServer[i]
      /\ toServer'[Len(toServer) + 1] = m
  <2>1. m \in Commands
    BY <1>1
  <2>2. QED BY <2>1, <1>3, <1>4, Appended
<1> DEFINE n == Len(toServer)
<1>6. \A i \in DOMAIN toServer' : \/ i \in DOMAIN toServer /\ toServer'[i] = toServer[i] /\ i # n + 1
                                  \/ i = n + 1 /\ toServer'[i] = m
  BY <1>5
<1> HIDE DEF n
<1>7. Kinds'
  <2>1. asks' \in 0..AskMax
    BY <1>3, <1>4, BoundsAssumption
  <2>2. \A i \in DOMAIN toServer' : toServer'[i].type # "JOIN" => toServer'[i].plid \in mine
    BY <1>1, <1>6 DEF Kinds
  <2>3. QED BY <2>1, <2>2, <1>1, <1>2, <1>3, <1>5 DEF Kinds
<1>8. Numbered'
  <2>1. PICK k \in Nat : /\ DOMAIN player = 1..k /\ LocalOnes \in SUBSET (1..k)
                         /\ k + Len(toServer) <= Cardinality(LocalOnes) + changes + asks
    BY <1>1 DEF Numbered
  <2>2. Cardinality(LocalOnes) \in Nat
    BY PlayersAssumption, FS_CardinalityType
  <2>3. k + (Len(toServer) + 1) <= Cardinality(LocalOnes) + changes + (asks + 1)
    BY <1>4, <1>5, <2>1, <2>2
  <2>4. QED BY <2>1, <2>3, <1>3, <1>5 DEF Numbered
<1>9. callbacks' = Answers(toClient') \o Asked(toServer')
  <2> DEFINE a == Answers(toClient)
             b == Asked(toServer)
             w == Slot(m)
             c == <<w>>
  <2>1. a \in Seq(Slots)
    BY <1>1, AnswersCollected, EmptySeq DEF Told, Carries, Sounds
  <2>2. b \in Seq(Slots) /\ w \in Slots /\ Asked(toServer') = Append(b, w)
    BY <1>1, <1>3, <1>4, AskedTyped, AskedAppend, CommandSlot
  <2>3. callbacks = a \o b /\ callbacks' = Append(callbacks, w) /\ toClient' = toClient
    BY <1>1, <1>3 DEF Told
  <2> HIDE DEF a, b, w
  <2>4. c \in Seq(Slots) /\ a \o b \in Seq(Slots)
    BY <2>1, <2>2, ConcatProperties
  <2>5. Append(a \o b, w) = (a \o b) \o c /\ Append(b, w) = b \o c
    BY <2>2, <2>4, AppendIsConcat
  <2>6. (a \o b) \o c = a \o (b \o c)
    BY <2>1, <2>2, <2>4, ConcatAssociative
  <2>7. Answers(toClient') = a
    BY <2>3 DEF a
  <2>8. QED BY <2>2, <2>3, <2>5, <2>6, <2>7
<1>10. Carries(copy', toClient', player')
  <2>1. ASSUME NEW p \in Nat
        PROVE  StateAt(copy', p) = StateAt(copy, p) /\ At("conf", copy', p) = At("conf", copy, p)
    BY <1>2 DEF StateAt, At, Given
  <2>2. QED BY <2>1, <1>1, <1>3 DEF Told, Carries
<1>11. NicksFollow'
  <2> SUFFICES ASSUME NEW p \in DOMAIN player \ untold
               PROVE  LET said == SaidAfter("nick", p, None, toClient)
                      IN  IF said = None
                          THEN /\ p \in DOMAIN copy'
                               /\ copy'[p].nick \in {player[p].nick, NickSoon(player, p, toServer')}
                          ELSE said = player[p].nick
    BY <1>3 DEF NicksFollow
  <2> DEFINE said == SaidAfter("nick", p, None, toClient)
             soon == NickSoon(player, p, toServer)
             x == player[p].nick
  <2>1. IF said = None THEN p \in DOMAIN copy /\ copy[p].nick \in {x, soon} ELSE said = x
    BY <1>1 DEF Told, NicksFollow
  <2>2. NickSoon(player, p, toServer') = Said("nick", p, soon, m)
    BY <1>1, <1>3, <1>4, NickAppended
  <2>3. p \in DOMAIN copy => copy'[p].nick = Said("nick", p, copy[p].nick, m)
    BY <1>2
  <2> HIDE DEF said, soon, x
  <2>4. /\ Said("nick", p, soon, m) = soon /\ \A v : Said("nick", p, v, m) = v
        \/ \A v : Said("nick", p, v, m) = Said("nick", p, soon, m)
    BY DEF Said
  <2>5. QED BY <2>1, <2>2, <2>3, <2>4, <1>2 DEF said, x
<1>12. PatientInLobby'
  <2> SUFFICES ASSUME NEW i \in DOMAIN toServer', Patient(toServer'[i])
               PROVE  /\ player[toServer'[i].plid].state = "LOBBY"
                      /\ \A j \in DOMAIN toServer' : j < i =>
                           ~ (toServer'[j].type = "STATE" /\ toServer'[j].plid = toServer'[i].plid)
    BY <1>3 DEF PatientInLobby
  <2>1. CASE i \in DOMAIN toServer /\ toServer'[i] = toServer[i]
    <3>1. /\ player[toServer[i].plid].state = "LOBBY"
          /\ \A j \in DOMAIN toServer :
               j < i => ~ (toServer[j].type = "STATE" /\ toServer[j].plid = toServer[i].plid)
      BY <1>1, <2>1 DEF Told, PatientInLobby
    <3>2. \A j \in DOMAIN toServer' : j < i => j \in DOMAIN toServer /\ toServer'[j] = toServer[j]
      BY <1>5, <2>1
    <3>3. QED BY <3>1, <3>2, <2>1
  <2>2. CASE i = n + 1 /\ toServer'[i] = m
    <3>1. \A j \in DOMAIN toServer' : j < i => j \in DOMAIN toServer /\ toServer'[j] = toServer[j]
      BY <1>5, <2>2 DEF n
    <3>2. QED BY <3>1, <2>2
  <2>3. QED BY <2>1, <2>2, <1>6
<1>13. AnsweredIn(toClient', mine')
  BY <1>1, <1>3 DEF Told
<1>14. Told'
  BY <1>9, <1>10, <1>11, <1>12, <1>13 DEF Told
<1>15. QED BY <1>1, <1>3, <1>7, <1>8, <1>14 DEF SettingsInv

(* A player of the client that waits for no answer about its state is told *)
(* of no change of it, and asks for none.                                  *)
LEMMA NotWaiting ==
  ASSUME SettingsInv, Open, NEW p \in mine, p \in DOMAIN copy, ~ Waiting(p),
         copy[p].state = "LOBBY"
  PROVE  /\ player[p].state = "LOBBY"
         /\ \A j \in DOMAIN toServer : ~ (toServer[j].type = "STATE" /\ toServer[j].plid = p)
<1> DEFINE a == Answers(toClient)
           b == Asked(toServer)
           w == [type |-> "STATE", plid |-> p]
<1>1. /\ Kinds /\ callbacks = a \o b /\ toServer \in Seq(Commands) /\ toClient \in Seq(Messages)
      /\ Carries(copy, toClient, player) /\ Sounds(toClient, player)
      /\ AnsweredIn(toClient, mine) /\ Lists(copy) /\ p \in DOMAIN player
  BY DEF SettingsInv, Told, Kinds, Carries, Sounds
<1>2. a \in Seq(Slots) /\ b \in Seq(Slots)
  BY <1>1, AnswersCollected, AskedTyped, EmptySeq
<1>3. \A i \in DOMAIN a : i \in DOMAIN callbacks /\ callbacks[i] = a[i]
  <2>1. \A i \in DOMAIN a : i \in DOMAIN (a \o b) /\ (a \o b)[i] = a[i]
    BY <1>2, Concatenated
  <2>2. QED BY <2>1, <1>1
<1>4. \A i \in DOMAIN b : \E k \in DOMAIN callbacks : callbacks[k] = b[i]
  <2>1. \A i \in DOMAIN b : Len(a) + i \in DOMAIN (a \o b) /\ (a \o b)[Len(a) + i] = b[i]
    BY <1>2, Concatenated
  <2>2. QED BY <2>1, <1>1
<1>5. \A i \in DOMAIN callbacks : callbacks[i] # w
  BY DEF Waiting
<1>6. ASSUME NEW j \in DOMAIN toServer, toServer[j].type = "STATE", toServer[j].plid = p
      PROVE  FALSE
  <2>1. j \in DOMAIN b /\ b[j] = Slot(toServer[j])
    BY <1>1, AskedTyped
  <2>2. Slot(toServer[j]) = w
    BY <1>6 DEF Slot
  <2>3. QED BY <2>1, <2>2, <1>4, <1>5
<1>7. ASSUME NEW i \in DOMAIN toClient, toClient[i].type = "STATE", toClient[i].plid = p
      PROVE  FALSE
  <2>1. PICK j \in DOMAIN toClient : StateAnswer(toClient[j], p)
    BY <1>1, <1>7 DEF AnsweredIn
  <2>2. toClient[j].type = "RESPONSE" /\ AnswerOf(toClient[j]) = w
    BY <2>1 DEF StateAnswer, AnswerOf
  <2>3. PICK k \in DOMAIN a : a[k] = AnswerOf(toClient[j])
    BY <1>1, <2>2, AnswersCollected, EmptySeq
  <2>4. QED BY <2>2, <2>3, <1>3, <1>5
<1>8. p \in Nat /\ StateAt(copy, p) = "LOBBY" /\ StateAt(player, p) = player[p].state
  BY <1>1 DEF StateAt, Lists
<1>9. ASSUME NEW i \in DOMAIN toClient PROVE StateStep(p, "LOBBY", toClient[i]) = "LOBBY"
  BY <1>7 DEF StateStep
<1>10. StateAfter(p, "LOBBY", toClient) = "LOBBY"
  BY <1>1, <1>9, StateStays
<1>11. player[p].state = "LOBBY"
  BY <1>1, <1>8, <1>10 DEF Carries
<1>12. QED BY <1>6, <1>11

(* The commands of the client, one at a time.                              *)
LEMMA ClientStarts ==
  ASSUME SettingsInv
  PROVE  /\ Kinds /\ Lists(copy) /\ mine \in SUBSET DOMAIN player
         /\ \A p \in Own : /\ p \in DOMAIN copy /\ p \in mine /\ p \in Nat
                           /\ copy[p] \in Players
<1>1. Kinds
  BY DEF SettingsInv
<1>2. Lists(copy) /\ mine \in SUBSET DOMAIN player
  BY <1>1 DEF Kinds
<1>3. QED BY <1>1, <1>2 DEF Own, Lists

(* A command that says no nickname changes nothing on the client.          *)
LEMMA SendQuietKeeps ==
  ASSUME SettingsInv, NEW m \in Commands, Send(m), UNCHANGED copy,
         m.type = "CONF" => m.nick = None,
         m.type # "JOIN" => m.plid \in mine,
         Patient(m) => /\ player[m.plid].state = "LOBBY"
                       /\ \A j \in DOMAIN toServer :
                            ~ (toServer[j].type = "STATE" /\ toServer[j].plid = m.plid)
  PROVE  SettingsInv'
<1>1. Lists(copy)
  BY ClientStarts
<1>2. \A p, v : Said("nick", p, v, m) = v
  <2>1. ~ Joins(m)
    BY DEF Commands, Joins
  <2>2. QED BY <2>1 DEF Said, Given
<1>3. Sends(m)
  BY <1>1, <1>2 DEF Sends
<1>4. QED BY <1>3, SendKeeps

(* A join is about nobody yet.                                             *)
LEMMA NewLocalPlayerKeeps ==
  ASSUME SettingsInv, NewLocalPlayer
  PROVE  SettingsInv'
<1>1. PICK nick \in Nicks \union {None} : Send([type |-> "JOIN", plid |-> 0, nick |-> nick])
  BY DEF NewLocalPlayer
<1> DEFINE m == [type |-> "JOIN", plid |-> 0, nick |-> nick]
<1>2. m \in Commands /\ m.type = "JOIN" /\ ~ Patient(m) /\ Send(m)
  BY <1>1 DEF Commands, Patient
<1>3. UNCHANGED copy
  BY DEF NewLocalPlayer
<1> HIDE DEF m
<1>4. QED BY <1>2, <1>3, SendQuietKeeps

(* A state asked for changes nothing before its answer.                    *)
LEMMA ClientSetStateKeeps ==
  ASSUME SettingsInv, NEW p \in Own, ClientSetState(p)
  PROVE  SettingsInv'
<1>1. PICK st \in Asking : Send([type |-> "STATE", plid |-> p, state |-> st])
  BY DEF ClientSetState, Asking
<1> DEFINE m == [type |-> "STATE", plid |-> p, state |-> st]
<1>2. p \in Nat /\ p \in mine
  BY ClientStarts
<1>3. m \in Commands /\ m.type = "STATE" /\ ~ Patient(m) /\ Send(m) /\ m.plid = p
  BY <1>1, <1>2 DEF Commands, Patient
<1>4. UNCHANGED copy
  BY DEF ClientSetState
<1> HIDE DEF m
<1>5. QED BY <1>2, <1>3, <1>4, SendQuietKeeps

(* Nor does a chat.                                                        *)
LEMMA ClientSendChatKeeps ==
  ASSUME SettingsInv, NEW p \in Own, ClientSendChat(p)
  PROVE  SettingsInv'
<1> DEFINE m == [type |-> "CHAT", plid |-> p]
<1>1. p \in Nat /\ p \in mine
  BY ClientStarts
<1>2. m \in Commands /\ m.type = "CHAT" /\ ~ Patient(m) /\ Send(m) /\ m.plid = p
  BY <1>1 DEF Commands, Patient, ClientSendChat
<1>3. UNCHANGED copy
  BY DEF ClientSendChat
<1> HIDE DEF m
<1>4. QED BY <1>1, <1>2, <1>3, SendQuietKeeps

(* Settings sent without haste find their player in the lobby.             *)
LEMMA SentInLobby ==
  ASSUME SettingsInv, Open, NEW p \in Own, copy[p].state = "LOBBY",
         NEW m \in Commands, m.type = "CONF", m.plid = p, m.hasty = Waiting(p)
  PROVE  Patient(m) => /\ player[m.plid].state = "LOBBY"
                       /\ \A j \in DOMAIN toServer :
                            ~ (toServer[j].type = "STATE" /\ toServer[j].plid = m.plid)
<1>1. p \in mine /\ p \in DOMAIN copy
  BY ClientStarts
<1>2. Patient(m) => ~ Waiting(p)
  BY DEF Patient
<1>3. QED BY <1>1, <1>2, NotWaiting

(* To wait is a condition.                                                 *)
LEMMA WaitingIsBoolean == \A p : Waiting(p) \in BOOLEAN
BY DEF Waiting

(* A configuration asked for, in haste or not.                             *)
LEMMA ClientSetFieldConfKeeps ==
  ASSUME SettingsInv, NEW p \in Own, ClientSetFieldConf(p)
  PROVE  SettingsInv'
<1>1. PICK conf \in FieldConfs \union {Unknown, Invalid} :
        Send([type |-> "CONF", plid |-> p, nick |-> None, conf |-> conf, hasty |-> Waiting(p)])
  BY DEF ClientSetFieldConf
<1> DEFINE w == Waiting(p)
           m == [type |-> "CONF", plid |-> p, nick |-> None, conf |-> conf, hasty |-> w]
<1>2. p \in Nat /\ p \in mine /\ w \in BOOLEAN
  BY ClientStarts, WaitingIsBoolean
<1>3. Send(m)
  BY <1>1
<1> HIDE DEF w
<1>4. m \in Commands /\ m.type = "CONF" /\ m.plid = p /\ m.nick = None /\ m.hasty = w
  BY <1>2 DEF Commands
<1>5. UNCHANGED copy /\ copy[p].state = "LOBBY" /\ Open
  BY <1>1 DEF ClientSetFieldConf, Send, Open
<1> HIDE DEF m
<1>6. Patient(m) => /\ player[m.plid].state = "LOBBY"
                    /\ \A j \in DOMAIN toServer :
                         ~ (toServer[j].type = "STATE" /\ toServer[j].plid = m.plid)
  BY <1>4, <1>5, SentInLobby DEF w
<1>7. QED BY <1>2, <1>3, <1>4, <1>5, <1>6, SendQuietKeeps

(* A nickname asked for, which the client shows at once.                   *)
LEMMA ClientSetNickKeeps ==
  ASSUME SettingsInv, NEW p \in Own, ClientSetNick(p)
  PROVE  SettingsInv'
<1>1. PICK nick \in Nicks :
        /\ copy' = [copy EXCEPT ![p].nick = nick]
        /\ Send([type |-> "CONF", plid |-> p, nick |-> nick, conf |-> None, hasty |-> Waiting(p)])
  BY DEF ClientSetNick
<1> DEFINE w == Waiting(p)
           m == [type |-> "CONF", plid |-> p, nick |-> nick, conf |-> None, hasty |-> w]
<1>2. /\ Lists(copy) /\ p \in DOMAIN copy /\ copy[p] \in Players
      /\ p \in Nat /\ p \in mine /\ w \in BOOLEAN
  BY ClientStarts, WaitingIsBoolean
<1>3. Send(m) /\ nick # None
  BY <1>1, NoneAssumption
<1> HIDE DEF w
<1>4. m \in Commands /\ m.type = "CONF" /\ m.plid = p /\ m.nick = nick /\ m.hasty = w
  BY <1>2 DEF Commands
<1>5. copy[p].state = "LOBBY" /\ Open
  BY <1>1 DEF ClientSetNick, Send, Open
<1> HIDE DEF m
<1>6. Patient(m) => /\ player[m.plid].state = "LOBBY"
                    /\ \A j \in DOMAIN toServer :
                         ~ (toServer[j].type = "STATE" /\ toServer[j].plid = m.plid)
  BY <1>4, <1>5, SentInLobby DEF w
<1>7. /\ DOMAIN copy' = DOMAIN copy /\ copy'[p] = [copy[p] EXCEPT !.nick = nick]
      /\ \A q \in DOMAIN copy \ {p} : copy'[q] = copy[q]
      /\ copy' = [q \in DOMAIN copy |-> copy'[q]]
  BY <1>1, <1>2 DEF Lists
<1>8. /\ copy'[p] \in Players /\ copy'[p].state = copy[p].state
      /\ copy'[p].conf = copy[p].conf /\ copy'[p].nick = nick
  BY <1>2, <1>7 DEF Players
<1>9. Lists(copy')
  BY <1>2, <1>7, <1>8 DEF Lists
<1>10. ASSUME NEW q \in DOMAIN copy
       PROVE  /\ copy'[q].state = copy[q].state /\ copy'[q].conf = copy[q].conf
              /\ copy'[q].nick = Said("nick", q, copy[q].nick, m)
  <2>1. CASE q = p
    BY <2>1, <1>3, <1>4, <1>8 DEF Said, Given
  <2>2. CASE q # p
    BY <2>2, <1>4, <1>7 DEF Said, Joins
  <2>3. QED BY <2>1, <2>2
<1>11. Sends(m)
  BY <1>3, <1>4, <1>7, <1>9, <1>10 DEF Sends
<1>12. QED BY <1>2, <1>4, <1>6, <1>11, SendKeeps

-----------------------------------------------------------------------------
(* The client reads a message.                                             *)

(* What is on its way, without its head.                                   *)
HeadRead(h, t) ==
  /\ Kinds /\ Told /\ toClient # <<>> /\ h = Head(toClient) /\ t = Tail(toClient)

(* The head says nothing that comes too soon.                              *)
LEMMA HeadSent ==
  ASSUME NEW h, NEW t, HeadRead(h, t)
  PROVE  /\ h \in Messages /\ t \in Seq(Messages) /\ toClient = <<h>> \o t
         /\ Sound(h, player) /\ Sounds(t, player)
         /\ \A p \in Nat : StateStep(p, StateAt(copy, p), h) # "lost"
<1>1. /\ toClient \in Seq(Messages) /\ \A i \in DOMAIN toClient : Sound(toClient[i], player)
      /\ Carries(copy, toClient, player) /\ Lists(player)
  BY DEF HeadRead, Kinds, Told, Carries, Sounds
<1>2. /\ h \in Messages /\ t \in Seq(Messages) /\ toClient = <<h>> \o t
      /\ h = toClient[1] /\ 1 \in DOMAIN toClient
      /\ \A i \in DOMAIN t : i + 1 \in DOMAIN toClient /\ t[i] = toClient[i + 1]
  BY <1>1, HeadAndTail DEF HeadRead
<1>3. Sound(h, player) /\ Sounds(t, player)
  BY <1>1, <1>2 DEF Sounds
<1>4. ASSUME NEW p \in Nat, StateStep(p, StateAt(copy, p), h) = "lost" PROVE FALSE
  <2>1. StateAfter(p, StateAt(copy, p), toClient) = StateAt(player, p)
    BY <1>1 DEF Carries
  <2>2. StateAfter(p, StateAt(copy, p), <<h>> \o t)
          = StateAfter(p, StateStep(p, StateAt(copy, p), h), t)
    BY <1>2, StateHead
  <2>3. StateAfter(p, "lost", t) = "lost"
    <3>1. \A i \in DOMAIN t : StateStep(p, "lost", t[i]) = "lost"
      BY DEF StateStep
    <3>2. QED BY <3>1, <1>2, StateStays
  <2>4. StateAt(player, p) # "lost"
    BY <1>1 DEF StateAt, Lists, Players, States
  <2>5. QED BY <2>1, <2>2, <2>3, <2>4, <1>2, <1>4
<1>5. QED BY <1>2, <1>3, <1>4

(* The client takes what the head says: the others take its copy to the    *)
(* players of the server.                                                  *)
ReadsClient(h, t) ==
  /\ SettingsInv /\ Open /\ HeadRead(h, t) /\ toClient' = t
  /\ UNCHANGED <<state, player, mine, toServer, untold, asks, changes, thrown>>
  /\ callbacks' = IF h.type = "RESPONSE" THEN Tail(callbacks) ELSE callbacks
  /\ DOMAIN copy \subseteq DOMAIN copy' /\ DOMAIN copy' \subseteq DOMAIN player

(* What is left then accounts for what still differs.                      *)
LEMMA ClientTakes ==
  ASSUME NEW h, NEW t, ReadsClient(h, t), Tells(copy, {}, <<h>>, copy', {})
  PROVE  SettingsInv'
<1>1. /\ Kinds /\ Told /\ Numbered /\ thrown \in Reasons /\ Open
      /\ toClient' = t /\ HeadRead(h, t)
      /\ UNCHANGED <<state, player, mine, toServer, untold, asks, changes, thrown>>
      /\ DOMAIN copy \subseteq DOMAIN copy' /\ DOMAIN copy' \subseteq DOMAIN player
  BY DEF ReadsClient, SettingsInv
<1>2. /\ h \in Messages /\ t \in Seq(Messages) /\ toClient = <<h>> \o t
      /\ Sound(h, player) /\ Sounds(t, player)
  BY <1>1, HeadSent
<1>3. Lists(copy') /\ Carries(copy, <<h>>, copy') /\ NicksTold(copy, {}, <<h>>, copy', {})
  BY DEF Tells
<1>4. Kinds' /\ Numbered'
  <2>1. Kinds'
    BY <1>1, <1>3 DEF Kinds
  <2>2. Numbered'
    BY <1>1 DEF Numbered
  <2>3. QED BY <2>1, <2>2
<1>5. callbacks' = Answers(toClient') \o Asked(toServer')
  <2> DEFINE a == Answers(t)
             b == Asked(toServer)
             w == AnswerOf(h)
             c == <<w>>
             x == <<h>>
  <2>1. x \in Seq(Messages)
    BY <1>2
  <2>2. Answers(x) = IF h.type = "RESPONSE" THEN c ELSE <<>>
    BY AnswersOne
  <2>3. a \in Seq(Slots) /\ b \in Seq(Slots)
    BY <1>1, <1>2, AnswersCollected, EmptySeq, AskedTyped DEF Kinds
  <2>4. callbacks = Answers(toClient) \o b
    BY <1>1 DEF Told
  <2> HIDE DEF x
  <2>5. Answers(toClient) = Answers(x) \o a
    BY <1>2, <2>1, AnswersConcat DEF x
  <2>6. Answers(toClient') = a /\ Asked(toServer') = b
    BY <1>1
  <2>7. CASE h.type = "RESPONSE"
    <3>1. w \in Slots
      BY <1>2, <2>7, AnswerSlot
    <3>2. callbacks' = Tail(callbacks)
      BY <2>7 DEF ReadsClient
    <3> HIDE DEF a, b, w
    <3>3. c \in Seq(Slots) /\ a \o b \in Seq(Slots)
      BY <2>3, <3>1, ConcatProperties
    <3>4. (c \o a) \o b = c \o (a \o b)
      BY <2>3, <3>3, ConcatAssociative
    <3>5. Tail(c \o (a \o b)) = a \o b
      <4>1. \A s \in Seq(Slots) : Tail(<<w>> \o s) = s
        BY <3>1, HeadOfConcat
      <4>2. QED BY <4>1, <3>3
    <3>6. QED BY <2>2, <2>4, <2>5, <2>6, <2>7, <3>2, <3>4, <3>5
  <2>8. CASE h.type # "RESPONSE"
    <3>1. callbacks' = callbacks
      BY <2>8 DEF ReadsClient
    <3> HIDE DEF a, b
    <3>2. <<>> \o a = a
      BY <2>3, ConcatEmptySeq
    <3>3. QED BY <2>2, <2>4, <2>5, <2>6, <2>8, <3>1, <3>2
  <2>9. QED BY <2>7, <2>8
<1>6. Carries(copy', toClient', player')
  <2>1. ASSUME NEW p \in Nat
        PROVE  /\ StateAfter(p, StateAt(copy', p), t) = StateAt(player, p)
               /\ SaidAfter("conf", p, At("conf", copy', p), t) = At("conf", player, p)
    <3>1. StateAfter(p, StateAt(copy, p), toClient) = StateAt(player, p)
          /\ SaidAfter("conf", p, At("conf", copy, p), toClient) = At("conf", player, p)
      BY <1>1 DEF Told, Carries
    <3>2. StateAfter(p, StateAt(copy, p), <<h>>) = StateAt(copy', p)
          /\ SaidAfter("conf", p, At("conf", copy, p), <<h>>) = At("conf", copy', p)
      BY <1>3 DEF Carries
    <3> DEFINE x == <<h>>
    <3>3. x \in Seq(Messages) /\ toClient = x \o t
      BY <1>2
    <3> HIDE DEF x
    <3>4. StateAfter(p, StateAt(copy, p), x \o t) = StateAfter(p, StateAfter(p, StateAt(copy, p), x), t)
      <4>1. \A q, r \in Seq(Messages) : \A v :
              StateAfter(p, v, q \o r) = StateAfter(p, StateAfter(p, v, q), r)
        BY StateFold
      <4>2. QED BY <4>1, <1>2, <3>3
    <3>5. SaidAfter("conf", p, At("conf", copy, p), x \o t)
            = SaidAfter("conf", p, SaidAfter("conf", p, At("conf", copy, p), x), t)
      <4>1. \A q, r \in Seq(Messages) : \A v :
              SaidAfter("conf", p, v, q \o r) = SaidAfter("conf", p, SaidAfter("conf", p, v, q), r)
        BY SaidFold
      <4>2. QED BY <4>1, <1>2, <3>3
    <3>6. QED BY <3>1, <3>2, <3>3, <3>4, <3>5 DEF x
  <2>2. QED BY <2>1, <1>1, <1>2 DEF Carries
<1>7. NicksFollow'
  <2> SUFFICES ASSUME NEW p \in DOMAIN player \ untold
               PROVE  LET said == SaidAfter("nick", p, None, t)
                      IN  IF said = None
                          THEN /\ p \in DOMAIN copy'
                               /\ copy'[p].nick \in {player[p].nick, NickSoon(player, p, toServer)}
                          ELSE said = player[p].nick
    BY <1>1 DEF NicksFollow
  <2> DEFINE one == SaidAfter("nick", p, None, <<h>>)
             rest == SaidAfter("nick", p, None, t)
             soon == NickSoon(player, p, toServer)
             x == player[p].nick
  <2>1. SaidAfter("nick", p, None, toClient) = IF rest = None THEN one ELSE rest
    <3>1. Sounds(<<h>>, copy')
      BY <1>3 DEF Carries
    <3>2. QED BY <1>2, <3>1, NickSaidLast
  <2>2. LET said == SaidAfter("nick", p, None, toClient)
        IN  IF said = None THEN p \in DOMAIN copy /\ copy[p].nick \in {x, soon} ELSE said = x
    BY <1>1 DEF Told, NicksFollow
  <2>3. p \in DOMAIN copy' =>
          IF one = None THEN p \in DOMAIN copy /\ copy[p].nick = copy'[p].nick
                        ELSE one = copy'[p].nick
    BY <1>3 DEF NicksTold
  <2>4. one # None => p \in DOMAIN copy'
    <3>1. one = Said("nick", p, None, h)
      <4>1. \A v, y : SaidAfter("nick", p, v, <<y>>) = Said("nick", p, v, y)
        BY SaidFold
      <4>2. QED BY <4>1
    <3>2. Sound(h, copy')
      <4>1. <<h>>[1] = h /\ 1 \in DOMAIN <<h>>
        OBVIOUS
      <4>2. \A i \in DOMAIN <<h>> : Sound(<<h>>[i], copy')
        BY <1>3 DEF Carries, Sounds
      <4>3. QED BY <4>1, <4>2
    <3> HIDE DEF one
    <3>3. QED BY <3>1, <3>2 DEF Said, Sound, Names
  <2> HIDE DEF one, rest, soon, x
  <2>5. QED BY <2>1, <2>2, <2>3, <2>4, <1>1 DEF rest, soon, x
<1>8. PatientInLobby'
  BY <1>1 DEF Told, PatientInLobby
<1>9. AnsweredIn(toClient', mine')
  <2> SUFFICES ASSUME NEW i \in DOMAIN t, t[i].type = "STATE", t[i].plid \in mine
               PROVE  \E j \in DOMAIN t : i < j /\ StateAnswer(t[j], t[i].plid)
    BY <1>1 DEF AnsweredIn
  <2>1. DOMAIN t = 1..Len(t) /\ Len(t) \in Nat /\ DOMAIN toClient = 1..(Len(t) + 1)
        /\ \A k \in 1..Len(t) : t[k] = toClient[k + 1]
    <3>1. toClient \in Seq(Messages) /\ toClient # <<>> /\ t = Tail(toClient)
      BY <1>1 DEF HeadRead, Told, Carries, Sounds
    <3>2. QED BY <3>1
  <2>2. i + 1 \in DOMAIN toClient /\ t[i] = toClient[i + 1]
    BY <2>1
  <2>3. PICK j \in DOMAIN toClient : i + 1 < j /\ StateAnswer(toClient[j], t[i].plid)
    BY <1>1, <2>2 DEF Told, AnsweredIn
  <2>4. j - 1 \in DOMAIN t /\ t[j - 1] = toClient[j] /\ i < j - 1
    BY <2>1, <2>3
  <2>5. QED BY <2>3, <2>4
<1>10. QED BY <1>1, <1>4, <1>5, <1>6, <1>7, <1>8, <1>9 DEF SettingsInv, Told

(* Nobody is named before it has been introduced.                          *)
LEMMA HeadKnown ==
  ASSUME NEW h, NEW t, HeadRead(h, t), h.plid \notin DOMAIN copy,
         h.type \in {"CONF", "STATE", "CHAT"}
  PROVE  h.type = "CONF" /\ h.nick # None /\ h.conf # None /\ h.plid \in Nat
<1>1. h \in Messages /\ \A p \in Nat : StateStep(p, StateAt(copy, p), h) # "lost"
  BY HeadSent
<1>2. h.plid \in Nat
  BY <1>1 DEF Messages
<1>3. StateAt(copy, h.plid) = "away" /\ Names(h) /\ ~ Joins(h)
  BY DEF StateAt, Names, Joins
<1>4. StateStep(h.plid, "away", h) # "lost"
  BY <1>1, <1>2, <1>3
<1>5. QED BY <1>2, <1>3, <1>4 DEF StateStep

(* The settings of a player, known or not.                                 *)
LEMMA ConfTold ==
  ASSUME NEW h, NEW t, HeadRead(h, t), h.type = "CONF"
  PROVE  LET g == Configured(copy, h)
         IN  /\ Tells(copy, {}, <<h>>, g, {})
             /\ DOMAIN g = DOMAIN copy \union {h.plid} /\ h.plid \in DOMAIN player
<1> DEFINE p == h.plid
           g == Configured(copy, h)
           n == h.nick
           c == h.conf
<1>1. h \in Messages /\ Sound(h, player) /\ Lists(copy)
  BY HeadSent DEF HeadRead, Kinds
<1>2. /\ p \in Nat /\ p \in DOMAIN player /\ ~ Joins(h)
      /\ n \in Nicks \union {None} /\ c \in FieldConfs \union {None}
  BY <1>1 DEF Messages, Sound, Names, Joins
<1>3. CASE p \notin DOMAIN copy
  <2> DEFINE v == [nick |-> n, conf |-> c, state |-> "LOBBY"]
  <2>1. n # None /\ c # None
    BY <1>3, HeadKnown
  <2>2. v \in Players /\ v.state = "LOBBY"
    BY <1>2, <2>1 DEF Players, States
  <2>3. Introduces(h, p, v)
    BY <1>1 DEF Introduces
  <2>4. g = With(copy, p, v)
    BY <1>3 DEF Configured
  <2>5. DOMAIN With(copy, p, v) = DOMAIN copy \union {p}
    BY DEF With
  <2> HIDE DEF v, g, p
  <2>6. Tells(copy, {}, <<h>>, With(copy, p, v), {})
    BY <1>1, <1>2, <1>3, <2>2, <2>3, NewcomerTold
  <2>7. QED BY <1>2, <2>4, <2>5, <2>6 DEF g, p
<1>4. CASE p \in DOMAIN copy
  <2> DEFINE v == [nick |-> Set(copy[p].nick, n), conf |-> Set(copy[p].conf, c),
                   state |-> copy[p].state]
  <2>1. g = With(copy, p, v)
    BY <1>4 DEF Configured, Set
  <2>2. /\ DOMAIN g = DOMAIN copy /\ g[p] = v /\ \A q \in DOMAIN copy \ {p} : g[q] = copy[q]
        /\ g = [q \in DOMAIN copy |-> g[q]]
    <3>1. DOMAIN copy \union {p} = DOMAIN copy
      BY <1>4
    <3> HIDE DEF v, g, p
    <3>2. QED BY <1>4, <2>1, <3>1 DEF With
  <2>3. copy[p] \in Players
    BY <1>1, <1>4 DEF Lists
  <2>4. v \in Players
    BY <1>2, <2>3 DEF Players, Set
  <2>5. /\ v.nick = Set(copy[p].nick, n) /\ v.conf = Set(copy[p].conf, c)
        /\ v.state = copy[p].state
    OBVIOUS
  <2> HIDE DEF v, g
  <2>6. Lists(g) /\ Others(copy, g, p)
    BY <1>1, <1>4, <2>2, <2>4 DEF Lists, Others
  <2>7. Carries(copy, <<h>>, g)
    BY <1>1, <2>2, <2>5, <2>6, ConfCarries
  <2>8. ASSUME NEW q \in DOMAIN g
        PROVE  IF Said("nick", q, None, h) = None
               THEN q \in DOMAIN copy /\ copy[q].nick = g[q].nick
               ELSE Said("nick", q, None, h) = g[q].nick
    <3>1. CASE q = p
      BY <3>1, <1>2, <1>4, <2>2, <2>5 DEF Said, Given, Set
    <3>2. CASE q # p
      BY <3>2, <1>2, <2>2 DEF Said
    <3>3. QED BY <3>1, <3>2
  <2>9. NicksTold(copy, {}, <<h>>, g, {})
    BY <2>8, NicksOne
  <2>10. QED BY <1>2, <1>4, <2>2, <2>6, <2>7, <2>9 DEF Tells, g
<1>5. QED BY <1>3, <1>4

(* The head of the answers on their way is for the oldest callback.        *)
LEMMA HeadCallback ==
  ASSUME NEW h, NEW t, HeadRead(h, t), h.type = "RESPONSE"
  PROVE  callbacks # <<>> /\ Head(callbacks) = AnswerOf(h)
<1> DEFINE a == Answers(t)
           b == Asked(toServer)
           w == AnswerOf(h)
           x == <<h>>
<1>1. h \in Messages /\ t \in Seq(Messages) /\ toClient = x \o t /\ x \in Seq(Messages)
  BY HeadSent
<1>2. w \in Slots /\ a \in Seq(Slots) /\ b \in Seq(Slots) /\ Answers(x) = <<w>>
      /\ callbacks = Answers(toClient) \o b
  BY <1>1, AnswerSlot, AnswersCollected, EmptySeq, AskedTyped, AnswersOne DEF HeadRead, Kinds, Told
<1> HIDE DEF x
<1>3. Answers(toClient) = Answers(x) \o a
  BY <1>1, AnswersConcat
<1> DEFINE c == <<w>>
<1>4. c \in Seq(Slots)
  BY <1>2
<1> HIDE DEF a, b, w
<1>5. (c \o a) \o b = c \o (a \o b) /\ a \o b \in Seq(Slots)
  BY <1>2, <1>4, ConcatAssociative, ConcatProperties
<1>6. Head(c \o (a \o b)) = w /\ c \o (a \o b) # <<>>
  <2>1. \A s \in Seq(Slots) : Head(<<w>> \o s) = w /\ <<w>> \o s # <<>>
    BY <1>2, HeadOfConcat
  <2>2. QED BY <2>1, <1>5
<1>7. QED BY <1>2, <1>3, <1>5, <1>6 DEF w

(* An answer: that to a join that succeeds introduces the player.          *)
LEMMA ResponseTold ==
  ASSUME NEW h, NEW t, HeadRead(h, t), h.type = "RESPONSE"
  PROVE  IF h.to # "JOIN" \/ ~ h.ok
         THEN Tells(copy, {}, <<h>>, copy, {})
         ELSE LET g == With(copy, h.plid, h.new)
              IN  /\ Tells(copy, {}, <<h>>, g, {}) /\ h.new # None
                  /\ DOMAIN g = DOMAIN copy \union {h.plid} /\ h.plid \in DOMAIN player
<1>1. h \in Messages /\ Sound(h, player) /\ Lists(copy)
  BY HeadSent DEF HeadRead, Kinds
<1>2. CASE h.to # "JOIN" \/ ~ h.ok
  <2>1. Quiet(h, copy)
    BY <1>1, <1>2 DEF Quiet, Joins
  <2>2. QED BY <1>1, <1>2, <2>1, TellsQuiet
<1>3. CASE ~ (h.to # "JOIN" \/ ~ h.ok)
  <2>1. Joins(h)
    BY <1>3 DEF Joins
  <2>2. h.plid \in DOMAIN player /\ h.plid \in Nat /\ h.new \in Players /\ h.new.state = "LOBBY"
    BY <1>1, <2>1 DEF Sound, Names, Messages
  <2>3. h.new # None
    BY <2>2, NoneAssumption
  <2> DEFINE p == h.plid
             v == h.new
  <2>4. Introduces(h, p, v)
    BY <1>1, <2>1 DEF Introduces
  <2>5. DOMAIN With(copy, p, v) = DOMAIN copy \union {p}
    BY DEF With
  <2>6. p \in Nat /\ v \in Players /\ v.state = "LOBBY"
    BY <2>2
  <2> HIDE DEF p, v
  <2>7. Tells(copy, {}, <<h>>, With(copy, p, v), {})
    BY <1>1, <2>1, <2>4, <2>6, NewcomerTold
  <2>8. QED BY <1>3, <2>2, <2>3, <2>5, <2>7 DEF p, v
<1>4. QED BY <1>2, <1>3

(* Whatever the message: no callback is missing and no player unknown.     *)
LEMMA ClientReadsKeeps ==
  ASSUME SettingsInv, ClientReads
  PROVE  SettingsInv'
<1> DEFINE h == Head(toClient)
           t == Tail(toClient)
           known == h.plid \in DOMAIN copy
<1>1. /\ Open /\ toClient # <<>> /\ toClient' = t
      /\ UNCHANGED <<state, player, mine, toServer, untold, asks, changes>>
      /\ CASE h.type = "CONF" -> OnPlayerConf(h)
           [] h.type = "RESPONSE" -> OnResponse(h)
           [] h.type = "GAME" ->
                copy' = Move(copy, "LOBBY_READY", "GAME") /\ UNCHANGED <<callbacks, thrown>>
           [] h.type = "STATE" /\ known ->
                copy' = [copy EXCEPT ![h.plid].state = h.state]
                  /\ UNCHANGED <<callbacks, thrown>>
           [] h.type = "CHAT" /\ known -> UNCHANGED <<copy, callbacks, thrown>>
           [] OTHER -> thrown' = "invalid player" /\ UNCHANGED <<copy, callbacks>>
  BY DEF ClientReads, Open
<1>2. HeadRead(h, t) /\ Lists(copy) /\ DOMAIN copy \subseteq DOMAIN player
  BY <1>1 DEF SettingsInv, HeadRead, Kinds
<1>3. h \in Messages /\ Sound(h, player)
  BY <1>2, HeadSent
<1>4. ASSUME thrown' = thrown, Tells(copy, {}, <<h>>, copy', {}),
             callbacks' = IF h.type = "RESPONSE" THEN Tail(callbacks) ELSE callbacks,
             DOMAIN copy \subseteq DOMAIN copy', DOMAIN copy' \subseteq DOMAIN player
      PROVE  SettingsInv'
  <2>1. ReadsClient(h, t)
    BY <1>1, <1>2, <1>4 DEF ReadsClient
  <2>2. QED BY <1>4, <2>1, ClientTakes
<1> HIDE DEF h, t
<1>5. CASE h.type = "CONF"
  <2>1. copy' = Configured(copy, h) /\ UNCHANGED <<callbacks, thrown>>
    BY <1>1, <1>5 DEF OnPlayerConf
  <2>2. QED BY <1>2, <1>4, <1>5, <2>1, ConfTold
<1>6. CASE h.type = "RESPONSE"
  <2>1. OnResponse(h)
    BY <1>1, <1>6
  <2>2. callbacks # <<>> /\ Head(callbacks).type = h.to
    BY <1>2, <1>6, HeadCallback DEF AnswerOf
  <2>3. CASE h.to # "JOIN" \/ ~ h.ok
    <3>1. callbacks' = Tail(callbacks) /\ copy' = copy /\ thrown' = thrown
      BY <2>1, <2>2, <2>3 DEF OnResponse
    <3>2. Tells(copy, {}, <<h>>, copy, {})
      BY <1>2, <1>6, <2>3, ResponseTold
    <3>3. QED BY <1>2, <1>4, <1>6, <3>1, <3>2
  <2>4. CASE ~ (h.to # "JOIN" \/ ~ h.ok)
    <3>1. LET g == With(copy, h.plid, h.new)
          IN  /\ Tells(copy, {}, <<h>>, g, {}) /\ h.new # None
              /\ DOMAIN g = DOMAIN copy \union {h.plid} /\ h.plid \in DOMAIN player
      BY <1>2, <1>6, <2>4, ResponseTold
    <3>2. /\ callbacks' = Tail(callbacks) /\ thrown' = thrown
          /\ copy' = With(copy, h.plid, h.new)
      BY <2>1, <2>2, <2>4, <3>1 DEF OnResponse
    <3>3. QED BY <1>2, <1>4, <1>6, <3>1, <3>2
  <2>5. QED BY <2>3, <2>4
<1>7. CASE h.type = "GAME"
  <2>1. copy' = Move(copy, "LOBBY_READY", "GAME") /\ UNCHANGED <<callbacks, thrown>>
    BY <1>1, <1>7
  <2>2. h = [type |-> "GAME"]
    BY <1>3, <1>7 DEF Messages
  <2>3. Tells(copy, {}, <<h>>, copy', {}) /\ DOMAIN copy' = DOMAIN copy
    BY <1>2, <2>1, <2>2, MoveTold
  <2>4. QED BY <1>2, <1>4, <1>7, <2>1, <2>3
<1>8. CASE h.type = "STATE"
  <2>1. known
    BY <1>2, <1>8, HeadKnown
  <2>2. copy' = [copy EXCEPT ![h.plid].state = h.state] /\ UNCHANGED <<callbacks, thrown>>
    BY <1>1, <1>8, <2>1
  <2>3. h.state \in Asking /\ h = StateEvent(h.plid, h.state)
    BY <1>3, <1>8 DEF Messages, StateEvent
  <2>4. Tells(copy, {}, <<h>>, copy', {}) /\ DOMAIN copy' = DOMAIN copy
    <3> DEFINE p == h.plid
               st == h.state
    <3>1. p \in DOMAIN copy /\ st \in Asking /\ h = StateEvent(p, st)
          /\ copy' = [copy EXCEPT ![p].state = st]
      BY <2>1, <2>2, <2>3
    <3> HIDE DEF p, st
    <3>2. Tells(copy, {}, <<StateEvent(p, st)>>, [copy EXCEPT ![p].state = st], {})
      BY <1>2, <3>1, StateTold
    <3>3. QED BY <3>1, <3>2
  <2>5. QED BY <1>2, <1>4, <1>8, <2>2, <2>4
<1>9. CASE h.type = "CHAT"
  <2>1. known
    BY <1>2, <1>9, HeadKnown
  <2>2. UNCHANGED <<copy, callbacks, thrown>>
    BY <1>1, <1>9, <2>1
  <2>3. Quiet(h, copy)
    BY <1>3, <1>9, <2>1 DEF Quiet, Joins
  <2>4. Tells(copy, {}, <<h>>, copy', {})
    BY <1>2, <2>2, <2>3, TellsQuiet
  <2>5. QED BY <1>2, <1>4, <1>9, <2>2, <2>4
<1>10. h.type \in {"CONF", "RESPONSE", "GAME", "STATE", "CHAT"}
  BY <1>3 DEF Messages
<1>11. QED BY <1>5, <1>6, <1>7, <1>8, <1>9, <1>10

-----------------------------------------------------------------------------
(* The theorems.                                                           *)

(* Nothing is on its way at first, and the client knows all the players.   *)
LEMMA SettingsInvInit == Init => SettingsInv
<1> SUFFICES ASSUME Init PROVE SettingsInv
  OBVIOUS
<1> DEFINE v == [nick |-> Player, conf |-> Head(Confs), state |-> "LOBBY"]
<1>1. /\ state = "LOBBY" /\ player \in [LocalOnes -> {v}] /\ copy = player
      /\ mine = {} /\ untold = {} /\ toServer = <<>> /\ toClient = <<>> /\ callbacks = <<>>
      /\ Open /\ asks = 0 /\ changes = 0
  BY DEF Init, Open
<1>2. v \in Players
  <2>1. Head(Confs) \in ToSet(Confs)
    BY ConfsAssumption DEF ToSet
  <2>2. QED BY <2>1, ConfsAssumption DEF Players, FieldConfs, States
<1> HIDE DEF v
<1>3. Cardinality(LocalOnes) \in Nat /\ LocalOnes = 1..Cardinality(LocalOnes)
  BY PlayersAssumption, FS_CardinalityType
<1>4. DOMAIN player = LocalOnes /\ Lists(player)
  <2>1. DOMAIN player = LocalOnes /\ player \in [LocalOnes -> Players]
    BY <1>1, <1>2
  <2>2. LocalOnes \in SUBSET Nat
    BY <1>3
  <2>3. QED BY <2>1, <2>2 DEF Lists
<1>5. <<>> \in Seq(Commands) /\ DOMAIN <<>> = {} /\ Len(<<>>) = 0
  BY EmptySeq
<1>6. Kinds
  <2>1. asks \in 0..AskMax /\ changes \in 0..ChangeMax
    BY <1>1, BoundsAssumption
  <2>2. QED BY <1>1, <1>4, <1>5, <2>1 DEF Kinds, ServerStates
<1>7. Numbered
  <2> DEFINE n == Cardinality(LocalOnes)
  <2>1. n \in Nat /\ DOMAIN player = 1..n /\ LocalOnes \in SUBSET (1..n)
    BY <1>3, <1>4
  <2> HIDE DEF n
  <2>2. n + Len(toServer) <= n + changes + asks
    BY <1>1, <1>5, <2>1
  <2>3. QED BY <2>1, <2>2 DEF Numbered, n
<1>8. callbacks = Answers(toClient) \o Asked(toServer)
  <2>1. Answers(<<>>) = <<>>
    BY AnswersOne
  <2>2. Asked(<<>>) \in Seq(Slots) /\ DOMAIN Asked(<<>>) = {}
    BY <1>5, AskedTyped
  <2>3. Asked(<<>>) = <<>>
    BY <2>2
  <2>4. <<>> \o <<>> = <<>>
    OBVIOUS
  <2>5. QED BY <1>1, <2>1, <2>3, <2>4
<1>9. Carries(copy, toClient, player)
  BY <1>1, CarriesNothing
<1>10. NicksFollow
  <2>1. \A p : SaidAfter("nick", p, None, <<>>) = None
    <3>1. ASSUME NEW p PROVE SaidAfter("nick", p, None, <<>>) = None
      BY SaidFold
    <3>2. QED BY <3>1
  <2>2. QED BY <1>1, <2>1 DEF NicksFollow
<1>11. PatientInLobby /\ AnsweredIn(toClient, mine)
  BY <1>1, <1>5 DEF PatientInLobby, AnsweredIn
<1>12. Told
  BY <1>8, <1>9, <1>10, <1>11 DEF Told
<1>13. QED BY <1>1, <1>6, <1>7, <1>12 DEF SettingsInv, Open, Reasons

(* Every step, of the server or of the client, keeps the invariant.        *)
LEMMA SettingsInvStep == SettingsInv /\ [Next]_vars => SettingsInv'
<1> SUFFICES ASSUME SettingsInv, [Next]_vars PROVE SettingsInv'
  OBVIOUS
<1>1. ASSUME NEW p \in DOMAIN player, OtherChanges(p) PROVE SettingsInv'
  BY <1>1, OtherChangesKeeps
<1>2. CASE OtherJoins
  BY <1>2, OtherJoinsKeeps
<1>3. CASE ServerReads
  BY <1>3, ServerReadsKeeps
<1>4. CASE ClientReads
  BY <1>4, ClientReadsKeeps
<1>5. CASE NewLocalPlayer
  BY <1>5, NewLocalPlayerKeeps
<1>6. ASSUME NEW p \in Own, ClientSetNick(p) PROVE SettingsInv'
  BY <1>6, ClientSetNickKeeps
<1>7. ASSUME NEW p \in Own, ClientSetFieldConf(p) PROVE SettingsInv'
  BY <1>7, ClientSetFieldConfKeeps
<1>8. ASSUME NEW p \in Own, ClientSetState(p) PROVE SettingsInv'
  BY <1>8, ClientSetStateKeeps
<1>9. ASSUME NEW p \in Own, ClientSendChat(p) PROVE SettingsInv'
  BY <1>9, ClientSendChatKeeps
<1>10. CASE UNCHANGED vars
  <2>1. /\ UNCHANGED <<state, player, copy, mine, toServer, toClient>>
        /\ UNCHANGED <<callbacks, thrown, untold, asks, changes>>
    BY <1>10 DEF vars
  <2>2. (Kinds => Kinds') /\ (Numbered => Numbered') /\ (Open' => Open)
    BY <2>1 DEF Kinds, Numbered, Open
  <2>3. Told => Told'
    BY <2>1 DEF Told, NicksFollow, PatientInLobby
  <2>4. thrown' = thrown
    BY <2>1
  <2>5. QED BY <2>2, <2>3, <2>4 DEF SettingsInv
<1>11. CASE MatchProceeds
  BY <1>11, MatchProceedsKeeps
<1>12. QED BY <1>1, <1>2, <1>3, <1>4, <1>5, <1>6, <1>7, <1>8, <1>9, <1>10, <1>11 DEF Next

(* What is on its way in either direction accounts for every difference    *)
(* between the copy of the client and the players of the server, and for   *)
(* every callback that waits (processPacket and onPeerClientCommand), as   *)
(* long as the connection is open.                                         *)
THEOREM SettingsInvariant == Spec => []SettingsInv
BY SettingsInvInit, SettingsInvStep, PTL DEF Spec

(* Players have settings of the server's, on both sides, and a player of   *)
(* the client is one of the server, not of its own process.                *)
THEOREM SettingsTypesCorrect == Spec => []SettingsTypeOK
<1>1. SettingsInv => SettingsTypeOK
  <2> SUFFICES ASSUME SettingsInv PROVE SettingsTypeOK
    OBVIOUS
  <2>1. Kinds /\ thrown \in Reasons
    BY DEF SettingsInv
  <2>2. /\ state \in ServerStates /\ player \in [DOMAIN player -> Players]
        /\ DOMAIN copy \subseteq DOMAIN player /\ copy \in [DOMAIN copy -> Players]
        /\ mine \subseteq DOMAIN player \ LocalOnes
    BY <2>1 DEF Kinds, Lists
  <2>3. DOMAIN player \subseteq PlIds
    <3>1. PICK n \in Nat : /\ DOMAIN player = 1..n
                           /\ n + Len(toServer) <= Cardinality(LocalOnes) + changes + asks
      BY DEF SettingsInv, Numbered
    <3>2. Cardinality(LocalOnes) \in Nat
      BY PlayersAssumption, FS_CardinalityType
    <3>3. toServer \in Seq(Commands) /\ changes \in 0..ChangeMax /\ asks \in 0..AskMax
      BY <2>1 DEF Kinds
    <3>4. Len(toServer) \in Nat
      BY <3>3
    <3>5. n <= Cardinality(LocalOnes) + AskMax + ChangeMax
      BY <3>1, <3>2, <3>3, <3>4, BoundsAssumption
    <3>6. QED BY <3>1, <3>2, <3>5, BoundsAssumption DEF PlIds
  <2>4. QED BY <2>1, <2>2, <2>3 DEF SettingsTypeOK, ServerStates, Reasons
<1>2. QED BY <1>1, SettingsInvariant, PTL

(* A response is for the command whose callback is called, whether the     *)
(* commands before it succeeded or not (ClientSocket::processPacket).      *)
THEOREM ResponsesAlwaysMatch == Spec => []ResponsesMatch
<1>1. SettingsInv => ResponsesMatch
  BY DEF SettingsInv, Told, Open, ResponsesMatch
<1>2. QED BY <1>1, SettingsInvariant, PTL

(* Nobody is thrown out for settings that were not sent in haste: the      *)
(* start of a match does not catch a client unawares                       *)
(* (processPktPlayerConf of the server).                                   *)
THEOREM OnlyHastyAreThrownOut == Spec => []OnlyHastyThrownOut
<1>1. SettingsInv => OnlyHastyThrownOut
  BY DEF SettingsInv, OnlyHastyThrownOut, Reasons
<1>2. QED BY <1>1, SettingsInvariant, PTL

(* Once nothing is on its way the client shows the players, nicknames,     *)
(* configurations and states of the server, but for the nicknames nobody   *)
(* was told of.                                                            *)
THEOREM SettingsAlwaysAgree == Spec => []SettingsAgree
<1>1. SettingsInv => SettingsAgree
  <2> SUFFICES ASSUME SettingsInv, Open, toClient = <<>>, toServer = <<>>
               PROVE  /\ DOMAIN copy = DOMAIN player
                      /\ \A p \in DOMAIN player :
                           /\ copy[p].conf = player[p].conf /\ copy[p].state = player[p].state
                           /\ copy[p].nick = player[p].nick \/ p \in untold
    BY DEF SettingsAgree, Open
  <2>1. /\ Lists(player) /\ Lists(copy) /\ DOMAIN copy \subseteq DOMAIN player
        /\ Carries(copy, toClient, player) /\ NicksFollow
    BY DEF SettingsInv, Kinds, Told
  <2>2. ASSUME NEW p \in Nat
        PROVE  StateAt(copy, p) = StateAt(player, p) /\ At("conf", copy, p) = At("conf", player, p)
    <3>1. \A s : StateAfter(p, s, <<>>) = s
      BY StateFold
    <3>2. \A v : SaidAfter("conf", p, v, <<>>) = v
      BY SaidFold
    <3>3. QED BY <2>1, <3>1, <3>2 DEF Carries
  <2>3. ASSUME NEW p \in DOMAIN player PROVE p \in DOMAIN copy
    <3>1. p \in Nat /\ player[p].state \in States
      BY <2>1 DEF Lists, Players
    <3>2. StateAt(copy, p) = player[p].state
      BY <2>2, <3>1 DEF StateAt
    <3>3. QED BY <3>1, <3>2 DEF StateAt, States
  <2>4. ASSUME NEW p \in DOMAIN player
        PROVE  /\ copy[p].conf = player[p].conf /\ copy[p].state = player[p].state
               /\ copy[p].nick = player[p].nick \/ p \in untold
    <3>1. p \in Nat /\ p \in DOMAIN copy
      BY <2>1, <2>3 DEF Lists
    <3>2. copy[p].conf = player[p].conf /\ copy[p].state = player[p].state
      BY <2>2, <3>1 DEF StateAt, At, Given
    <3>3. SaidAfter("nick", p, None, <<>>) = None
      BY SaidFold
    <3>4. NickSoon(player, p, <<>>) = player[p].nick
      <4>1. \A v : SaidAfter("nick", p, v, <<>>) = v
        BY SaidFold
      <4>2. QED BY <4>1 DEF NickSoon
    <3>5. p \notin untold => copy[p].nick = player[p].nick
      BY <2>1, <3>3, <3>4 DEF NicksFollow
    <3>6. QED BY <3>2, <3>5
  <2>5. QED BY <2>1, <2>3, <2>4
<1>2. QED BY <1>1, SettingsInvariant, PTL

=============================================================================
