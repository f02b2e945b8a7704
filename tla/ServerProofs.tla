--------------------------- MODULE ServerProofs ---------------------------
(***************************************************************************)
(* Proofs about Server, for any peers, any number of players and any last  *)
(* player ID: what is true of the players, the fields and the peers after  *)
(* every handler, however long the chain of calls it makes.                *)
(***************************************************************************)
EXTENDS Server, FiniteSetTheorems, SequenceTheorems, WellFoundedInduction, TLAPS

USE PeersAssumption, IdAssumption, LocalAssumption

-----------------------------------------------------------------------------
(* The members of a set in order.                                          *)

(* A set of naturals that is not empty has a least one.                    *)
LEMMA LeastNatural ==
  ASSUME NEW T \in SUBSET Nat, T # {}
  PROVE  \E x \in T : \A y \in T : x <= y
<1> DEFINE R == OpToRel(<, Nat)
<1>1. IsWellFoundedOn(R, Nat)
  BY NatLessThanWellFounded
<1>2. \A x, y \in Nat : y < x => <<y, x>> \in R
  BY DEF OpToRel
<1> HIDE DEF R
<1>3. PICK x \in T : \A y \in T : ~ (<<y, x>> \in R)
  BY <1>1, WFMin, Zenon
<1>4. \A y \in T : x \in Nat /\ y \in Nat /\ ~ (y < x)
  BY <1>2, <1>3
<1>5. QED BY <1>4

(* Sets of players are finite.                                             *)
LEMMA FinitePlayers ==
  ASSUME NEW S \in SUBSET PlIds
  PROVE  IsFiniteSet(S) /\ Cardinality(S) \in Nat
<1>1. IsFiniteSet(PlIds)
  BY FS_Interval DEF PlIds
<1>2. QED BY <1>1, FS_Subset, FS_CardinalityType

Ascends(q, n) == \A i, j \in 1..n : i < j => q[i] < q[j]

(* Every set of IDs has an ascending enumeration: by least counterexample  *)
(* over the highest ID.                                                    *)
LEMMA Enumerated ==
  ASSUME NEW m \in 0..IdMax
  PROVE  \A S \in SUBSET (1..m) :
           \E q \in [1..Cardinality(S) -> S] : Ascends(q, Cardinality(S))
<1> DEFINE Ok(k) == \A S \in SUBSET (1..k) :
                      \E q \in [1..Cardinality(S) -> S] : Ascends(q, Cardinality(S))
           Bad == {k \in 0..IdMax : ~ Ok(k)}
<1>1. SUFFICES ASSUME Bad # {} PROVE FALSE
  OBVIOUS
<1>2. Bad \in SUBSET Nat
  OBVIOUS
<1>3. PICK k \in Bad : \A l \in Bad : k <= l
  <2> HIDE DEF Bad
  <2>1. QED BY <1>1, <1>2, LeastNatural, Zenon
<1>4. k \in 0..IdMax /\ ~ Ok(k)
  BY <1>3
<1>5. k # 0
  <2>1. Ok(0)
    <3>1. \A S \in SUBSET (1..0) : S = {}
      OBVIOUS
    <3>2. Cardinality({}) = 0
      BY FS_EmptySet
    <3>3. [i \in 1..0 |-> 0] \in [1..0 -> {}] /\ Ascends([i \in 1..0 |-> 0], 0)
      BY DEF Ascends
    <3>4. QED BY <3>1, <3>2, <3>3
  <2> HIDE DEF Ok
  <2>2. QED BY <2>1, <1>4
<1>6. Ok(k - 1)
  <2>1. k - 1 \in 0..IdMax /\ ~ (k <= k - 1)
    BY <1>4, <1>5
  <2>2. k - 1 \notin Bad
    <3> HIDE DEF Bad
    <3>1. QED BY <2>1, <1>3
  <2> HIDE DEF Ok
  <2>3. QED BY <2>1, <2>2
<1>7. ASSUME NEW S \in SUBSET (1..k)
      PROVE  \E q \in [1..Cardinality(S) -> S] : Ascends(q, Cardinality(S))
  <2>1. CASE k \notin S
    <3>1. S \in SUBSET (1..(k - 1))
      BY <2>1, <1>4
    <3>2. QED BY <3>1, <1>6
  <2>2. CASE k \in S
    <3>1. S \ {k} \in SUBSET (1..(k - 1))
      BY <1>4
    <3>2. PICK q \in [1..Cardinality(S \ {k}) -> S \ {k}] : Ascends(q, Cardinality(S \ {k}))
      BY <3>1, <1>6
    <3>3. S \in SUBSET PlIds
      BY <1>4 DEF PlIds
    <3>4. /\ IsFiniteSet(S) /\ Cardinality(S) \in Nat
          /\ Cardinality(S \ {k}) = Cardinality(S) - 1
          /\ Cardinality(S \ {k}) \in Nat
      <4>1. IsFiniteSet(S) /\ IsFiniteSet(S \ {k})
        BY <3>3, FinitePlayers, FS_Subset
      <4>2. QED BY <4>1, <2>2, FS_RemoveElement, FS_CardinalityType
    <3> DEFINE c == Cardinality(S)
               r == [i \in 1..c |-> IF i = c THEN k ELSE q[i]]
    <3>5. Cardinality(S \ {k}) = c - 1 /\ c \in Nat /\ c - 1 \in Nat
      BY <3>4
    <3> HIDE DEF c
    <3>6. q \in [1..(c - 1) -> S \ {k}] /\ Ascends(q, c - 1)
      BY <3>2, <3>5
    <3>7. \A i \in 1..c : i = c \/ i \in 1..(c - 1)
      BY <3>5
    <3>8. r \in [1..c -> S]
      BY <3>6, <3>7, <2>2
    <3>9. Ascends(r, c)
      <4> SUFFICES ASSUME NEW i \in 1..c, NEW j \in 1..c, i < j PROVE r[i] < r[j]
        BY DEF Ascends
      <4>1. i \in 1..(c - 1) /\ r[i] = q[i] /\ q[i] \in S \ {k}
        BY <3>5, <3>6
      <4>2. CASE j = c
        <5>1. r[j] = k /\ q[i] \in 1..(k - 1)
          BY <4>1, <4>2, <3>1
        <5>2. QED BY <4>1, <5>1, <1>4
      <4>3. CASE j # c
        <5>1. j \in 1..(c - 1) /\ r[j] = q[j]
          BY <4>3, <3>5
        <5>2. QED BY <4>1, <5>1, <3>6 DEF Ascends
      <4>4. QED BY <4>2, <4>3
    <3>10. QED BY <3>8, <3>9 DEF c
  <2>3. QED BY <2>1, <2>2
<1> HIDE DEF Bad
<1>8. QED BY <1>4, <1>7

(* InOrder gives each member once.                                         *)
LEMMA InOrderEnumerates ==
  ASSUME NEW S \in SUBSET PlIds
  PROVE  LET q == InOrder(S)
             n == Cardinality(S)
         IN  /\ n \in Nat /\ q \in [1..n -> S] /\ DOMAIN q = 1..n
             /\ \A i, j \in 1..n : i # j => q[i] # q[j]
             /\ \A x \in S : \E i \in 1..n : q[i] = x
<1> DEFINE q == InOrder(S)
           n == Cardinality(S)
<1>1. n \in Nat /\ IsFiniteSet(S)
  BY FinitePlayers
<1>2. \E f \in [1..n -> S] : Ascends(f, n)
  <2>1. IdMax \in 0..IdMax
    OBVIOUS
  <2>2. QED BY <2>1, Enumerated DEF PlIds
<1>3. q \in [1..n -> S] /\ \A i, j \in DOMAIN q : i < j => q[i] < q[j]
  <2>1. \E f \in [1..n -> S] : \A i, j \in DOMAIN f : i < j => f[i] < f[j]
    BY <1>2 DEF Ascends
  <2>2. QED BY <2>1 DEF InOrder
<1> HIDE DEF q, n
<1>4. DOMAIN q = 1..n
  BY <1>3
<1>5. \A i, j \in 1..n : i # j => q[i] # q[j]
  <2> SUFFICES ASSUME NEW i \in 1..n, NEW j \in 1..n, i # j PROVE q[i] # q[j]
    OBVIOUS
  <2>1. q[i] \in Nat /\ q[j] \in Nat
    <3>1. q[i] \in S /\ q[j] \in S
      BY <1>3
    <3>2. \A x \in PlIds : x \in Nat
      BY DEF PlIds
    <3>3. QED BY <3>1, <3>2
  <2>2. q[i] < q[j] \/ q[j] < q[i]
    BY <1>3, <1>4
  <2>3. QED BY <2>1, <2>2
<1>6. \A x \in S : \E i \in 1..n : q[i] = x
  <2>1. q \in Injection(1..n, S)
    BY <1>3, <1>5 DEF Injection, IsInjective
  <2>2. IsFiniteSet(1..n) /\ Cardinality(1..n) = n
    BY <1>1, FS_Interval
  <2>3. Cardinality(1..n) = Cardinality(S)
    BY <2>2 DEF n
  <2>4. q \in Surjection(1..n, S)
    BY <2>1, <2>3, <1>1, FS_Injection
  <2>5. QED BY <2>4 DEF Surjection
<1>7. QED BY <1>1, <1>3, <1>4, <1>5, <1>6 DEF q, n

-----------------------------------------------------------------------------
(* The state of the server as the handlers pass it on: typed, whatever     *)
(* they are in the middle of.                                              *)
StateFields ==
  {"state", "pstate", "peerOf", "current", "fields", "lost", "ranked", "holds",
   "started", "socks", "closing", "out", "died"}

Message == [to : SUBSET Peers, event : Event]
Deaths == {"", "stopped", "match not started", "ranked field without player"}

RosterOK(s) ==
  /\ DOMAIN s.pstate \subseteq PlIds /\ s.pstate \in [DOMAIN s.pstate -> PlayerStates]
  /\ s.peerOf \in [DOMAIN s.pstate -> Peers \union {Local}]
  /\ s.current \in 0..IdMax

BoardOK(s) ==
  /\ s.fields \subseteq PlIds /\ s.lost \subseteq s.fields /\ s.ranked \subseteq s.fields
  /\ s.holds \subseteq DOMAIN s.pstate /\ s.holds \subseteq s.fields
  /\ s.started \in BOOLEAN

PeersOK(s) ==
  s.socks \in Seq(Peers) /\ IsInjective(s.socks) /\ s.closing \subseteq Range(s.socks)

OutOK(s) == s.out \in Seq(Message) /\ s.died \in Deaths

Typed(s) == DOMAIN s = StateFields /\ RosterOK(s) /\ BoardOK(s) /\ PeersOK(s) /\ OutOK(s)

(* What a handler leaves alone.                                            *)
SameRoster(r, s) == r.pstate = s.pstate /\ r.peerOf = s.peerOf /\ r.current = s.current
SameBoard(r, s) ==
  /\ r.fields = s.fields /\ r.lost = s.lost /\ r.ranked = s.ranked /\ r.holds = s.holds
  /\ r.started = s.started
SamePeers(r, s) == r.socks = s.socks /\ r.closing = s.closing

(* Sending adds to what has been sent, and does nothing else.              *)
LEMMA SendTyped ==
  ASSUME NEW s, Typed(s), NEW peers \in SUBSET Peers, NEW event \in Event
  PROVE  LET r == Send(s, peers, event)
         IN  /\ Typed(r) /\ r.state = s.state /\ r.died = s.died
             /\ SameRoster(r, s) /\ SameBoard(r, s) /\ SamePeers(r, s)
<1> DEFINE r == Send(s, peers, event)
<1>1. DOMAIN s = StateFields
  BY DEF Typed
<1>2. DOMAIN r = StateFields /\ r.out = Append(s.out, [to |-> peers, event |-> event])
  BY <1>1 DEF Send, StateFields
<1>3. r.state = s.state /\ r.died = s.died
  BY <1>1 DEF Send, StateFields
<1>4. SameRoster(r, s) /\ SameBoard(r, s) /\ SamePeers(r, s)
  BY <1>1 DEF Send, StateFields, SameRoster, SameBoard, SamePeers
<1>5. r.out \in Seq(Message)
  <2>1. s.out \in Seq(Message)
    BY DEF Typed, OutOK
  <2>2. [to |-> peers, event |-> event] \in Message
    BY DEF Message
  <2>3. QED BY <1>2, <2>1, <2>2, AppendProperties
<1> HIDE DEF r
<1>6. Typed(r)
  BY <1>2, <1>3, <1>4, <1>5
     DEF Typed, RosterOK, BoardOK, PeersOK, OutOK, SameRoster, SameBoard, SamePeers
<1>7. QED BY <1>3, <1>4, <1>6 DEF r

(* The events of a handler, sent to all the peers.                         *)
LEMMA BroadcastTyped ==
  ASSUME NEW s, Typed(s), NEW event \in Event
  PROVE  LET r == Broadcast(s, event)
         IN  /\ Typed(r) /\ r.state = s.state /\ r.died = s.died
             /\ SameRoster(r, s) /\ SameBoard(r, s) /\ SamePeers(r, s)
<1>1. Range(s.socks) \in SUBSET Peers
  <2>1. s.socks \in Seq(Peers)
    BY DEF Typed, PeersOK
  <2>2. QED BY <2>1 DEF Range
<1>2. QED BY <1>1, SendTyped DEF Broadcast

(* The events that are sent are events.                                    *)
LEMMA Events ==
  /\ \A st \in {"LOBBY", "GAME_INIT", "GAME_READY", "GAME"} : [type |-> "STATE", state |-> st] \in Event
  /\ \A p \in PlIds, st \in PlayerStates \union {"QUIT"} :
       [type |-> "PLAYER_STATE", plid |-> p, state |-> st] \in Event
  /\ \A p \in PlIds, t \in {"PLAYER_CONF", "JOINED", "FIELD", "RANK"} : [type |-> t, plid |-> p] \in Event
<1>1. \A st \in {"LOBBY", "GAME_INIT", "GAME_READY", "GAME"} : [type |-> "STATE", state |-> st] \in Event
  BY DEF Event
<1>2. \A p \in PlIds, st \in PlayerStates \union {"QUIT"} :
        [type |-> "PLAYER_STATE", plid |-> p, state |-> st] \in Event
  BY DEF Event
<1>3. \A p \in PlIds, t \in {"PLAYER_CONF", "JOINED", "FIELD", "RANK"} : [type |-> t, plid |-> p] \in Event
  BY DEF Event
<1>4. QED BY <1>1, <1>2, <1>3

(* A failed assertion is noted, and nothing else changes.                  *)
LEMMA DieTyped ==
  ASSUME NEW s, Typed(s), NEW why \in Deaths \ {""}
  PROVE  LET r == Die(s, why)
         IN  /\ Typed(r) /\ r.state = s.state /\ r.died # ""
             /\ SameRoster(r, s) /\ SameBoard(r, s) /\ SamePeers(r, s)
<1> DEFINE r == Die(s, why)
<1>1. DOMAIN s = StateFields /\ s.died \in Deaths
  BY DEF Typed, OutOK
<1>2. DOMAIN r = StateFields /\ r.out = s.out /\ r.died = IF s.died = "" THEN why ELSE s.died
  BY <1>1 DEF Die, StateFields
<1>3. r.state = s.state
  BY <1>1 DEF Die, StateFields
<1>4. SameRoster(r, s) /\ SameBoard(r, s) /\ SamePeers(r, s)
  BY <1>1 DEF Die, StateFields, SameRoster, SameBoard, SamePeers
<1> HIDE DEF r
<1>5. Typed(r)
  BY <1>1, <1>2, <1>3, <1>4
     DEF Typed, RosterOK, BoardOK, PeersOK, OutOK, SameRoster, SameBoard, SamePeers
<1>6. QED BY <1>1, <1>2, <1>3, <1>4, <1>5 DEF r

(* The players found in some state, all of them moved to another.          *)
LEMMA MoveAllTyped ==
  ASSUME NEW s, Typed(s), NEW from, NEW to \in PlayerStates
  PROVE  LET r == MoveAll(s, from, to)
         IN  /\ Typed(r) /\ r.state = s.state /\ r.died = s.died
             /\ SameBoard(r, s) /\ SamePeers(r, s)
             /\ r.peerOf = s.peerOf /\ r.current = s.current
             /\ r.pstate = [p \in DOMAIN s.pstate |-> IF s.pstate[p] = from THEN to ELSE s.pstate[p]]
<1> DEFINE r == MoveAll(s, from, to)
           ps == [p \in DOMAIN s.pstate |-> IF s.pstate[p] = from THEN to ELSE s.pstate[p]]
<1>1. DOMAIN s = StateFields
  BY DEF Typed
<1>2. DOMAIN r = StateFields /\ r.pstate = ps /\ r.state = s.state
  BY <1>1 DEF MoveAll, StateFields
<1>3. r.peerOf = s.peerOf /\ r.current = s.current /\ r.out = s.out /\ r.died = s.died
  BY <1>1 DEF MoveAll, StateFields
<1>4. SameBoard(r, s) /\ SamePeers(r, s)
  BY <1>1 DEF MoveAll, StateFields, SameBoard, SamePeers
<1>5. DOMAIN ps = DOMAIN s.pstate /\ ps \in [DOMAIN ps -> PlayerStates]
  BY DEF Typed, RosterOK
<1> HIDE DEF r, ps
<1>6. Typed(r)
  BY <1>2, <1>3, <1>4, <1>5
     DEF Typed, RosterOK, BoardOK, PeersOK, OutOK, SameBoard, SamePeers
<1>7. QED BY <1>2, <1>3, <1>4, <1>6 DEF r, ps

(* What the calls a handler makes leave to the handler itself.             *)
Keeps(r, s) == SamePeers(r, s) /\ r.peerOf = s.peerOf /\ r.current = s.current

(* setState: the state, and the players it moves with it.                  *)
LEMMA SetStateTyped ==
  ASSUME NEW s, Typed(s), NEW st \in {"LOBBY", "GAME_INIT", "GAME_READY", "GAME"}
  PROVE  LET r == SetState(s, st)
         IN  /\ Typed(r) /\ r.state = st /\ r.died = s.died
             /\ SameBoard(r, s) /\ Keeps(r, s)
             /\ DOMAIN r.pstate = DOMAIN s.pstate
             /\ \A p \in DOMAIN s.pstate :
                  r.pstate[p] = CASE st = "GAME_INIT" /\ s.pstate[p] = "LOBBY_READY" -> "GAME_INIT"
                                  [] st = "GAME" /\ s.pstate[p] = "GAME_READY" -> "GAME"
                                  [] OTHER -> s.pstate[p]
<1> DEFINE e == [type |-> "STATE", state |-> st]
           sent == Broadcast(s, e)
           moved == CASE st = "GAME_INIT" -> MoveAll(sent, "LOBBY_READY", "GAME_INIT")
                      [] st = "GAME"      -> MoveAll(sent, "GAME_READY", "GAME")
                      [] OTHER            -> sent
           r == SetState(s, st)
<1>1. /\ Typed(sent) /\ sent.died = s.died
      /\ SameRoster(sent, s) /\ SameBoard(sent, s) /\ SamePeers(sent, s)
  <2>1. e \in Event
    BY Events
  <2> HIDE DEF e
  <2>2. QED BY <2>1, BroadcastTyped
<1> HIDE DEF sent
<1>2. /\ Typed(moved) /\ moved.died = s.died
      /\ SameBoard(moved, s) /\ Keeps(moved, s)
      /\ DOMAIN moved.pstate = DOMAIN s.pstate
      /\ \A p \in DOMAIN s.pstate :
           moved.pstate[p] = CASE st = "GAME_INIT" /\ s.pstate[p] = "LOBBY_READY" -> "GAME_INIT"
                               [] st = "GAME" /\ s.pstate[p] = "GAME_READY" -> "GAME"
                               [] OTHER -> s.pstate[p]
  <2>1. CASE st = "GAME_INIT"
    <3>1. "GAME_INIT" \in PlayerStates /\ moved = MoveAll(sent, "LOBBY_READY", "GAME_INIT")
      BY <2>1 DEF PlayerStates
    <3> HIDE DEF moved
    <3>2. /\ Typed(moved) /\ moved.died = sent.died /\ moved.current = sent.current
          /\ SameBoard(moved, sent) /\ SamePeers(moved, sent) /\ moved.peerOf = sent.peerOf
          /\ moved.pstate = [p \in DOMAIN sent.pstate |->
                              IF sent.pstate[p] = "LOBBY_READY" THEN "GAME_INIT" ELSE sent.pstate[p]]
      BY <3>1, <1>1, MoveAllTyped
    <3>3. QED BY <3>2, <1>1, <2>1 DEF SameRoster, SameBoard, SamePeers, Keeps
  <2>2. CASE st = "GAME"
    <3>1. "GAME" \in PlayerStates /\ moved = MoveAll(sent, "GAME_READY", "GAME")
      BY <2>2 DEF PlayerStates
    <3> HIDE DEF moved
    <3>2. /\ Typed(moved) /\ moved.died = sent.died /\ moved.current = sent.current
          /\ SameBoard(moved, sent) /\ SamePeers(moved, sent) /\ moved.peerOf = sent.peerOf
          /\ moved.pstate = [p \in DOMAIN sent.pstate |->
                              IF sent.pstate[p] = "GAME_READY" THEN "GAME" ELSE sent.pstate[p]]
      BY <3>1, <1>1, MoveAllTyped
    <3>3. QED BY <3>2, <1>1, <2>2 DEF SameRoster, SameBoard, SamePeers, Keeps
  <2>3. CASE st # "GAME_INIT" /\ st # "GAME"
    <3>1. moved = sent
      BY <2>3
    <3> HIDE DEF moved
    <3>2. QED BY <3>1, <1>1, <2>3 DEF SameRoster, SameBoard, SamePeers, Keeps
  <2>4. QED BY <2>1, <2>2, <2>3
<1>3. r = [moved EXCEPT !.state = st]
  BY DEF SetState, sent
<1> HIDE DEF moved, r
<1>4. DOMAIN moved = StateFields
  BY <1>2 DEF Typed
<1>5. DOMAIN r = StateFields /\ r.state = st /\ r.out = moved.out /\ r.died = moved.died
  BY <1>3, <1>4 DEF StateFields
<1>6. SameRoster(r, moved) /\ SameBoard(r, moved) /\ SamePeers(r, moved)
  BY <1>3, <1>4 DEF StateFields, SameRoster, SameBoard, SamePeers
<1>7. Typed(r)
  BY <1>2, <1>5, <1>6
     DEF Typed, RosterOK, BoardOK, PeersOK, OutOK, SameRoster, SameBoard, SamePeers
<1>8. SameBoard(r, s) /\ Keeps(r, s) /\ r.died = s.died
  BY <1>2, <1>5, <1>6 DEF SameRoster, SameBoard, SamePeers, Keeps
<1>9. r.pstate = moved.pstate
  BY <1>6 DEF SameRoster
<1>10. QED BY <1>2, <1>5, <1>7, <1>8, <1>9 DEF r

(* Sets of fields that a handler gives another value.                      *)
LEMMA StartMatchTyped ==
  ASSUME NEW s, Typed(s)
  PROVE  LET r == StartMatch(s)
         IN  /\ Typed(r) /\ r.state = "GAME" /\ r.died = s.died /\ r.started = TRUE
             /\ r.holds = s.holds /\ Keeps(r, s)
             /\ DOMAIN r.pstate = DOMAIN s.pstate
             /\ \A p \in DOMAIN s.pstate :
                  r.pstate[p] = IF s.pstate[p] = "GAME_READY" THEN "GAME" ELSE s.pstate[p]
<1> DEFINE t == [s EXCEPT !.started = TRUE, !.lost = {}]
<1>1. DOMAIN s = StateFields
  BY DEF Typed
<1>2. /\ DOMAIN t = StateFields /\ t.started = TRUE /\ t.lost = {} /\ t.out = s.out
      /\ t.died = s.died /\ t.fields = s.fields /\ t.ranked = s.ranked /\ t.holds = s.holds
  BY <1>1 DEF StateFields
<1>3. SameRoster(t, s) /\ SamePeers(t, s)
  BY <1>1 DEF StateFields, SameRoster, SamePeers
<1>4. StartMatch(s) = SetState(t, "GAME")
  BY DEF StartMatch
<1> HIDE DEF t
<1>5. Typed(t)
  BY <1>2, <1>3
     DEF Typed, RosterOK, BoardOK, PeersOK, OutOK, SameRoster, SamePeers
<1> DEFINE r == StartMatch(s)
<1> HIDE DEF r
<1>6. /\ Typed(r) /\ r.state = "GAME" /\ r.died = t.died
      /\ SameBoard(r, t) /\ Keeps(r, t)
      /\ DOMAIN r.pstate = DOMAIN t.pstate
      /\ \A p \in DOMAIN t.pstate :
           r.pstate[p] = IF t.pstate[p] = "GAME_READY" THEN "GAME" ELSE t.pstate[p]
  <2>1. r = SetState(t, "GAME")
    BY <1>4 DEF r
  <2>2. QED BY <2>1, <1>5, SetStateTyped
<1>7. QED BY <1>2, <1>3, <1>6 DEF SameRoster, SameBoard, SamePeers, Keeps, r

-----------------------------------------------------------------------------
(* What the state of the server says about the players and the match.      *)

(* Between two calls of a handler that is not stopping the server.         *)
Sound(s) ==
  /\ s.state \in {"LOBBY", "GAME_READY", "GAME"}
  /\ s.started <=> s.state = "GAME"
  /\ s.state = "LOBBY" => s.holds = {} /\ InState(s, "GAME_READY") = {}
  /\ s.state = "GAME_READY" => s.holds = InState(s, "GAME_INIT") \union InState(s, "GAME_READY")
  /\ s.state = "GAME" => /\ InState(s, "GAME_READY") = {}
                         /\ \A p \in s.holds : s.pstate[p] \in {"GAME", "LOBBY"}
  /\ s.state # "LOBBY" => InState(s, "LOBBY_READY") = {}

(* The lobby has no place left, or just one player more is ready.          *)
NotPast(s) == s.state = "LOBBY" => Cardinality(InState(s, "LOBBY_READY")) <= PlNbMax
Waits(s) ==
  /\ s.state = "LOBBY" => Cardinality(InState(s, "LOBBY_READY")) < PlNbMax
  /\ s.state = "GAME_READY" => InState(s, "GAME_INIT") # {}

(* At the end of a handler.                                                *)
Settled(s) == Typed(s) /\ s.state \in ServerStates /\ (s.state = "LOBBY" => s.holds = {})
Fit(s) == Sound(s) /\ Waits(s)

(* checkAllPlayersReady while the match is prepared: the match starts with *)
(* the last player ready, and not before.                                  *)
LEMMA CheckGameReadySettles ==
  ASSUME NEW s, Settled(s)
  PROVE  LET r == CheckGameReady(s)
         IN  /\ Settled(r) /\ r.died = s.died /\ Keeps(r, s)
             /\ DOMAIN r.pstate = DOMAIN s.pstate
             /\ s.state = "LOBBY" => r = s
             /\ InState(r, "GAME_INIT") = InState(s, "GAME_INIT")
             /\ Sound(s) => /\ Sound(r)
                            /\ r.state = "GAME_READY" => InState(r, "GAME_INIT") # {}
                            /\ InState(s, "GAME_INIT") # {} => r = s
<1> DEFINE r == CheckGameReady(s)
<1>1. CASE s.state = "GAME_READY" /\ InState(s, "GAME_INIT") = {}
  <2>1. r = StartMatch(s)
    BY <1>1 DEF CheckGameReady
  <2> HIDE DEF r
  <2>2. /\ Typed(r) /\ r.state = "GAME" /\ r.died = s.died /\ r.started = TRUE
        /\ r.holds = s.holds /\ Keeps(r, s)
        /\ DOMAIN r.pstate = DOMAIN s.pstate
        /\ \A p \in DOMAIN s.pstate :
             r.pstate[p] = IF s.pstate[p] = "GAME_READY" THEN "GAME" ELSE s.pstate[p]
    BY <2>1, StartMatchTyped DEF Settled
  <2>3. Settled(r)
    BY <2>2 DEF Settled, ServerStates
  <2>4. InState(r, "GAME_INIT") = {} /\ InState(r, "GAME_READY") = {}
    BY <2>2, <1>1 DEF InState
  <2>5. InState(r, "LOBBY_READY") = InState(s, "LOBBY_READY")
    BY <2>2 DEF InState
  <2>6. ASSUME Sound(s) PROVE Sound(r)
    <3>1. \A p \in r.holds : r.pstate[p] = "GAME"
      <4>1. \A p \in s.holds : p \in InState(s, "GAME_READY")
        BY <2>6, <1>1 DEF Sound
      <4>2. QED BY <4>1, <2>2 DEF InState
    <3>2. InState(r, "LOBBY_READY") = {}
      BY <2>5, <2>6, <1>1 DEF Sound
    <3>3. QED BY <3>1, <3>2, <2>2, <2>4 DEF Sound
  <2>7. QED BY <2>2, <2>3, <2>4, <2>6, <1>1 DEF r
<1>2. CASE ~ (s.state = "GAME_READY" /\ InState(s, "GAME_INIT") = {})
  <2>1. r = s
    BY <1>2 DEF CheckGameReady
  <2>2. QED BY <2>1, <1>2 DEF Keeps, SamePeers
<1>3. QED BY <1>1, <1>2

(* The state of a player, told to all.                                     *)
LEMMA SetPlayerStateTyped ==
  ASSUME NEW s, Typed(s), NEW p \in DOMAIN s.pstate, NEW st \in PlayerStates
  PROVE  LET r == SetPlayerState(s, p, st)
         IN  /\ Typed(r) /\ r.state = s.state /\ r.died = s.died
             /\ SameBoard(r, s) /\ Keeps(r, s)
             /\ r.pstate = [s.pstate EXCEPT ![p] = st]
<1> DEFINE t == [s EXCEPT !.pstate[p] = st]
           e == [type |-> "PLAYER_STATE", plid |-> p, state |-> st]
<1>1. DOMAIN s = StateFields
  BY DEF Typed
<1>2. /\ DOMAIN t = StateFields /\ t.pstate = [s.pstate EXCEPT ![p] = st]
      /\ t.peerOf = s.peerOf /\ t.current = s.current
      /\ t.state = s.state /\ t.out = s.out /\ t.died = s.died
  BY <1>1 DEF StateFields
<1>3. SameBoard(t, s) /\ SamePeers(t, s)
  BY <1>1 DEF StateFields, SameBoard, SamePeers
<1>4. SetPlayerState(s, p, st) = Broadcast(t, e)
  BY DEF SetPlayerState, BroadcastPlayerState
<1>5. e \in Event
  BY Events DEF Typed, RosterOK
<1>6. DOMAIN t.pstate = DOMAIN s.pstate /\ t.pstate \in [DOMAIN s.pstate -> PlayerStates]
  BY <1>2 DEF Typed, RosterOK
<1> HIDE DEF t, e
<1>7. Typed(t)
  BY <1>2, <1>3, <1>6 DEF Typed, RosterOK, BoardOK, PeersOK, OutOK, SameBoard, SamePeers
<1> DEFINE r == SetPlayerState(s, p, st)
<1> HIDE DEF r
<1>8. /\ Typed(r) /\ r.state = t.state /\ r.died = t.died
      /\ SameRoster(r, t) /\ SameBoard(r, t) /\ SamePeers(r, t)
  <2>1. r = Broadcast(t, e)
    BY <1>4 DEF r
  <2>2. QED BY <2>1, <1>5, <1>7, BroadcastTyped
<1>9. QED BY <1>2, <1>3, <1>8 DEF r, SameRoster, SameBoard, SamePeers, Keeps

(* A player that has its field is ready.                                   *)
LEMMA LocalReadySettles ==
  ASSUME NEW s, Settled(s), NEW p \in DOMAIN s.pstate
  PROVE  LET r == LocalReady(s, p)
         IN  /\ Settled(r) /\ r.died = s.died /\ Keeps(r, s)
             /\ DOMAIN r.pstate = DOMAIN s.pstate
             /\ s.state # "LOBBY" => r.state # "LOBBY"
             /\ InState(r, "GAME_INIT") = InState(s, "GAME_INIT") \ {p}
             /\ Sound(s) /\ s.state = "GAME_READY" /\ s.pstate[p] = "GAME_INIT" =>
                  /\ Sound(r)
                  /\ r.state = "GAME_READY" => InState(r, "GAME_INIT") # {}
                  /\ InState(r, "GAME_INIT") # {} => r.state = "GAME_READY"
<1> DEFINE t == SetPlayerState(s, p, "GAME_READY")
           r == LocalReady(s, p)
<1>1. "GAME_READY" \in PlayerStates
  BY DEF PlayerStates
<1>2. /\ Typed(t) /\ t.state = s.state /\ t.died = s.died
      /\ SameBoard(t, s) /\ Keeps(t, s)
      /\ t.pstate = [s.pstate EXCEPT ![p] = "GAME_READY"]
  BY <1>1, SetPlayerStateTyped DEF Settled
<1>3. r = CheckGameReady(t)
  BY DEF LocalReady
<1> HIDE DEF t, r
<1>4. Settled(t) /\ DOMAIN t.pstate = DOMAIN s.pstate
  BY <1>2 DEF Settled, SameBoard
<1>5. /\ Settled(r) /\ r.died = t.died /\ Keeps(r, t)
      /\ DOMAIN r.pstate = DOMAIN t.pstate
      /\ InState(r, "GAME_INIT") = InState(t, "GAME_INIT")
      /\ Sound(t) => /\ Sound(r)
                     /\ r.state = "GAME_READY" => InState(r, "GAME_INIT") # {}
                     /\ InState(t, "GAME_INIT") # {} => r = t
  BY <1>3, <1>4, CheckGameReadySettles
<1>6. InState(t, "GAME_INIT") = InState(s, "GAME_INIT") \ {p}
  BY <1>2 DEF InState
<1>7. ASSUME Sound(s), s.state = "GAME_READY", s.pstate[p] = "GAME_INIT"
      PROVE  Sound(t)
  <2>1. InState(t, "GAME_READY") = InState(s, "GAME_READY") \union {p}
    BY <1>2 DEF InState
  <2>2. p \in InState(s, "GAME_INIT")
    BY <1>7 DEF InState
  <2>3. InState(t, "LOBBY_READY") = InState(s, "LOBBY_READY") \ {p}
    BY <1>2 DEF InState
  <2>4. QED BY <1>2, <1>6, <1>7, <2>1, <2>2, <2>3 DEF Sound, SameBoard
<1>8. s.state # "LOBBY" => r.state # "LOBBY"
  BY <1>2, <1>3, StartMatchTyped DEF CheckGameReady
<1>9. QED BY <1>2, <1>4, <1>5, <1>6, <1>7, <1>8 DEF r, Keeps, SamePeers

-----------------------------------------------------------------------------
(* The loops of prepareMatch.  A loop starts from a state, with the items  *)
(* it goes through and how many they are.                                  *)
Start(s, q, n) == [from |-> s, items |-> q, number |-> n]
Done(c, k) == {c.items[i] : i \in 1..k}

(* The players of the server's process, one after the other: the match     *)
(* does not start before the last of those it waits for.                   *)
ReadyingInv(c, k, r) ==
  /\ Settled(r) /\ r.died = c.from.died /\ Keeps(r, c.from)
  /\ DOMAIN r.pstate = DOMAIN c.from.pstate
  /\ r.state # "LOBBY"
  /\ InState(r, "GAME_INIT") = InState(c.from, "GAME_INIT") \ Done(c, k)
  /\ Sound(c.from) /\ c.from.state = "GAME_READY" /\ InState(c.from, "GAME_INIT") # {} =>
       /\ Sound(r)
       /\ InState(r, "GAME_INIT") # {} <=> r.state = "GAME_READY"

Readying == INSTANCE Loops WITH Step <- LAMBDA c, s, p : LocalReady(s, p), Inv <- ReadyingInv

(* Once all local players are ready, the match waits for others or has     *)
(* started.                                                                *)
LEMMA LocalPlayersReadySettles ==
  ASSUME NEW s, Settled(s), s.state # "LOBBY"
  PROVE  LET r == LocalPlayersReady(s)
         IN  /\ Settled(r) /\ r.died = s.died /\ Keeps(r, s)
             /\ DOMAIN r.pstate = DOMAIN s.pstate /\ r.state # "LOBBY"
             /\ Sound(s) /\ s.state = "GAME_READY" /\ InState(s, "GAME_INIT") # {} =>
                  Sound(r) /\ Waits(r)
<1> DEFINE S == {p \in InState(s, "GAME_INIT") : s.peerOf[p] = Local}
           q == InOrder(S)
           n == Cardinality(S)
           c == Start(s, q, n)
           r == Readying!Loop(c, s, q)
<1>1. LocalPlayersReady(s) = r
  BY DEF LocalPlayersReady, Readying!Loop, Readying!MapThenFoldSet,
         Readying!Max, FoldLeft, MapThenFoldSet, Max
<1>2. S \in SUBSET InState(s, "GAME_INIT") /\ S \in SUBSET PlIds
  BY DEF InState, Settled, Typed, RosterOK
<1> HIDE DEF S
<1>3. /\ n \in Nat /\ q \in [1..n -> S] /\ DOMAIN q = 1..n
      /\ \A i, j \in 1..n : i # j => q[i] # q[j]
  BY <1>2, InOrderEnumerates
<1> HIDE DEF q, n
<1>4. c.from = s /\ c.items = q
  BY DEF Start
<1> HIDE DEF c
<1>5. ReadyingInv(c, 0, s)
  <2>1. Done(c, 0) = {}
    BY DEF Done
  <2>2. Keeps(s, s)
    BY DEF Keeps, SamePeers
  <2>3. QED BY <1>4, <2>1, <2>2 DEF ReadyingInv
<1>6. ASSUME NEW k \in 1..n, NEW t, ReadyingInv(c, k - 1, t)
      PROVE  ReadyingInv(c, k, LocalReady(t, q[k]))
  <2>1. q[k] \in InState(s, "GAME_INIT")
    BY <1>2, <1>3
  <2>2. q[k] \notin Done(c, k - 1)
    <3>1. \A i \in 1..(k - 1) : i \in 1..n /\ i # k
      BY <1>3
    <3>2. QED BY <3>1, <1>3, <1>4 DEF Done
  <2>3. Done(c, k) = Done(c, k - 1) \union {q[k]}
    <3>1. \A i : i \in 1..k <=> i \in 1..(k - 1) \/ i = k
      BY <1>3
    <3>2. QED BY <3>1, <1>4 DEF Done
  <2>4. /\ Settled(t) /\ t.died = s.died /\ Keeps(t, s) /\ t.state # "LOBBY"
        /\ DOMAIN t.pstate = DOMAIN s.pstate
        /\ InState(t, "GAME_INIT") = InState(s, "GAME_INIT") \ Done(c, k - 1)
        /\ Sound(s) /\ s.state = "GAME_READY" /\ InState(s, "GAME_INIT") # {} =>
             Sound(t) /\ (InState(t, "GAME_INIT") # {} <=> t.state = "GAME_READY")
    BY <1>4, <1>6 DEF ReadyingInv
  <2>5. q[k] \in InState(t, "GAME_INIT")
    BY <2>1, <2>2, <2>4
  <2>6. q[k] \in DOMAIN t.pstate /\ t.pstate[q[k]] = "GAME_INIT"
    BY <2>5 DEF InState
  <2> DEFINE u == LocalReady(t, q[k])
  <2>7. /\ Settled(u) /\ u.died = t.died /\ Keeps(u, t)
        /\ DOMAIN u.pstate = DOMAIN t.pstate /\ u.state # "LOBBY"
        /\ InState(u, "GAME_INIT") = InState(t, "GAME_INIT") \ {q[k]}
        /\ Sound(t) /\ t.state = "GAME_READY" =>
             /\ Sound(u)
             /\ u.state = "GAME_READY" => InState(u, "GAME_INIT") # {}
             /\ InState(u, "GAME_INIT") # {} => u.state = "GAME_READY"
    BY <2>4, <2>6, LocalReadySettles
  <2> HIDE DEF u
  <2>8. InState(u, "GAME_INIT") = InState(s, "GAME_INIT") \ Done(c, k)
    BY <2>3, <2>4, <2>7
  <2>9. Keeps(u, s)
    BY <2>4, <2>7 DEF Keeps, SamePeers
  <2>10. InState(t, "GAME_INIT") # {}
    BY <2>5
  <2>11. ReadyingInv(c, k, u)
    BY <1>4, <2>4, <2>7, <2>8, <2>9, <2>10 DEF ReadyingInv
  <2>12. QED BY <2>11 DEF u
<1>7. ReadyingInv(c, n, r)
  <2> HIDE DEF r
  <2>1. ReadyingInv(c, n, Readying!Loop(c, s, q))
    BY <1>3, <1>5, <1>6, Readying!LoopInvariant
  <2>2. QED BY <2>1 DEF r
<1> HIDE DEF r
<1>8. QED BY <1>1, <1>4, <1>7 DEF ReadyingInv, Waits

(* The fields of the players, one after the other.                         *)
MakingInv(c, k, r) ==
  /\ Typed(r) /\ r.state = c.from.state /\ r.died = c.from.died
  /\ SameRoster(r, c.from) /\ SamePeers(r, c.from) /\ r.started = c.from.started
  /\ r.holds = c.from.holds \union Done(c, k)

Making == INSTANCE Loops WITH Step <- LAMBDA c, s, p : MakeField(s, p), Inv <- MakingInv

(* A field for a player.                                                   *)
LEMMA MakeFieldTyped ==
  ASSUME NEW s, Typed(s), NEW p \in DOMAIN s.pstate
  PROVE  LET r == MakeField(s, p)
         IN  /\ Typed(r) /\ r.state = s.state /\ r.died = s.died
             /\ SameRoster(r, s) /\ SamePeers(r, s) /\ r.started = s.started
             /\ r.holds = s.holds \union {p}
<1> DEFINE t == AddField(s, p)
           e == [type |-> "FIELD", plid |-> p]
           r == MakeField(s, p)
<1>1. DOMAIN s = StateFields /\ p \in PlIds
  BY DEF Typed, RosterOK
<1>2. /\ DOMAIN t = StateFields /\ t.fields = s.fields \union {p} /\ t.holds = s.holds \union {p}
      /\ t.lost = s.lost /\ t.ranked = s.ranked /\ t.started = s.started
      /\ t.state = s.state /\ t.out = s.out /\ t.died = s.died
  BY <1>1 DEF AddField, StateFields
<1>3. SameRoster(t, s) /\ SamePeers(t, s)
  BY <1>1 DEF AddField, StateFields, SameRoster, SamePeers
<1>4. r = Broadcast(t, e)
  BY DEF MakeField
<1>5. e \in Event
  BY <1>1, Events
<1> HIDE DEF t, e, r
<1>6. Typed(t)
  BY <1>1, <1>2, <1>3 DEF Typed, RosterOK, BoardOK, PeersOK, OutOK, SameRoster, SamePeers
<1>7. /\ Typed(r) /\ r.state = t.state /\ r.died = t.died
      /\ SameRoster(r, t) /\ SameBoard(r, t) /\ SamePeers(r, t)
  BY <1>4, <1>5, <1>6, BroadcastTyped
<1>8. QED BY <1>2, <1>3, <1>7 DEF r, SameRoster, SameBoard, SamePeers

(* Afterwards the players of the match, and they only, have a field.       *)
LEMMA MakeFieldsTyped ==
  ASSUME NEW s, Typed(s)
  PROVE  LET r == MakeFields(s)
         IN  /\ Typed(r) /\ r.state = s.state /\ r.died = s.died
             /\ SameRoster(r, s) /\ SamePeers(r, s) /\ r.started = s.started
             /\ r.holds = s.holds \union InState(s, "GAME_INIT")
<1> DEFINE S == InState(s, "GAME_INIT")
           q == InOrder(S)
           n == Cardinality(S)
           c == Start(s, q, n)
           r == Making!Loop(c, s, q)
<1>1. MakeFields(s) = r
  BY DEF MakeFields, Making!Loop, Making!MapThenFoldSet,
         Making!Max, FoldLeft, MapThenFoldSet, Max
<1>2. S \in SUBSET DOMAIN s.pstate /\ S \in SUBSET PlIds
  BY DEF InState, Typed, RosterOK
<1> HIDE DEF S
<1>3. /\ n \in Nat /\ q \in [1..n -> S] /\ DOMAIN q = 1..n
      /\ \A x \in S : \E i \in 1..n : q[i] = x
  BY <1>2, InOrderEnumerates
<1> HIDE DEF q, n
<1>4. c.from = s /\ c.items = q
  BY DEF Start
<1> HIDE DEF c
<1>5. MakingInv(c, 0, s)
  <2>1. Done(c, 0) = {}
    BY DEF Done
  <2>2. QED BY <1>4, <2>1 DEF MakingInv, SameRoster, SamePeers
<1>6. ASSUME NEW k \in 1..n, NEW t, MakingInv(c, k - 1, t)
      PROVE  MakingInv(c, k, MakeField(t, q[k]))
  <2>1. Done(c, k) = Done(c, k - 1) \union {q[k]}
    <3>1. \A i : i \in 1..k <=> i \in 1..(k - 1) \/ i = k
      BY <1>3
    <3>2. QED BY <3>1, <1>4 DEF Done
  <2>2. /\ Typed(t) /\ t.state = s.state /\ t.died = s.died
        /\ SameRoster(t, s) /\ SamePeers(t, s) /\ t.started = s.started
        /\ t.holds = s.holds \union Done(c, k - 1)
    BY <1>4, <1>6 DEF MakingInv
  <2>3. q[k] \in DOMAIN t.pstate
    BY <1>2, <1>3, <2>2 DEF SameRoster
  <2> DEFINE u == MakeField(t, q[k])
  <2>4. /\ Typed(u) /\ u.state = t.state /\ u.died = t.died
        /\ SameRoster(u, t) /\ SamePeers(u, t) /\ u.started = t.started
        /\ u.holds = t.holds \union {q[k]}
    BY <2>2, <2>3, MakeFieldTyped
  <2> HIDE DEF u
  <2>5. u.holds = s.holds \union Done(c, k)
    BY <2>1, <2>2, <2>4
  <2>6. MakingInv(c, k, u)
    BY <1>4, <2>2, <2>4, <2>5 DEF MakingInv, SameRoster, SamePeers
  <2>7. QED BY <2>6 DEF u
<1>7. MakingInv(c, n, r)
  <2> HIDE DEF r
  <2>1. MakingInv(c, n, Making!Loop(c, s, q))
    BY <1>3, <1>5, <1>6, Making!LoopInvariant
  <2>2. QED BY <2>1 DEF r
<1> HIDE DEF r
<1>8. Done(c, n) = S
  BY <1>3, <1>4 DEF Done
<1>9. QED BY <1>1, <1>4, <1>7, <1>8 DEF MakingInv, S

(* prepareMatch, from the lobby.                                           *)
LEMMA PrepareMatchSettles ==
  ASSUME NEW s, Settled(s), s.state = "LOBBY"
  PROVE  LET r == PrepareMatch(s)
         IN  /\ Settled(r) /\ r.died = s.died /\ Keeps(r, s)
             /\ DOMAIN r.pstate = DOMAIN s.pstate
             /\ Sound(s) /\ InState(s, "LOBBY_READY") # {} => Sound(r) /\ Waits(r)
<1> DEFINE cl == ClearMatch(s)
           init == SetState(cl, "GAME_INIT")
           made == MakeFields(init)
           ready == SetState(made, "GAME_READY")
           r == PrepareMatch(s)
<1>1. DOMAIN s = StateFields /\ Typed(s) /\ s.holds = {}
  BY DEF Settled, Typed
<1>2. /\ DOMAIN cl = StateFields /\ cl.fields = {} /\ cl.lost = {} /\ cl.ranked = {}
      /\ cl.holds = s.holds /\ cl.started = s.started /\ cl.out = s.out /\ cl.died = s.died
  BY <1>1 DEF ClearMatch, StateFields
<1>3. SameRoster(cl, s) /\ SamePeers(cl, s)
  BY <1>1 DEF ClearMatch, StateFields, SameRoster, SamePeers
<1>4. r = LocalPlayersReady(ready)
  BY DEF PrepareMatch
<1> HIDE DEF cl, r
<1>5. Typed(cl)
  BY <1>1, <1>2, <1>3 DEF Typed, RosterOK, BoardOK, PeersOK, OutOK, SameRoster, SamePeers
<1>6. /\ Typed(init) /\ init.died = cl.died
      /\ SameBoard(init, cl) /\ Keeps(init, cl)
      /\ DOMAIN init.pstate = DOMAIN cl.pstate
      /\ \A p \in DOMAIN cl.pstate :
           init.pstate[p] = IF cl.pstate[p] = "LOBBY_READY" THEN "GAME_INIT" ELSE cl.pstate[p]
  BY <1>5, SetStateTyped
<1> HIDE DEF init
<1>7. /\ Typed(made) /\ made.died = init.died
      /\ SameRoster(made, init) /\ SamePeers(made, init) /\ made.started = init.started
      /\ made.holds = init.holds \union InState(init, "GAME_INIT")
  BY <1>6, MakeFieldsTyped
<1> HIDE DEF made
<1>8. /\ Typed(ready) /\ ready.state = "GAME_READY" /\ ready.died = made.died
      /\ SameBoard(ready, made) /\ Keeps(ready, made)
      /\ DOMAIN ready.pstate = DOMAIN made.pstate
      /\ \A p \in DOMAIN made.pstate : ready.pstate[p] = made.pstate[p]
  BY <1>7, SetStateTyped
<1> HIDE DEF ready
<1>9. Settled(ready)
  BY <1>8 DEF Settled, ServerStates
<1>10. /\ ready.died = s.died /\ Keeps(ready, s) /\ DOMAIN ready.pstate = DOMAIN s.pstate
       /\ ready.started = s.started
  BY <1>2, <1>3, <1>6, <1>7, <1>8 DEF Keeps, SamePeers, SameRoster, SameBoard
<1>11. \A p \in DOMAIN s.pstate :
         ready.pstate[p] = IF s.pstate[p] = "LOBBY_READY" THEN "GAME_INIT" ELSE s.pstate[p]
  BY <1>3, <1>6, <1>7, <1>8 DEF SameRoster
<1>12. ready.holds = InState(ready, "GAME_INIT")
  <2>1. InState(ready, "GAME_INIT") = InState(init, "GAME_INIT")
    BY <1>7, <1>8 DEF InState, SameRoster
  <2>2. init.holds = {}
    BY <1>1, <1>2, <1>6 DEF SameBoard
  <2>3. QED BY <2>1, <2>2, <1>7, <1>8 DEF SameBoard
<1>13. ASSUME Sound(s), InState(s, "LOBBY_READY") # {}
       PROVE  Sound(ready) /\ InState(ready, "GAME_INIT") # {}
  <2>1. InState(ready, "GAME_READY") = {} /\ InState(ready, "LOBBY_READY") = {}
    <3>1. InState(s, "GAME_READY") = {}
      BY <1>13 DEF Sound
    <3>2. QED BY <3>1, <1>10, <1>11 DEF InState
  <2>2. InState(ready, "GAME_INIT") # {}
    BY <1>13, <1>10, <1>11 DEF InState
  <2>3. ready.started = FALSE
    BY <1>1, <1>10, <1>13 DEF Sound, Settled, Typed, BoardOK
  <2>4. QED BY <2>1, <2>2, <2>3, <1>8, <1>12 DEF Sound
<1>14. /\ Settled(r) /\ r.died = ready.died /\ Keeps(r, ready)
       /\ DOMAIN r.pstate = DOMAIN ready.pstate
       /\ Sound(ready) /\ ready.state = "GAME_READY" /\ InState(ready, "GAME_INIT") # {} =>
            Sound(r) /\ Waits(r)
  <2>1. ready.state # "LOBBY"
    BY <1>8
  <2>2. QED BY <2>1, <1>4, <1>9, LocalPlayersReadySettles
<1>15. Keeps(r, s)
  BY <1>10, <1>14 DEF Keeps, SamePeers
<1>16. QED BY <1>8, <1>10, <1>13, <1>14, <1>15 DEF r

(* checkAllPlayersReady: whatever made somebody ready or leave, afterwards *)
(* the lobby waits for players and the preparation for somebody.           *)
LEMMA CheckAllPlayersReadySettles ==
  ASSUME NEW s, Settled(s)
  PROVE  LET r == CheckAllPlayersReady(s)
         IN  /\ Settled(r) /\ r.died = s.died /\ Keeps(r, s)
             /\ DOMAIN r.pstate = DOMAIN s.pstate
             /\ Sound(s) /\ NotPast(s) => Fit(r)
<1> DEFINE r == CheckAllPlayersReady(s)
           L == InState(s, "LOBBY_READY")
<1>1. IsFiniteSet(L) /\ Cardinality(L) \in Nat
  <2>1. L \in SUBSET PlIds
    BY DEF InState, Settled, Typed, RosterOK
  <2> HIDE DEF L
  <2>2. QED BY <2>1, FinitePlayers
<1>2. CASE s.state = "LOBBY" /\ Cardinality(L) = PlNbMax
  <2>1. r = PrepareMatch(s)
    BY <1>2 DEF CheckAllPlayersReady
  <2>2. L # {}
    <3> HIDE DEF L
    <3>1. Cardinality(L) # 0
      BY <1>2
    <3>2. QED BY <3>1, <1>1, FS_EmptySet
  <2> HIDE DEF r
  <2>3. QED BY <2>1, <2>2, <1>2, PrepareMatchSettles DEF Fit, r
<1>3. CASE ~ (s.state = "LOBBY" /\ Cardinality(L) = PlNbMax)
  <2>1. r = CheckGameReady(s)
    BY <1>3 DEF CheckAllPlayersReady
  <2> HIDE DEF r
  <2>2. /\ Settled(r) /\ r.died = s.died /\ Keeps(r, s)
        /\ DOMAIN r.pstate = DOMAIN s.pstate
        /\ s.state = "LOBBY" => r = s
        /\ Sound(s) => Sound(r) /\ (r.state = "GAME_READY" => InState(r, "GAME_INIT") # {})
    BY <2>1, CheckGameReadySettles
  <2>3. ASSUME Sound(s), NotPast(s) PROVE Waits(r)
    <3>1. r.state = "LOBBY" => s.state = "LOBBY"
      BY <2>1, StartMatchTyped DEF CheckGameReady, Settled
    <3>2. s.state = "LOBBY" => Cardinality(L) < PlNbMax
      <4> HIDE DEF L
      <4>1. s.state = "LOBBY" => Cardinality(L) <= PlNbMax
        BY <2>3 DEF NotPast, L
      <4>2. QED BY <4>1, <1>1, <1>3
    <3>3. QED BY <3>1, <3>2, <2>2, <2>3 DEF Waits
  <2>4. QED BY <2>2, <2>3 DEF Fit, r
<1>4. QED BY <1>2, <1>3

-----------------------------------------------------------------------------
(* Ranking, the end of the match, and players that leave.                  *)
SameLife(r, s) ==
  r.state = s.state /\ r.started = s.started /\ r.holds = s.holds /\ r.pstate = s.pstate

(* Whether players and match follow the state depends on nothing else.     *)
LEMMA SameLifeFit ==
  ASSUME NEW r, NEW s, SameLife(r, s)
  PROVE  /\ Sound(r) <=> Sound(s)
         /\ Waits(r) <=> Waits(s)
<1>1. \A st : InState(r, st) = InState(s, st)
  BY DEF SameLife, InState
<1>2. Sound(r) <=> Sound(s)
  <2>1. r.state = s.state /\ r.started = s.started /\ r.holds = s.holds /\ r.pstate = s.pstate
    BY DEF SameLife
  <2>2. QED BY <1>1, <2>1 DEF Sound
<1>3. Waits(r) <=> Waits(s)
  BY <1>1 DEF Waits, SameLife
<1>4. QED BY <1>2, <1>3

(* stopMatch: back to the lobby, or the assertion fails.                   *)
LEMMA StopMatchSettles ==
  ASSUME NEW s, Settled(s)
  PROVE  LET r == StopMatch(s)
         IN  /\ Settled(r) /\ Keeps(r, s) /\ r.pstate = s.pstate
             /\ Fit(s) /\ r.died = "" => Fit(r)
<1> DEFINE r == StopMatch(s)
           freed == [s EXCEPT !.holds = {}]
           stopped == [ClearMatch(freed) EXCEPT !.started = FALSE]
<1>1. CASE s.state = "LOBBY"
  <2>1. r = s
    BY <1>1 DEF StopMatch
  <2>2. QED BY <2>1 DEF Keeps, SamePeers
<1>2. CASE s.state # "LOBBY"
  <2>1. DOMAIN s = StateFields /\ Typed(s)
    BY DEF Settled, Typed
  <2>2. /\ DOMAIN freed = StateFields /\ freed.holds = {}
        /\ freed.fields = s.fields /\ freed.lost = s.lost /\ freed.ranked = s.ranked
        /\ freed.started = s.started /\ freed.state = s.state /\ freed.out = s.out
        /\ freed.died = s.died
    BY <2>1 DEF StateFields
  <2>3. SameRoster(freed, s) /\ SamePeers(freed, s)
    BY <2>1 DEF StateFields, SameRoster, SamePeers
  <2>4. /\ DOMAIN stopped = StateFields /\ stopped.holds = freed.holds
        /\ stopped.fields = {} /\ stopped.lost = {} /\ stopped.ranked = {}
        /\ stopped.started = FALSE /\ stopped.out = freed.out /\ stopped.died = freed.died
        /\ SameRoster(stopped, freed) /\ SamePeers(stopped, freed)
    <3> HIDE DEF freed
    <3>1. QED BY <2>2 DEF ClearMatch, StateFields, SameRoster, SamePeers
  <2>5. r = IF s.started THEN SetState(stopped, "LOBBY") ELSE Die(freed, "match not started")
    BY <1>2 DEF StopMatch
  <2> HIDE DEF r, freed, stopped
  <2>6. Typed(freed)
    BY <2>1, <2>2, <2>3 DEF Typed, RosterOK, BoardOK, PeersOK, OutOK, SameRoster, SamePeers
  <2>7. CASE ~ s.started
    <3>1. "match not started" \in Deaths \ {""}
      BY DEF Deaths
    <3>2. /\ Typed(r) /\ r.state = freed.state /\ r.died # ""
          /\ SameRoster(r, freed) /\ SameBoard(r, freed) /\ SamePeers(r, freed)
      BY <3>1, <2>5, <2>6, <2>7, DieTyped
    <3>3. Settled(r)
      BY <3>2, <2>2 DEF Settled, SameBoard
    <3>4. QED BY <3>2, <3>3, <2>3 DEF r, Keeps, SamePeers, SameRoster
  <2>8. CASE s.started
    <3>1. Typed(stopped)
      BY <2>2, <2>4, <2>6 DEF Typed, RosterOK, BoardOK, PeersOK, OutOK, SameRoster, SamePeers
    <3>2. /\ Typed(r) /\ r.state = "LOBBY" /\ r.died = stopped.died
          /\ SameBoard(r, stopped) /\ Keeps(r, stopped)
          /\ DOMAIN r.pstate = DOMAIN stopped.pstate
          /\ \A p \in DOMAIN stopped.pstate : r.pstate[p] = stopped.pstate[p]
      BY <3>1, <2>5, <2>8, SetStateTyped
    <3>3. r.holds = {} /\ r.started = FALSE
      BY <3>2, <2>2, <2>4 DEF SameBoard
    <3>4. Settled(r)
      BY <3>2, <3>3 DEF Settled, ServerStates
    <3>5. r.pstate = s.pstate /\ Keeps(r, s)
      <4>1. stopped.pstate = s.pstate /\ Keeps(r, s)
        BY <3>2, <2>3, <2>4 DEF SameRoster, Keeps, SamePeers
      <4>2. r.pstate \in [DOMAIN r.pstate -> PlayerStates]
            /\ s.pstate \in [DOMAIN s.pstate -> PlayerStates]
        BY <3>2, <2>1 DEF Typed, RosterOK
      <4>3. QED BY <4>1, <4>2, <3>2
    <3>6. ASSUME Fit(s) PROVE Fit(r)
      <4>1. \A st : InState(r, st) = InState(s, st)
        BY <3>5 DEF InState
      <4>2. s.state = "GAME" /\ InState(s, "GAME_READY") = {} /\ InState(s, "LOBBY_READY") = {}
        BY <3>6, <2>8, <1>2 DEF Fit, Sound
      <4>3. Cardinality(InState(r, "LOBBY_READY")) = 0
        BY <4>1, <4>2, FS_EmptySet
      <4>4. QED BY <4>1, <4>2, <4>3, <3>2, <3>3 DEF Fit, Sound, Waits
    <3>7. QED BY <3>4, <3>5, <3>6 DEF r
  <2>9. QED BY <2>7, <2>8
<1>3. QED BY <1>1, <1>2

(* The ranks that are announced, one after the other.                      *)
RankingInv(c, k, r) ==
  /\ Typed(r) /\ SameLife(r, c.from) /\ Keeps(r, c.from)

Ranking == INSTANCE Loops WITH Step <- LAMBDA c, s, f : RankField(s, f), Inv <- RankingInv

(* Ranking any fields keeps the types, and the life of the match.          *)
LEMMA RankFieldsTyped ==
  ASSUME NEW s, Typed(s), NEW told \in SUBSET s.fields
  PROVE  LET r == RankFields(s, told)
         IN  Typed(r) /\ SameLife(r, s) /\ Keeps(r, s)
<1> DEFINE b == [s EXCEPT !.ranked = @ \union told]
           q == InOrder(told)
           n == Cardinality(told)
           c == Start(s, q, n)
           r == Ranking!Loop(c, b, q)
<1>1. RankFields(s, told) = r
  BY DEF RankFields, Ranking!Loop, Ranking!MapThenFoldSet,
         Ranking!Max, FoldLeft, MapThenFoldSet, Max
<1>2. DOMAIN s = StateFields /\ told \in SUBSET PlIds
  BY DEF Typed, BoardOK
<1>3. n \in Nat /\ q \in [1..n -> told] /\ DOMAIN q = 1..n
  BY <1>2, InOrderEnumerates
<1>4. /\ DOMAIN b = StateFields /\ b.ranked = s.ranked \union told
      /\ b.fields = s.fields /\ b.lost = s.lost /\ b.holds = s.holds
      /\ b.started = s.started /\ b.state = s.state /\ b.out = s.out
      /\ b.died = s.died
  BY <1>2 DEF StateFields
<1>5. SameRoster(b, s) /\ SamePeers(b, s)
  BY <1>2 DEF StateFields, SameRoster, SamePeers
<1> HIDE DEF q, n, b
<1>6. c.from = s
  BY DEF Start
<1> HIDE DEF c
<1>7. RankingInv(c, 0, b)
  <2>1. Typed(b)
    BY <1>4, <1>5 DEF Typed, RosterOK, BoardOK, PeersOK, OutOK, SameRoster, SamePeers
  <2>2. QED BY <2>1, <1>4, <1>5, <1>6 DEF RankingInv, SameLife, Keeps, SameRoster
<1>8. ASSUME NEW k \in 1..n, NEW t, RankingInv(c, k - 1, t)
      PROVE  RankingInv(c, k, RankField(t, q[k]))
  <2>1. Typed(t) /\ SameLife(t, s) /\ Keeps(t, s)
    BY <1>6, <1>8 DEF RankingInv
  <2> DEFINE u == RankField(t, q[k])
             e == [type |-> "RANK", plid |-> q[k]]
  <2>2. Typed(u) /\ u.state = t.state /\ SameRoster(u, t) /\ SameBoard(u, t) /\ SamePeers(u, t)
    <3>1. CASE q[k] \in t.holds
      <4>1. u = Broadcast(t, e)
        BY <3>1 DEF RankField
      <4>2. e \in Event
        <5>1. q[k] \in PlIds
          BY <1>2, <1>3
        <5>2. QED BY <5>1, Events
      <4> HIDE DEF u, e
      <4>3. QED BY <4>1, <4>2, <2>1, BroadcastTyped
    <3>2. CASE q[k] \notin t.holds
      <4>1. u = Die(t, "ranked field without player")
        BY <3>2 DEF RankField
      <4>2. "ranked field without player" \in Deaths \ {""}
        BY DEF Deaths
      <4> HIDE DEF u
      <4>3. QED BY <4>1, <4>2, <2>1, DieTyped
    <3>3. QED BY <3>1, <3>2
  <2> HIDE DEF u
  <2>3. RankingInv(c, k, u)
    BY <2>1, <2>2, <1>6 DEF RankingInv, SameLife, Keeps, SamePeers, SameRoster, SameBoard
  <2>4. QED BY <2>3 DEF u
<1>9. RankingInv(c, n, r)
  <2> HIDE DEF r
  <2>1. RankingInv(c, n, Ranking!Loop(c, b, q))
    BY <1>3, <1>7, <1>8, Ranking!LoopInvariant
  <2>2. QED BY <2>1 DEF r
<1> HIDE DEF r
<1>10. QED BY <1>1, <1>6, <1>9 DEF RankingInv

(* updateRanks, whichever fields are found dead.                           *)
LEMMA UpdateRanksSettles ==
  ASSUME NEW s, Settled(s), NEW r \in UpdateRanks(s)
  PROVE  /\ Settled(r) /\ Keeps(r, s) /\ r.pstate = s.pstate
         /\ Fit(s) /\ r.died = "" => Fit(r)
<1>1. PICK dead \in Rankable(s) : r = UpdateRanksWith(s, dead)
  BY DEF UpdateRanks
<1>2. Typed(s) /\ s.lost \subseteq s.fields
  BY DEF Settled, Typed, BoardOK
<1>3. dead \subseteq s.fields
  BY <1>2 DEF Rankable
<1> DEFINE left == (s.fields \ s.ranked) \ dead
           over == Cardinality(left) < 2
           told == dead \union (IF over THEN left ELSE {})
           after == RankFields(s, told)
<1>4. r = IF over /\ after.died = "" THEN StopMatch(after) ELSE after
  BY <1>1 DEF UpdateRanksWith
<1>5. told \in SUBSET s.fields
  BY <1>3
<1> HIDE DEF told, over
<1>6. Typed(after) /\ SameLife(after, s) /\ Keeps(after, s)
  BY <1>2, <1>5, RankFieldsTyped
<1> HIDE DEF after
<1>7. Settled(after) /\ after.pstate = s.pstate
  BY <1>6 DEF Settled, SameLife
<1>8. Fit(s) => Fit(after)
  BY <1>6, SameLifeFit DEF Fit
<1>9. CASE over /\ after.died = ""
  <2>1. /\ Settled(r) /\ Keeps(r, after) /\ r.pstate = after.pstate
        /\ Fit(after) /\ r.died = "" => Fit(r)
    BY <1>4, <1>7, <1>9, StopMatchSettles
  <2>2. Keeps(r, s)
    BY <2>1, <1>6 DEF Keeps, SamePeers
  <2>3. QED BY <2>1, <2>2, <1>7, <1>8
<1>10. CASE ~ (over /\ after.died = "")
  <2>1. r = after
    BY <1>4, <1>10
  <2>2. QED BY <2>1, <1>6, <1>7, <1>8
<1>11. QED BY <1>9, <1>10

\* No player has come.
Shrinks(r, s) == r.current = s.current /\ DOMAIN r.pstate \subseteq DOMAIN s.pstate

(* What a player leaves behind when it is erased.                          *)
LEMMA EraseTyped ==
  ASSUME NEW s, Typed(s), NEW p
  PROVE  LET r == Erase(s, p)
         IN  /\ Typed(r) /\ r.state = s.state /\ r.died = s.died /\ r.started = s.started
             /\ SamePeers(r, s) /\ r.holds = s.holds \ {p} /\ r.current = s.current
             /\ DOMAIN r.pstate = DOMAIN s.pstate \ {p}
             /\ \A q \in DOMAIN r.pstate : r.pstate[q] = s.pstate[q]
<1> DEFINE r == Erase(s, p)
           ps == Restricted(s.pstate, p)
           po == Restricted(s.peerOf, p)
<1>1. DOMAIN s = StateFields
  BY DEF Typed
<1>2. /\ DOMAIN r = StateFields /\ r.pstate = ps /\ r.peerOf = po /\ r.holds = s.holds \ {p}
      /\ r.current = s.current /\ r.fields = s.fields /\ r.lost = s.lost /\ r.ranked = s.ranked
      /\ r.started = s.started /\ r.state = s.state /\ r.out = s.out /\ r.died = s.died
  BY <1>1 DEF Erase, StateFields
<1>3. SamePeers(r, s)
  BY <1>1 DEF Erase, StateFields, SamePeers
<1>4. /\ DOMAIN ps = DOMAIN s.pstate \ {p} /\ ps \in [DOMAIN ps -> PlayerStates]
      /\ \A q \in DOMAIN ps : ps[q] = s.pstate[q]
  BY DEF Typed, RosterOK, Restricted
<1>5. po \in [DOMAIN ps -> Peers \union {Local}]
  <2>1. s.peerOf \in [DOMAIN s.pstate -> Peers \union {Local}]
    BY DEF Typed, RosterOK
  <2> HIDE DEF ps
  <2>2. QED BY <1>4, <2>1 DEF Restricted
<1> HIDE DEF r, ps, po
<1>6. Typed(r)
  BY <1>2, <1>3, <1>4, <1>5 DEF Typed, RosterOK, BoardOK, PeersOK, OutOK, SamePeers
<1>7. QED BY <1>2, <1>3, <1>4, <1>6 DEF r

(* A field given up by the player that leaves.                             *)
LEMMA AbortSettles ==
  ASSUME NEW s, Settled(s), NEW p \in s.holds
  PROVE  LET r == Abort(s, p)
         IN  Settled(r) /\ SamePeers(r, s) /\ SameLife(r, s) /\ r.current = s.current
<1> DEFINE r == Abort(s, p)
<1>1. DOMAIN s = StateFields /\ Typed(s)
  BY DEF Settled, Typed
<1>2. /\ DOMAIN r = StateFields /\ r.lost = s.lost \union {p}
      /\ r.fields = s.fields /\ r.ranked = s.ranked /\ r.holds = s.holds
      /\ r.started = s.started /\ r.state = s.state /\ r.out = s.out /\ r.died = s.died
  BY <1>1 DEF Abort, StateFields
<1>3. SameRoster(r, s) /\ SamePeers(r, s)
  BY <1>1 DEF Abort, StateFields, SameRoster, SamePeers
<1> HIDE DEF r
<1>4. Typed(r)
  BY <1>1, <1>2, <1>3 DEF Typed, RosterOK, BoardOK, PeersOK, OutOK, SameRoster, SamePeers
<1>5. QED BY <1>2, <1>3, <1>4 DEF r, Settled, SameLife, SameRoster

(* Erasing a player and checking the others.                               *)
LEMMA LeavingSettles ==
  ASSUME NEW s, Settled(s), NEW p \in PlIds
  PROVE  LET r == CheckAllPlayersReady(BroadcastPlayerState(Erase(s, p), p, "QUIT"))
         IN  /\ Settled(r) /\ SamePeers(r, s) /\ r.died = s.died /\ Shrinks(r, s)
             /\ Fit(s) => Fit(r)
<1> DEFINE t == Erase(s, p)
           e == [type |-> "PLAYER_STATE", plid |-> p, state |-> "QUIT"]
           u == Broadcast(t, e)
           r == CheckAllPlayersReady(u)
<1>1. /\ Typed(t) /\ t.state = s.state /\ t.died = s.died /\ t.started = s.started
      /\ SamePeers(t, s) /\ t.holds = s.holds \ {p} /\ t.current = s.current
      /\ DOMAIN t.pstate = DOMAIN s.pstate \ {p}
      /\ \A q \in DOMAIN t.pstate : t.pstate[q] = s.pstate[q]
  BY EraseTyped DEF Settled
<1>2. e \in Event
  BY Events
<1> HIDE DEF t, e
<1>3. /\ Typed(u) /\ u.state = t.state /\ u.died = t.died
      /\ SameRoster(u, t) /\ SameBoard(u, t) /\ SamePeers(u, t)
  BY <1>1, <1>2, BroadcastTyped
<1> HIDE DEF u
<1>4. Settled(u)
  BY <1>1, <1>3 DEF Settled, SameBoard
<1>5. ASSUME Fit(s) PROVE Sound(u) /\ NotPast(u)
  <2>1. \A st : InState(u, st) = InState(s, st) \ {p}
    BY <1>1, <1>3 DEF InState, SameRoster
  <2>2. u.holds = s.holds \ {p} /\ u.started = s.started /\ u.state = s.state
    BY <1>1, <1>3 DEF SameBoard
  <2>3. \A q \in u.holds : u.pstate[q] = s.pstate[q]
    <3>1. u.holds \subseteq DOMAIN u.pstate
      BY <1>3 DEF Typed, BoardOK
    <3>2. QED BY <3>1, <1>1, <1>3 DEF SameRoster
  <2>4. Sound(u)
    BY <1>5, <2>1, <2>2, <2>3 DEF Fit, Sound
  <2>5. NotPast(u)
    <3> DEFINE L == InState(s, "LOBBY_READY")
    <3>1. L \in SUBSET PlIds
      BY DEF InState, Settled, Typed, RosterOK
    <3>2. u.state = "LOBBY" => Cardinality(L) < PlNbMax
      BY <1>5, <2>2 DEF Fit, Waits
    <3>3. InState(u, "LOBBY_READY") = L \ {p}
      BY <2>1
    <3> HIDE DEF L
    <3>4. /\ Cardinality(L) \in Nat /\ Cardinality(L \ {p}) \in Nat
          /\ Cardinality(L \ {p}) <= Cardinality(L)
      <4>1. IsFiniteSet(L)
        BY <3>1, FinitePlayers
      <4>2. L \ {p} \in SUBSET L
        OBVIOUS
      <4>3. QED BY <4>1, <4>2, FS_Subset, FS_CardinalityType
    <3>5. QED BY <3>2, <3>3, <3>4 DEF NotPast
  <2>6. QED BY <2>4, <2>5
<1>6. /\ Settled(r) /\ r.died = u.died /\ Keeps(r, u) /\ DOMAIN r.pstate = DOMAIN u.pstate
      /\ Sound(u) /\ NotPast(u) => Fit(r)
  BY <1>4, CheckAllPlayersReadySettles
<1> HIDE DEF r
<1>7. CheckAllPlayersReady(BroadcastPlayerState(Erase(s, p), p, "QUIT")) = r
  BY DEF BroadcastPlayerState, r, u, t, e
<1>8. Shrinks(r, s)
  BY <1>1, <1>3, <1>6 DEF Shrinks, Keeps, SameRoster
<1>9. QED BY <1>1, <1>3, <1>5, <1>6, <1>7, <1>8 DEF Keeps, SamePeers

(* removePlayer: the field given up and ranked, the player erased, the     *)
(* others checked, unless an assertion fails first.                        *)
LEMMA RemovePlayerSettles ==
  ASSUME NEW s, Settled(s), NEW p \in PlIds, NEW r \in RemovePlayer(s, p)
  PROVE  /\ Settled(r) /\ SamePeers(r, s) /\ Shrinks(r, s)
         /\ Fit(s) /\ r.died = "" => Fit(r)
<1> DEFINE updated == IF p \in s.holds THEN UpdateRanks(Abort(s, p)) ELSE {s}
           left(t) == CheckAllPlayersReady(BroadcastPlayerState(Erase(t, p), p, "QUIT"))
<1>1. PICK t \in updated : r = IF t.died = "" THEN left(t) ELSE t
  BY DEF RemovePlayer
<1>2. /\ Settled(t) /\ SamePeers(t, s) /\ Shrinks(t, s)
      /\ Fit(s) /\ t.died = "" => Fit(t)
  <2>1. CASE p \in s.holds
    <3> DEFINE a == Abort(s, p)
    <3>1. Settled(a) /\ SamePeers(a, s) /\ SameLife(a, s) /\ a.current = s.current
      BY <2>1, AbortSettles
    <3>2. t \in UpdateRanks(a)
      BY <2>1
    <3> HIDE DEF a
    <3>3. /\ Settled(t) /\ Keeps(t, a) /\ t.pstate = a.pstate
          /\ Fit(a) /\ t.died = "" => Fit(t)
      BY <3>1, <3>2, UpdateRanksSettles
    <3>4. Fit(s) => Fit(a)
      BY <3>1, SameLifeFit DEF Fit
    <3>5. Shrinks(t, s)
      BY <3>1, <3>3 DEF Shrinks, Keeps, SameLife
    <3>6. QED BY <3>1, <3>3, <3>4, <3>5 DEF Keeps, SamePeers
  <2>2. CASE p \notin s.holds
    <3>1. t = s
      BY <2>2
    <3>2. QED BY <3>1 DEF SamePeers, Shrinks
  <2>3. QED BY <2>1, <2>2
<1> HIDE DEF updated
<1>3. CASE t.died = ""
  <2>1. r = left(t)
    BY <1>1, <1>3
  <2>2. /\ Settled(r) /\ SamePeers(r, t) /\ Shrinks(r, t) /\ (Fit(t) => Fit(r))
    BY <2>1, <1>2, LeavingSettles
  <2>3. QED BY <2>2, <1>2, <1>3 DEF SamePeers, Shrinks
<1>4. CASE t.died # ""
  <2>1. r = t
    BY <1>1, <1>4
  <2>2. QED BY <2>1, <1>2
<1>5. QED BY <1>3, <1>4

(* onPeerDisconnect: whatever becomes of the match on the way.             *)
RemovingInv(c, k, S) ==
  \A r \in S : /\ Settled(r) /\ SamePeers(r, c.from) /\ Shrinks(r, c.from)
               /\ Fit(c.from) /\ r.died = "" => Fit(r)

Removing == INSTANCE Loops WITH Step <- LAMBDA c, S, p : RemoveFromAll(S, p), Inv <- RemovingInv

(* A peer that is gone takes all its players with it, and the match goes   *)
(* on.                                                                     *)
LEMMA OnPeerDisconnectSettles ==
  ASSUME NEW s, Settled(s), NEW x, NEW r \in OnPeerDisconnect(s, x)
  PROVE  /\ Settled(r) /\ SamePeers(r, s) /\ Shrinks(r, s)
         /\ Fit(s) /\ r.died = "" => Fit(r)
<1> DEFINE P == {p \in DOMAIN s.pstate : s.peerOf[p] = x}
           q == InOrder(P)
           n == Cardinality(P)
           c == Start(s, q, n)
           R == Removing!Loop(c, {s}, q)
<1>1. OnPeerDisconnect(s, x) = R
  BY DEF OnPeerDisconnect, Removing!Loop, Removing!MapThenFoldSet,
         Removing!Max, FoldLeft, MapThenFoldSet, Max
<1>2. P \in SUBSET PlIds
  BY DEF Settled, Typed, RosterOK
<1> HIDE DEF P
<1>3. n \in Nat /\ q \in [1..n -> P] /\ DOMAIN q = 1..n
  BY <1>2, InOrderEnumerates
<1> HIDE DEF q, n
<1>4. c.from = s
  BY DEF Start
<1> HIDE DEF c
<1>5. RemovingInv(c, 0, {s})
  BY <1>4 DEF RemovingInv, SamePeers, Shrinks
<1>6. ASSUME NEW k \in 1..n, NEW S, RemovingInv(c, k - 1, S)
      PROVE  RemovingInv(c, k, RemoveFromAll(S, q[k]))
  <2> SUFFICES ASSUME NEW u \in RemoveFromAll(S, q[k])
               PROVE  /\ Settled(u) /\ SamePeers(u, s) /\ Shrinks(u, s)
                      /\ Fit(s) /\ u.died = "" => Fit(u)
    BY <1>4 DEF RemovingInv
  <2>1. PICK t \in S : u \in IF t.died = "" THEN RemovePlayer(t, q[k]) ELSE {t}
    BY DEF RemoveFromAll
  <2>2. /\ Settled(t) /\ SamePeers(t, s) /\ Shrinks(t, s)
        /\ Fit(s) /\ t.died = "" => Fit(t)
    BY <1>4, <1>6 DEF RemovingInv
  <2>3. CASE t.died = ""
    <3>1. u \in RemovePlayer(t, q[k]) /\ q[k] \in PlIds
      BY <2>1, <2>3, <1>2, <1>3
    <3>2. /\ Settled(u) /\ SamePeers(u, t) /\ Shrinks(u, t)
          /\ Fit(t) /\ u.died = "" => Fit(u)
      BY <3>1, <2>2, RemovePlayerSettles
    <3>3. QED BY <3>2, <2>2, <2>3 DEF SamePeers, Shrinks
  <2>4. CASE t.died # ""
    <3>1. u = t
      BY <2>1, <2>4
    <3>2. QED BY <3>1, <2>2
  <2>5. QED BY <2>3, <2>4
<1>7. RemovingInv(c, n, R)
  <2> HIDE DEF R
  <2>1. RemovingInv(c, n, Removing!Loop(c, {s}, q))
    BY <1>3, <1>5, <1>6, Removing!LoopInvariant
  <2>2. QED BY <2>1 DEF R
<1> HIDE DEF R
<1>8. QED BY <1>1, <1>4, <1>7 DEF RemovingInv

-----------------------------------------------------------------------------
(* Peers that come and go, and players that join.                          *)

(* Quotients and remainders, as far as nextPlayerId needs them.            *)
LEMMA Wrapped ==
  /\ \A a \in 0..(IdMax - 1) : a % IdMax = a /\ (a + IdMax) % IdMax = a
  /\ \A a \in Nat : IdMax # 0 => (a % IdMax) + 1 \in PlIds
<1>1. ASSUME NEW a \in 0..(IdMax - 1) PROVE a % IdMax = a /\ (a + IdMax) % IdMax = a
  OBVIOUS
<1>2. ASSUME NEW a \in Nat, IdMax # 0 PROVE (a % IdMax) + 1 \in PlIds
  <2>1. a % IdMax \in 0..(IdMax - 1)
    BY <1>2
  <2>2. QED BY <2>1 DEF PlIds
<1>3. QED BY <1>1, <1>2

(* nextPlayerId ends when an ID is free, with one that is.                 *)
LEMMA NextPlayerIdFree ==
  ASSUME current \in 0..IdMax, Players \subseteq PlIds, Players # PlIds
  PROVE  NextPlayerId \in PlIds \ Players
<1> DEFINE after(k) == ((current + k) % IdMax) + 1
           K == {k \in 0..(IdMax - 1) : after(k) \notin Players}
<1>1. PICK p \in PlIds : p \notin Players
  OBVIOUS
<1>2. p \in 1..IdMax /\ IdMax # 0
  BY <1>1 DEF PlIds
<1>3. K # {}
  <2>1. CASE p - 1 >= current
    <3>1. p - 1 - current \in 0..(IdMax - 1) /\ current + (p - 1 - current) = p - 1
          /\ p - 1 \in 0..(IdMax - 1)
      BY <1>2, <2>1
    <3>2. after(p - 1 - current) = p
      BY <3>1, <1>2, Wrapped
    <3>3. QED BY <3>1, <3>2, <1>1
  <2>2. CASE p - 1 < current
    <3>1. p - 1 - current + IdMax \in 0..(IdMax - 1)
          /\ current + (p - 1 - current + IdMax) = (p - 1) + IdMax
          /\ p - 1 \in 0..(IdMax - 1)
      BY <1>2, <2>2
    <3>2. after(p - 1 - current + IdMax) = p
      BY <3>1, <1>2, Wrapped
    <3>3. QED BY <3>1, <3>2, <1>1
  <2>3. QED BY <2>1, <2>2, <1>2
<1>4. K \in SUBSET Nat
  OBVIOUS
<1>5. \E x \in K : \A y \in K : x =< y
  <2> HIDE DEF K
  <2>1. QED BY <1>3, <1>4, LeastNatural
<1>6. Min(K) \in K
  <2> HIDE DEF K
  <2>1. QED BY <1>5 DEF Min
<1>7. NextPlayerId = after(Min(K))
  BY DEF NextPlayerId
<1>8. Min(K) \in 0..(IdMax - 1) /\ after(Min(K)) \notin Players
  BY <1>6
<1>9. after(Min(K)) \in PlIds
  <2>1. current + Min(K) \in Nat
    BY <1>8
  <2>2. QED BY <2>1, <1>2, Wrapped
<1>10. QED BY <1>7, <1>8, <1>9

(* The variables, as the state handlers work on.                           *)
LEMMA NowFields ==
  /\ DOMAIN Now = StateFields /\ Now.state = state /\ Now.started = started
  /\ Now.pstate = pstate /\ Now.peerOf = peerOf /\ Now.current = current
  /\ Now.fields = fields /\ Now.lost = lost /\ Now.ranked = ranked /\ Now.holds = holds
  /\ Now.socks = socks /\ Now.closing = closing /\ Now.out = <<>> /\ Now.died = died
BY DEF Now, StateFields

(* What is true after every handler.                                       *)
ServerInv ==
  /\ out \in Seq(Message)
  /\ Settled(Now)
  /\ died = "" => Fit(Now)

(* A handler that settles the state it leaves keeps the invariant.         *)
LEMMA Adopted ==
  ASSUME NEW s, Settled(s), s.died = "" => Fit(s), Become(s)
  PROVE  ServerInv'
<1>1. /\ DOMAIN Now' = StateFields /\ Now'.state = s.state /\ Now'.started = s.started
      /\ Now'.pstate = s.pstate /\ Now'.peerOf = s.peerOf /\ Now'.current = s.current
      /\ Now'.fields = s.fields /\ Now'.lost = s.lost /\ Now'.ranked = s.ranked
      /\ Now'.holds = s.holds /\ Now'.socks = s.socks /\ Now'.closing = s.closing
      /\ Now'.out = <<>> /\ Now'.died = s.died
  BY DEF Become, Now, StateFields
<1>2. out' \in Seq(Message) /\ died' = s.died
  BY DEF Become, Settled, Typed, OutOK
<1>3. <<>> \in Seq(Message)
  BY EmptySeq
<1> DEFINE n == Now'
<1>4. Typed(n)
  <2> HIDE DEF n
  <2>1. /\ DOMAIN n = StateFields /\ n.state = s.state /\ n.started = s.started
        /\ n.pstate = s.pstate /\ n.peerOf = s.peerOf /\ n.current = s.current
        /\ n.fields = s.fields /\ n.lost = s.lost /\ n.ranked = s.ranked
        /\ n.holds = s.holds /\ n.socks = s.socks /\ n.closing = s.closing
        /\ n.out = <<>> /\ n.died = s.died
    BY <1>1 DEF n
  <2>2. QED BY <2>1, <1>3 DEF Settled, Typed, RosterOK, BoardOK, PeersOK, OutOK
<1>5. Settled(n)
  BY <1>1, <1>4 DEF Settled
<1>6. Fit(s) => Fit(n)
  <2>1. SameLife(n, s)
    BY <1>1 DEF SameLife
  <2> HIDE DEF n
  <2>2. QED BY <2>1, SameLifeFit DEF Fit
<1>7. QED BY <1>2, <1>5, <1>6 DEF ServerInv, Settled, Typed, RosterOK, BoardOK, PeersOK, OutOK, Fit, Sound, Waits, InState

(* What the invariant says of the variables.                               *)
LEMMA InvFacts ==
  ASSUME ServerInv
  PROVE  /\ DOMAIN pstate \subseteq PlIds /\ current \in 0..IdMax
         /\ peerOf \in [DOMAIN pstate -> Peers \union {Local}]
         /\ socks \in Seq(Peers) /\ IsInjective(socks) /\ closing \subseteq Range(socks)
         /\ holds \subseteq DOMAIN pstate /\ holds \subseteq fields
BY NowFields DEF ServerInv, Settled, Typed, RosterOK, BoardOK, PeersOK

(* Another vector of peers, or other peers to be closed.                   *)
Rewire(ss, cl) == [Now EXCEPT !.socks = ss, !.closing = cl]

(* Nothing else of the state depends on the peers.                         *)
LEMMA Rewired ==
  ASSUME ServerInv, NEW ss \in Seq(Peers), IsInjective(ss), NEW cl \in SUBSET Range(ss)
  PROVE  LET s == Rewire(ss, cl)
         IN  Settled(s) /\ SameLife(s, Now) /\ s.died = died
             /\ s.socks = ss /\ s.closing = cl /\ SameRoster(s, Now)
<1> DEFINE s == Rewire(ss, cl)
<1>1. DOMAIN Now = StateFields
  BY NowFields
<1>2. /\ DOMAIN s = StateFields /\ s.socks = ss /\ s.closing = cl
      /\ s.out = Now.out /\ s.died = Now.died /\ s.state = Now.state
      /\ SameRoster(s, Now) /\ SameBoard(s, Now)
  BY <1>1 DEF Rewire, StateFields, SameRoster, SameBoard
<1> HIDE DEF s
<1>3. Typed(s)
  BY <1>2 DEF ServerInv, Settled, Typed, RosterOK, BoardOK, PeersOK, OutOK, SameRoster, SameBoard
<1>4. Now.died = died
  BY NowFields
<1>5. QED BY <1>2, <1>3, <1>4 DEF s, Settled, ServerInv, SameLife, SameRoster, SameBoard

(* The peers of a vector that grows by one of them.                        *)
LEMMA Joined ==
  ASSUME NEW ss \in Seq(Peers), IsInjective(ss), NEW x \in Peers \ Range(ss)
  PROVE  /\ Append(ss, x) \in Seq(Peers) /\ IsInjective(Append(ss, x))
         /\ Range(Append(ss, x)) = Range(ss) \union {x}
<1> DEFINE n == Len(ss)
           a == Append(ss, x)
<1>1. /\ n \in Nat /\ DOMAIN ss = 1..n
      /\ a \in Seq(Peers) /\ Len(a) = n + 1 /\ a[n + 1] = x
      /\ \A i \in 1..n : a[i] = ss[i]
  BY AppendProperties
<1>2. DOMAIN a = 1..(n + 1)
  BY <1>1
<1>3. \A i \in 1..(n + 1) : i \in 1..n \/ i = n + 1
  BY <1>1
<1>4. \A i \in 1..n : i \in 1..(n + 1) /\ i # n + 1 /\ ss[i] \in Range(ss)
  BY <1>1 DEF Range
<1> HIDE DEF a, n
<1>5. IsInjective(a)
  <2> SUFFICES ASSUME NEW i \in 1..(n + 1), NEW j \in 1..(n + 1), a[i] = a[j] PROVE i = j
    BY <1>2 DEF IsInjective
  <2>1. CASE i = n + 1
    BY <2>1, <1>1, <1>3, <1>4
  <2>2. CASE j = n + 1
    BY <2>2, <1>1, <1>3, <1>4
  <2>3. CASE i \in 1..n /\ j \in 1..n
    BY <2>3, <1>1 DEF IsInjective
  <2>4. QED BY <2>1, <2>2, <2>3, <1>3
<1>6. Range(a) = Range(ss) \union {x}
  <2>1. ASSUME NEW y \in Range(a) PROVE y \in Range(ss) \union {x}
    <3>1. PICK i \in 1..(n + 1) : a[i] = y
      BY <1>2 DEF Range
    <3>2. QED BY <3>1, <1>1, <1>3, <1>4
  <2>2. ASSUME NEW y \in Range(ss) PROVE y \in Range(a)
    <3>1. PICK i \in 1..n : ss[i] = y
      BY <1>1 DEF Range
    <3>2. i \in DOMAIN a /\ a[i] = y
      BY <3>1, <1>1, <1>2, <1>4
    <3>3. QED BY <3>2 DEF Range
  <2>3. x \in Range(a)
    <3>1. n + 1 \in DOMAIN a /\ a[n + 1] = x
      BY <1>1, <1>2
    <3>2. QED BY <3>1 DEF Range
  <2>4. QED BY <2>1, <2>2, <2>3
<1>7. QED BY <1>1, <1>5, <1>6 DEF a

(* What onPeerConnect tells a new peer, one player after the other.        *)
TellingInv(c, k, r) ==
  /\ Typed(r) /\ r.state = c.from.state /\ r.died = c.from.died
  /\ SameRoster(r, c.from) /\ SameBoard(r, c.from) /\ SamePeers(r, c.from)

Telling == INSTANCE Loops WITH Step <- LAMBDA c, s, p : Describe(c.to, s, p), Inv <- TellingInv

(* Telling a newcomer everything only sends it messages.                   *)
LEMMA SnapshotTyped ==
  ASSUME NEW s, Typed(s), s.state \in {"LOBBY", "GAME_READY", "GAME"}, NEW x \in Peers
  PROVE  LET r == Snapshot(s, x)
         IN  /\ Typed(r) /\ r.state = s.state /\ r.died = s.died
             /\ SameRoster(r, s) /\ SameBoard(r, s) /\ SamePeers(r, s)
<1> DEFINE e == [type |-> "STATE", state |-> s.state]
           b == Send(s, {x}, e)
           P == DOMAIN s.pstate
           q == InOrder(P)
           n == Cardinality(P)
           c == [from |-> s, to |-> x]
           r == Telling!Loop(c, b, q)
<1>0. c.from = s /\ c.to = x
  OBVIOUS
<1>1. Snapshot(s, x) = r
  BY DEF Snapshot, Telling!Loop, Telling!MapThenFoldSet,
         Telling!Max, FoldLeft, MapThenFoldSet, Max
<1>2. P \in SUBSET PlIds
  BY DEF Typed, RosterOK
<1>3. n \in Nat /\ q \in [1..n -> P] /\ DOMAIN q = 1..n
  BY <1>2, InOrderEnumerates
<1> HIDE DEF q, n, c
<1>4. TellingInv(c, 0, b)
  <2>1. e \in Event /\ {x} \in SUBSET Peers
    BY Events
  <2> HIDE DEF e
  <2>2. /\ Typed(b) /\ b.state = s.state /\ b.died = s.died
        /\ SameRoster(b, s) /\ SameBoard(b, s) /\ SamePeers(b, s)
    BY <2>1, SendTyped
  <2> HIDE DEF b
  <2>3. QED BY <2>2, <1>0 DEF TellingInv
<1>5. ASSUME NEW k \in 1..n, NEW t, TellingInv(c, k - 1, t)
      PROVE  TellingInv(c, k, Describe(c.to, t, q[k]))
  <2>1. /\ Typed(t) /\ t.state = s.state /\ t.died = s.died
        /\ SameRoster(t, s) /\ SameBoard(t, s) /\ SamePeers(t, s)
    BY <1>0, <1>5 DEF TellingInv
  <2>2. q[k] \in PlIds /\ t.pstate[q[k]] \in PlayerStates
    <3>1. q[k] \in DOMAIN t.pstate
      BY <1>3, <2>1 DEF SameRoster
    <3>2. QED BY <3>1, <2>1 DEF Typed, RosterOK
  <2> DEFINE e1 == [type |-> "PLAYER_CONF", plid |-> q[k]]
             e2 == [type |-> "PLAYER_STATE", plid |-> q[k], state |-> t.pstate[q[k]]]
             u == Send(t, {x}, e1)
             v == Send(u, {x}, e2)
  <2>3. e1 \in Event /\ e2 \in Event /\ {x} \in SUBSET Peers
    BY <2>2, Events
  <2>4. Describe(c.to, t, q[k]) = v
    <3>1. Describe(x, t, q[k]) = v
      BY DEF Describe
    <3>2. QED BY <3>1, <1>0
  <2> HIDE DEF e1, e2
  <2>5. /\ Typed(u) /\ u.state = t.state /\ u.died = t.died
        /\ SameRoster(u, t) /\ SameBoard(u, t) /\ SamePeers(u, t)
    BY <2>1, <2>3, SendTyped
  <2> HIDE DEF u
  <2>6. /\ Typed(v) /\ v.state = u.state /\ v.died = u.died
        /\ SameRoster(v, u) /\ SameBoard(v, u) /\ SamePeers(v, u)
    BY <2>5, <2>3, SendTyped
  <2> HIDE DEF v
  <2>7. TellingInv(c, k, v)
    BY <1>0, <2>1, <2>5, <2>6 DEF TellingInv, SameRoster, SameBoard, SamePeers
  <2>8. QED BY <2>7, <2>4
<1>6. TellingInv(c, n, r)
  <2> HIDE DEF r, b
  <2>1. TellingInv(c, n, Telling!Loop(c, b, q))
    BY <1>3, <1>4, <1>5, Telling!LoopInvariant
  <2>2. QED BY <2>1 DEF r
<1> HIDE DEF r
<1>7. QED BY <1>0, <1>1, <1>6 DEF TellingInv

-----------------------------------------------------------------------------
(* The actions.                                                            *)

(* onAccept and onPeerConnect.                                             *)
LEMMA ConnectKeepsInv ==
  ASSUME ServerInv, died = "", NEW x \in Peers, Connect(x)
  PROVE  ServerInv'
<1> DEFINE ss == Append(socks, x)
           joined == [Now EXCEPT !.socks = Append(@, x)]
<1>1. /\ socks \in Seq(Peers) /\ IsInjective(socks) /\ closing \subseteq Range(socks)
      /\ x \in Peers \ Range(socks)
  BY InvFacts DEF Connect, Connected
<1>2. /\ ss \in Seq(Peers) /\ IsInjective(ss)
      /\ closing \in SUBSET Range(ss) /\ closing \union {x} \in SUBSET Range(ss)
  BY <1>1, Joined
<1> HIDE DEF ss
<1>3. joined = Rewire(ss, closing)
  BY NowFields DEF ss, Now, Rewire
<1>4. [joined EXCEPT !.closing = @ \union {x}] = Rewire(ss, closing \union {x})
  BY NowFields DEF ss, Now, Rewire
<1>5. Fit(Now)
  BY DEF ServerInv
<1>6. CASE state # "LOBBY" \/ Cardinality(Players) >= PlNbMax
  <2> DEFINE s == Rewire(ss, closing \union {x})
  <2>1. Settled(s) /\ SameLife(s, Now) /\ s.died = died
    BY <1>2, Rewired
  <2>2. Become(s)
    BY <1>4, <1>6 DEF Connect
  <2> HIDE DEF s
  <2>3. Fit(s)
    BY <2>1, <1>5, SameLifeFit DEF Fit
  <2>4. QED BY <2>1, <2>2, <2>3, Adopted
<1>7. CASE ~ (state # "LOBBY" \/ Cardinality(Players) >= PlNbMax)
  <2>1. Become(Snapshot(joined, x))
    BY <1>7 DEF Connect
  <2> HIDE DEF joined
  <2>2. Settled(joined) /\ SameLife(joined, Now) /\ joined.died = died
    BY <1>2, <1>3, Rewired
  <2>3. Fit(joined)
    BY <2>2, <1>5, SameLifeFit DEF Fit
  <2> DEFINE s == Snapshot(joined, x)
  <2>4. /\ Typed(s) /\ s.state = joined.state /\ s.died = joined.died
        /\ SameRoster(s, joined) /\ SameBoard(s, joined)
    BY <2>2, <2>3, SnapshotTyped DEF Settled, Fit, Sound
  <2> HIDE DEF s
  <2>5. Settled(s) /\ SameLife(s, joined)
    BY <2>2, <2>4 DEF Settled, SameRoster, SameBoard, SameLife
  <2>6. Fit(s)
    BY <2>3, <2>5, SameLifeFit DEF Fit
  <2>7. Become(s)
    BY <2>1 DEF s
  <2>8. QED BY <2>5, <2>6, <2>7, Adopted
<1>8. QED BY <1>6, <1>7

(* processError.                                                           *)
LEMMA FailKeepsInv ==
  ASSUME ServerInv, died = "", NEW x \in Peers, Fail(x)
  PROVE  ServerInv'
<1> DEFINE s == Rewire(socks, closing \union {x})
<1>1. /\ socks \in Seq(Peers) /\ IsInjective(socks) /\ closing \union {x} \in SUBSET Range(socks)
  BY InvFacts DEF Fail, Open, Connected
<1>2. Become([Now EXCEPT !.closing = @ \union {x}])
  BY DEF Fail
<1>3. [Now EXCEPT !.closing = @ \union {x}] = s
  BY NowFields DEF Now, Rewire
<1>4. Settled(s) /\ SameLife(s, Now)
  BY <1>1, Rewired
<1>5. Become(s)
  BY <1>2, <1>3
<1> HIDE DEF s
<1>6. Fit(s)
  BY <1>4, SameLifeFit DEF Fit, ServerInv
<1>7. QED BY <1>4, <1>5, <1>6, Adopted

(* A vector without one of its peers.                                      *)
LEMMA Removed ==
  ASSUME NEW ss \in Seq(Peers), IsInjective(ss), NEW i \in DOMAIN ss
  PROVE  LET r == RemoveAt(ss, i)
         IN  r \in Seq(Peers) /\ IsInjective(r) /\ Range(r) = Range(ss) \ {ss[i]}
<1> DEFINE n == Len(ss)
           a == SubSeq(ss, 1, i - 1)
           b == SubSeq(ss, i + 1, n)
           r == RemoveAt(ss, i)
<1>1. n \in Nat /\ DOMAIN ss = 1..n /\ i \in 1..n /\ i \in Int
      /\ \A j \in 1..n : ss[j] \in Peers
  OBVIOUS
<1>2. /\ a \in Seq(Peers) /\ Len(a) = i - 1
      /\ \A j \in 1..(i - 1) : a[j] = ss[j]
  <2>1. 1 \in Int /\ i - 1 \in Int /\ \A j \in 1..(i - 1) : ss[j] \in Peers
    BY <1>1
  <2>2. /\ a \in Seq(Peers) /\ Len(a) = IF 1 <= i - 1 THEN (i - 1) - 1 + 1 ELSE 0
        /\ \A j \in 1..((i - 1) - 1 + 1) : a[j] = ss[1 + j - 1]
    BY <2>1, SubSeqProperties
  <2> HIDE DEF a
  <2>3. QED BY <2>2, <1>1
<1>3. /\ b \in Seq(Peers) /\ Len(b) = n - i
      /\ \A j \in 1..(n - i) : b[j] = ss[i + j]
  <2>1. i + 1 \in Int /\ n \in Int /\ \A j \in (i + 1)..n : ss[j] \in Peers
    BY <1>1
  <2>2. /\ b \in Seq(Peers) /\ Len(b) = IF i + 1 <= n THEN n - (i + 1) + 1 ELSE 0
        /\ \A j \in 1..(n - (i + 1) + 1) : b[j] = ss[(i + 1) + j - 1]
    BY <2>1, SubSeqProperties
  <2> HIDE DEF b, n
  <2>3. QED BY <2>2, <1>1
<1>4. r = a \o b
  BY DEF RemoveAt
<1> HIDE DEF r, a, b, n
<1>5. /\ r \in Seq(Peers) /\ Len(r) = n - 1
      /\ \A j \in 1..(n - 1) : r[j] = IF j < i THEN ss[j] ELSE ss[j + 1]
  <2>1. r \in Seq(Peers) /\ Len(r) = Len(a) + Len(b)
        /\ \A j \in 1..(Len(a) + Len(b)) : r[j] = IF j <= Len(a) THEN a[j] ELSE b[j - Len(a)]
    BY <1>2, <1>3, <1>4, ConcatProperties
  <2>2. Len(r) = n - 1
    BY <2>1, <1>1, <1>2, <1>3
  <2>3. ASSUME NEW j \in 1..(n - 1) PROVE r[j] = IF j < i THEN ss[j] ELSE ss[j + 1]
    <3>1. CASE j < i
      <4>1. j \in 1..(i - 1) /\ j <= Len(a) /\ j \in 1..(Len(a) + Len(b))
        BY <3>1, <1>1, <1>2, <1>3
      <4>2. QED BY <4>1, <2>1, <1>2, <3>1
    <3>2. CASE ~ (j < i)
      <4>1. /\ j - (i - 1) \in 1..(n - i) /\ ~ (j <= Len(a)) /\ j \in 1..(Len(a) + Len(b))
            /\ i + (j - (i - 1)) = j + 1 /\ j - Len(a) = j - (i - 1)
        BY <3>2, <1>1, <1>2, <1>3
      <4>2. QED BY <4>1, <2>1, <1>3, <3>2
    <3>3. QED BY <3>1, <3>2
  <2>4. QED BY <2>1, <2>2, <2>3
<1>6. DOMAIN r = 1..(n - 1)
  BY <1>5
<1>7. IsInjective(r)
  <2> SUFFICES ASSUME NEW j \in 1..(n - 1), NEW k \in 1..(n - 1), r[j] = r[k] PROVE j = k
    BY <1>6 DEF IsInjective
  <2> DEFINE at(l) == IF l < i THEN l ELSE l + 1
  <2>1. at(j) \in 1..n /\ at(k) \in 1..n /\ r[j] = ss[at(j)] /\ r[k] = ss[at(k)]
    BY <1>1, <1>5
  <2>2. at(j) = at(k)
    <3> HIDE DEF at
    <3>1. QED BY <2>1, <1>1 DEF IsInjective
  <2>3. QED BY <2>2, <1>1
<1>8. ASSUME NEW y \in Range(ss) \ {ss[i]} PROVE y \in Range(r)
  <2>1. PICK k \in 1..n : ss[k] = y
    BY <1>1 DEF Range
  <2>2. k # i
    BY <2>1
  <2>3. CASE k < i
    <3>1. k \in 1..(n - 1) /\ r[k] = y
      BY <2>1, <2>3, <1>1, <1>5
    <3>2. QED BY <3>1, <1>6 DEF Range
  <2>4. CASE k > i
    <3>1. k - 1 \in 1..(n - 1) /\ ~ (k - 1 < i) /\ (k - 1) + 1 = k
      BY <2>1, <2>4, <1>1
    <3>2. r[k - 1] = y
      BY <3>1, <2>1, <1>5
    <3>3. QED BY <3>1, <3>2, <1>6 DEF Range
  <2>5. QED BY <2>2, <2>3, <2>4, <1>1
<1>9. ASSUME NEW y \in Range(r) PROVE y \in Range(ss) \ {ss[i]}
  <2>1. PICK j \in 1..(n - 1) : r[j] = y
    BY <1>6 DEF Range
  <2> DEFINE k == IF j < i THEN j ELSE j + 1
  <2>2. k \in 1..n /\ k # i /\ y = ss[k]
    BY <2>1, <1>1, <1>5
  <2> HIDE DEF k
  <2>3. QED BY <2>2, <1>1 DEF IsInjective, Range
<1>10. QED BY <1>5, <1>7, <1>8, <1>9 DEF r

(* PeerSocket::close, whoever the erased iterator points to.               *)
LEMMA CloseKeepsInv ==
  ASSUME ServerInv, died = "", NEW x \in Peers, Close(x)
  PROVE  ServerInv'
<1> DEFINE i == CHOOSE j \in DOMAIN socks : socks[j] = x
           rest == RemoveAt(socks, i)
           told == IF i \in DOMAIN rest THEN rest[i] ELSE x
           s == [Now EXCEPT !.socks = rest, !.closing = @ \ {x}]
<1>1. socks \in Seq(Peers) /\ IsInjective(socks) /\ closing \subseteq Range(socks) /\ x \in closing
  BY InvFacts DEF Close
<1>2. PICK r \in OnPeerDisconnect(s, told) : Become(r)
  BY DEF Close
<1>3. i \in DOMAIN socks /\ socks[i] = x
  <2>1. \E j \in DOMAIN socks : socks[j] = x
    BY <1>1 DEF Range
  <2>2. QED BY <2>1
<1>4. s = Rewire(rest, closing \ {x})
  BY NowFields DEF Now, Rewire
<1> HIDE DEF i, rest, told, s
<1>5. rest \in Seq(Peers) /\ IsInjective(rest) /\ Range(socks) \ {x} \subseteq Range(rest)
  BY <1>1, <1>3, Removed DEF rest
<1>6. closing \ {x} \in SUBSET Range(rest)
  BY <1>1, <1>5
<1>7. Settled(s) /\ SameLife(s, Now)
  BY <1>4, <1>5, <1>6, Rewired
<1>8. Fit(s)
  BY <1>7, SameLifeFit DEF Fit, ServerInv
<1>9. Settled(r) /\ (r.died = "" => Fit(r))
  BY <1>2, <1>7, <1>8, OnPeerDisconnectSettles
<1>10. QED BY <1>2, <1>9, Adopted

(* newPlayer, in the lobby.                                                *)
LEMMA NewPlayerSettles ==
  ASSUME ServerInv, Fit(Now), state = "LOBBY", Players # PlIds, NEW x \in Peers \union {Local}
  PROVE  LET s == NewPlayer(Now, x)
         IN  Settled(s) /\ Fit(s)
<1> DEFINE p == NextPlayerId
           j == [Now EXCEPT !.pstate = With(@, p, "LOBBY"), !.peerOf = With(@, p, x), !.current = p]
           e == [type |-> "PLAYER_CONF", plid |-> p]
           to == Range(socks) \ {x}
           s == NewPlayer(Now, x)
<1>1. p \in PlIds \ Players
  BY InvFacts, NextPlayerIdFree DEF Players
<1>2. s = Send(j, to, e)
  BY DEF NewPlayer
<1> HIDE DEF p
<1>3. /\ DOMAIN j = StateFields /\ j.pstate = With(pstate, p, "LOBBY")
      /\ j.peerOf = With(peerOf, p, x) /\ j.current = p
      /\ j.state = state /\ j.died = died /\ j.out = <<>>
      /\ SameBoard(j, Now) /\ SamePeers(j, Now)
  BY NowFields DEF StateFields, SameBoard, SamePeers
<1>4. e \in Event
  BY <1>1, Events
<1>5. to \in SUBSET Peers
  <2>1. socks \in Seq(Peers)
    BY InvFacts
  <2>2. Range(socks) \subseteq Peers
    BY <2>1 DEF Range
  <2>3. QED BY <2>2
<1>6. Typed(Now)
  BY DEF ServerInv, Settled
<1> HIDE DEF j, e, to, s
<1>7. /\ DOMAIN j.pstate = DOMAIN pstate \union {p}
      /\ j.pstate \in [DOMAIN pstate \union {p} -> PlayerStates]
      /\ \A q \in DOMAIN j.pstate : j.pstate[q] = IF q = p THEN "LOBBY" ELSE pstate[q]
  <2>1. "LOBBY" \in PlayerStates /\ pstate \in [DOMAIN pstate -> PlayerStates]
    BY <1>6, NowFields DEF PlayerStates, Typed, RosterOK
  <2>2. DOMAIN j.pstate = DOMAIN pstate \union {p}
        /\ \A q \in DOMAIN pstate \union {p} : j.pstate[q] = IF q = p THEN "LOBBY" ELSE pstate[q]
    BY <1>3 DEF With
  <2>3. j.pstate = [q \in DOMAIN pstate \union {p} |-> IF q = p THEN "LOBBY" ELSE pstate[q]]
    BY <1>3 DEF With
  <2>4. \A q \in DOMAIN pstate \union {p} : (IF q = p THEN "LOBBY" ELSE pstate[q]) \in PlayerStates
    BY <2>1
  <2>5. QED BY <2>2, <2>3, <2>4
<1>8. j.peerOf \in [DOMAIN pstate \union {p} -> Peers \union {Local}]
  <2>1. peerOf \in [DOMAIN pstate -> Peers \union {Local}]
    BY InvFacts
  <2>2. j.peerOf = [q \in DOMAIN pstate \union {p} |-> IF q = p THEN x ELSE peerOf[q]]
    BY <2>1, <1>3 DEF With
  <2>3. \A q \in DOMAIN pstate \union {p} : (IF q = p THEN x ELSE peerOf[q]) \in Peers \union {Local}
    BY <2>1
  <2>4. QED BY <2>2, <2>3
<1>9. Typed(j)
  <2>1. RosterOK(j)
    <3>1. p \in 0..IdMax
      <4>1. p \in PlIds
        BY <1>1
      <4>2. QED BY <4>1, IdAssumption DEF PlIds
    <3>2. DOMAIN pstate \union {p} \subseteq PlIds
      BY <1>1, InvFacts
    <3>3. QED BY <3>1, <3>2, <1>3, <1>7, <1>8 DEF RosterOK
  <2>2. BoardOK(j)
    BY <1>3, <1>6, <1>7, NowFields DEF Typed, BoardOK, SameBoard
  <2>3. PeersOK(j) /\ OutOK(j)
    BY <1>3, <1>6, NowFields DEF Typed, PeersOK, OutOK, SamePeers
  <2>4. QED BY <2>1, <2>2, <2>3, <1>3 DEF Typed
<1>10. /\ Typed(s) /\ s.state = j.state /\ s.died = j.died
       /\ SameRoster(s, j) /\ SameBoard(s, j)
  BY <1>2, <1>4, <1>5, <1>9, SendTyped
<1>11. Fit(Now) /\ Settled(Now)
  BY DEF ServerInv
<1>12. s.holds = {} /\ s.state = "LOBBY" /\ s.started = FALSE
  BY <1>3, <1>10, <1>11, NowFields DEF SameBoard, Settled, Fit, Sound, Typed, BoardOK
<1>13. \A st : st # "LOBBY" => InState(s, st) = InState(Now, st)
  <2>1. \A q \in DOMAIN s.pstate : s.pstate[q] = IF q = p THEN "LOBBY" ELSE Now.pstate[q]
    BY <1>7, <1>10, NowFields DEF SameRoster
  <2>2. DOMAIN s.pstate = DOMAIN Now.pstate \union {p} /\ p \notin DOMAIN Now.pstate
    BY <1>1, <1>7, <1>10, NowFields DEF SameRoster, Players
  <2>3. QED BY <2>1, <2>2 DEF InState
<1>14. Settled(s)
  BY <1>10, <1>12 DEF Settled, ServerStates
<1>15. Fit(s)
  BY <1>11, <1>12, <1>13, NowFields DEF Fit, Sound, Waits
<1>16. QED BY <1>14, <1>15 DEF s

(* processPktPlayerJoin.                                                   *)
LEMMA JoinKeepsInv ==
  ASSUME ServerInv, died = "", NEW x \in Peers, Join(x)
  PROVE  ServerInv'
<1> DEFINE s == NewPlayer(Now, x)
           e == [type |-> "JOINED", plid |-> NextPlayerId]
           r == Send(s, {x}, e)
<1>1. state = "LOBBY" /\ Players # PlIds /\ Become(r)
  BY DEF Join
<1>2. Settled(s) /\ Fit(s)
  <2>1. Fit(Now)
    BY DEF ServerInv
  <2>2. QED BY <1>1, <2>1, NewPlayerSettles
<1>3. e \in Event /\ {x} \in SUBSET Peers
  <2>1. NextPlayerId \in PlIds
    BY <1>1, InvFacts, NextPlayerIdFree DEF Players
  <2>2. QED BY <2>1, Events
<1> HIDE DEF s, e
<1>4. /\ Typed(r) /\ r.state = s.state /\ r.died = s.died
      /\ SameRoster(r, s) /\ SameBoard(r, s)
  BY <1>2, <1>3, SendTyped DEF Settled
<1> HIDE DEF r
<1>5. Settled(r) /\ SameLife(r, s)
  BY <1>2, <1>4 DEF Settled, SameRoster, SameBoard, SameLife
<1>6. Fit(r)
  BY <1>2, <1>5, SameLifeFit DEF Fit
<1>7. QED BY <1>1, <1>5, <1>6, Adopted

(* newLocalPlayer.                                                         *)
LEMMA JoinLocalKeepsInv ==
  ASSUME ServerInv, died = "", JoinLocal
  PROVE  ServerInv'
<1> DEFINE s == NewPlayer(Now, Local)
<1>1. state = "LOBBY" /\ Players # PlIds /\ Become(s)
  BY DEF JoinLocal
<1>2. Settled(s) /\ Fit(s)
  <2>1. Fit(Now)
    BY DEF ServerInv
  <2>2. QED BY <1>1, <2>1, NewPlayerSettles
<1> HIDE DEF s
<1>3. QED BY <1>1, <1>2, Adopted

(* A player that sets its state.                                           *)
LEMMA ChangeStateKeepsInv ==
  ASSUME ServerInv, Fit(Now), NEW p \in Players, NEW st \in PlayerStates, ChangeState(p, st)
  PROVE  ServerInv'
<1> DEFINE t == SetPlayerState(Now, p, st)
           r == CheckAllPlayersReady(t)
<1>1. Become(r) /\ Settable(p, st) /\ st # pstate[p]
  BY DEF ChangeState
<1>2. Settled(Now) /\ Fit(Now) /\ Typed(Now)
  BY DEF ServerInv, Settled
<1>3. p \in DOMAIN Now.pstate
  BY NowFields DEF Players
<1>4. /\ Typed(t) /\ t.state = Now.state /\ t.died = Now.died
      /\ SameBoard(t, Now) /\ t.pstate = [Now.pstate EXCEPT ![p] = st]
  BY <1>2, <1>3, SetPlayerStateTyped
<1> HIDE DEF t
<1>5. Settled(t)
  BY <1>2, <1>4 DEF Settled, SameBoard
<1>6. \A other : InState(t, other) = IF other = st THEN InState(Now, other) \union {p}
                                                   ELSE InState(Now, other) \ {p}
  BY <1>3, <1>4 DEF InState
<1>7. Now.state = state /\ Now.pstate = pstate
  BY NowFields
<1>8. t.holds = Now.holds /\ t.started = Now.started
  BY <1>4 DEF SameBoard
<1>9. Sound(t)
  <2>1. CASE state = "LOBBY"
    <3>1. st # "GAME_READY"
      BY <2>1, <1>1 DEF Settable
    <3>2. QED BY <3>1, <2>1, <1>2, <1>4, <1>6, <1>7, <1>8 DEF Fit, Sound
  <2>2. CASE state = "GAME_READY"
    <3>1. st = "GAME_READY" /\ p \in InState(Now, "GAME_INIT")
      BY <2>2, <1>1, <1>3, <1>7 DEF Settable, InState
    <3>2. InState(t, "GAME_INIT") = InState(Now, "GAME_INIT") \ {p}
          /\ InState(t, "GAME_READY") = InState(Now, "GAME_READY") \union {p}
          /\ InState(t, "LOBBY_READY") = InState(Now, "LOBBY_READY") \ {p}
      BY <3>1, <1>6
    <3>3. QED BY <3>1, <3>2, <2>2, <1>2, <1>4, <1>7, <1>8 DEF Fit, Sound
  <2>3. CASE state = "GAME"
    <3>1. st = "LOBBY"
      BY <2>3, <1>1 DEF Settable
    <3>2. InState(t, "GAME_READY") = InState(Now, "GAME_READY") \ {p}
          /\ InState(t, "LOBBY_READY") = InState(Now, "LOBBY_READY") \ {p}
      BY <3>1, <1>6
    <3>3. \A q \in Now.holds : Now.pstate[q] \in {"GAME", "LOBBY"} /\ q \in DOMAIN Now.pstate
      BY <2>3, <1>2, <1>7 DEF Fit, Sound, Typed, BoardOK
    <3>4. \A q \in Now.holds : t.pstate[q] \in {"GAME", "LOBBY"}
      BY <3>1, <3>3, <1>4
    <3>5. QED BY <3>2, <3>4, <2>3, <1>2, <1>4, <1>7, <1>8 DEF Fit, Sound
  <2>4. QED BY <2>1, <2>2, <2>3, <1>2, <1>7 DEF Fit, Sound
<1>10. NotPast(t)
  <2> DEFINE L == InState(Now, "LOBBY_READY")
  <2>1. IsFiniteSet(L) /\ Cardinality(L) \in Nat
    <3>1. L \in SUBSET PlIds
      BY <1>2 DEF InState, Typed, RosterOK
    <3> HIDE DEF L
    <3>2. QED BY <3>1, FinitePlayers
  <2>2. state = "LOBBY" => Cardinality(L) < PlNbMax
    BY <1>2, <1>7 DEF Fit, Waits
  <2>3. InState(t, "LOBBY_READY") \in {L \union {p}, L \ {p}}
    BY <1>6
  <2> HIDE DEF L
  <2>4. /\ Cardinality(L \union {p}) \in {Cardinality(L), Cardinality(L) + 1}
        /\ Cardinality(L \ {p}) \in {Cardinality(L), Cardinality(L) - 1}
    BY <2>1, FS_AddElement, FS_RemoveElement
  <2>5. ASSUME state = "LOBBY" PROVE Cardinality(InState(t, "LOBBY_READY")) <= PlNbMax
    <3> DEFINE n == Cardinality(L)
               m == Cardinality(InState(t, "LOBBY_READY"))
    <3>1. n \in Nat /\ n < PlNbMax /\ m \in {n, n + 1, n - 1}
      BY <2>1, <2>2, <2>3, <2>4, <2>5
    <3> HIDE DEF n, m
    <3>2. m <= PlNbMax
      BY <3>1
    <3>3. QED BY <3>2 DEF m
  <2>6. QED BY <2>5, <1>4, <1>7 DEF NotPast
<1>11. Settled(r) /\ Fit(r)
  BY <1>5, <1>9, <1>10, CheckAllPlayersReadySettles
<1> HIDE DEF r
<1>12. QED BY <1>1, <1>11, Adopted

(* The same with QUIT.                                                     *)
LEMMA QuitKeepsInv ==
  ASSUME ServerInv, died = "", NEW p \in Players, Quit(p)
  PROVE  ServerInv'
<1>1. PICK r \in RemovePlayer(Now, p) : Become(r)
  BY DEF Quit
<1>2. p \in PlIds
  BY InvFacts DEF Players
<1>3. Settled(Now) /\ Fit(Now)
  BY DEF ServerInv
<1>4. Settled(r) /\ (r.died = "" => Fit(r))
  BY <1>1, <1>2, <1>3, RemovePlayerSettles
<1>5. QED BY <1>1, <1>4, Adopted

(* doStepPlayer.                                                           *)
LEMMA StepPlayerKeepsInv ==
  ASSUME ServerInv, died = "", NEW p \in Players, StepPlayer(p)
  PROVE  ServerInv'
<1>1. PICK l \in {lost, lost \union {p}} :
        \E s \in UpdateRanks([Now EXCEPT !.lost = l]) : Become(s)
  BY DEF StepPlayer
<1> DEFINE t == [Now EXCEPT !.lost = l]
<1>2. PICK s \in UpdateRanks(t) : Become(s)
  BY <1>1
<1>3. Settled(Now) /\ Fit(Now) /\ Typed(Now)
  BY DEF ServerInv, Settled
<1>4. l \subseteq fields
  <2>1. p \in fields
    BY InvFacts DEF StepPlayer
  <2>2. lost \subseteq fields
    BY <1>3, NowFields DEF Typed, BoardOK
  <2>3. QED BY <2>1, <2>2
<1>5. /\ DOMAIN t = StateFields /\ t.lost = l /\ t.state = state /\ t.died = died
      /\ t.fields = fields /\ t.ranked = ranked /\ t.holds = holds /\ t.started = started
      /\ t.out = Now.out /\ SameRoster(t, Now) /\ SamePeers(t, Now)
  BY NowFields DEF StateFields, SameRoster, SamePeers
<1> HIDE DEF t
<1>6. Typed(t)
  BY <1>3, <1>4, <1>5, NowFields
     DEF Typed, RosterOK, BoardOK, PeersOK, OutOK, SameRoster, SamePeers
<1>7. Settled(t) /\ SameLife(t, Now)
  BY <1>3, <1>5, <1>6, NowFields DEF Settled, SameLife, SameRoster
<1>8. Fit(t)
  BY <1>3, <1>7, SameLifeFit DEF Fit
<1>9. Settled(s) /\ (s.died = "" => Fit(s))
  BY <1>2, <1>7, <1>8, UpdateRanksSettles
<1>10. QED BY <1>2, <1>9, Adopted

(* A vector without its last peer.                                         *)
LEMMA WithoutLast ==
  ASSUME NEW ss \in Seq(Peers), IsInjective(ss), NEW n \in Nat \ {0}, Len(ss) = n
  PROVE  LET f == Front(ss)
         IN  /\ f \in Seq(Peers) /\ Len(f) = n - 1 /\ \A i \in 1..(n - 1) : f[i] = ss[i]
             /\ IsInjective(f) /\ Range(ss) \ {ss[n]} \subseteq Range(f)
<1> DEFINE f == Front(ss)
<1>1. DOMAIN ss = 1..n /\ (\A i \in 1..n : ss[i] \in Peers) /\ n - 1 \in Nat
  OBVIOUS
<1>2. f \in Seq(Peers) /\ Len(f) = n - 1 /\ \A i \in 1..(n - 1) : f[i] = ss[i]
  <2>1. 1 \in Int /\ n - 1 \in Int /\ \A j \in 1..(n - 1) : ss[j] \in Peers
    BY <1>1
  <2>2. f = SubSeq(ss, 1, n - 1)
    BY DEF Front
  <2> HIDE DEF f
  <2>3. /\ f \in Seq(Peers) /\ Len(f) = IF 1 <= n - 1 THEN (n - 1) - 1 + 1 ELSE 0
        /\ \A j \in 1..((n - 1) - 1 + 1) : f[j] = ss[1 + j - 1]
    BY <2>1, <2>2, SubSeqProperties
  <2>4. QED BY <2>3, <1>1
<1> HIDE DEF f
<1>3. DOMAIN f = 1..(n - 1)
  BY <1>2
<1>4. IsInjective(f)
  <2> SUFFICES ASSUME NEW i \in 1..(n - 1), NEW j \in 1..(n - 1), f[i] = f[j] PROVE i = j
    BY <1>3 DEF IsInjective
  <2>1. i \in 1..n /\ j \in 1..n /\ ss[i] = ss[j]
    BY <1>2
  <2>2. QED BY <2>1, <1>1 DEF IsInjective
<1>5. ASSUME NEW y \in Range(ss) \ {ss[n]} PROVE y \in Range(f)
  <2>1. PICK i \in 1..n : ss[i] = y
    BY <1>1 DEF Range
  <2>2. i # n
    BY <2>1
  <2>3. i \in 1..(n - 1) /\ f[i] = y
    BY <2>1, <2>2, <1>2
  <2>4. QED BY <2>3, <1>3 DEF Range
<1>6. QED BY <1>2, <1>4, <1>5 DEF f

(* The loop of stopServer, over the peers ss from the last one: those not  *)
(* closed yet are the first ones.                                          *)
ClosingInv(ss, k, S) ==
  \A r \in S : /\ Settled(r)
               /\ r.died = "" => /\ Len(r.socks) = Len(ss) - k
                                 /\ \A i \in 1..(Len(ss) - k) : r.socks[i] = ss[i]

Closing == INSTANCE Loops WITH Step <- LAMBDA c, S, x : CloseLast(S, x), Inv <- ClosingInv

Shorten(s, x) == [s EXCEPT !.socks = Front(@), !.closing = @ \ {x}]

(* The last peer taken off, the rest stays what it was.                    *)
LEMMA ShortenSettles ==
  ASSUME NEW s, Settled(s), NEW n \in Nat \ {0}, Len(s.socks) = n
  PROVE  LET t == Shorten(s, s.socks[n])
         IN  /\ Settled(t) /\ Len(t.socks) = n - 1
             /\ \A i \in 1..(n - 1) : t.socks[i] = s.socks[i]
<1> DEFINE ss == s.socks
           f == Front(ss)
           x == ss[n]
           t == Shorten(s, x)
<1>1. ss \in Seq(Peers) /\ IsInjective(ss) /\ s.closing \subseteq Range(ss) /\ DOMAIN s = StateFields
  BY DEF Settled, Typed, PeersOK
<1>2. /\ DOMAIN t = StateFields /\ t.socks = f /\ t.closing = s.closing \ {x}
      /\ t.out = s.out /\ t.died = s.died /\ t.state = s.state
      /\ SameRoster(t, s) /\ SameBoard(t, s)
  BY <1>1 DEF Shorten, StateFields, SameRoster, SameBoard
<1>3. /\ f \in Seq(Peers) /\ Len(f) = n - 1 /\ \A i \in 1..(n - 1) : f[i] = ss[i]
      /\ IsInjective(f) /\ Range(ss) \ {x} \subseteq Range(f)
  <2> HIDE DEF ss
  <2>1. Len(ss) = n
    BY DEF ss
  <2>2. QED BY <1>1, <2>1, WithoutLast
<1>4. s.closing \ {x} \subseteq Range(f)
  BY <1>1, <1>3
<1> HIDE DEF f, x, t
<1>5. PeersOK(t)
  BY <1>2, <1>3, <1>4 DEF PeersOK
<1>6. Typed(t)
  BY <1>2, <1>5 DEF Settled, Typed, RosterOK, BoardOK, OutOK, SameRoster, SameBoard
<1>7. Settled(t)
  BY <1>2, <1>6 DEF Settled, SameBoard
<1>8. QED BY <1>2, <1>3, <1>7 DEF t, x

(* stopServer: whatever the peers leave behind on the way.                 *)
LEMMA StopKeepsInv ==
  ASSUME ServerInv, StopServer
  PROVE  ServerInv'
<1> DEFINE b == [Now EXCEPT !.state = "NONE"]
           q == Reverse(socks)
           n == Len(socks)
           R == Closing!Loop(socks, {b}, q)
<1>1. PICK s \in FoldLeft(CloseLast, {b}, q) :
        Become([s EXCEPT !.died = IF @ = "" THEN "stopped" ELSE @])
  BY DEF StopServer
<1>2. FoldLeft(CloseLast, {b}, q) = R
  BY DEF Closing!Loop, Closing!MapThenFoldSet,
         Closing!Max, FoldLeft, MapThenFoldSet, Max
<1>3. socks \in Seq(Peers) /\ n \in Nat /\ DOMAIN q = 1..n /\ \A k \in 1..n : q[k] = socks[(n - k) + 1]
  <2>1. socks \in Seq(Peers)
    BY InvFacts
  <2>2. QED BY <2>1 DEF Reverse
<1> HIDE DEF q, n, R
<1>4. Settled(b) /\ b.socks = socks
  <2>1. Settled(Now)
    BY DEF ServerInv
  <2>2. /\ DOMAIN b = StateFields /\ b.state = "NONE" /\ b.out = Now.out /\ b.died = Now.died
        /\ SameRoster(b, Now) /\ SameBoard(b, Now) /\ SamePeers(b, Now)
    BY NowFields DEF StateFields, SameRoster, SameBoard, SamePeers
  <2> HIDE DEF b
  <2>3. Typed(b)
    BY <2>1, <2>2 DEF Settled, Typed, RosterOK, BoardOK, PeersOK, OutOK, SameRoster, SameBoard, SamePeers
  <2>4. QED BY <2>2, <2>3, NowFields DEF Settled, ServerStates, SamePeers
<1> HIDE DEF b
<1>5. ClosingInv(socks, 0, {b})
  <2>1. n - 0 = n
    BY <1>3
  <2>2. QED BY <1>4, <2>1 DEF ClosingInv, n
<1>6. ASSUME NEW k \in 1..n, NEW S, ClosingInv(socks, k - 1, S)
      PROVE  ClosingInv(socks, k, CloseLast(S, q[k]))
  <2> DEFINE m == (n - k) + 1
  <2>1. m \in Nat \ {0} /\ n - (k - 1) = m /\ n - k = m - 1 /\ m \in 1..n
    BY <1>3
  <2>2. q[k] = socks[m]
    BY <1>3
  <2> HIDE DEF m
  <2> SUFFICES ASSUME NEW r \in CloseLast(S, q[k])
               PROVE  /\ Settled(r)
                      /\ r.died = "" => /\ Len(r.socks) = m - 1
                                        /\ \A i \in 1..(m - 1) : r.socks[i] = socks[i]
    BY <2>1 DEF ClosingInv, n
  <2>3. PICK w \in S : r \in IF w.died # "" THEN {w} ELSE OnPeerDisconnect(Shorten(w, q[k]), q[k])
    BY DEF CloseLast, Shorten
  <2>4. /\ Settled(w)
        /\ w.died = "" => Len(w.socks) = m /\ \A i \in 1..m : w.socks[i] = socks[i]
    BY <1>6, <2>1 DEF ClosingInv, n
  <2>5. CASE w.died # ""
    <3>1. r = w
      BY <2>3, <2>5
    <3>2. QED BY <3>1, <2>4, <2>5
  <2>6. CASE w.died = ""
    <3>1. Len(w.socks) = m /\ \A i \in 1..m : w.socks[i] = socks[i]
      BY <2>4, <2>6
    <3>2. q[k] = w.socks[m] /\ \A i \in 1..(m - 1) : w.socks[i] = socks[i]
      <4>1. m \in 1..m /\ \A i \in 1..(m - 1) : i \in 1..m
        BY <2>1
      <4>2. QED BY <4>1, <3>1, <2>2
    <3> DEFINE t == Shorten(w, w.socks[m])
    <3>3. Settled(t) /\ Len(t.socks) = m - 1 /\ \A i \in 1..(m - 1) : t.socks[i] = w.socks[i]
      BY <2>1, <2>4, <3>1, ShortenSettles
    <3>4. r \in OnPeerDisconnect(t, q[k])
      BY <2>3, <2>6, <3>2
    <3> HIDE DEF t
    <3>5. Settled(r) /\ r.socks = t.socks
      BY <3>3, <3>4, OnPeerDisconnectSettles DEF SamePeers
    <3>6. QED BY <3>2, <3>3, <3>5
  <2>7. QED BY <2>5, <2>6
<1>7. ClosingInv(socks, n, R)
  <2>1. ClosingInv(socks, n, Closing!Loop(socks, {b}, q))
    BY <1>3, <1>5, <1>6, Closing!LoopInvariant
  <2>2. QED BY <2>1 DEF R
<1>8. Settled(s)
  BY <1>1, <1>2, <1>7 DEF ClosingInv
<1> DEFINE r == [s EXCEPT !.died = IF @ = "" THEN "stopped" ELSE @]
<1>9. /\ DOMAIN r = StateFields /\ r.state = s.state /\ r.out = s.out
      /\ r.died = (IF s.died = "" THEN "stopped" ELSE s.died)
      /\ SameRoster(r, s) /\ SameBoard(r, s) /\ SamePeers(r, s)
  <2>1. DOMAIN s = StateFields
    BY <1>8 DEF Settled, Typed
  <2>2. QED BY <2>1 DEF StateFields, SameRoster, SameBoard, SamePeers
<1>10. Become(r)
  BY <1>1
<1> HIDE DEF r
<1>11. Settled(r) /\ r.died # ""
  <2>1. OutOK(r) /\ r.died # ""
    BY <1>8, <1>9 DEF Settled, Typed, OutOK, Deaths
  <2>2. Typed(r)
    BY <1>8, <1>9, <2>1 DEF Settled, Typed, RosterOK, BoardOK, PeersOK, SameRoster, SameBoard, SamePeers
  <2>3. QED BY <1>8, <1>9, <2>1, <2>2 DEF Settled, SameBoard
<1>12. QED BY <1>10, <1>11, Adopted

(* startServer.                                                            *)
LEMMA InitInv == Init => ServerInv
<1> SUFFICES ASSUME Init PROVE ServerInv
  OBVIOUS
<1>1. /\ DOMAIN Now = StateFields /\ Now.state = "LOBBY" /\ Now.started = FALSE
      /\ Now.pstate = <<>> /\ Now.peerOf = <<>> /\ Now.current = 0
      /\ Now.fields = {} /\ Now.lost = {} /\ Now.ranked = {} /\ Now.holds = {}
      /\ Now.socks = <<>> /\ Now.closing = {} /\ Now.out = <<>> /\ Now.died = ""
  BY NowFields DEF Init
<1>2. DOMAIN <<>> = {}
  OBVIOUS
<1> DEFINE n == Now
<1>3. \A st : InState(n, st) = {}
  BY <1>1, <1>2 DEF InState
<1>4. Cardinality({}) = 0
  BY FS_EmptySet
<1>5. out \in Seq(Message) /\ <<>> \in Seq(Message) /\ <<>> \in Seq(Peers)
  BY EmptySeq DEF Init
<1>6. \A T : <<>> \in [{} -> T]
  <2>1. <<>> = [i \in {} |-> i]
    BY <1>2
  <2>2. QED BY <2>1
<1> HIDE DEF n
<1>7. RosterOK(n)
  <2>1. DOMAIN n.pstate = {} /\ n.pstate = <<>> /\ n.peerOf = <<>> /\ n.current = 0
    BY <1>1, <1>2 DEF n
  <2>2. 0 \in 0..IdMax
    BY IdAssumption
  <2>3. n.pstate \in [{} -> PlayerStates] /\ n.peerOf \in [{} -> Peers \union {Local}]
    BY <2>1, <1>6
  <2>4. QED BY <2>1, <2>2, <2>3 DEF RosterOK
<1>8. BoardOK(n)
  BY <1>1, <1>2 DEF BoardOK, n
<1>9. PeersOK(n)
  BY <1>1, <1>2, <1>5 DEF PeersOK, IsInjective, n
<1>10. OutOK(n)
  BY <1>1, <1>5 DEF OutOK, Deaths, n
<1>11. Typed(n) /\ Settled(n)
  BY <1>1, <1>7, <1>8, <1>9, <1>10 DEF Typed, Settled, ServerStates, n
<1>12. n.state = "LOBBY" /\ n.started = FALSE /\ n.holds = {}
  BY <1>1 DEF n
<1>13. Sound(n)
  BY <1>3, <1>12 DEF Sound
<1>14. Waits(n)
  <2>1. Cardinality(InState(n, "LOBBY_READY")) < PlNbMax
    <3>1. Cardinality(InState(n, "LOBBY_READY")) = 0
      BY <1>3, <1>4
    <3> HIDE DEF n
    <3>2. \A k : k = 0 => k < PlNbMax
      <4>1. 0 < PlNbMax
        BY IdAssumption
      <4>2. QED BY <4>1
    <3>3. QED BY <3>1, <3>2
  <2>2. QED BY <2>1, <1>12 DEF Waits
<1>15. QED BY <1>5, <1>11, <1>13, <1>14 DEF ServerInv, Fit, n

(* Every action keeps the invariant.                                       *)
LEMMA NextInv == ServerInv /\ [Next]_vars => ServerInv'
<1> SUFFICES ASSUME ServerInv, [Next]_vars PROVE ServerInv'
  OBVIOUS
<1>1. CASE died = "" /\ Running
  <2>1. ASSUME NEW x \in Peers, Connect(x) PROVE ServerInv'
    BY <2>1, <1>1, ConnectKeepsInv
  <2>2. ASSUME NEW x \in Peers, Fail(x) PROVE ServerInv'
    BY <2>2, <1>1, FailKeepsInv
  <2>3. ASSUME NEW x \in Peers, Close(x) PROVE ServerInv'
    BY <2>3, <1>1, CloseKeepsInv
  <2>4. ASSUME NEW x \in Peers, Join(x) PROVE ServerInv'
    BY <2>4, <1>1, JoinKeepsInv
  <2>5. CASE JoinLocal
    BY <2>5, <1>1, JoinLocalKeepsInv
  <2>6. CASE StopServer
    BY <2>6, StopKeepsInv
  <2>7. ASSUME NEW p \in Players, NEW st \in PlayerStates, ChangeState(p, st) PROVE ServerInv'
    <3>1. Fit(Now)
      BY <1>1 DEF ServerInv
    <3>2. QED BY <2>7, <3>1, ChangeStateKeepsInv
  <2>8. ASSUME NEW p \in Players, Quit(p) PROVE ServerInv'
    BY <2>8, <1>1, QuitKeepsInv
  <2>9. ASSUME NEW p \in Players, StepPlayer(p) PROVE ServerInv'
    BY <2>9, <1>1, StepPlayerKeepsInv
  <2>10. QED BY <1>1, <2>1, <2>2, <2>3, <2>4, <2>5, <2>6, <2>7, <2>8, <2>9 DEF Running
<1>2. CASE UNCHANGED vars
  <2>1. out' = out /\ died' = died /\ Now' = Now
    BY <1>2 DEF vars, Now
  <2>2. \A s : s = Now => (Settled(s) <=> Settled(Now)) /\ (Fit(s) <=> Fit(Now))
    OBVIOUS
  <2>3. Settled(Now)' /\ (died' = "" => Fit(Now)')
    BY <1>2, <2>1 DEF ServerInv, vars, Settled, Typed, RosterOK, BoardOK, PeersOK, OutOK,
                      Fit, Sound, Waits, InState
  <2>4. QED BY <2>1, <2>3 DEF ServerInv
<1>3. QED BY <1>1, <1>2 DEF Next

-----------------------------------------------------------------------------
(* The theorems.                                                           *)

(* After every handler the players, the fields and the peers are typed and *)
(* belong together, and while the server runs the match is in its state.   *)
THEOREM ServerInvariant == Spec => []ServerInv
<1>1. Init => ServerInv
  BY InitInv
<1>2. ServerInv /\ [Next]_vars => ServerInv'
  BY NextInv
<1>3. QED BY <1>1, <1>2, PTL DEF Spec

(* Whatever the peers do, the players, the fields, the peers and what the  *)
(* server sends stay what they should be: only players of the match hold a *)
(* field, peers being closed are peers, no peer is there twice.            *)
THEOREM ServerTypesCorrect == Spec => []TypeOK
<1>1. ServerInv => TypeOK
  <2> SUFFICES ASSUME ServerInv PROVE TypeOK
    OBVIOUS
  <2>1. Typed(Now) /\ state \in ServerStates /\ out \in Seq(Message)
    BY NowFields DEF ServerInv, Settled
  <2>2. /\ Players \subseteq PlIds /\ pstate \in [Players -> PlayerStates]
        /\ peerOf \in [Players -> Peers \union {Local}] /\ current \in 0..IdMax
    BY <2>1, NowFields DEF Typed, RosterOK, Players
  <2>3. /\ fields \subseteq PlIds /\ lost \subseteq fields /\ ranked \subseteq fields
        /\ holds \subseteq Players \intersect fields /\ started \in BOOLEAN
    BY <2>1, NowFields DEF Typed, BoardOK, Players
  <2>4. socks \in Seq(Peers) /\ IsInjective(socks) /\ closing \subseteq Range(socks)
    BY <2>1, NowFields DEF Typed, PeersOK
  <2>5. Range(socks) \subseteq Peers
    BY <2>4 DEF Range
  <2>6. \A i \in DOMAIN out : out[i].to \subseteq Peers /\ out[i].event \in Event
    <3>1. \A i \in DOMAIN out : out[i] \in Message
      BY <2>1
    <3>2. QED BY <3>1 DEF Message
  <2>7. died \in {"", "stopped", "match not started", "ranked field without player"}
    BY <2>1, NowFields DEF Typed, OutOK, Deaths
  <2>8. QED BY <2>1, <2>2, <2>3, <2>4, <2>5, <2>6, <2>7 DEF TypeOK
<1>2. QED BY <1>1, ServerInvariant, PTL

(* checkAllPlayersReady and setState: however many players there may be    *)
(* and whoever joins, changes its mind or leaves, no handler ends with     *)
(* enough of them ready in the lobby, or with one left behind there.       *)
THEOREM LobbyNeverStuck == Spec => []LobbyWaits
<1>1. ServerInv => LobbyWaits
  <2> SUFFICES ASSUME ServerInv, Fit(Now)
               PROVE  Cardinality(InState(Now, "LOBBY_READY"))
                        < (IF state = "LOBBY" THEN PlNbMax ELSE 1)
    BY DEF ServerInv, LobbyWaits
  <2> DEFINE L == InState(Now, "LOBBY_READY")
  <2>1. Now.state = state
    BY NowFields
  <2>2. state = "LOBBY" => Cardinality(L) < PlNbMax
    BY <2>1 DEF Fit, Waits
  <2>3. state # "LOBBY" => L = {}
    BY <2>1 DEF Fit, Sound
  <2> HIDE DEF L
  <2>4. state # "LOBBY" => Cardinality(L) = 0
    BY <2>3, FS_EmptySet
  <2>5. Cardinality(L) < (IF state = "LOBBY" THEN PlNbMax ELSE 1)
    BY <2>2, <2>4
  <2>6. QED BY <2>5 DEF L
<1>2. QED BY <1>1, ServerInvariant, PTL

(* removePlayer and checkAllPlayersReady: a match being prepared is always *)
(* waiting for one of its players, whoever leaves meanwhile.               *)
THEOREM PreparationNeverStuck == Spec => []PreparationWaits
<1>1. ServerInv => PreparationWaits
  BY NowFields DEF ServerInv, PreparationWaits, Fit, Waits
<1>2. QED BY <1>1, ServerInvariant, PTL

(* prepareMatch, startMatch, stopMatch: the match is started just in GAME, *)
(* and the players of the match are those that hold a field.               *)
THEOREM MatchFollows == Spec => []MatchFollowsState
<1>1. ServerInv => MatchFollowsState
  BY NowFields DEF ServerInv, MatchFollowsState, Fit, Sound
<1>2. QED BY <1>1, ServerInvariant, PTL

=============================================================================
