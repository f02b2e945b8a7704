-------------------------- MODULE ClientViewProofs --------------------------
(***************************************************************************)
(* Proofs about ClientView, for any peers, any number of players and any   *)
(* number of events in flight: however far behind a client is, the events  *)
(* it has not read yet lead it to the state of the server.                 *)
(*                                                                         *)
(* The client may take one of its players for gone between any two events, *)
(* so what is in flight leads to a set of views (Reads).  Each of them has *)
(* the players, states and fields of the server (Mirror), and a handler of *)
(* the server is followed call by call (Follows).                          *)
(***************************************************************************)
EXTENDS ClientView, ServerProofs

USE MeAssumption, ChanAssumption

-----------------------------------------------------------------------------
(* The views of the client.                                                *)
ViewFields == {"state", "players", "local", "holds", "started", "error"}
ViewStates == {"NONE", "LOBBY", "GAME_INIT", "GAME_READY", "GAME"}

\* The players taken for gone.
QuitOf(v) == {p \in Known(v) : v.players[p] = "QUIT"}

Shape(v) ==
  /\ DOMAIN v = ViewFields
  /\ v.state \in ViewStates
  /\ Known(v) \subseteq PlIds
  /\ v.players \in [Known(v) -> PlayerStates \union {"QUIT"}]
  /\ v.local \subseteq Known(v) /\ v.holds \subseteq Known(v)
  /\ v.started \in BOOLEAN
  /\ v.error \in ClientErrors \union {""}
  /\ QuitOf(v) \subseteq v.local

\* What an event leaves alone.
SameMatch(u, v) == u.state = v.state /\ u.started = v.started
SamePlayers(u, v) == u.players = v.players /\ u.local = v.local

(* An event refused.                                                       *)
LEMMA RefuseShaped ==
  ASSUME NEW v, Shape(v), NEW why \in ClientErrors
  PROVE  LET u == Refuse(v, why)
         IN  /\ Shape(u) /\ u.error = why
             /\ SameMatch(u, v) /\ SamePlayers(u, v) /\ u.holds = v.holds
<1> DEFINE u == Refuse(v, why)
<1>1. DOMAIN v = ViewFields
  BY DEF Shape
<1>2. /\ DOMAIN u = ViewFields /\ u.error = why /\ u.state = v.state /\ u.players = v.players
      /\ u.local = v.local /\ u.holds = v.holds /\ u.started = v.started
  BY <1>1 DEF Refuse, ViewFields
<1> HIDE DEF u
<1>3. Shape(u)
  BY <1>2 DEF Shape, Known, QuitOf
<1>4. QED BY <1>2, <1>3 DEF u, SameMatch, SamePlayers

(* The implicit changes of the state of the players.                       *)
LEMMA MoveShaped ==
  ASSUME NEW v, Shape(v), NEW from, from # "QUIT", NEW to \in PlayerStates
  PROVE  LET m == Move(v, from, to)
         IN  /\ DOMAIN m = Known(v) /\ m \in [Known(v) -> PlayerStates \union {"QUIT"}]
             /\ \A p \in Known(v) : m[p] = IF v.players[p] = from THEN to ELSE v.players[p]
             /\ \A p \in Known(v) : m[p] = "QUIT" <=> v.players[p] = "QUIT"
<1>1. to # "QUIT"
  BY DEF PlayerStates
<1>2. \A p \in Known(v) : v.players[p] \in PlayerStates \union {"QUIT"}
  BY DEF Shape
<1>3. QED BY <1>1, <1>2 DEF Move

(* A change of state that is adopted, with its players.                    *)
Moved(v, st, from, to) == [v EXCEPT !.state = st, !.players = Move(v, from, to)]

LEMMA MovedShaped ==
  ASSUME NEW v, Shape(v), NEW st \in {"GAME_INIT", "GAME"}, NEW from, from # "QUIT",
         NEW to \in PlayerStates
  PROVE  LET u == Moved(v, st, from, to)
         IN  /\ Shape(u) /\ u.state = st /\ u.started = v.started /\ u.holds = v.holds
             /\ u.local = v.local /\ u.error = v.error /\ Known(u) = Known(v)
             /\ QuitOf(u) = QuitOf(v)
             /\ \A p \in Known(v) :
                  u.players[p] = IF v.players[p] = from THEN to ELSE v.players[p]
<1> DEFINE u == Moved(v, st, from, to)
           m == Move(v, from, to)
<1>1. DOMAIN v = ViewFields
  BY DEF Shape
<1>2. /\ DOMAIN u = ViewFields /\ u.error = v.error /\ u.state = st /\ u.players = m
      /\ u.local = v.local /\ u.holds = v.holds /\ u.started = v.started
  BY <1>1 DEF ViewFields, Moved
<1>3. /\ DOMAIN m = Known(v) /\ m \in [Known(v) -> PlayerStates \union {"QUIT"}]
      /\ \A p \in Known(v) : m[p] = IF v.players[p] = from THEN to ELSE v.players[p]
      /\ \A p \in Known(v) : m[p] = "QUIT" <=> v.players[p] = "QUIT"
  BY MoveShaped
<1> HIDE DEF u, m
<1>4. Known(u) = Known(v) /\ QuitOf(u) = QuitOf(v)
  BY <1>2, <1>3 DEF Known, QuitOf
<1>5. Shape(u)
  BY <1>2, <1>3, <1>4 DEF Shape, ViewStates, Known
<1>6. QED BY <1>2, <1>3, <1>4, <1>5 DEF u

(* processPktServerState.                                                  *)
LEMMA OnStateShaped ==
  ASSUME NEW v, Shape(v), NEW st \in {"LOBBY", "GAME_INIT", "GAME_READY", "GAME"}
  PROVE  LET u == OnState(v, st)
         IN  Shape(u) /\ QuitOf(u) = QuitOf(v)
<1> DEFINE u == OnState(v, st)
<1> SUFFICES Shape(u) /\ QuitOf(u) = QuitOf(v)
  OBVIOUS
<1>1. DOMAIN v = ViewFields
  BY DEF Shape
<1>2. CASE u = v
  BY <1>2
<1>3. CASE u = Refuse(v, "match already started")
  <2>1. "match already started" \in ClientErrors
    BY DEF ClientErrors
  <2>2. Shape(u) /\ SamePlayers(u, v)
    BY <1>3, <2>1, RefuseShaped
  <2>3. QED BY <2>2 DEF SamePlayers, QuitOf, Known
<1>4. CASE u = Moved(v, "GAME_INIT", "LOBBY_READY", "GAME_INIT")
  <2>1. "GAME_INIT" \in PlayerStates
    BY DEF PlayerStates
  <2>2. "GAME_INIT" \in {"GAME_INIT", "GAME"} /\ "LOBBY_READY" # "QUIT"
    OBVIOUS
  <2> HIDE DEF u
  <2>3. QED BY <1>4, <2>1, <2>2, MovedShaped
<1>5. CASE u = Moved(v, "GAME", "GAME_READY", "GAME")
  <2>1. "GAME" \in PlayerStates
    BY DEF PlayerStates
  <2>2. "GAME" \in {"GAME_INIT", "GAME"} /\ "GAME_READY" # "QUIT"
    OBVIOUS
  <2> DEFINE m == Moved(v, "GAME", "GAME_READY", "GAME")
  <2>3. Shape(m) /\ QuitOf(m) = QuitOf(v)
    BY <2>1, <2>2, MovedShaped
  <2> HIDE DEF u, m
  <2>4. u = m
    BY <1>5 DEF m
  <2>5. QED BY <2>3, <2>4
<1>6. CASE u = [v EXCEPT !.state = "GAME_READY", !.started = TRUE]
  <2>1. /\ DOMAIN u = ViewFields /\ u.error = v.error /\ u.state = "GAME_READY"
        /\ u.players = v.players /\ u.local = v.local /\ u.holds = v.holds /\ u.started = TRUE
    BY <1>1, <1>6 DEF ViewFields
  <2> HIDE DEF u
  <2>2. QED BY <2>1 DEF Shape, ViewStates, Known, QuitOf
<1>7. CASE u = [v EXCEPT !.state = "LOBBY", !.started = FALSE, !.holds = {}]
  <2>1. /\ DOMAIN u = ViewFields /\ u.error = v.error /\ u.state = "LOBBY"
        /\ u.players = v.players /\ u.local = v.local /\ u.holds = {} /\ u.started = FALSE
    BY <1>1, <1>7 DEF ViewFields
  <2> HIDE DEF u
  <2>2. QED BY <2>1 DEF Shape, ViewStates, Known, QuitOf
<1>8. \/ u = v
      \/ u = Refuse(v, "match already started")
      \/ u = Moved(v, "GAME_INIT", "LOBBY_READY", "GAME_INIT")
      \/ u = Moved(v, "GAME", "GAME_READY", "GAME")
      \/ u = [v EXCEPT !.state = "GAME_READY", !.started = TRUE]
      \/ u = [v EXCEPT !.state = "LOBBY", !.started = FALSE, !.holds = {}]
  <2>1. CASE st = v.state
    BY <2>1 DEF OnState
  <2>2. CASE st # v.state /\ st = "LOBBY"
    BY <2>2 DEF OnState
  <2>3. CASE st # v.state /\ st = "GAME_INIT"
    BY <2>3 DEF OnState, Moved
  <2>4. CASE st # v.state /\ st = "GAME_READY"
    BY <2>4 DEF OnState
  <2>5. CASE st # v.state /\ st = "GAME"
    BY <2>5 DEF OnState, Moved
  <2>6. QED BY <2>1, <2>2, <2>3, <2>4, <2>5
<1>9. QED BY <1>2, <1>3, <1>4, <1>5, <1>6, <1>7, <1>8

(* The state of a player of the client.                                    *)
LEMMA PlayerStateShaped ==
  ASSUME NEW v, Shape(v), NEW p \in Known(v), v.players[p] # "QUIT", NEW st \in PlayerStates
  PROVE  LET u == [v EXCEPT !.players[p] = st]
         IN  /\ Shape(u) /\ SameMatch(u, v) /\ u.local = v.local /\ u.holds = v.holds
             /\ u.error = v.error /\ Known(u) = Known(v) /\ QuitOf(u) = QuitOf(v)
             /\ u.players = [v.players EXCEPT ![p] = st]
<1> DEFINE u == [v EXCEPT !.players[p] = st]
<1>1. DOMAIN v = ViewFields
  BY DEF Shape
<1>2. /\ DOMAIN u = ViewFields /\ u.error = v.error /\ u.state = v.state
      /\ u.players = [v.players EXCEPT ![p] = st]
      /\ u.local = v.local /\ u.holds = v.holds /\ u.started = v.started
  BY <1>1 DEF ViewFields
<1> HIDE DEF u
<1>3. Known(u) = Known(v)
  BY <1>2 DEF Known
<1>4. st # "QUIT"
  BY DEF PlayerStates
<1>5. QuitOf(u) = QuitOf(v)
  BY <1>2, <1>3, <1>4 DEF QuitOf, Known
<1>6. u.players \in [Known(v) -> PlayerStates \union {"QUIT"}]
  BY <1>2 DEF Shape, Known
<1>7. Shape(u)
  BY <1>2, <1>3, <1>5, <1>6 DEF Shape
<1>8. QED BY <1>2, <1>3, <1>5, <1>7 DEF u, SameMatch

(* A player that is gone.                                                  *)
Forgotten(v, p) ==
  [v EXCEPT !.players = Restricted(@, p), !.local = @ \ {p}, !.holds = @ \ {p}]

LEMMA ForgottenShaped ==
  ASSUME NEW v, Shape(v), NEW p
  PROVE  LET u == Forgotten(v, p)
         IN  /\ Shape(u) /\ SameMatch(u, v) /\ u.local = v.local \ {p} /\ u.holds = v.holds \ {p}
             /\ u.error = v.error /\ Known(u) = Known(v) \ {p} /\ QuitOf(u) = QuitOf(v) \ {p}
             /\ \A q \in Known(u) : u.players[q] = v.players[q]
<1> DEFINE u == Forgotten(v, p)
<1>1. DOMAIN v = ViewFields
  BY DEF Shape
<1>2. /\ DOMAIN u = ViewFields /\ u.error = v.error /\ u.state = v.state
      /\ u.players = Restricted(v.players, p)
      /\ u.local = v.local \ {p} /\ u.holds = v.holds \ {p} /\ u.started = v.started
  BY <1>1 DEF ViewFields, Forgotten
<1> HIDE DEF u
<1>3. Known(u) = Known(v) \ {p} /\ \A q \in Known(u) : u.players[q] = v.players[q]
  BY <1>2 DEF Known, Restricted
<1>4. QuitOf(u) = QuitOf(v) \ {p}
  BY <1>3 DEF QuitOf
<1>5. u.players \in [Known(u) -> PlayerStates \union {"QUIT"}]
  <2>1. u.players = [q \in Known(v) \ {p} |-> v.players[q]]
    BY <1>2 DEF Known, Restricted
  <2>2. QED BY <2>1, <1>3 DEF Shape
<1>6. Shape(u)
  BY <1>2, <1>3, <1>4, <1>5 DEF Shape
<1>7. QED BY <1>2, <1>3, <1>4, <1>6 DEF u, SameMatch

(* processPktPlayerState.                                                  *)
LEMMA OnPlayerStateShaped ==
  ASSUME NEW v, Shape(v), NEW p \in PlIds, NEW st \in PlayerStates \union {"QUIT"}
  PROVE  LET u == OnPlayerState(v, p, st)
         IN  Shape(u) /\ QuitOf(u) \subseteq QuitOf(v)
<1> DEFINE u == OnPlayerState(v, p, st)
<1> SUFFICES Shape(u) /\ QuitOf(u) \subseteq QuitOf(v)
  OBVIOUS
<1>1. ASSUME NEW why \in ClientErrors, u = Refuse(v, why) PROVE Shape(u) /\ QuitOf(u) \subseteq QuitOf(v)
  <2>1. Shape(u) /\ SamePlayers(u, v)
    BY <1>1, RefuseShaped
  <2>2. QED BY <2>1 DEF SamePlayers, QuitOf, Known
<1>2. {"invalid player", "unsettable state", "invalid new state"} \subseteq ClientErrors
  BY DEF ClientErrors
<1>3. CASE p \notin Known(v)
  <2>1. u = Refuse(v, "invalid player")
    BY <1>3 DEF OnPlayerState
  <2> HIDE DEF u
  <2>2. QED BY <2>1, <1>1, <1>2
<1>4. CASE p \in Known(v) /\ v.players[p] \in {"QUIT", st}
  <2>1. u = v
    BY <1>4 DEF OnPlayerState
  <2>2. QED BY <2>1
<1>5. CASE p \in Known(v) /\ v.players[p] \notin {"QUIT", st}
  <2>1. CASE st = "QUIT"
    <3>1. u = Forgotten(v, p)
      BY <1>5, <2>1 DEF OnPlayerState, Forgotten
    <3> HIDE DEF u
    <3>2. QED BY <3>1, ForgottenShaped
  <2>2. CASE st \in {"GAME_INIT", "GAME"}
    <3>1. u = Refuse(v, "unsettable state")
      BY <1>5, <2>2 DEF OnPlayerState
    <3> HIDE DEF u
    <3>2. QED BY <3>1, <1>1, <1>2
  <2>3. CASE st \notin {"GAME_INIT", "GAME", "QUIT"} /\ ~ SettableInView(v, p, st)
    <3>1. u = Refuse(v, "invalid new state")
      BY <1>5, <2>3 DEF OnPlayerState
    <3> HIDE DEF u
    <3>2. QED BY <3>1, <1>1, <1>2
  <2>4. CASE st \notin {"GAME_INIT", "GAME", "QUIT"} /\ SettableInView(v, p, st)
    <3>1. u = [v EXCEPT !.players[p] = st]
      BY <1>5, <2>4 DEF OnPlayerState
    <3>2. st \in PlayerStates /\ v.players[p] # "QUIT"
      BY <1>5, <2>4
    <3> HIDE DEF u
    <3>3. QED BY <3>1, <3>2, <1>5, PlayerStateShaped
  <2>5. QED BY <2>1, <2>2, <2>3, <2>4
<1>6. QED BY <1>3, <1>4, <1>5

(* createNewPlayer, for a player of this client or not.                    *)
Grown(v, p, mine) == [Created(v, p) EXCEPT !.local = @ \union mine]

LEMMA CreatedShaped ==
  ASSUME NEW v, Shape(v), NEW p \in PlIds \ Known(v), NEW mine \in SUBSET {p}
  PROVE  LET u == Grown(v, p, mine)
         IN  /\ Shape(u) /\ SameMatch(u, v) /\ u.local = v.local \union mine
             /\ u.holds = v.holds /\ u.error = v.error
             /\ Known(u) = Known(v) \union {p} /\ QuitOf(u) = QuitOf(v)
             /\ \A q \in Known(u) : u.players[q] = IF q = p THEN "LOBBY" ELSE v.players[q]
<1> DEFINE c == Created(v, p)
           u == Grown(v, p, mine)
<1>1. DOMAIN v = ViewFields
  BY DEF Shape
<1>2. /\ DOMAIN c = ViewFields /\ c.error = v.error /\ c.state = v.state
      /\ c.players = With(v.players, p, "LOBBY")
      /\ c.local = v.local /\ c.holds = v.holds /\ c.started = v.started
  BY <1>1 DEF ViewFields, Created
<1>3. u = [c EXCEPT !.local = @ \union mine]
  BY DEF Grown
<1> HIDE DEF c, u
<1>4. /\ DOMAIN u = ViewFields /\ u.error = v.error /\ u.state = v.state
      /\ u.players = With(v.players, p, "LOBBY")
      /\ u.local = v.local \union mine /\ u.holds = v.holds /\ u.started = v.started
  BY <1>2, <1>3 DEF ViewFields
<1>5. /\ Known(u) = Known(v) \union {p}
      /\ \A q \in Known(u) : u.players[q] = IF q = p THEN "LOBBY" ELSE v.players[q]
  BY <1>4 DEF Known, With
<1>6. QuitOf(u) = QuitOf(v)
  BY <1>5 DEF QuitOf
<1>7. u.players \in [Known(u) -> PlayerStates \union {"QUIT"}]
  <2>1. u.players = [q \in Known(u) |-> IF q = p THEN "LOBBY" ELSE v.players[q]]
    BY <1>4, <1>5 DEF Known, With
  <2>2. \A q \in Known(u) : (IF q = p THEN "LOBBY" ELSE v.players[q]) \in PlayerStates \union {"QUIT"}
    BY <1>5 DEF Shape, PlayerStates
  <2>3. QED BY <2>1, <2>2
<1>8. Shape(u)
  BY <1>4, <1>5, <1>6, <1>7 DEF Shape
<1>9. QED BY <1>4, <1>5, <1>6, <1>8 DEF u, c, SameMatch

(* A player of others.                                                     *)
LEMMA GrownByNone ==
  ASSUME NEW v, Shape(v), NEW p
  PROVE  Created(v, p) = Grown(v, p, {})
<1> DEFINE c == Created(v, p)
           u == Grown(v, p, {})
<1>1. DOMAIN v = ViewFields
  BY DEF Shape
<1>2. DOMAIN c = ViewFields /\ c = [f \in ViewFields |-> c[f]]
  BY <1>1 DEF Created, ViewFields
<1>3. u = [c EXCEPT !.local = @ \union {}]
  BY DEF Grown
<1> HIDE DEF c, u
<1>4. u = [c EXCEPT !["local"] = c["local"]]
  BY <1>3
<1>5. u = c
  BY <1>2, <1>4
<1>6. QED BY <1>5 DEF c, u

(* processPktPlayerConf, processNewPlayerResponse, processPktPlayerField   *)
(* and processPktPlayerRank.                                               *)
LEMMA OnOthersShaped ==
  ASSUME NEW v, Shape(v), NEW p \in PlIds,
         NEW u \in {OnPlayerConf(v, p), OnJoined(v, p), OnField(v, p), OnRank(v, p)}
  PROVE  Shape(u) /\ QuitOf(u) = QuitOf(v)
<1>1. DOMAIN v = ViewFields
  BY DEF Shape
<1>2. ASSUME NEW why \in ClientErrors, u = Refuse(v, why) PROVE Shape(u) /\ QuitOf(u) = QuitOf(v)
  <2>1. Shape(u) /\ SamePlayers(u, v)
    BY <1>2, RefuseShaped
  <2>2. QED BY <2>1 DEF SamePlayers, QuitOf, Known
<1>3. {"invalid player", "duplicate player", "invalid in current state", "field already initialized"}
        \subseteq ClientErrors
  BY DEF ClientErrors
<1>4. CASE u = v
  BY <1>4
<1>5. CASE u = OnPlayerConf(v, p) /\ p \notin Known(v)
  <2>1. Created(v, p) = Grown(v, p, {})
    BY GrownByNone
  <2>2. u = Created(v, p)
    BY <1>5 DEF OnPlayerConf
  <2>3. {} \in SUBSET {p} /\ p \in PlIds \ Known(v)
    BY <1>5
  <2>4. QED BY <2>1, <2>2, <2>3, CreatedShaped
<1>6. CASE u = OnJoined(v, p) /\ p \notin Known(v)
  <2>1. u = Grown(v, p, {p})
    BY <1>6 DEF OnJoined, Grown
  <2>2. {p} \in SUBSET {p} /\ p \in PlIds \ Known(v)
    BY <1>6
  <2>3. QED BY <2>1, <2>2, CreatedShaped
<1>7. CASE u = OnField(v, p) /\ v.state = "GAME_INIT" /\ p \in Known(v) /\ p \notin v.holds
  <2>1. u = [v EXCEPT !.holds = @ \union {p}]
    BY <1>7 DEF OnField
  <2>2. /\ DOMAIN u = ViewFields /\ u.error = v.error /\ u.state = v.state /\ u.started = v.started
        /\ u.players = v.players /\ u.local = v.local /\ u.holds = v.holds \union {p}
    BY <1>1, <2>1 DEF ViewFields
  <2>3. QED BY <2>2, <1>7 DEF Shape, Known, QuitOf
<1>8. \/ u = v
      \/ \E why \in ClientErrors : u = Refuse(v, why)
      \/ u = OnPlayerConf(v, p) /\ p \notin Known(v)
      \/ u = OnJoined(v, p) /\ p \notin Known(v)
      \/ u = OnField(v, p) /\ v.state = "GAME_INIT" /\ p \in Known(v) /\ p \notin v.holds
  <2>1. CASE u = OnPlayerConf(v, p)
    <3>1. CASE p \in Known(v)
      BY <2>1, <3>1 DEF OnPlayerConf
    <3>2. QED BY <2>1, <3>1
  <2>2. CASE u = OnJoined(v, p)
    <3>1. CASE p \in Known(v)
      BY <2>2, <3>1, <1>3 DEF OnJoined
    <3>2. QED BY <2>2, <3>1
  <2>3. CASE u = OnField(v, p)
    <3>1. CASE v.state # "GAME_INIT"
      BY <2>3, <3>1, <1>3 DEF OnField
    <3>2. CASE v.state = "GAME_INIT" /\ p \notin Known(v)
      <4>1. OnField(v, p) = Refuse(v, "invalid player")
        BY <3>2 DEF OnField, Shape
      <4>2. QED BY <2>3, <4>1, <1>3
    <3>3. CASE v.state = "GAME_INIT" /\ p \in Known(v) /\ p \in v.holds
      <4>1. OnField(v, p) = Refuse(v, "field already initialized")
        BY <3>3 DEF OnField
      <4>2. QED BY <2>3, <4>1, <1>3
    <3>4. QED BY <2>3, <3>1, <3>2, <3>3
  <2>4. CASE u = OnRank(v, p)
    <3>1. CASE v.state # "GAME"
      BY <2>4, <3>1, <1>3 DEF OnRank
    <3>2. CASE v.state = "GAME" /\ p \notin v.holds
      BY <2>4, <3>2, <1>3 DEF OnRank
    <3>3. CASE v.state = "GAME" /\ p \in v.holds
      BY <2>4, <3>3 DEF OnRank
    <3>4. QED BY <3>1, <3>2, <3>3
  <2>5. u = OnPlayerConf(v, p) \/ u = OnJoined(v, p) \/ u = OnField(v, p) \/ u = OnRank(v, p)
    OBVIOUS
  <2>6. QED BY <2>1, <2>2, <2>3, <2>4, <2>5
<1>9. QED BY <1>2, <1>4, <1>5, <1>6, <1>7, <1>8

(* onServerEvent: whatever it is told, the client stays what it should be, *)
(* and takes nobody for gone.                                              *)
LEMMA OnShaped ==
  ASSUME NEW v, Shape(v), NEW e \in Event
  PROVE  /\ Shape(On(v, e)) /\ QuitOf(On(v, e)) \subseteq QuitOf(v)
         /\ v.error # "" => On(v, e) = v
<1>1. CASE v.error # ""
  BY <1>1 DEF On
<1>2. CASE v.error = "" /\ e.type = "STATE"
  <2>1. On(v, e) = OnState(v, e.state)
    BY <1>2 DEF On
  <2>2. e.state \in {"LOBBY", "GAME_INIT", "GAME_READY", "GAME"}
    BY <1>2 DEF Event
  <2>3. QED BY <1>2, <2>1, <2>2, OnStateShaped
<1>3. CASE v.error = "" /\ e.type = "PLAYER_STATE"
  <2>1. On(v, e) = OnPlayerState(v, e.plid, e.state)
    BY <1>3 DEF On
  <2>2. e.plid \in PlIds /\ e.state \in PlayerStates \union {"QUIT"}
    BY <1>3 DEF Event
  <2>3. QED BY <1>3, <2>1, <2>2, OnPlayerStateShaped
<1>4. CASE v.error = "" /\ e.type \in {"PLAYER_CONF", "JOINED", "FIELD", "RANK"}
  <2>1. e.plid \in PlIds
    BY <1>4 DEF Event
  <2>2. On(v, e) \in {OnPlayerConf(v, e.plid), OnJoined(v, e.plid), OnField(v, e.plid),
                      OnRank(v, e.plid)}
    BY <1>4 DEF On
  <2>3. QED BY <1>4, <2>1, <2>2, OnOthersShaped
<1>5. e.type \in {"STATE", "PLAYER_STATE", "PLAYER_CONF", "JOINED", "FIELD", "RANK"}
  BY DEF Event
<1>6. QED BY <1>1, <1>2, <1>3, <1>4, <1>5

-----------------------------------------------------------------------------
(* Reading, while players may be taken for gone between any two events.    *)
QuitWith(v, S) ==
  [v EXCEPT !.players = [p \in DOMAIN @ |-> IF p \in S THEN "QUIT" ELSE @[p]]]
Quits(v) == {v} \union IF v.error # "" THEN {} ELSE {QuitWith(v, S) : S \in SUBSET v.local}

\* What a client that may be any of V may be once it has read e, and q.
Read(V, e) == UNION {Quits(On(v, e)) : v \in V}
Reads(V, q) == FoldLeft(Read, V, q)

(* Taking players for gone changes their state only.                       *)
LEMMA QuitsShaped ==
  ASSUME NEW v, Shape(v), NEW u \in Quits(v)
  PROVE  /\ Shape(u) /\ u.error = v.error /\ SameMatch(u, v)
         /\ u.local = v.local /\ u.holds = v.holds /\ Known(u) = Known(v)
         /\ QuitOf(v) \subseteq QuitOf(u)
         /\ \A p \in Known(u) \ QuitOf(u) : u.players[p] = v.players[p]
<1>1. CASE u = v
  BY <1>1 DEF SameMatch
<1>2. ASSUME NEW S \in SUBSET v.local, u = QuitWith(v, S)
      PROVE  /\ Shape(u) /\ u.error = v.error /\ SameMatch(u, v)
             /\ u.local = v.local /\ u.holds = v.holds /\ Known(u) = Known(v)
             /\ QuitOf(v) \subseteq QuitOf(u)
             /\ \A p \in Known(u) \ QuitOf(u) : u.players[p] = v.players[p]
  <2>1. DOMAIN v = ViewFields
    BY DEF Shape
  <2> DEFINE ps == [p \in Known(v) |-> IF p \in S THEN "QUIT" ELSE v.players[p]]
  <2>2. /\ DOMAIN u = ViewFields /\ u.error = v.error /\ u.state = v.state /\ u.players = ps
        /\ u.local = v.local /\ u.holds = v.holds /\ u.started = v.started
    BY <1>2, <2>1 DEF QuitWith, ViewFields, Known
  <2>3. /\ DOMAIN ps = Known(v) /\ ps \in [Known(v) -> PlayerStates \union {"QUIT"}]
        /\ \A p \in Known(v) : ps[p] = IF p \in S THEN "QUIT" ELSE v.players[p]
    BY DEF Shape
  <2> HIDE DEF ps
  <2>4. Known(u) = Known(v) /\ QuitOf(u) = QuitOf(v) \union S
    <3>1. S \subseteq Known(v)
      BY DEF Shape
    <3>2. QED BY <2>2, <2>3, <3>1 DEF Known, QuitOf
  <2>5. Shape(u)
    BY <2>2, <2>3, <2>4 DEF Shape
  <2>6. \A p \in Known(u) \ QuitOf(u) : u.players[p] = v.players[p]
    BY <2>2, <2>3, <2>4 DEF QuitOf
  <2>7. QED BY <2>2, <2>4, <2>5, <2>6 DEF SameMatch
<1>3. QED BY <1>1, <1>2 DEF Quits

\* What a fold may have reached after k items, and where a client may be.
Within(c, k, V) == V \subseteq c.g[k]
Hearing == INSTANCE Loops WITH Step <- LAMBDA c, V, e : Read(V, e), Inv <- Within

LEMMA ReadsLoop == \A c, V, q : Reads(V, q) = Hearing!Loop(c, V, q)
BY DEF Reads, Hearing!Loop, Hearing!MapThenFoldSet, Hearing!Max, FoldLeft, MapThenFoldSet, Max

(* Reading nothing, one event, and then others.                            *)
LEMMA ReadsMore ==
  ASSUME NEW V, NEW q \in Seq(Event)
  PROVE  /\ Reads(V, <<>>) = V
         /\ \A e \in Event : Reads(V, <<e>>) = Read(V, e)
         /\ \A r \in Seq(Event) : Reads(V, q \o r) = Reads(Reads(V, q), r)
         /\ \A e \in Event : Reads(V, Append(q, e)) = Read(Reads(V, q), e)
         /\ q # <<>> => Reads(V, q) = Reads(Read(V, Head(q)), Tail(q))
<1>1. Reads(V, <<>>) = V
  BY ReadsLoop, Hearing!LoopEmpty
<1>2. \A W : \A e \in Event : Reads(W, <<e>>) = Read(W, e)
  BY ReadsLoop, Hearing!LoopOne
<1>3. \A t, r \in Seq(Event) : Reads(V, t \o r) = Reads(Reads(V, t), r)
  <2> SUFFICES ASSUME NEW t \in Seq(Event), NEW r \in Seq(Event)
               PROVE  Reads(V, t \o r) = Reads(Reads(V, t), r)
    OBVIOUS
  <2>1. \A c, b : Hearing!Loop(c, b, t \o r) = Hearing!Loop(c, Hearing!Loop(c, b, t), r)
    BY Hearing!LoopConcat
  <2>2. QED BY <2>1, ReadsLoop
<1>4. ASSUME NEW e \in Event PROVE Reads(V, Append(q, e)) = Read(Reads(V, q), e)
  <2>1. Append(q, e) = q \o <<e>> /\ <<e>> \in Seq(Event)
    BY AppendIsConcat
  <2>2. QED BY <2>1, <1>2, <1>3
<1>5. ASSUME q # <<>> PROVE Reads(V, q) = Reads(Read(V, Head(q)), Tail(q))
  <2>1. Head(q) \in Event /\ Tail(q) \in Seq(Event) /\ <<Head(q)>> \in Seq(Event)
    BY <1>5, HeadTailProperties
  <2>2. q = <<Head(q)>> \o Tail(q)
    BY <1>5
  <2>3. Reads(V, <<Head(q)>> \o Tail(q)) = Reads(Reads(V, <<Head(q)>>), Tail(q))
    BY <2>1, <1>3
  <2>4. QED BY <2>1, <2>2, <2>3, <1>2
<1>6. QED BY <1>1, <1>2, <1>3, <1>4, <1>5

(* The more a client may be, the more it may be after reading.             *)
LEMMA ReadsGrow ==
  ASSUME NEW V, NEW W, V \subseteq W, NEW q \in Seq(Event)
  PROVE  Reads(V, q) \subseteq Reads(W, q)
<1>1. PICK n \in Nat : DOMAIN q = 1..n
  OBVIOUS
<1>2. PICK g : Hearing!Stages(0, W, q, n, g)
  BY <1>1, Hearing!LoopStages
<1>3. /\ g[0] = W /\ g[n] = Reads(W, q)
      /\ \A k \in 1..n : g[k] = Read(g[k - 1], q[k])
  BY <1>2, ReadsLoop DEF Hearing!Stages
<1> DEFINE c == [g |-> g]
<1>4. c.g = g
  OBVIOUS
<1> HIDE DEF c
<1>5. Within(c, 0, V)
  BY <1>3, <1>4 DEF Within
<1>6. \A k \in 1..n : \A T : Within(c, k - 1, T) => Within(c, k, Read(T, q[k]))
  BY <1>3, <1>4 DEF Within, Read
<1>7. Within(c, n, Hearing!Loop(c, V, q))
  BY <1>1, <1>5, <1>6, Hearing!LoopInvariant
<1>8. QED BY <1>3, <1>4, <1>7, ReadsLoop DEF Within

\* The client that takes nobody for gone is one of them.
Steady(c, k, v) ==
  /\ v \in c.g[k] /\ Shape(v) /\ QuitOf(v) \subseteq QuitOf(c.from)
  /\ c.from.error # "" => v = c.from
Going == INSTANCE Loops WITH Step <- LAMBDA c, v, e : On(v, e), Inv <- Steady

LEMMA AheadRead ==
  ASSUME NEW v, Shape(v), NEW V, v \in V, NEW q \in Seq(Event)
  PROVE  LET a == FoldLeft(On, v, q)
         IN  /\ a \in Reads(V, q) /\ Shape(a) /\ QuitOf(a) \subseteq QuitOf(v)
             /\ v.error # "" => a = v
<1> DEFINE a == FoldLeft(On, v, q)
<1>1. PICK n \in Nat : DOMAIN q = 1..n /\ \A k \in 1..n : q[k] \in Event
  OBVIOUS
<1>2. PICK g : Hearing!Stages(0, V, q, n, g)
  BY <1>1, Hearing!LoopStages
<1>3. /\ g[0] = V /\ g[n] = Reads(V, q)
      /\ \A k \in 1..n : g[k] = Read(g[k - 1], q[k])
  BY <1>2, ReadsLoop DEF Hearing!Stages
<1> DEFINE c == [g |-> g, from |-> v]
<1>4. c.g = g /\ c.from = v
  OBVIOUS
<1>5. a = Going!Loop(c, v, q)
  BY DEF Going!Loop, Going!MapThenFoldSet, Going!Max, FoldLeft, MapThenFoldSet, Max
<1> HIDE DEF c, a
<1>6. Steady(c, 0, v)
  BY <1>3, <1>4 DEF Steady
<1>7. ASSUME NEW k \in 1..n, NEW u, Steady(c, k - 1, u) PROVE Steady(c, k, On(u, q[k]))
  <2>1. u \in g[k - 1] /\ Shape(u) /\ QuitOf(u) \subseteq QuitOf(v) /\ (v.error # "" => u = v)
    BY <1>4, <1>7 DEF Steady
  <2>2. /\ Shape(On(u, q[k])) /\ QuitOf(On(u, q[k])) \subseteq QuitOf(u)
        /\ u.error # "" => On(u, q[k]) = u
    BY <1>1, <2>1, OnShaped
  <2>3. On(u, q[k]) \in g[k]
    <3>1. On(u, q[k]) \in Quits(On(u, q[k]))
      BY DEF Quits
    <3>2. QED BY <1>3, <2>1, <3>1 DEF Read
  <2>4. QED BY <1>4, <2>1, <2>2, <2>3 DEF Steady
<1>8. Steady(c, n, Going!Loop(c, v, q))
  BY <1>1, <1>6, <1>7, Going!LoopInvariant
<1>9. QED BY <1>3, <1>4, <1>5, <1>8 DEF Steady, a

(* What a handler has sent to the client so far.                           *)
Saved(c, k, q) == q \in Seq(Event)
Mining == INSTANCE Loops WITH Step <- LAMBDA c, q, m : Told(q, m), Inv <- Saved

LEMMA MineMore ==
  /\ Mine(<<>>) = <<>>
  /\ \A sent \in Seq(Message) : Mine(sent) \in Seq(Event)
  /\ \A sent \in Seq(Message), m \in Message : Mine(Append(sent, m)) = Told(Mine(sent), m)
<1>1. \A c, sent : Mine(sent) = Mining!Loop(c, <<>>, sent)
  BY DEF Mine, Mining!Loop, Mining!MapThenFoldSet, Mining!Max, FoldLeft, MapThenFoldSet, Max
<1>2. Mine(<<>>) = <<>>
  BY <1>1, Mining!LoopEmpty
<1>3. ASSUME NEW sent \in Seq(Message) PROVE Mine(sent) \in Seq(Event)
  <2>1. PICK n \in Nat : DOMAIN sent = 1..n /\ \A k \in 1..n : sent[k] \in Message
    OBVIOUS
  <2>2. Saved(0, 0, <<>>)
    BY DEF Saved
  <2>3. \A k \in 1..n : \A q : Saved(0, k - 1, q) => Saved(0, k, Told(q, sent[k]))
    <3> SUFFICES ASSUME NEW k \in 1..n, NEW q \in Seq(Event) PROVE Told(q, sent[k]) \in Seq(Event)
      BY DEF Saved
    <3>1. sent[k].event \in Event
      BY <2>1 DEF Message
    <3>2. QED BY <3>1, AppendProperties DEF Told
  <2>4. Saved(0, n, Mining!Loop(0, <<>>, sent))
    BY <2>1, <2>2, <2>3, Mining!LoopInvariant
  <2>5. QED BY <2>4, <1>1 DEF Saved
<1>4. ASSUME NEW sent \in Seq(Message), NEW m \in Message
      PROVE  Mine(Append(sent, m)) = Told(Mine(sent), m)
  <2>1. Append(sent, m) = sent \o <<m>> /\ <<m>> \in Seq(Message)
    BY AppendIsConcat
  <2>2. \A c, b : Mining!Loop(c, b, sent \o <<m>>) = Mining!Loop(c, Mining!Loop(c, b, sent), <<m>>)
    BY <2>1, Mining!LoopConcat
  <2>3. \A c, b : Mining!Loop(c, b, <<m>>) = Told(b, m)
    BY Mining!LoopOne
  <2>4. QED BY <1>1, <2>1, <2>2, <2>3
<1>5. QED BY <1>2, <1>3, <1>4

-----------------------------------------------------------------------------
(* A view that shows what the server holds.                                *)
Mirror(s, w) ==
  /\ Shape(w) /\ w.error = "" /\ w.state = s.state /\ w.state # "NONE"
  /\ w.started <=> w.state \in {"GAME_READY", "GAME"}
  /\ \A p \in Known(w) : p <= s.current
  /\ Known(w) \ QuitOf(w) = DOMAIN s.pstate \ QuitOf(w)
  /\ \A p \in Known(w) \ QuitOf(w) : w.players[p] = s.pstate[p]
  /\ \A p \in w.local \ QuitOf(w) : s.peerOf[p] = Me
  /\ s.holds \subseteq w.holds /\ w.holds \subseteq s.holds \union QuitOf(w)
  /\ w.state = "LOBBY" => w.holds = {}
  /\ w.state = "GAME_INIT" => w.holds = s.holds

(* It still does when players are taken for gone.                          *)
LEMMA MirrorQuits ==
  ASSUME NEW s, NEW w, Mirror(s, w), NEW u \in Quits(w)
  PROVE  Mirror(s, u)
<1>1. /\ Shape(u) /\ u.error = w.error /\ SameMatch(u, w)
      /\ u.local = w.local /\ u.holds = w.holds /\ Known(u) = Known(w)
      /\ QuitOf(w) \subseteq QuitOf(u)
      /\ \A p \in Known(u) \ QuitOf(u) : u.players[p] = w.players[p]
  BY QuitsShaped DEF Mirror
<1>2. Known(u) \ QuitOf(u) = DOMAIN s.pstate \ QuitOf(u)
  BY <1>1 DEF Mirror
<1>3. \A p \in Known(u) \ QuitOf(u) : p \in Known(w) \ QuitOf(w)
  BY <1>1
<1>4. \A p \in u.local \ QuitOf(u) : p \in w.local \ QuitOf(w)
  BY <1>1
<1>5. u.state = w.state /\ u.started = w.started
  BY <1>1 DEF SameMatch
<1>6. QED BY <1>1, <1>2, <1>3, <1>4, <1>5 DEF Mirror

\* Nothing a view shows has changed.
SameShown(r, s) ==
  /\ r.state = s.state /\ r.holds = s.holds /\ r.current = s.current
  /\ r.pstate = s.pstate /\ r.peerOf = s.peerOf

LEMMA MirrorSame ==
  ASSUME NEW s, NEW r, SameShown(r, s), NEW w, Mirror(s, w)
  PROVE  Mirror(r, w)
BY DEF Mirror, SameShown

-----------------------------------------------------------------------------
(* One event read by a view that shows what the server held before it, for *)
(* each event the server sends.                                            *)

(* setState(GAME_INIT).                                                    *)
LEMMA MirrorInit ==
  ASSUME NEW s, s.state = "LOBBY", s.holds = {}, NEW r, r.state = "GAME_INIT",
         r.holds = s.holds, r.peerOf = s.peerOf, r.current = s.current,
         DOMAIN r.pstate = DOMAIN s.pstate,
         \A p \in DOMAIN s.pstate :
           r.pstate[p] = IF s.pstate[p] = "LOBBY_READY" THEN "GAME_INIT" ELSE s.pstate[p],
         NEW w, Mirror(s, w)
  PROVE  Mirror(r, OnState(w, "GAME_INIT"))
<1> DEFINE u == OnState(w, "GAME_INIT")
           m == Moved(w, "GAME_INIT", "LOBBY_READY", "GAME_INIT")
<1>1. u = m
  BY DEF OnState, Moved, Mirror
<1>2. /\ "GAME_INIT" \in {"GAME_INIT", "GAME"} /\ "LOBBY_READY" # "QUIT"
      /\ "GAME_INIT" \in PlayerStates /\ Shape(w)
  BY DEF PlayerStates, Mirror
<1>3. /\ Shape(m) /\ m.state = "GAME_INIT" /\ m.started = w.started /\ m.holds = w.holds
      /\ m.local = w.local /\ m.error = w.error /\ Known(m) = Known(w) /\ QuitOf(m) = QuitOf(w)
      /\ \A p \in Known(w) :
           m.players[p] = IF w.players[p] = "LOBBY_READY" THEN "GAME_INIT" ELSE w.players[p]
  BY <1>2, MovedShaped
<1> HIDE DEF u, m
<1>4. /\ Shape(u) /\ u.state = "GAME_INIT" /\ u.started = w.started /\ u.holds = w.holds
      /\ u.local = w.local /\ u.error = w.error /\ Known(u) = Known(w) /\ QuitOf(u) = QuitOf(w)
      /\ \A p \in Known(w) :
           u.players[p] = IF w.players[p] = "LOBBY_READY" THEN "GAME_INIT" ELSE w.players[p]
  BY <1>1, <1>3
<1>5. \A p \in Known(w) \ QuitOf(w) : p \in DOMAIN s.pstate /\ w.players[p] = s.pstate[p]
  BY DEF Mirror
<1>6. \A p \in Known(u) \ QuitOf(u) : u.players[p] = r.pstate[p]
  BY <1>4, <1>5
<1>7. Mirror(r, u)
  BY <1>4, <1>6 DEF Mirror
<1>8. QED BY <1>7 DEF u

(* setState(GAME_READY).                                                   *)
LEMMA MirrorReady ==
  ASSUME NEW s, s.state = "GAME_INIT", NEW r, r.state = "GAME_READY",
         r.holds = s.holds, r.peerOf = s.peerOf, r.current = s.current, 
         DOMAIN r.pstate = DOMAIN s.pstate,
         \A p \in DOMAIN s.pstate : r.pstate[p] = s.pstate[p],
         NEW w, Mirror(s, w)
  PROVE  Mirror(r, OnState(w, "GAME_READY"))
<1> DEFINE u == OnState(w, "GAME_READY")
<1>1. u = [w EXCEPT !.state = "GAME_READY", !.started = TRUE]
  BY DEF OnState, Mirror
<1>2. DOMAIN w = ViewFields
  BY DEF Mirror, Shape
<1>3. /\ DOMAIN u = ViewFields /\ u.state = "GAME_READY" /\ u.started = TRUE
      /\ u.players = w.players /\ u.local = w.local /\ u.holds = w.holds /\ u.error = w.error
  BY <1>1, <1>2 DEF ViewFields
<1> HIDE DEF u
<1>4. Known(u) = Known(w) /\ QuitOf(u) = QuitOf(w)
  BY <1>3 DEF Known, QuitOf
<1>5. Shape(u)
  BY <1>3, <1>4 DEF Mirror, Shape, ViewStates
<1>6. \A p \in Known(u) \ QuitOf(u) : u.players[p] = r.pstate[p]
  <2>1. \A p \in Known(w) \ QuitOf(w) : p \in DOMAIN s.pstate /\ w.players[p] = s.pstate[p]
    BY DEF Mirror
  <2>2. QED BY <1>3, <1>4, <2>1
<1>7. Known(u) \ QuitOf(u) = DOMAIN r.pstate \ QuitOf(u)
  BY <1>4 DEF Mirror
<1>8. /\ w.error = "" /\ \A p \in Known(w) : p <= s.current
      /\ \A p \in w.local \ QuitOf(w) : s.peerOf[p] = Me
      /\ s.holds \subseteq w.holds /\ w.holds \subseteq s.holds \union QuitOf(w)
  BY DEF Mirror
<1>9. Mirror(r, u)
  <2>1. \A p \in Known(u) : p <= r.current
    BY <1>4, <1>8
  <2>2. \A p \in u.local \ QuitOf(u) : r.peerOf[p] = Me
    BY <1>3, <1>4, <1>8
  <2>3. r.holds \subseteq u.holds /\ u.holds \subseteq r.holds \union QuitOf(u)
    BY <1>3, <1>4, <1>8
  <2>4. u.error = "" /\ u.state = r.state /\ u.state \notin {"NONE", "GAME_INIT"}
    BY <1>3, <1>8
  <2>5. /\ u.started <=> u.state \in {"GAME_READY", "GAME"}
        /\ u.state = "LOBBY" => u.holds = {}
    BY <1>3
  <2>6. QED BY <1>5, <1>6, <1>7, <2>1, <2>2, <2>3, <2>4, <2>5 DEF Mirror
<1>10. QED BY <1>9 DEF u

(* setState(GAME).                                                         *)
LEMMA MirrorGame ==
  ASSUME NEW s, s.state = "GAME_READY", NEW r, r.state = "GAME",
         r.holds = s.holds, r.peerOf = s.peerOf, r.current = s.current,
         DOMAIN r.pstate = DOMAIN s.pstate,
         \A p \in DOMAIN s.pstate :
           r.pstate[p] = IF s.pstate[p] = "GAME_READY" THEN "GAME" ELSE s.pstate[p],
         NEW w, Mirror(s, w)
  PROVE  Mirror(r, OnState(w, "GAME"))
<1> DEFINE u == OnState(w, "GAME")
<1>1. u = Moved(w, "GAME", "GAME_READY", "GAME")
  BY DEF OnState, Moved, Mirror
<1>2. /\ "GAME" \in {"GAME_INIT", "GAME"} /\ "GAME_READY" # "QUIT" /\ "GAME" \in PlayerStates
      /\ Shape(w)
  BY DEF PlayerStates, Mirror
<1> DEFINE m == Moved(w, "GAME", "GAME_READY", "GAME")
<1> HIDE DEF u
<1>3. /\ Shape(m) /\ m.state = "GAME" /\ m.started = w.started /\ m.holds = w.holds
      /\ m.local = w.local /\ m.error = w.error /\ Known(m) = Known(w) /\ QuitOf(m) = QuitOf(w)
      /\ \A p \in Known(w) :
           m.players[p] = IF w.players[p] = "GAME_READY" THEN "GAME" ELSE w.players[p]
  BY <1>2, MovedShaped
<1> HIDE DEF m
<1>4. \A p \in Known(w) \ QuitOf(w) : p \in DOMAIN s.pstate /\ w.players[p] = s.pstate[p]
  BY DEF Mirror
<1>5. \A p \in Known(m) \ QuitOf(m) : m.players[p] = r.pstate[p]
  BY <1>3, <1>4
<1>6. Mirror(r, m)
  BY <1>3, <1>5 DEF Mirror
<1>7. u = m
  BY <1>1 DEF m
<1>8. QED BY <1>6, <1>7 DEF u

(* setState(LOBBY), at the end of a match.                                 *)
LEMMA MirrorLobby ==
  ASSUME NEW s, s.state \in {"GAME_READY", "GAME"}, NEW r, r.state = "LOBBY",
         r.holds = {}, r.peerOf = s.peerOf, r.current = s.current, r.pstate = s.pstate,
         NEW w, Mirror(s, w)
  PROVE  Mirror(r, OnState(w, "LOBBY"))
<1> DEFINE u == OnState(w, "LOBBY")
<1>1. u = [w EXCEPT !.state = "LOBBY", !.started = FALSE, !.holds = {}]
  BY DEF OnState, Mirror
<1>2. DOMAIN w = ViewFields
  BY DEF Mirror, Shape
<1>3. /\ DOMAIN u = ViewFields /\ u.state = "LOBBY" /\ u.started = FALSE
      /\ u.players = w.players /\ u.local = w.local /\ u.holds = {} /\ u.error = w.error
  BY <1>1, <1>2 DEF ViewFields
<1> HIDE DEF u
<1>4. Known(u) = Known(w) /\ QuitOf(u) = QuitOf(w)
  BY <1>3 DEF Known, QuitOf
<1>5. Shape(u)
  BY <1>3, <1>4 DEF Mirror, Shape, ViewStates
<1>6. \A p \in Known(u) \ QuitOf(u) : u.players[p] = r.pstate[p]
  <2>1. \A p \in Known(w) \ QuitOf(w) : p \in DOMAIN s.pstate /\ w.players[p] = s.pstate[p]
    BY DEF Mirror
  <2>2. QED BY <1>3, <1>4, <2>1
<1>7. Known(u) \ QuitOf(u) = DOMAIN r.pstate \ QuitOf(u)
  BY <1>4 DEF Mirror
<1>8. /\ w.error = "" /\ \A p \in Known(w) : p <= s.current
      /\ \A p \in w.local \ QuitOf(w) : s.peerOf[p] = Me
      /\ s.holds \subseteq w.holds /\ w.holds \subseteq s.holds \union QuitOf(w)
  BY DEF Mirror
<1>9. Mirror(r, u)
  <2>1. \A p \in Known(u) : p <= r.current
    BY <1>4, <1>8
  <2>2. \A p \in u.local \ QuitOf(u) : r.peerOf[p] = Me
    BY <1>3, <1>4, <1>8
  <2>3. r.holds \subseteq u.holds /\ u.holds \subseteq r.holds \union QuitOf(u)
    BY <1>3, <1>4, <1>8
  <2>4. u.error = "" /\ u.state = r.state /\ u.state \notin {"NONE", "GAME_INIT"}
    BY <1>3, <1>8
  <2>5. /\ u.started <=> u.state \in {"GAME_READY", "GAME"}
        /\ u.state = "LOBBY" => u.holds = {}
    BY <1>3
  <2>6. QED BY <1>5, <1>6, <1>7, <2>1, <2>2, <2>3, <2>4, <2>5 DEF Mirror
<1>10. QED BY <1>9 DEF u

\* The states a player may be told to be in.
SettableAt(s, p, st) ==
  \/ st = "LOBBY" /\ s.state \in {"LOBBY", "GAME"}
  \/ st = "LOBBY_READY" /\ s.state = "LOBBY"
  \/ st = "GAME_READY" /\ s.state = "GAME_READY" /\ s.pstate[p] = "GAME_INIT"

(* The state a player sets.                                                *)
LEMMA MirrorPlayerState ==
  ASSUME NEW s, NEW p \in DOMAIN s.pstate, NEW st \in PlayerStates, SettableAt(s, p, st),
         NEW r, r.state = s.state, r.holds = s.holds, r.peerOf = s.peerOf, r.current = s.current,
         r.pstate = [s.pstate EXCEPT ![p] = st],
         NEW w, Mirror(s, w)
  PROVE  Mirror(r, OnPlayerState(w, p, st))
<1> DEFINE u == OnPlayerState(w, p, st)
<1>1. p \in Known(w) /\ (p \notin QuitOf(w) => w.players[p] = s.pstate[p])
  BY DEF Mirror, QuitOf
<1>2. CASE w.players[p] \in {"QUIT", st}
  <2>1. u = w
    BY <1>1, <1>2 DEF OnPlayerState
  <2>2. Known(w) \ QuitOf(w) = DOMAIN r.pstate \ QuitOf(w)
    BY DEF Mirror
  <2>3. ASSUME NEW q \in Known(w) \ QuitOf(w) PROVE w.players[q] = r.pstate[q]
    <3>1. w.players[q] = s.pstate[q] /\ q \in DOMAIN s.pstate
      BY DEF Mirror
    <3>2. q = p => w.players[q] = st
      BY <1>2, <2>3 DEF QuitOf
    <3>3. QED BY <3>1, <3>2
  <2> HIDE DEF u
  <2>4. Mirror(r, w)
    BY <2>2, <2>3 DEF Mirror
  <2>5. QED BY <2>1, <2>4 DEF u
<1>3. CASE w.players[p] \notin {"QUIT", st}
  <2>1. SettableInView(w, p, st) /\ st \notin {"QUIT", "GAME_INIT", "GAME"}
    <3>1. w.players[p] = s.pstate[p] /\ w.state = s.state
      BY <1>1, <1>3 DEF Mirror, QuitOf
    <3>2. QED BY <3>1 DEF SettableAt, SettableInView
  <2>2. u = [w EXCEPT !.players[p] = st]
    BY <1>1, <1>3, <2>1 DEF OnPlayerState
  <2> HIDE DEF u
  <2>3. /\ Shape(u) /\ SameMatch(u, w) /\ u.local = w.local /\ u.holds = w.holds
        /\ u.error = w.error /\ Known(u) = Known(w) /\ QuitOf(u) = QuitOf(w)
        /\ u.players = [w.players EXCEPT ![p] = st]
    <3>1. Shape(w) /\ p \in Known(w) /\ w.players[p] # "QUIT"
      BY <1>1, <1>3 DEF Mirror
    <3>2. QED BY <2>2, <3>1, PlayerStateShaped
  <2>4. Known(u) \ QuitOf(u) = DOMAIN r.pstate \ QuitOf(u)
    BY <2>3 DEF Mirror
  <2>5. ASSUME NEW q \in Known(u) \ QuitOf(u) PROVE u.players[q] = r.pstate[q]
    <3>1. w.players[q] = s.pstate[q] /\ q \in DOMAIN s.pstate /\ q \in DOMAIN w.players
      BY <2>3 DEF Mirror, Known
    <3>2. QED BY <2>3, <3>1
  <2>6. u.state = w.state /\ u.started = w.started
    BY <2>3 DEF SameMatch
  <2>7. /\ Shape(u) /\ u.error = "" /\ Known(u) = Known(w) /\ QuitOf(u) = QuitOf(w)
        /\ u.holds = w.holds /\ u.local = w.local
    BY <2>3 DEF Mirror
  <2>8. Mirror(r, u)
    BY <2>4, <2>5, <2>6, <2>7 DEF Mirror
  <2>9. QED BY <2>8 DEF u
<1>4. QED BY <1>2, <1>3

(* A player that is erased.                                                *)
LEMMA MirrorErased ==
  ASSUME NEW s, s.state # "GAME_INIT", NEW p \in DOMAIN s.pstate,
         NEW r, r.state = s.state, r.holds = s.holds \ {p}, r.current = s.current,
         DOMAIN r.pstate = DOMAIN s.pstate \ {p},
         \A q \in DOMAIN r.pstate : r.pstate[q] = s.pstate[q] /\ r.peerOf[q] = s.peerOf[q],
         NEW w, Mirror(s, w)
  PROVE  Mirror(r, OnPlayerState(w, p, "QUIT"))
<1> DEFINE u == OnPlayerState(w, p, "QUIT")
<1>1. p \in Known(w)
  BY DEF Mirror, QuitOf
<1>2. \A q \in w.local \ QuitOf(w) : q \in DOMAIN s.pstate /\ s.peerOf[q] = Me
  BY DEF Mirror, Shape
<1>3. CASE w.players[p] = "QUIT"
  <2>1. u = w /\ p \in QuitOf(w)
    BY <1>1, <1>3 DEF OnPlayerState, QuitOf
  <2>2. Known(w) \ QuitOf(w) = DOMAIN r.pstate \ QuitOf(w)
    BY <2>1 DEF Mirror
  <2>3. \A q \in Known(w) \ QuitOf(w) : w.players[q] = r.pstate[q]
    BY <2>2 DEF Mirror
  <2>4. \A q \in w.local \ QuitOf(w) : r.peerOf[q] = Me
    BY <1>2, <2>1
  <2> HIDE DEF u
  <2>5. Mirror(r, w)
    BY <2>1, <2>2, <2>3, <2>4 DEF Mirror
  <2>6. QED BY <2>1, <2>5 DEF u
<1>4. CASE w.players[p] # "QUIT"
  <2>1. u = Forgotten(w, p)
    BY <1>1, <1>4 DEF OnPlayerState, Forgotten
  <2> HIDE DEF u
  <2>2. /\ Shape(u) /\ SameMatch(u, w) /\ u.local = w.local \ {p} /\ u.holds = w.holds \ {p}
        /\ u.error = w.error /\ Known(u) = Known(w) \ {p} /\ QuitOf(u) = QuitOf(w) \ {p}
        /\ \A q \in Known(u) : u.players[q] = w.players[q]
    <3>1. Shape(w)
      BY DEF Mirror
    <3> DEFINE m == Forgotten(w, p)
    <3>2. /\ Shape(m) /\ SameMatch(m, w) /\ m.local = w.local \ {p} /\ m.holds = w.holds \ {p}
          /\ m.error = w.error /\ Known(m) = Known(w) \ {p} /\ QuitOf(m) = QuitOf(w) \ {p}
          /\ \A q \in Known(m) : m.players[q] = w.players[q]
      BY <3>1, ForgottenShaped
    <3>3. u = m
      BY <2>1
    <3> HIDE DEF m
    <3>4. QED BY <3>2, <3>3
  <2>3. QuitOf(u) = QuitOf(w)
    BY <1>4, <2>2 DEF QuitOf
  <2>4. Known(u) \ QuitOf(u) = DOMAIN r.pstate \ QuitOf(u)
    BY <2>2, <2>3 DEF Mirror
  <2>5. \A q \in Known(u) \ QuitOf(u) : u.players[q] = r.pstate[q]
    <3>1. \A q \in Known(u) \ QuitOf(u) : q \in Known(w) \ QuitOf(w) /\ q \in DOMAIN r.pstate
      BY <2>2, <2>3, <2>4
    <3>2. QED BY <3>1, <2>2 DEF Mirror
  <2>6. \A q \in u.local \ QuitOf(u) : r.peerOf[q] = Me
    BY <1>2, <2>2, <2>3
  <2>7. Mirror(r, u)
    BY <2>2, <2>3, <2>4, <2>5, <2>6 DEF Mirror, SameMatch
  <2>8. QED BY <2>7 DEF u
<1>5. QED BY <1>3, <1>4

(* A player that joins, of this client or of another.                      *)
LEMMA MirrorJoined ==
  ASSUME NEW s, NEW p \in PlIds, s.current < p, s.current \in Nat, s.state # "GAME_INIT",
         NEW r, r.state = s.state, r.holds = s.holds, r.current = p,
         DOMAIN r.pstate = DOMAIN s.pstate \union {p}, p \notin DOMAIN s.pstate,
         \A q \in DOMAIN r.pstate : r.pstate[q] = IF q = p THEN "LOBBY" ELSE s.pstate[q],
         \A q \in DOMAIN s.pstate : r.peerOf[q] = s.peerOf[q],
         NEW w, Mirror(s, w)
  PROVE  /\ Mirror(r, OnPlayerConf(w, p))
         /\ r.peerOf[p] = Me => Mirror(r, OnJoined(w, p))
<1>1. p \in Nat /\ Known(w) \subseteq PlIds /\ \A q \in PlIds : q \in Nat
  <2>1. \A q \in PlIds : q \in Nat
    BY DEF PlIds
  <2>2. Known(w) \subseteq PlIds
    BY DEF Mirror, Shape
  <2>3. QED BY <2>1, <2>2
<1>2. \A q \in Known(w) : q \in Nat /\ q <= s.current
  BY <1>1 DEF Mirror
<1>3. p \notin Known(w) /\ \A q \in Known(w) : q <= p
  BY <1>1, <1>2
<1>4. \A q \in w.local \ QuitOf(w) : q \in DOMAIN s.pstate /\ s.peerOf[q] = Me
  BY DEF Mirror, Shape
<1>5. ASSUME NEW mine \in SUBSET {p}, mine # {} => r.peerOf[p] = Me
      PROVE  Mirror(r, Grown(w, p, mine))
  <2> DEFINE u == Grown(w, p, mine)
  <2>1. /\ Shape(u) /\ SameMatch(u, w) /\ u.local = w.local \union mine
        /\ u.holds = w.holds /\ u.error = w.error
        /\ Known(u) = Known(w) \union {p} /\ QuitOf(u) = QuitOf(w)
        /\ \A q \in Known(u) : u.players[q] = IF q = p THEN "LOBBY" ELSE w.players[q]
    <3>1. Shape(w) /\ p \in PlIds \ Known(w)
      BY <1>3 DEF Mirror
    <3>2. QED BY <3>1, CreatedShaped
  <2> HIDE DEF u
  <2>2. p \notin QuitOf(u)
    BY <2>1, <1>3 DEF QuitOf
  <2>3. Known(u) \ QuitOf(u) = DOMAIN r.pstate \ QuitOf(u)
    BY <2>1, <2>2 DEF Mirror
  <2>4. \A q \in Known(u) \ QuitOf(u) : u.players[q] = r.pstate[q]
    <3>1. \A q \in Known(u) \ QuitOf(u) : q = p \/ q \in Known(w) \ QuitOf(w)
      BY <2>1
    <3>2. \A q \in Known(u) \ QuitOf(u) : q \in DOMAIN r.pstate
      BY <2>3
    <3>3. \A q \in Known(w) \ QuitOf(w) : q # p /\ w.players[q] = s.pstate[q]
      BY <1>3 DEF Mirror
    <3>4. QED BY <3>1, <3>2, <3>3, <2>1
  <2>5. \A q \in u.local \ QuitOf(u) : r.peerOf[q] = Me
    BY <1>4, <1>5, <2>1
  <2>6. \A q \in Known(u) : q <= r.current
    BY <2>1, <1>1, <1>3
  <2>7. Mirror(r, u)
    BY <2>1, <2>3, <2>4, <2>5, <2>6 DEF Mirror, SameMatch
  <2>8. QED BY <2>7 DEF u
<1>6. OnPlayerConf(w, p) = Grown(w, p, {})
  BY <1>3, GrownByNone DEF OnPlayerConf, Mirror
<1>7. OnJoined(w, p) = Grown(w, p, {p})
  BY <1>3 DEF OnJoined, Grown
<1>8. QED BY <1>5, <1>6, <1>7

(* A field made for a player.                                              *)
LEMMA MirrorField ==
  ASSUME NEW s, s.state = "GAME_INIT", NEW p \in DOMAIN s.pstate \ s.holds,
         NEW r, r.state = s.state, r.holds = s.holds \union {p}, r.current = s.current,
         r.pstate = s.pstate, r.peerOf = s.peerOf,
         NEW w, Mirror(s, w)
  PROVE  Mirror(r, OnField(w, p))
<1> DEFINE u == OnField(w, p)
<1>1. p \in Known(w) /\ p \notin w.holds /\ w.state = "GAME_INIT"
  BY DEF Mirror, QuitOf
<1>2. u = [w EXCEPT !.holds = @ \union {p}]
  BY <1>1 DEF OnField
<1>3. DOMAIN w = ViewFields
  BY DEF Mirror, Shape
<1>4. /\ DOMAIN u = ViewFields /\ u.state = w.state /\ u.started = w.started
      /\ u.players = w.players /\ u.local = w.local /\ u.holds = w.holds \union {p}
      /\ u.error = w.error
  BY <1>2, <1>3 DEF ViewFields
<1> HIDE DEF u
<1>5. Known(u) = Known(w) /\ QuitOf(u) = QuitOf(w)
  BY <1>4 DEF Known, QuitOf
<1>6. Shape(u)
  BY <1>1, <1>4, <1>5 DEF Mirror, Shape
<1>7. Mirror(r, u)
  BY <1>4, <1>5, <1>6 DEF Mirror
<1>8. QED BY <1>7 DEF u

(* A rank: refused before the match starts, and only then.                 *)
LEMMA MirrorRank ==
  ASSUME NEW s, NEW p \in s.holds, s.state \in {"GAME_READY", "GAME"}, NEW w, Mirror(s, w)
  PROVE  /\ s.state = "GAME" => OnRank(w, p) = w
         /\ s.state = "GAME_READY" => OnRank(w, p).error = "invalid in current state"
<1>1. w.state = s.state /\ p \in w.holds
  BY DEF Mirror
<1>2. ASSUME s.state = "GAME" PROVE OnRank(w, p) = w
  BY <1>1, <1>2 DEF OnRank
<1>3. ASSUME s.state = "GAME_READY" PROVE OnRank(w, p).error = "invalid in current state"
  <2>1. OnRank(w, p) = Refuse(w, "invalid in current state")
    BY <1>1, <1>3 DEF OnRank
  <2>2. "invalid in current state" \in ClientErrors
    BY DEF ClientErrors
  <2>3. Shape(w)
    BY DEF Mirror
  <2>4. Refuse(w, "invalid in current state").error = "invalid in current state"
    BY <2>2, <2>3, RefuseShaped
  <2>5. QED BY <2>1, <2>4
<1>4. QED BY <1>2, <1>3

-----------------------------------------------------------------------------
(* A handler of the server, followed call by call: k.views is where the    *)
(* client may be when the handler begins, k.from the state of the server,  *)
(* and k.early tells whether a rank has come too early before.             *)
Ends(k, s) == Reads(k.views, Mine(s.out))

HasRank(s) == \E i \in DOMAIN s.out : s.out[i].event.type = "RANK"
TooEarly(k, s) == k.early \/ (k.from = "GAME_READY" /\ HasRank(s))
Refusals(k, s) ==
  {"unsettable state"} \union (IF TooEarly(k, s) THEN {"invalid in current state"} ELSE {})

\* Wherever it ends up, the client shows what the server holds or has
\* refused an event it may refuse.
Follows(k, s) == \A w \in Ends(k, s) : w.error \in Refusals(k, s) \/ Mirror(s, w)

(* An event that is not for this client, or none.                          *)
LEMMA Unheard ==
  ASSUME NEW k, NEW s, Typed(s), Follows(k, s), NEW P \in SUBSET Peers, Me \notin P,
         NEW e \in Event, NEW r, r.out = Append(s.out, [to |-> P, event |-> e]),
         \A w : Mirror(s, w) => Mirror(r, w)
  PROVE  Follows(k, r)
<1> DEFINE m == [to |-> P, event |-> e]
<1>1. m \in Message /\ s.out \in Seq(Message)
  BY DEF Message, Typed, OutOK
<1>2. m.to = P
  OBVIOUS
<1> HIDE DEF m
<1>3. Mine(r.out) = Mine(s.out)
  <2>1. Mine(Append(s.out, m)) = Told(Mine(s.out), m)
    BY <1>1, MineMore
  <2>2. Told(Mine(s.out), m) = Mine(s.out)
    BY <1>2 DEF Told
  <2>3. QED BY <2>1, <2>2 DEF m
<1>4. HasRank(s) => HasRank(r)
  <2>1. /\ DOMAIN s.out \subseteq DOMAIN r.out
        /\ \A i \in DOMAIN s.out : r.out[i] = s.out[i]
    BY <1>1 DEF m
  <2>2. QED BY <2>1 DEF HasRank
<1>5. Refusals(k, s) \subseteq Refusals(k, r)
  BY <1>4 DEF Refusals, TooEarly
<1>6. QED BY <1>3, <1>5 DEF Follows, Ends

(* Nothing said.                                                           *)
LEMMA Unsaid ==
  ASSUME NEW k, NEW s, Follows(k, s), NEW r, r.out = s.out,
         \A w : Mirror(s, w) => Mirror(r, w)
  PROVE  Follows(k, r)
BY DEF Follows, Ends, Refusals, TooEarly, HasRank

(* An event for this client.                                               *)
LEMMA HeardAfter ==
  ASSUME NEW k, NEW s, s.out \in Seq(Message), Follows(k, s), NEW P \in SUBSET Peers, Me \in P,
         NEW e \in Event, NEW r, r.out = Append(s.out, [to |-> P, event |-> e]),
         \A w : Mirror(s, w) => Mirror(r, On(w, e)) \/ On(w, e).error \in Refusals(k, r)
  PROVE  Follows(k, r)
<1> DEFINE m == [to |-> P, event |-> e]
<1>1. m \in Message /\ s.out \in Seq(Message)
  BY DEF Message
<1>2. m.to = P /\ m.event = e
  OBVIOUS
<1> HIDE DEF m
<1>3. Mine(r.out) = Append(Mine(s.out), e) /\ Mine(s.out) \in Seq(Event)
  <2>1. Mine(Append(s.out, m)) = Told(Mine(s.out), m) /\ Mine(s.out) \in Seq(Event)
    BY <1>1, MineMore
  <2>2. Told(Mine(s.out), m) = Append(Mine(s.out), e)
    BY <1>2 DEF Told
  <2>3. QED BY <2>1, <2>2 DEF m
<1>4. HasRank(s) => HasRank(r)
  <2>1. /\ DOMAIN s.out \subseteq DOMAIN r.out
        /\ \A i \in DOMAIN s.out : r.out[i] = s.out[i]
    BY <1>1 DEF m
  <2>2. QED BY <2>1 DEF HasRank
<1>5. Refusals(k, s) \subseteq Refusals(k, r) /\ "" \notin Refusals(k, r)
  BY <1>4 DEF Refusals, TooEarly
<1>6. Ends(k, r) = Read(Ends(k, s), e)
  <2>1. \A V : \A q \in Seq(Event) : Reads(V, Append(q, e)) = Read(Reads(V, q), e)
    BY ReadsMore
  <2>2. Reads(k.views, Append(Mine(s.out), e)) = Read(Reads(k.views, Mine(s.out)), e)
    BY <1>3, <2>1
  <2>3. QED BY <1>3, <2>2 DEF Ends
<1>7. ASSUME NEW v \in Ends(k, s), NEW u \in Quits(On(v, e))
      PROVE  u.error \in Refusals(k, r) \/ Mirror(r, u)
  <2>1. CASE v.error \in Refusals(k, s)
    <3>1. v.error # "" /\ v.error \in Refusals(k, r)
      BY <1>5, <2>1
    <3>2. On(v, e) = v
      BY <3>1 DEF On
    <3>3. u = v
      BY <1>7, <3>1, <3>2 DEF Quits
    <3>4. QED BY <3>1, <3>3
  <2>2. CASE Mirror(s, v)
    <3>1. Shape(On(v, e))
      BY <2>2, OnShaped DEF Mirror
    <3>2. CASE Mirror(r, On(v, e))
      BY <3>2, <1>7, MirrorQuits
    <3>3. CASE On(v, e).error \in Refusals(k, r)
      BY <3>1, <3>3, <1>7, QuitsShaped
    <3>4. QED BY <2>2, <3>2, <3>3
  <2>3. QED BY <2>1, <2>2 DEF Follows
<1>8. QED BY <1>6, <1>7 DEF Follows, Read

(* The same, of a state that handlers pass on.                             *)
LEMMA Heard ==
  ASSUME NEW k, NEW s, Typed(s), Follows(k, s), NEW P \in SUBSET Peers, Me \in P,
         NEW e \in Event, NEW r, r.out = Append(s.out, [to |-> P, event |-> e]),
         \A w : Mirror(s, w) => Mirror(r, On(w, e)) \/ On(w, e).error \in Refusals(k, r)
  PROVE  Follows(k, r)
<1>1. s.out \in Seq(Message)
  BY DEF Typed, OutOK
<1>2. QED BY <1>1, HeardAfter

-----------------------------------------------------------------------------
(* The handlers.  The client is one of the peers.                          *)
Here(s) == Typed(s) /\ Me \in Range(s.socks)

LEMMA Everybody ==
  ASSUME NEW s, Typed(s)
  PROVE  Range(s.socks) \in SUBSET Peers
<1>1. s.socks \in Seq(Peers)
  BY DEF Typed, PeersOK
<1>2. QED BY <1>1 DEF Range

(* What setState says.                                                     *)
LEMMA SetStateSays ==
  ASSUME NEW s, DOMAIN s = StateFields, NEW st \in {"LOBBY", "GAME_INIT", "GAME_READY", "GAME"}
  PROVE  SetState(s, st).out = Append(s.out, [to |-> Range(s.socks),
                                              event |-> [type |-> "STATE", state |-> st]])
<1> DEFINE b == Broadcast(s, [type |-> "STATE", state |-> st])
<1>1. /\ DOMAIN b = StateFields
      /\ b.out = Append(s.out, [to |-> Range(s.socks), event |-> [type |-> "STATE", state |-> st]])
  BY DEF Broadcast, Send, StateFields
<1>2. SetState(s, st) = [(CASE st = "GAME_INIT" -> MoveAll(b, "LOBBY_READY", "GAME_INIT")
                            [] st = "GAME"      -> MoveAll(b, "GAME_READY", "GAME")
                            [] OTHER            -> b) EXCEPT !.state = st]
  BY DEF SetState
<1> HIDE DEF b
<1>3. \A from, to : DOMAIN MoveAll(b, from, to) = StateFields /\ MoveAll(b, from, to).out = b.out
  BY <1>1 DEF MoveAll, StateFields
<1>4. CASE st = "GAME_INIT"
  <2> DEFINE m == MoveAll(b, "LOBBY_READY", "GAME_INIT")
  <2>1. SetState(s, st) = [m EXCEPT !.state = st]
    BY <1>2, <1>4
  <2>2. DOMAIN m = StateFields /\ m.out = b.out
    BY <1>3
  <2> HIDE DEF m
  <2>3. QED BY <1>1, <2>1, <2>2 DEF StateFields
<1>5. CASE st = "GAME"
  <2> DEFINE m == MoveAll(b, "GAME_READY", "GAME")
  <2>1. SetState(s, st) = [m EXCEPT !.state = st]
    BY <1>2, <1>5
  <2>2. DOMAIN m = StateFields /\ m.out = b.out
    BY <1>3
  <2> HIDE DEF m
  <2>3. QED BY <1>1, <2>1, <2>2 DEF StateFields
<1>6. CASE st \notin {"GAME_INIT", "GAME"}
  <2>1. SetState(s, st) = [b EXCEPT !.state = st]
    BY <1>2, <1>6
  <2>2. QED BY <1>1, <2>1 DEF StateFields
<1>7. QED BY <1>4, <1>5, <1>6

(* startMatch.                                                             *)
LEMMA StartMatchFollowed ==
  ASSUME NEW k, NEW s, Here(s), Follows(k, s), s.state = "GAME_READY"
  PROVE  Follows(k, StartMatch(s))
<1> DEFINE c == [s EXCEPT !.started = TRUE, !.lost = {}]
           e == [type |-> "STATE", state |-> "GAME"]
           r == StartMatch(s)
<1>1. DOMAIN c = StateFields /\ c.out = s.out /\ c.socks = s.socks
  BY DEF Here, Typed, StateFields
<1>2. r = SetState(c, "GAME")
  BY DEF StartMatch
<1> HIDE DEF c
<1>3. SetState(c, "GAME").out = Append(c.out, [to |-> Range(c.socks), event |-> e])
  BY <1>1, SetStateSays
<1>4. /\ r.state = "GAME" /\ r.holds = s.holds /\ Keeps(r, s) /\ DOMAIN r.pstate = DOMAIN s.pstate
      /\ \A p \in DOMAIN s.pstate :
           r.pstate[p] = IF s.pstate[p] = "GAME_READY" THEN "GAME" ELSE s.pstate[p]
  BY StartMatchTyped DEF Here
<1>5. r.out = Append(s.out, [to |-> Range(s.socks), event |-> e])
  BY <1>1, <1>2, <1>3
<1> HIDE DEF r
<1>6. ASSUME NEW w, Mirror(s, w) PROVE Mirror(r, On(w, e))
  <2>1. w.error = ""
    BY <1>6 DEF Mirror
  <2>2. On(w, e) = OnState(w, "GAME")
    BY <2>1 DEF On
  <2>3. r.peerOf = s.peerOf /\ r.current = s.current
    BY <1>4 DEF Keeps
  <2>4. QED BY <1>4, <1>6, <2>2, <2>3, MirrorGame
<1>7. e \in Event /\ Range(s.socks) \in SUBSET Peers /\ Me \in Range(s.socks) /\ Typed(s)
  BY Events, Everybody DEF Here
<1> HIDE DEF e
<1>8. Follows(k, r)
  BY <1>5, <1>6, <1>7, Heard
<1>9. QED BY <1>8 DEF r

(* checkAllPlayersReady while the match is prepared.                       *)
LEMMA CheckGameReadyFollowed ==
  ASSUME NEW k, NEW s, Here(s), Follows(k, s)
  PROVE  Follows(k, CheckGameReady(s))
BY StartMatchFollowed DEF CheckGameReady

(* What setPlayerState says.                                               *)
LEMMA SetPlayerStateSays ==
  ASSUME NEW s, DOMAIN s = StateFields, NEW p, NEW st
  PROVE  SetPlayerState(s, p, st).out =
           Append(s.out, [to |-> Range(s.socks),
                          event |-> [type |-> "PLAYER_STATE", plid |-> p, state |-> st]])
<1> DEFINE t == [s EXCEPT !.pstate[p] = st]
           e == [type |-> "PLAYER_STATE", plid |-> p, state |-> st]
<1>1. DOMAIN t = StateFields /\ t.out = s.out /\ t.socks = s.socks
  BY DEF StateFields
<1>2. SetPlayerState(s, p, st) = [t EXCEPT !.out = Append(@, [to |-> Range(t.socks), event |-> e])]
  BY DEF SetPlayerState, BroadcastPlayerState, Broadcast, Send
<1> HIDE DEF t
<1>3. QED BY <1>1, <1>2 DEF StateFields

(* A player sets its state.                                                *)
LEMMA SetPlayerStateFollowed ==
  ASSUME NEW k, NEW s, Here(s), Follows(k, s), NEW p \in DOMAIN s.pstate, NEW st \in PlayerStates,
         SettableAt(s, p, st)
  PROVE  Here(SetPlayerState(s, p, st)) /\ Follows(k, SetPlayerState(s, p, st))
<1> DEFINE r == SetPlayerState(s, p, st)
           e == [type |-> "PLAYER_STATE", plid |-> p, state |-> st]
<1>1. Typed(s) /\ DOMAIN s = StateFields /\ p \in PlIds /\ Me \in Range(s.socks)
  BY DEF Here, Typed, RosterOK
<1>2. /\ Typed(r) /\ r.state = s.state /\ SameBoard(r, s) /\ Keeps(r, s)
      /\ r.pstate = [s.pstate EXCEPT ![p] = st]
  BY <1>1, SetPlayerStateTyped
<1>3. r.out = Append(s.out, [to |-> Range(s.socks), event |-> e])
  BY <1>1, SetPlayerStateSays
<1> HIDE DEF r
<1>4. r.holds = s.holds /\ r.peerOf = s.peerOf /\ r.current = s.current /\ r.socks = s.socks
  BY <1>2 DEF SameBoard, Keeps, SamePeers
<1>5. ASSUME NEW w, Mirror(s, w) PROVE Mirror(r, On(w, e))
  <2>1. w.error = ""
    BY <1>5 DEF Mirror
  <2>2. On(w, e) = OnPlayerState(w, p, st)
    BY <2>1 DEF On
  <2>3. QED BY <1>2, <1>4, <1>5, <2>2, MirrorPlayerState
<1>6. e \in Event /\ Range(s.socks) \in SUBSET Peers
  BY <1>1, Events, Everybody
<1> HIDE DEF e
<1>7. Follows(k, r)
  BY <1>1, <1>3, <1>5, <1>6, Heard
<1>8. Here(r)
  BY <1>1, <1>2, <1>4 DEF Here
<1>9. QED BY <1>7, <1>8 DEF r

(* A player of the server's process is ready.                              *)
LEMMA LocalReadyFollowed ==
  ASSUME NEW k, NEW s, Settled(s), Here(s), Follows(k, s), s.state = "GAME_READY",
         NEW p \in DOMAIN s.pstate, s.pstate[p] = "GAME_INIT"
  PROVE  LET r == LocalReady(s, p)
         IN  /\ Settled(r) /\ Here(r) /\ Follows(k, r)
             /\ InState(r, "GAME_INIT") = InState(s, "GAME_INIT") \ {p}
             /\ InState(r, "GAME_INIT") # {} => r.state = "GAME_READY"
<1> DEFINE t == SetPlayerState(s, p, "GAME_READY")
           r == LocalReady(s, p)
<1>1. "GAME_READY" \in PlayerStates /\ SettableAt(s, p, "GAME_READY")
  BY DEF PlayerStates, SettableAt
<1>2. Here(t) /\ Follows(k, t)
  BY <1>1, SetPlayerStateFollowed
<1>3. t.state = "GAME_READY" /\ t.pstate = [s.pstate EXCEPT ![p] = "GAME_READY"]
  BY <1>1, SetPlayerStateTyped DEF Here
<1>4. r = CheckGameReady(t)
  BY DEF LocalReady
<1>5. /\ Settled(r) /\ Keeps(r, s) /\ InState(r, "GAME_INIT") = InState(s, "GAME_INIT") \ {p}
  BY LocalReadySettles
<1> HIDE DEF t
<1>6. Follows(k, CheckGameReady(t))
  BY <1>2, CheckGameReadyFollowed
<1>7. InState(t, "GAME_INIT") = InState(s, "GAME_INIT") \ {p}
  BY <1>3 DEF InState
<1>8. InState(t, "GAME_INIT") # {} => CheckGameReady(t) = t
  BY DEF CheckGameReady
<1> HIDE DEF r
<1>9. Here(r)
  BY <1>5 DEF Here, Settled, Keeps, SamePeers
<1>10. QED BY <1>3, <1>4, <1>5, <1>6, <1>7, <1>8, <1>9 DEF r

\* A loop of a handler, with what the client has been told before it.
Follow(k, s, q) == [tale |-> k, from |-> s, items |-> q]

LEMMA FollowFields ==
  \A k, s, q : LET c == Follow(k, s, q) IN c.tale = k /\ c.from = s /\ c.items = q
BY DEF Follow

(* One more item of a loop is done.                                        *)
LEMMA DoneMore ==
  ASSUME NEW c, NEW n \in Nat, NEW i \in 1..n
  PROVE  /\ Done(c, 0) = {} /\ Done(c, i) = Done(c, i - 1) \union {c.items[i]}
         /\ (\A j \in 1..n : j # i => c.items[j] # c.items[i]) => c.items[i] \notin Done(c, i - 1)
<1>1. Done(c, 0) = {}
  BY DEF Done
<1>2. \A j : j \in 1..i <=> j \in 1..(i - 1) \/ j = i
  OBVIOUS
<1>3. \A j \in 1..(i - 1) : j \in 1..n /\ j # i
  OBVIOUS
<1>4. QED BY <1>1, <1>2, <1>3 DEF Done

(* The players of the server's process, one after the other.               *)
LocalsHeard(c, i, r) ==
  /\ Settled(r) /\ Here(r) /\ Follows(c.tale, r)
  /\ InState(r, "GAME_INIT") = InState(c.from, "GAME_INIT") \ Done(c, i)
  /\ InState(r, "GAME_INIT") # {} => r.state = "GAME_READY"

Answering == INSTANCE Loops WITH Step <- LAMBDA c, s, p : LocalReady(s, p), Inv <- LocalsHeard

(* ScreenGame::onStateChange.                                              *)
LEMMA LocalPlayersReadyFollowed ==
  ASSUME NEW k, NEW s, Settled(s), Here(s), Follows(k, s), s.state = "GAME_READY"
  PROVE  Follows(k, LocalPlayersReady(s))
<1> DEFINE S == {p \in InState(s, "GAME_INIT") : s.peerOf[p] = Local}
           q == InOrder(S)
           n == Cardinality(S)
           c == Follow(k, s, q)
           r == Answering!Loop(c, s, q)
<1>1. LocalPlayersReady(s) = r
  BY DEF LocalPlayersReady, Answering!Loop, Answering!MapThenFoldSet,
         Answering!Max, FoldLeft, MapThenFoldSet, Max
<1>2. S \in SUBSET InState(s, "GAME_INIT") /\ S \in SUBSET PlIds
  BY DEF InState, Settled, Typed, RosterOK
<1> HIDE DEF S
<1>3. /\ n \in Nat /\ q \in [1..n -> S] /\ DOMAIN q = 1..n
      /\ \A i, j \in 1..n : i # j => q[i] # q[j]
  BY <1>2, InOrderEnumerates
<1> HIDE DEF q, n
<1>4. c.tale = k /\ c.from = s /\ c.items = q
  BY FollowFields
<1> HIDE DEF c
<1>5. LocalsHeard(c, 0, s)
  BY <1>4 DEF LocalsHeard, Done
<1>6. ASSUME NEW i \in 1..n, NEW t, LocalsHeard(c, i - 1, t)
      PROVE  LocalsHeard(c, i, LocalReady(t, q[i]))
  <2>1. q[i] \in InState(s, "GAME_INIT")
    BY <1>2, <1>3
  <2>2. Done(c, i) = Done(c, i - 1) \union {q[i]} /\ q[i] \notin Done(c, i - 1)
    BY <1>3, <1>4, DoneMore
  <2>3. /\ Settled(t) /\ Here(t) /\ Follows(k, t)
        /\ InState(t, "GAME_INIT") = InState(s, "GAME_INIT") \ Done(c, i - 1)
        /\ InState(t, "GAME_INIT") # {} => t.state = "GAME_READY"
    BY <1>4, <1>6 DEF LocalsHeard
  <2>4. q[i] \in InState(t, "GAME_INIT")
    BY <2>1, <2>2, <2>3
  <2>5. q[i] \in DOMAIN t.pstate /\ t.pstate[q[i]] = "GAME_INIT" /\ t.state = "GAME_READY"
    BY <2>3, <2>4 DEF InState
  <2> DEFINE u == LocalReady(t, q[i])
  <2>6. /\ Settled(u) /\ Here(u) /\ Follows(k, u)
        /\ InState(u, "GAME_INIT") = InState(t, "GAME_INIT") \ {q[i]}
        /\ InState(u, "GAME_INIT") # {} => u.state = "GAME_READY"
    BY <2>3, <2>5, LocalReadyFollowed
  <2> HIDE DEF u
  <2>7. LocalsHeard(c, i, u)
    BY <1>4, <2>2, <2>3, <2>6 DEF LocalsHeard
  <2>8. QED BY <2>7 DEF u
<1>7. LocalsHeard(c, n, r)
  <2> HIDE DEF r
  <2>1. LocalsHeard(c, n, Answering!Loop(c, s, q))
    BY <1>3, <1>5, <1>6, Answering!LoopInvariant
  <2>2. QED BY <2>1 DEF r
<1> HIDE DEF r
<1>8. QED BY <1>1, <1>4, <1>7 DEF LocalsHeard

(* A field made for a player.                                              *)
LEMMA MakeFieldFollowed ==
  ASSUME NEW k, NEW s, Here(s), Follows(k, s), s.state = "GAME_INIT",
         NEW p \in DOMAIN s.pstate \ s.holds
  PROVE  Here(MakeField(s, p)) /\ Follows(k, MakeField(s, p))
<1> DEFINE t == AddField(s, p)
           e == [type |-> "FIELD", plid |-> p]
           r == MakeField(s, p)
<1>1. Typed(s) /\ DOMAIN s = StateFields /\ p \in PlIds /\ Me \in Range(s.socks)
  BY DEF Here, Typed, RosterOK
<1>2. DOMAIN t = StateFields /\ t.out = s.out /\ t.socks = s.socks
  BY <1>1 DEF AddField, StateFields
<1>3. r = [t EXCEPT !.out = Append(@, [to |-> Range(t.socks), event |-> e])]
  BY DEF MakeField, Broadcast, Send
<1> HIDE DEF t
<1>4. r.out = Append(s.out, [to |-> Range(s.socks), event |-> e])
  BY <1>2, <1>3 DEF StateFields
<1>5. /\ Typed(r) /\ r.state = s.state /\ SameRoster(r, s) /\ SamePeers(r, s)
      /\ r.holds = s.holds \union {p}
  BY <1>1, MakeFieldTyped
<1> HIDE DEF r
<1>6. ASSUME NEW w, Mirror(s, w) PROVE Mirror(r, On(w, e))
  <2>1. w.error = ""
    BY <1>6 DEF Mirror
  <2>2. On(w, e) = OnField(w, p)
    BY <2>1 DEF On
  <2>3. QED BY <1>5, <1>6, <2>2, MirrorField DEF SameRoster
<1>7. e \in Event /\ Range(s.socks) \in SUBSET Peers
  BY <1>1, Events, Everybody
<1> HIDE DEF e
<1>8. Follows(k, r)
  BY <1>1, <1>4, <1>6, <1>7, Heard
<1>9. QED BY <1>1, <1>5, <1>8 DEF r, Here, SamePeers

(* The fields of the players, one after the other.                         *)
FieldsHeard(c, i, r) ==
  /\ Here(r) /\ Follows(c.tale, r) /\ r.state = "GAME_INIT"
  /\ SameRoster(r, c.from) /\ r.holds = Done(c, i)

Distributing == INSTANCE Loops WITH Step <- LAMBDA c, s, p : MakeField(s, p), Inv <- FieldsHeard

(* The fields are made for players the client knows, and once.             *)
LEMMA MakeFieldsFollowed ==
  ASSUME NEW k, NEW s, Here(s), Follows(k, s), s.state = "GAME_INIT", s.holds = {}
  PROVE  Here(MakeFields(s)) /\ Follows(k, MakeFields(s)) /\ MakeFields(s).state = "GAME_INIT"
<1> DEFINE S == InState(s, "GAME_INIT")
           q == InOrder(S)
           n == Cardinality(S)
           c == Follow(k, s, q)
           r == Distributing!Loop(c, s, q)
<1>1. MakeFields(s) = r
  BY DEF MakeFields, Distributing!Loop, Distributing!MapThenFoldSet,
         Distributing!Max, FoldLeft, MapThenFoldSet, Max
<1>2. S \in SUBSET DOMAIN s.pstate /\ S \in SUBSET PlIds
  BY DEF InState, Here, Typed, RosterOK
<1> HIDE DEF S
<1>3. /\ n \in Nat /\ q \in [1..n -> S] /\ DOMAIN q = 1..n
      /\ \A i, j \in 1..n : i # j => q[i] # q[j]
  BY <1>2, InOrderEnumerates
<1> HIDE DEF q, n
<1>4. c.tale = k /\ c.from = s /\ c.items = q
  BY FollowFields
<1> HIDE DEF c
<1>5. FieldsHeard(c, 0, s)
  BY <1>4 DEF FieldsHeard, Done, SameRoster
<1>6. ASSUME NEW i \in 1..n, NEW t, FieldsHeard(c, i - 1, t)
      PROVE  FieldsHeard(c, i, MakeField(t, q[i]))
  <2>1. Done(c, i) = Done(c, i - 1) \union {q[i]} /\ q[i] \notin Done(c, i - 1)
    BY <1>3, <1>4, DoneMore
  <2>2. /\ Here(t) /\ Follows(k, t) /\ t.state = "GAME_INIT"
        /\ SameRoster(t, s) /\ t.holds = Done(c, i - 1)
    BY <1>4, <1>6 DEF FieldsHeard
  <2>3. q[i] \in DOMAIN t.pstate \ t.holds
    BY <1>2, <1>3, <2>1, <2>2 DEF SameRoster
  <2> DEFINE u == MakeField(t, q[i])
  <2>4. Here(u) /\ Follows(k, u)
    BY <2>2, <2>3, MakeFieldFollowed
  <2>5. u.state = t.state /\ SameRoster(u, t) /\ u.holds = t.holds \union {q[i]}
    BY <2>2, <2>3, MakeFieldTyped DEF Here
  <2> HIDE DEF u
  <2>6. FieldsHeard(c, i, u)
    BY <1>4, <2>1, <2>2, <2>4, <2>5 DEF FieldsHeard, SameRoster
  <2>7. QED BY <2>6 DEF u
<1>7. FieldsHeard(c, n, r)
  <2> HIDE DEF r
  <2>1. FieldsHeard(c, n, Distributing!Loop(c, s, q))
    BY <1>3, <1>5, <1>6, Distributing!LoopInvariant
  <2>2. QED BY <2>1 DEF r
<1> HIDE DEF r
<1>8. QED BY <1>1, <1>4, <1>7 DEF FieldsHeard

(* prepareMatch, from the lobby.                                           *)
LEMMA PrepareMatchFollowed ==
  ASSUME NEW k, NEW s, Settled(s), Here(s), Follows(k, s), s.state = "LOBBY"
  PROVE  Follows(k, PrepareMatch(s))
<1> DEFINE cl == ClearMatch(s)
           init == SetState(cl, "GAME_INIT")
           made == MakeFields(init)
           ready == SetState(made, "GAME_READY")
           einit == [type |-> "STATE", state |-> "GAME_INIT"]
           eready == [type |-> "STATE", state |-> "GAME_READY"]
<1>1. DOMAIN s = StateFields /\ Typed(s) /\ s.holds = {} /\ Me \in Range(s.socks)
  BY DEF Settled, Typed, Here
<1>2. /\ DOMAIN cl = StateFields /\ cl.fields = {} /\ cl.lost = {} /\ cl.ranked = {}
      /\ cl.holds = s.holds /\ cl.started = s.started /\ cl.out = s.out /\ cl.died = s.died
  BY <1>1 DEF ClearMatch, StateFields
<1>3. SameRoster(cl, s) /\ SamePeers(cl, s)
  BY <1>1 DEF ClearMatch, StateFields, SameRoster, SamePeers
<1>4. PrepareMatch(s) = LocalPlayersReady(ready)
  BY DEF PrepareMatch
<1> HIDE DEF cl
<1>5. Typed(cl)
  BY <1>1, <1>2, <1>3 DEF Typed, RosterOK, BoardOK, PeersOK, OutOK, SameRoster, SamePeers
<1>6. /\ Typed(init) /\ init.state = "GAME_INIT" /\ SameBoard(init, cl) /\ Keeps(init, cl)
      /\ DOMAIN init.pstate = DOMAIN cl.pstate
      /\ \A p \in DOMAIN cl.pstate :
           init.pstate[p] = IF cl.pstate[p] = "LOBBY_READY" THEN "GAME_INIT" ELSE cl.pstate[p]
  BY <1>5, SetStateTyped
<1>7. init.out = Append(s.out, [to |-> Range(s.socks), event |-> einit])
  BY <1>2, <1>3, SetStateSays DEF SamePeers
<1> HIDE DEF init
<1>8. /\ init.holds = {} /\ init.holds = s.holds /\ init.peerOf = s.peerOf
      /\ init.current = s.current /\ init.socks = s.socks /\ DOMAIN init.pstate = DOMAIN s.pstate
      /\ \A p \in DOMAIN s.pstate :
           init.pstate[p] = IF s.pstate[p] = "LOBBY_READY" THEN "GAME_INIT" ELSE s.pstate[p]
  BY <1>1, <1>2, <1>3, <1>6 DEF SameBoard, Keeps, SamePeers, SameRoster
<1>9. ASSUME NEW w, Mirror(s, w) PROVE Mirror(init, On(w, einit))
  <2>1. w.error = ""
    BY <1>9 DEF Mirror
  <2>2. On(w, einit) = OnState(w, "GAME_INIT")
    BY <2>1 DEF On
  <2>3. Mirror(init, OnState(w, "GAME_INIT"))
    BY <1>1, <1>6, <1>8, <1>9, MirrorInit
  <2>4. QED BY <2>2, <2>3
<1>10. einit \in Event /\ eready \in Event /\ Range(s.socks) \in SUBSET Peers
  BY <1>1, Events, Everybody
<1> HIDE DEF einit
<1>11. Follows(k, init) /\ Here(init)
  <2>1. Follows(k, init)
    BY <1>1, <1>7, <1>9, <1>10, Heard
  <2>2. QED BY <1>1, <1>6, <1>8, <2>1 DEF Here
<1>12. Here(made) /\ Follows(k, made) /\ made.state = "GAME_INIT"
  BY <1>6, <1>8, <1>11, MakeFieldsFollowed
<1> HIDE DEF made
<1>13. Typed(made) /\ DOMAIN made = StateFields /\ Me \in Range(made.socks)
  BY <1>12 DEF Here, Typed
<1>14. /\ Typed(ready) /\ ready.state = "GAME_READY" /\ SameBoard(ready, made) /\ Keeps(ready, made)
       /\ DOMAIN ready.pstate = DOMAIN made.pstate
       /\ \A p \in DOMAIN made.pstate : ready.pstate[p] = made.pstate[p]
  BY <1>13, SetStateTyped
<1>15. ready.out = Append(made.out, [to |-> Range(made.socks), event |-> eready])
  BY <1>13, SetStateSays
<1> HIDE DEF ready
<1>16. /\ ready.holds = made.holds /\ ready.peerOf = made.peerOf /\ ready.current = made.current
       /\ ready.socks = made.socks
  BY <1>14 DEF SameBoard, Keeps, SamePeers
<1>17. ASSUME NEW w, Mirror(made, w) PROVE Mirror(ready, On(w, eready))
  <2>1. w.error = ""
    BY <1>17 DEF Mirror
  <2>2. On(w, eready) = OnState(w, "GAME_READY")
    BY <2>1 DEF On
  <2>3. Mirror(ready, OnState(w, "GAME_READY"))
    BY <1>12, <1>14, <1>16, <1>17, MirrorReady
  <2>4. QED BY <2>2, <2>3
<1> HIDE DEF eready
<1>18. Range(made.socks) \in SUBSET Peers
  BY <1>13, Everybody
<1>19. Follows(k, ready)
  BY <1>10, <1>12, <1>13, <1>15, <1>17, <1>18, Heard
<1>20. Settled(ready) /\ Here(ready)
  BY <1>13, <1>14, <1>16 DEF Settled, ServerStates, Here
<1>21. QED BY <1>4, <1>14, <1>19, <1>20, LocalPlayersReadyFollowed

(* checkAllPlayersReady.                                                   *)
LEMMA CheckAllPlayersReadyFollowed ==
  ASSUME NEW k, NEW s, Settled(s), Here(s), Follows(k, s)
  PROVE  LET r == CheckAllPlayersReady(s)
         IN  Settled(r) /\ Here(r) /\ Follows(k, r)
<1> DEFINE r == CheckAllPlayersReady(s)
<1>1. Settled(r) /\ Keeps(r, s)
  BY CheckAllPlayersReadySettles
<1>2. Here(r)
  BY <1>1 DEF Here, Settled, Keeps, SamePeers
<1>3. Follows(k, r)
  BY PrepareMatchFollowed, CheckGameReadyFollowed DEF CheckAllPlayersReady
<1>4. QED BY <1>1, <1>2, <1>3

-----------------------------------------------------------------------------
(* What is said last comes after what has been said.                       *)
LEMMA SaidAfter ==
  ASSUME NEW q \in Seq(Message), NEW m \in Message
  PROVE  /\ \A i \in DOMAIN q : i \in DOMAIN Append(q, m) /\ Append(q, m)[i] = q[i]
         /\ \E i \in DOMAIN Append(q, m) : Append(q, m)[i] = m
<1>1. DOMAIN Append(q, m) = 1..(Len(q) + 1) /\ Len(q) \in Nat
  OBVIOUS
<1>2. Append(q, m)[Len(q) + 1] = m
  OBVIOUS
<1>3. QED BY <1>1, <1>2

(* A rank that is announced, unless an assertion fails: the client refuses *)
(* it before the match has started.                                        *)
LEMMA RankFieldFollowed ==
  ASSUME NEW k, NEW s, Here(s), s.died = "" => Follows(k, s),
         s.state \in {"GAME_READY", "GAME"}, s.state = "GAME_READY" => k.from = "GAME_READY",
         NEW f \in PlIds
  PROVE  LET r == RankField(s, f)
         IN  /\ Here(r) /\ SameLife(r, s) /\ Keeps(r, s)
             /\ r.died = "" => Follows(k, r)
<1> DEFINE r == RankField(s, f)
           e == [type |-> "RANK", plid |-> f]
           m == [to |-> Range(s.socks), event |-> e]
<1>1. Typed(s) /\ DOMAIN s = StateFields /\ Me \in Range(s.socks) /\ s.out \in Seq(Message)
  BY DEF Here, Typed, OutOK
<1>2. e \in Event /\ Range(s.socks) \in SUBSET Peers
  BY <1>1, Events, Everybody
<1>3. CASE f \in s.holds
  <2>1. r = Broadcast(s, e)
    BY <1>3 DEF RankField
  <2>2. r = [s EXCEPT !.out = Append(@, m)]
    BY <2>1 DEF Broadcast, Send
  <2>3. r.out = Append(s.out, m)
    BY <1>1, <2>2 DEF StateFields
  <2>4. e.type = "RANK" /\ m.event = e
    OBVIOUS
  <2>5. \A w : w.error = "" => On(w, e) = OnRank(w, f)
    BY DEF On
  <2> HIDE DEF r, e
  <2>6. /\ Typed(r) /\ r.state = s.state /\ r.died = s.died
        /\ SameRoster(r, s) /\ SameBoard(r, s) /\ SamePeers(r, s)
    BY <1>1, <1>2, <2>1, BroadcastTyped
  <2>7. HasRank(r)
    <3>1. m \in Message
      BY <1>2 DEF Message
    <3> HIDE DEF m
    <3>2. \E i \in DOMAIN r.out : r.out[i] = m
      <4>1. \E i \in DOMAIN Append(s.out, m) : Append(s.out, m)[i] = m
        BY <1>1, <3>1, SaidAfter, Zenon
      <4>2. QED BY <2>3, <4>1, Zenon
    <3>3. QED BY <2>4, <3>2 DEF HasRank
  <2>8. ASSUME NEW w, Mirror(s, w)
        PROVE  Mirror(r, On(w, e)) \/ On(w, e).error \in Refusals(k, r)
    <3>1. On(w, e) = OnRank(w, f)
      BY <2>5, <2>8 DEF Mirror
    <3>2. /\ s.state = "GAME" => OnRank(w, f) = w
          /\ s.state = "GAME_READY" => OnRank(w, f).error = "invalid in current state"
      BY <1>3, <2>8, MirrorRank
    <3>3. CASE s.state = "GAME"
      <4>1. SameShown(r, s)
        BY <2>6 DEF SameShown, SameRoster, SameBoard
      <4>2. QED BY <2>8, <3>1, <3>2, <3>3, <4>1, MirrorSame
    <3>4. CASE s.state = "GAME_READY"
      BY <2>7, <3>1, <3>2, <3>4 DEF Refusals, TooEarly
    <3>5. QED BY <3>3, <3>4
  <2>9. s.died = "" => Follows(k, r)
    BY <1>1, <1>2, <2>3, <2>8, Heard
  <2>10. QED BY <1>1, <2>6, <2>9 DEF r, Here, SameLife, Keeps, SamePeers, SameRoster, SameBoard
<1>4. CASE f \notin s.holds
  <2>1. r = Die(s, "ranked field without player")
    BY <1>4 DEF RankField
  <2>2. "ranked field without player" \in Deaths \ {""}
    BY DEF Deaths
  <2> HIDE DEF r
  <2>3. /\ Typed(r) /\ r.state = s.state /\ r.died # ""
        /\ SameRoster(r, s) /\ SameBoard(r, s) /\ SamePeers(r, s)
    BY <1>1, <2>1, <2>2, DieTyped
  <2>4. QED BY <1>1, <2>3 DEF r, Here, SameLife, Keeps, SamePeers, SameRoster, SameBoard
<1>5. QED BY <1>3, <1>4

(* The ranks that are announced, one after the other.                      *)
RanksHeard(c, i, r) ==
  /\ Here(r) /\ SameLife(r, c.from) /\ Keeps(r, c.from)
  /\ r.died = "" => Follows(c.tale, r)

Announcing == INSTANCE Loops WITH Step <- LAMBDA c, s, f : RankField(s, f), Inv <- RanksHeard

LEMMA RankFieldsFollowed ==
  ASSUME NEW k, NEW s, Here(s), s.died = "" => Follows(k, s),
         s.state \in {"GAME_READY", "GAME"}, s.state = "GAME_READY" => k.from = "GAME_READY",
         NEW told \in SUBSET s.fields
  PROVE  LET r == RankFields(s, told)
         IN  /\ Here(r) /\ SameLife(r, s) /\ Keeps(r, s)
             /\ r.died = "" => Follows(k, r)
<1> DEFINE b == [s EXCEPT !.ranked = @ \union told]
           q == InOrder(told)
           n == Cardinality(told)
           c == Follow(k, s, q)
           r == Announcing!Loop(c, b, q)
<1>1. RankFields(s, told) = r
  BY DEF RankFields, Announcing!Loop, Announcing!MapThenFoldSet,
         Announcing!Max, FoldLeft, MapThenFoldSet, Max
<1>2. DOMAIN s = StateFields /\ told \in SUBSET PlIds /\ Typed(s)
  BY DEF Here, Typed, BoardOK
<1>3. n \in Nat /\ q \in [1..n -> told] /\ DOMAIN q = 1..n
  BY <1>2, InOrderEnumerates
<1>4. /\ DOMAIN b = StateFields /\ b.ranked = s.ranked \union told
      /\ b.fields = s.fields /\ b.lost = s.lost /\ b.holds = s.holds
      /\ b.started = s.started /\ b.state = s.state /\ b.out = s.out
      /\ b.died = s.died
  BY <1>2 DEF StateFields
<1>5. SameRoster(b, s) /\ SamePeers(b, s)
  BY <1>2 DEF StateFields, SameRoster, SamePeers
<1> HIDE DEF q, n, b
<1>6. c.tale = k /\ c.from = s
  BY DEF Follow
<1> HIDE DEF c
<1>7. RanksHeard(c, 0, b)
  <2>1. Typed(b)
    BY <1>2, <1>4, <1>5 DEF Typed, RosterOK, BoardOK, PeersOK, OutOK, SameRoster, SamePeers
  <2>2. SameShown(b, s)
    BY <1>4, <1>5 DEF SameShown, SameRoster
  <2>3. \A w : Mirror(s, w) => Mirror(b, w)
    BY <2>2, MirrorSame
  <2>4. b.died = "" => Follows(k, b)
    BY <1>4, <2>3, Unsaid
  <2>5. Here(b)
    BY <2>1, <1>5 DEF Here, SamePeers
  <2>6. QED BY <2>4, <2>5, <1>4, <1>5, <1>6 DEF RanksHeard, SameLife, Keeps, SameRoster
<1>8. ASSUME NEW i \in 1..n, NEW t, RanksHeard(c, i - 1, t)
      PROVE  RanksHeard(c, i, RankField(t, q[i]))
  <2>1. Here(t) /\ SameLife(t, s) /\ Keeps(t, s) /\ (t.died = "" => Follows(k, t))
    BY <1>6, <1>8 DEF RanksHeard
  <2>2. t.state = s.state
    BY <2>1 DEF SameLife
  <2>3. q[i] \in PlIds
    BY <1>2, <1>3
  <2> DEFINE u == RankField(t, q[i])
  <2>4. /\ Here(u) /\ SameLife(u, t) /\ Keeps(u, t)
        /\ u.died = "" => Follows(k, u)
    BY <2>1, <2>2, <2>3, RankFieldFollowed
  <2> HIDE DEF u
  <2>5. RanksHeard(c, i, u)
    BY <2>1, <2>4, <1>6 DEF RanksHeard, SameLife, Keeps, SamePeers
  <2>6. QED BY <2>5 DEF u
<1>9. RanksHeard(c, n, r)
  <2> HIDE DEF r
  <2>1. RanksHeard(c, n, Announcing!Loop(c, b, q))
    BY <1>3, <1>7, <1>8, Announcing!LoopInvariant
  <2>2. QED BY <2>1 DEF r
<1> HIDE DEF r
<1>10. QED BY <1>1, <1>6, <1>9 DEF RanksHeard

(* stopMatch, at the end of a match.                                       *)
LEMMA StopMatchFollowed ==
  ASSUME NEW k, NEW s, Settled(s), Here(s), Follows(k, s), s.state \in {"GAME_READY", "GAME"}
  PROVE  LET r == StopMatch(s)
         IN  r.died = "" => r.state = "LOBBY" /\ Follows(k, r)
<1> DEFINE r == StopMatch(s)
           freed == [s EXCEPT !.holds = {}]
           stopped == [ClearMatch(freed) EXCEPT !.started = FALSE]
           e == [type |-> "STATE", state |-> "LOBBY"]
<1>1. DOMAIN s = StateFields /\ Typed(s) /\ Me \in Range(s.socks)
  BY DEF Settled, Typed, Here
<1>2. /\ DOMAIN freed = StateFields /\ freed.holds = {}
      /\ freed.fields = s.fields /\ freed.lost = s.lost /\ freed.ranked = s.ranked
      /\ freed.started = s.started /\ freed.state = s.state /\ freed.out = s.out
      /\ freed.died = s.died
  BY <1>1 DEF StateFields
<1>3. SameRoster(freed, s) /\ SamePeers(freed, s)
  BY <1>1 DEF StateFields, SameRoster, SamePeers
<1>4. /\ DOMAIN stopped = StateFields /\ stopped.holds = freed.holds
      /\ stopped.fields = {} /\ stopped.lost = {} /\ stopped.ranked = {}
      /\ stopped.started = FALSE /\ stopped.out = freed.out /\ stopped.died = freed.died
      /\ SameRoster(stopped, freed) /\ SamePeers(stopped, freed)
  <2> HIDE DEF freed
  <2>1. QED BY <1>2 DEF ClearMatch, StateFields, SameRoster, SamePeers
<1>5. r = IF s.started THEN SetState(stopped, "LOBBY") ELSE Die(freed, "match not started")
  BY DEF StopMatch
<1>6. Settled(r) /\ Keeps(r, s) /\ r.pstate = s.pstate
  BY StopMatchSettles
<1> HIDE DEF r, freed, stopped
<1>7. SUFFICES ASSUME r.died = "" PROVE r.state = "LOBBY" /\ Follows(k, r)
  BY DEF r
<1>8. Typed(freed)
  BY <1>1, <1>2, <1>3 DEF Typed, RosterOK, BoardOK, PeersOK, OutOK, SameRoster, SamePeers
<1>9. Typed(stopped)
  BY <1>2, <1>4, <1>8 DEF Typed, RosterOK, BoardOK, PeersOK, OutOK, SameRoster, SamePeers
<1>10. s.started
  <2>1. "match not started" \in Deaths \ {""}
    BY DEF Deaths
  <2>2. Die(freed, "match not started").died # ""
    BY <1>8, <2>1, DieTyped
  <2>3. QED BY <1>5, <1>7, <2>2
<1>11. r.state = "LOBBY" /\ r.holds = {}
  <2>1. SetState(stopped, "LOBBY").state = "LOBBY" /\ SameBoard(SetState(stopped, "LOBBY"), stopped)
    BY <1>9, SetStateTyped
  <2>2. QED BY <1>2, <1>4, <1>5, <1>10, <2>1 DEF SameBoard
<1>12. r.out = Append(s.out, [to |-> Range(s.socks), event |-> e])
  <2>1. SetState(stopped, "LOBBY").out = Append(stopped.out, [to |-> Range(stopped.socks), event |-> e])
    BY <1>4, SetStateSays
  <2>2. stopped.out = s.out /\ stopped.socks = s.socks
    BY <1>2, <1>3, <1>4 DEF SamePeers
  <2>3. QED BY <1>5, <1>10, <2>1, <2>2
<1>13. ASSUME NEW w, Mirror(s, w) PROVE Mirror(r, On(w, e))
  <2>1. w.error = ""
    BY <1>13 DEF Mirror
  <2>2. On(w, e) = OnState(w, "LOBBY")
    BY <2>1 DEF On
  <2>3. r.peerOf = s.peerOf /\ r.current = s.current /\ r.pstate = s.pstate
    BY <1>6 DEF Keeps
  <2>4. Mirror(r, OnState(w, "LOBBY"))
    BY <1>11, <1>13, <2>3, MirrorLobby
  <2>5. QED BY <2>2, <2>4
<1>14. e \in Event /\ Range(s.socks) \in SUBSET Peers
  BY <1>1, Events, Everybody
<1> HIDE DEF e
<1>15. Follows(k, r)
  BY <1>1, <1>12, <1>13, <1>14, Heard
<1>16. QED BY <1>11, <1>15

(* updateRanks, whichever fields are found dead.                           *)
LEMMA UpdateRanksFollowed ==
  ASSUME NEW k, NEW s, Settled(s), Here(s), Follows(k, s), s.state \in {"GAME_READY", "GAME"},
         s.state = "GAME_READY" => k.from = "GAME_READY", NEW r \in UpdateRanks(s), r.died = ""
  PROVE  /\ Here(r) /\ Follows(k, r)
         /\ r.state = "GAME_READY" => k.from = "GAME_READY"
<1>1. PICK dead \in Rankable(s) : r = UpdateRanksWith(s, dead)
  BY DEF UpdateRanks
<1>2. Typed(s) /\ s.lost \subseteq s.fields
  BY DEF Settled, Typed, BoardOK
<1>3. dead \subseteq s.fields
  BY <1>2 DEF Rankable
<1> DEFINE left == (s.fields \ s.ranked) \ dead
           over == Cardinality(left) < 2
           told == dead \union (IF over THEN left ELSE {})
           after == RankFields(s, told)
<1>4. r = IF over /\ after.died = "" THEN StopMatch(after) ELSE after
  BY <1>1 DEF UpdateRanksWith
<1>5. told \in SUBSET s.fields
  BY <1>3
<1> HIDE DEF told, over
<1>6. /\ Here(after) /\ SameLife(after, s) /\ Keeps(after, s)
      /\ after.died = "" => Follows(k, after)
  BY <1>5, RankFieldsFollowed
<1> HIDE DEF after
<1>7. Settled(after) /\ after.state = s.state
  BY <1>6 DEF Settled, SameLife, Here
<1>8. Settled(r) /\ Keeps(r, s)
  BY UpdateRanksSettles
<1>9. Here(r)
  BY <1>8 DEF Here, Settled, Keeps, SamePeers
<1>10. CASE over /\ after.died = ""
  <2>1. r = StopMatch(after)
    BY <1>4, <1>10
  <2>2. r.state = "LOBBY" /\ Follows(k, r)
    BY <2>1, <1>6, <1>7, <1>10, StopMatchFollowed
  <2>3. QED BY <1>9, <2>2
<1>11. CASE ~ (over /\ after.died = "")
  <2>1. r = after
    BY <1>4, <1>11
  <2>2. QED BY <2>1, <1>6, <1>7, <1>9
<1>12. QED BY <1>10, <1>11

-----------------------------------------------------------------------------
(* Players that leave.                                                     *)

\* A match being prepared has been prepared before this handler.
FromReady(k, s) == s.state = "GAME_READY" => k.from = "GAME_READY"

(* What an erased player leaves as it is.                                  *)
LEMMA EraseKeeps ==
  ASSUME NEW s, Typed(s), NEW p
  PROVE  LET r == Erase(s, p)
         IN  /\ DOMAIN r = StateFields /\ r.out = s.out /\ r.socks = s.socks
             /\ r.current = s.current
             /\ \A q \in DOMAIN s.pstate \ {p} : r.peerOf[q] = s.peerOf[q]
<1> DEFINE r == Erase(s, p)
           po == Restricted(s.peerOf, p)
<1>1. DOMAIN s = StateFields /\ s.peerOf \in [DOMAIN s.pstate -> Peers \union {Local}]
  BY DEF Typed, RosterOK
<1>2. /\ DOMAIN r = StateFields /\ r.out = s.out /\ r.socks = s.socks /\ r.current = s.current
      /\ r.peerOf = po
  BY <1>1 DEF Erase, StateFields
<1>3. \A q \in DOMAIN s.pstate \ {p} : po[q] = s.peerOf[q]
  BY <1>1 DEF Restricted
<1>4. QED BY <1>2, <1>3

(* A player erased, the others told.                                       *)
LEMMA ErasedFollowed ==
  ASSUME NEW k, NEW s, Settled(s), Here(s), Follows(k, s), NEW p \in DOMAIN s.pstate
  PROVE  LET u == BroadcastPlayerState(Erase(s, p), p, "QUIT")
         IN  /\ Settled(u) /\ Here(u) /\ Follows(k, u) /\ u.state = s.state
             /\ DOMAIN u.pstate = DOMAIN s.pstate \ {p}
             /\ \A q \in DOMAIN u.pstate : u.pstate[q] = s.pstate[q]
<1> DEFINE t == Erase(s, p)
           e == [type |-> "PLAYER_STATE", plid |-> p, state |-> "QUIT"]
           u == BroadcastPlayerState(t, p, "QUIT")
<1>1. Typed(s) /\ p \in PlIds /\ Me \in Range(s.socks) /\ s.state # "GAME_INIT"
  BY DEF Here, Typed, RosterOK, Settled, ServerStates
<1>2. /\ Typed(t) /\ t.state = s.state /\ SamePeers(t, s) /\ t.holds = s.holds \ {p}
      /\ DOMAIN t.pstate = DOMAIN s.pstate \ {p}
      /\ \A q \in DOMAIN t.pstate : t.pstate[q] = s.pstate[q]
  BY <1>1, EraseTyped
<1>3. /\ DOMAIN t = StateFields /\ t.out = s.out /\ t.socks = s.socks /\ t.current = s.current
      /\ \A q \in DOMAIN s.pstate \ {p} : t.peerOf[q] = s.peerOf[q]
  BY <1>1, EraseKeeps
<1>4. e \in Event /\ Range(s.socks) \in SUBSET Peers
  BY <1>1, Events, Everybody
<1> HIDE DEF t
<1>5. u = Broadcast(t, e)
  BY DEF BroadcastPlayerState
<1>6. u.out = Append(s.out, [to |-> Range(s.socks), event |-> e])
  BY <1>3, <1>5 DEF Broadcast, Send, StateFields
<1>7. /\ Typed(u) /\ u.state = t.state
      /\ SameRoster(u, t) /\ SameBoard(u, t) /\ SamePeers(u, t)
  BY <1>2, <1>4, <1>5, BroadcastTyped
<1> HIDE DEF u
<1>8. /\ u.state = s.state /\ u.holds = s.holds \ {p} /\ u.current = s.current /\ u.socks = s.socks
      /\ DOMAIN u.pstate = DOMAIN s.pstate \ {p}
      /\ \A q \in DOMAIN u.pstate : u.pstate[q] = s.pstate[q] /\ u.peerOf[q] = s.peerOf[q]
  BY <1>2, <1>3, <1>7 DEF SameRoster, SameBoard, SamePeers
<1>9. ASSUME NEW w, Mirror(s, w) PROVE Mirror(u, On(w, e))
  <2>1. w.error = ""
    BY <1>9 DEF Mirror
  <2>2. On(w, e) = OnPlayerState(w, p, "QUIT")
    BY <2>1 DEF On
  <2>3. Mirror(u, OnPlayerState(w, p, "QUIT"))
    BY <1>1, <1>8, <1>9, MirrorErased
  <2>4. QED BY <2>2, <2>3
<1> HIDE DEF e
<1>10. Follows(k, u)
  BY <1>1, <1>4, <1>6, <1>9, Heard
<1>11. Settled(u) /\ Here(u)
  BY <1>1, <1>7, <1>8 DEF Settled, Here
<1>12. QED BY <1>8, <1>10, <1>11 DEF u, t

(* Fewer players are ready in the lobby, not enough for a match.           *)
LEMMA LeavingPreparesNothing ==
  ASSUME NEW s, Settled(s), Fit(s), NEW p, NEW u, u.state = "LOBBY", s.state = "LOBBY",
         DOMAIN u.pstate = DOMAIN s.pstate \ {p},
         \A q \in DOMAIN u.pstate : u.pstate[q] = s.pstate[q]
  PROVE  CheckAllPlayersReady(u) = u
<1> DEFINE L == InState(s, "LOBBY_READY")
<1>1. InState(u, "LOBBY_READY") = L \ {p}
  BY DEF InState
<1>2. L \in SUBSET PlIds
  BY DEF InState, Settled, Typed, RosterOK
<1>3. Cardinality(L) < PlNbMax
  BY DEF Fit, Waits
<1> HIDE DEF L
<1>4. /\ Cardinality(L) \in Nat /\ Cardinality(L \ {p}) \in Nat
      /\ Cardinality(L \ {p}) <= Cardinality(L)
  <2>1. IsFiniteSet(L)
    BY <1>2, FinitePlayers
  <2>2. L \ {p} \in SUBSET L
    OBVIOUS
  <2>3. QED BY <2>1, <2>2, FS_Subset, FS_CardinalityType
<1>5. Cardinality(L \ {p}) # PlNbMax
  BY <1>3, <1>4
<1>6. QED BY <1>1, <1>5 DEF CheckAllPlayersReady, CheckGameReady

(* The player erased and the others checked.                               *)
LEMMA LeavingFollowed ==
  ASSUME NEW k, NEW s, Settled(s), Here(s), Follows(k, s), Fit(s), FromReady(k, s),
         NEW p \in DOMAIN s.pstate
  PROVE  LET r == CheckAllPlayersReady(BroadcastPlayerState(Erase(s, p), p, "QUIT"))
         IN  /\ Here(r) /\ Follows(k, r) /\ FromReady(k, r)
             /\ DOMAIN r.pstate = DOMAIN s.pstate \ {p}
<1> DEFINE u == BroadcastPlayerState(Erase(s, p), p, "QUIT")
           r == CheckAllPlayersReady(u)
<1>1. /\ Settled(u) /\ Here(u) /\ Follows(k, u) /\ u.state = s.state
      /\ DOMAIN u.pstate = DOMAIN s.pstate \ {p}
      /\ \A q \in DOMAIN u.pstate : u.pstate[q] = s.pstate[q]
  BY ErasedFollowed
<1> HIDE DEF u
<1>2. Settled(r) /\ Here(r) /\ Follows(k, r)
  BY <1>1, CheckAllPlayersReadyFollowed
<1>3. DOMAIN r.pstate = DOMAIN u.pstate
  BY <1>1, CheckAllPlayersReadySettles
<1>4. r.state = "GAME_READY" => s.state = "GAME_READY"
  <2>1. CASE s.state = "LOBBY"
    <3>1. u.state = "LOBBY"
      BY <1>1, <2>1
    <3>2. CheckAllPlayersReady(u) = u
      BY <1>1, <2>1, <3>1, LeavingPreparesNothing
    <3>3. QED BY <3>1, <3>2
  <2>2. CASE s.state # "LOBBY"
    <3>1. r = CheckGameReady(u)
      BY <1>1, <2>2 DEF CheckAllPlayersReady
    <3>2. CASE u.state = "GAME_READY"
      BY <1>1, <3>2
    <3>3. CASE u.state # "GAME_READY"
      <4>1. r = u
        BY <3>1, <3>3 DEF CheckGameReady
      <4>2. QED BY <3>3, <4>1
    <3>4. QED BY <3>2, <3>3
  <2>3. QED BY <2>1, <2>2
<1>5. QED BY <1>1, <1>2, <1>3, <1>4 DEF FromReady, u, r

(* removePlayer.                                                           *)
LEMMA RemovePlayerFollowed ==
  ASSUME NEW k, NEW s, Settled(s), Here(s), Follows(k, s), Fit(s), FromReady(k, s),
         NEW p \in DOMAIN s.pstate, NEW r \in RemovePlayer(s, p)
  PROVE  r.died = "" => /\ Here(r) /\ Follows(k, r) /\ FromReady(k, r)
                        /\ DOMAIN r.pstate = DOMAIN s.pstate \ {p}
<1> DEFINE updated == IF p \in s.holds THEN UpdateRanks(Abort(s, p)) ELSE {s}
           left(t) == CheckAllPlayersReady(BroadcastPlayerState(Erase(t, p), p, "QUIT"))
<1>1. PICK t \in updated : r = IF t.died = "" THEN left(t) ELSE t
  BY DEF RemovePlayer
<1>2. Settled(t) /\ t.pstate = s.pstate /\ (t.died = "" => Fit(t) /\ Here(t) /\ Follows(k, t) /\ FromReady(k, t))
  <2>1. CASE p \in s.holds
    <3> DEFINE a == Abort(s, p)
    <3>1. Settled(a) /\ SamePeers(a, s) /\ SameLife(a, s)
      BY <2>1, AbortSettles
    <3>2. DOMAIN s = StateFields
      BY DEF Settled, Typed
    <3>3. a.out = s.out /\ SameShown(a, s)
      BY <3>2 DEF Abort, StateFields, SameShown
    <3>4. t \in UpdateRanks(a)
      BY <2>1
    <3> HIDE DEF a
    <3>5. /\ Settled(t) /\ t.pstate = a.pstate
          /\ Fit(a) /\ t.died = "" => Fit(t)
      BY <3>1, <3>4, UpdateRanksSettles
    <3>6. Fit(a)
      BY <3>1, SameLifeFit DEF Fit
    <3>7. Here(a)
      BY <3>1 DEF Here, Settled, SamePeers
    <3>8. Follows(k, a)
      <4>1. \A w : Mirror(s, w) => Mirror(a, w)
        BY <3>3, MirrorSame
      <4>2. QED BY <3>3, <4>1, Unsaid
    <3>9. a.state \in {"GAME_READY", "GAME"} /\ a.state = s.state
      <4>1. s.state # "LOBBY" /\ s.state \in {"LOBBY", "GAME_READY", "GAME"}
        BY <2>1 DEF Settled, Fit, Sound
      <4>2. QED BY <3>1, <4>1 DEF SameLife
    <3>10. a.state = "GAME_READY" => k.from = "GAME_READY"
      BY <3>9 DEF FromReady
    <3>11. ASSUME t.died = "" PROVE Here(t) /\ Follows(k, t) /\ FromReady(k, t)
      BY <3>1, <3>4, <3>7, <3>8, <3>9, <3>10, <3>11, UpdateRanksFollowed DEF FromReady
    <3>12. QED BY <3>1, <3>5, <3>6, <3>11 DEF SameLife
  <2>2. CASE p \notin s.holds
    <3>1. t = s
      BY <2>2
    <3>2. QED BY <3>1
  <2>3. QED BY <2>1, <2>2
<1> HIDE DEF updated
<1>3. CASE t.died = ""
  <2>1. r = left(t)
    BY <1>1, <1>3
  <2>2. p \in DOMAIN t.pstate /\ Settled(t) /\ Here(t) /\ Follows(k, t) /\ Fit(t) /\ FromReady(k, t)
    BY <1>2, <1>3
  <2>3. /\ Here(left(t)) /\ Follows(k, left(t)) /\ FromReady(k, left(t))
        /\ DOMAIN left(t).pstate = DOMAIN t.pstate \ {p}
    BY <2>2, LeavingFollowed
  <2> HIDE DEF left
  <2>4. QED BY <1>2, <2>1, <2>3
<1>4. CASE t.died # ""
  <2>1. r = t
    BY <1>1, <1>4
  <2>2. QED BY <2>1, <1>4
<1>5. QED BY <1>3, <1>4

Leavable(k, s) == Settled(s) /\ Here(s) /\ Follows(k, s) /\ Fit(s) /\ FromReady(k, s)

(* The same for any of the players, as a formula.                          *)
LEMMA RemoveOneFollowed ==
  \A k, s : Leavable(k, s) =>
    \A p \in DOMAIN s.pstate : \A r \in RemovePlayer(s, p) :
      r.died = "" => /\ Here(r) /\ Follows(k, r) /\ FromReady(k, r)
                     /\ DOMAIN r.pstate = DOMAIN s.pstate \ {p}
<1>1. TAKE k, s
<1>2. HAVE Leavable(k, s)
<1>3. Settled(s) /\ Here(s) /\ Follows(k, s) /\ Fit(s) /\ FromReady(k, s)
  BY <1>2 DEF Leavable
<1>4. TAKE p \in DOMAIN s.pstate
<1>5. TAKE r \in RemovePlayer(s, p)
<1>6. QED BY <1>3, RemovePlayerFollowed

(* All the players of a peer, one after the other.                         *)
LeaversHeard(c, i, S) ==
  \A r \in S : r.died = "" =>
    /\ Settled(r) /\ Fit(r) /\ Here(r) /\ Follows(c.tale, r) /\ FromReady(c.tale, r)
    /\ DOMAIN r.pstate = DOMAIN c.from.pstate \ Done(c, i)

Departing == INSTANCE Loops WITH Step <- LAMBDA c, S, p : RemoveFromAll(S, p), Inv <- LeaversHeard

(* onPeerDisconnect.                                                       *)
LEMMA OnPeerDisconnectFollowed ==
  ASSUME NEW k, NEW s, Settled(s), Here(s), Follows(k, s), Fit(s), FromReady(k, s),
         NEW x, NEW r \in OnPeerDisconnect(s, x)
  PROVE  r.died = "" => Follows(k, r)
<1> DEFINE P == {p \in DOMAIN s.pstate : s.peerOf[p] = x}
           q == InOrder(P)
           n == Cardinality(P)
           c == Follow(k, s, q)
           R == Departing!Loop(c, {s}, q)
<1>1. OnPeerDisconnect(s, x) = R
  BY DEF OnPeerDisconnect, Departing!Loop, Departing!MapThenFoldSet,
         Departing!Max, FoldLeft, MapThenFoldSet, Max
<1>2. P \in SUBSET PlIds /\ P \in SUBSET DOMAIN s.pstate
  BY DEF Settled, Typed, RosterOK
<1> HIDE DEF P
<1>3. /\ n \in Nat /\ q \in [1..n -> P] /\ DOMAIN q = 1..n
      /\ \A i, j \in 1..n : i # j => q[i] # q[j]
  BY <1>2, InOrderEnumerates
<1> HIDE DEF q, n
<1>4. c.tale = k /\ c.from = s /\ c.items = q
  BY DEF Follow
<1> HIDE DEF c
<1>5. LeaversHeard(c, 0, {s})
  <2>1. Done(c, 0) = {}
    BY DEF Done
  <2>2. QED BY <1>4, <2>1 DEF LeaversHeard
<1>6. ASSUME NEW i \in 1..n, NEW S, LeaversHeard(c, i - 1, S)
      PROVE  LeaversHeard(c, i, RemoveFromAll(S, q[i]))
  <2>1. Done(c, i) = Done(c, i - 1) \union {q[i]} /\ q[i] \notin Done(c, i - 1)
    BY <1>3, <1>4, DoneMore
  <2>2. q[i] \in PlIds /\ q[i] \in DOMAIN s.pstate
    BY <1>2, <1>3
  <2>3. SUFFICES ASSUME NEW u \in RemoveFromAll(S, q[i]), u.died = ""
                 PROVE  /\ Settled(u) /\ Fit(u) /\ Here(u) /\ Follows(k, u) /\ FromReady(k, u)
                        /\ DOMAIN u.pstate = DOMAIN s.pstate \ Done(c, i)
    BY <1>4 DEF LeaversHeard
  <2>4. PICK t \in S : u \in IF t.died = "" THEN RemovePlayer(t, q[i]) ELSE {t}
    BY <2>3 DEF RemoveFromAll
  <2>5. t.died = ""
    <3>1. CASE t.died # ""
      BY <2>3, <2>4, <3>1
    <3>2. QED BY <3>1
  <2>6. u \in RemovePlayer(t, q[i])
    BY <2>4, <2>5
  <2>7. /\ Settled(t) /\ Fit(t) /\ Here(t) /\ Follows(k, t) /\ FromReady(k, t)
        /\ DOMAIN t.pstate = DOMAIN s.pstate \ Done(c, i - 1)
    BY <1>4, <1>6, <2>5 DEF LeaversHeard
  <2>8. q[i] \in DOMAIN t.pstate
    BY <2>1, <2>2, <2>7
  <2>9. Settled(u) /\ Fit(u)
    BY <2>2, <2>3, <2>6, <2>7, RemovePlayerSettles
  <2>10. u.died = "" => /\ Here(u) /\ Follows(k, u) /\ FromReady(k, u)
                        /\ DOMAIN u.pstate = DOMAIN t.pstate \ {q[i]}
    <3>1. Leavable(k, t)
      BY <2>7 DEF Leavable
    <3>2. \A p \in DOMAIN t.pstate : \A v \in RemovePlayer(t, p) :
            v.died = "" => /\ Here(v) /\ Follows(k, v) /\ FromReady(k, v)
                           /\ DOMAIN v.pstate = DOMAIN t.pstate \ {p}
      BY <3>1, RemoveOneFollowed
    <3>3. \A v \in RemovePlayer(t, q[i]) :
            v.died = "" => /\ Here(v) /\ Follows(k, v) /\ FromReady(k, v)
                           /\ DOMAIN v.pstate = DOMAIN t.pstate \ {q[i]}
      BY <2>8, <3>2
    <3>4. QED BY <2>6, <3>3
  <2>11. DOMAIN t.pstate \ {q[i]} = DOMAIN s.pstate \ Done(c, i)
    BY <2>1, <2>7
  <2>12. QED BY <2>3, <2>9, <2>10, <2>11
<1>7. LeaversHeard(c, n, R)
  <2> HIDE DEF R
  <2>1. LeaversHeard(c, n, Departing!Loop(c, {s}, q))
    BY <1>3, <1>5, <1>6, Departing!LoopInvariant
  <2>2. QED BY <2>1 DEF R
<1> HIDE DEF R
<1>8. QED BY <1>1, <1>4, <1>7 DEF LeaversHeard

-----------------------------------------------------------------------------
(* Players that join.                                                      *)

\* The event that tells of a new player, and the one that answers its peer.
ConfOf(p) == [type |-> "PLAYER_CONF", plid |-> p]
JoinedOf(p) == [type |-> "JOINED", plid |-> p]

(* IDs are counted from zero.                                              *)
LEMMA CurrentCounts ==
  ASSUME ServerInv
  PROVE  current \in Nat
<1>1. current \in 0..IdMax
  BY InvFacts
<1>2. QED BY <1>1

(* What newPlayer changes.                                                 *)
LEMMA NewPlayerAdds ==
  ASSUME ServerInv, NEW x \in Peers \union {Local}
  PROVE  LET r == NewPlayer(Now, x)
             p == NextPlayerId
         IN  /\ DOMAIN r = StateFields /\ r.state = state /\ r.holds = holds /\ r.current = p
             /\ r.socks = socks /\ r.closing = closing
             /\ r.out = Append(<<>>, [to |-> Range(socks) \ {x}, event |-> ConfOf(p)])
             /\ DOMAIN r.pstate = DOMAIN pstate \union {p}
             /\ \A q \in DOMAIN r.pstate : r.pstate[q] = IF q = p THEN "LOBBY" ELSE pstate[q]
             /\ r.peerOf[p] = x /\ \A q \in DOMAIN pstate \ {p} : r.peerOf[q] = peerOf[q]
<1> DEFINE p == NextPlayerId
           j == [Now EXCEPT !.pstate = With(@, p, "LOBBY"), !.peerOf = With(@, p, x), !.current = p]
           to == Range(socks) \ {x}
           r == NewPlayer(Now, x)
<1>1. r = Send(j, to, ConfOf(p))
  BY DEF NewPlayer, ConfOf
<1> HIDE DEF p, r
<1>2. /\ DOMAIN j = StateFields /\ j.pstate = With(pstate, p, "LOBBY")
      /\ j.peerOf = With(peerOf, p, x) /\ j.current = p
      /\ j.state = state /\ j.out = <<>> /\ j.holds = holds /\ j.socks = socks
      /\ j.closing = closing
  BY NowFields DEF StateFields
<1> HIDE DEF j
<1>3. /\ DOMAIN r = StateFields /\ r.state = j.state /\ r.holds = j.holds /\ r.current = j.current
      /\ r.socks = j.socks /\ r.closing = j.closing /\ r.pstate = j.pstate /\ r.peerOf = j.peerOf
      /\ r.out = Append(j.out, [to |-> to, event |-> ConfOf(p)])
  BY <1>1, <1>2 DEF Send, StateFields
<1>4. /\ DOMAIN With(pstate, p, "LOBBY") = DOMAIN pstate \union {p}
      /\ \A q \in DOMAIN pstate \union {p} :
           With(pstate, p, "LOBBY")[q] = IF q = p THEN "LOBBY" ELSE pstate[q]
  BY DEF With
<1>5. DOMAIN peerOf = DOMAIN pstate
  BY InvFacts
<1>6. \A q \in DOMAIN peerOf \union {p} : With(peerOf, p, x)[q] = IF q = p THEN x ELSE peerOf[q]
  BY DEF With
<1>7. r.peerOf[p] = x /\ \A q \in DOMAIN pstate \ {p} : r.peerOf[q] = peerOf[q]
  BY <1>2, <1>3, <1>5, <1>6
<1>8. QED BY <1>2, <1>3, <1>4, <1>7 DEF p, r

(* A player of another client, or of the server's process.                 *)
LEMMA NewPlayerFollowed ==
  ASSUME ServerInv, Fit(Now), state = "LOBBY", Me \in Range(socks), Players # PlIds,
         current < NextPlayerId, NEW k, Follows(k, Now), NEW x \in Peers \union {Local}, x # Me
  PROVE  LET r == NewPlayer(Now, x) IN Settled(r) /\ Follows(k, r)
<1> DEFINE r == NewPlayer(Now, x)
           p == NextPlayerId
<1>1. /\ r.state = state /\ r.holds = holds /\ r.current = p
      /\ r.out = Append(<<>>, [to |-> Range(socks) \ {x}, event |-> ConfOf(p)])
      /\ DOMAIN r.pstate = DOMAIN pstate \union {p}
      /\ \A q \in DOMAIN r.pstate : r.pstate[q] = IF q = p THEN "LOBBY" ELSE pstate[q]
      /\ \A q \in DOMAIN pstate \ {p} : r.peerOf[q] = peerOf[q]
  BY NewPlayerAdds
<1>2. Settled(r)
  BY NewPlayerSettles
<1>3. p \in PlIds \ Players
  BY InvFacts, NextPlayerIdFree DEF Players
<1> HIDE DEF p, r
<1>4. current \in Nat /\ current < p
  BY CurrentCounts DEF p
<1>5. ConfOf(p) \in Event
  BY <1>3, Events DEF ConfOf
<1>6. Typed(Now) /\ Range(socks) \ {x} \in SUBSET Peers /\ Me \in Range(socks) \ {x}
  BY NowFields, Everybody DEF ServerInv, Settled
<1>7. ASSUME NEW w, Mirror(Now, w) PROVE Mirror(r, On(w, ConfOf(p)))
  <2>1. w.error = ""
    BY <1>7 DEF Mirror
  <2>2. On(w, ConfOf(p)) = OnPlayerConf(w, p)
    BY <2>1 DEF On, ConfOf
  <2> DEFINE s == Now
  <2>3. /\ s.current = current /\ s.state = "LOBBY" /\ s.holds = holds /\ s.pstate = pstate
        /\ s.peerOf = peerOf
    BY NowFields
  <2> HIDE DEF s
  <2>4. r.state = s.state /\ r.holds = s.holds /\ s.current \in Nat /\ s.current < p
        /\ s.state # "GAME_INIT"
    BY <1>1, <1>4, <2>3
  <2>5. /\ DOMAIN r.pstate = DOMAIN s.pstate \union {p} /\ p \notin DOMAIN s.pstate /\ p \in PlIds
        /\ \A q \in DOMAIN r.pstate : r.pstate[q] = IF q = p THEN "LOBBY" ELSE s.pstate[q]
        /\ \A q \in DOMAIN s.pstate : r.peerOf[q] = s.peerOf[q]
    BY <1>1, <1>3, <2>3 DEF Players
  <2>6. Mirror(s, w)
    BY <1>7 DEF s
  <2>7. Mirror(r, OnPlayerConf(w, p))
    BY <1>1, <2>4, <2>5, <2>6, MirrorJoined
  <2>8. QED BY <2>2, <2>7
<1>8. r.out = Append(Now.out, [to |-> Range(socks) \ {x}, event |-> ConfOf(p)])
  BY <1>1, NowFields
<1>9. Follows(k, r)
  BY <1>5, <1>6, <1>7, <1>8, Heard
<1>10. QED BY <1>2, <1>9 DEF r

(* processPktPlayerJoin, of this client or of another.                     *)
LEMMA JoinFollowed ==
  ASSUME ServerInv, died = "", Me \in Range(socks), NEW k, Follows(k, Now),
         NEW x \in Peers, Join(x), current < NextPlayerId
  PROVE  LET r == Send(NewPlayer(Now, x), {x}, JoinedOf(NextPlayerId)) IN Follows(k, r)
<1> DEFINE n == NewPlayer(Now, x)
           p == NextPlayerId
           r == Send(n, {x}, JoinedOf(p))
<1>0. current \in Nat /\ current < p
  <2>1. current \in Nat
    BY CurrentCounts
  <2>2. QED BY <2>1, Zenon
<1>1. state = "LOBBY" /\ Players # PlIds /\ Fit(Now)
  BY DEF Join, ServerInv
<1>2. p \in PlIds \ Players
  BY <1>1, InvFacts, NextPlayerIdFree DEF Players
<1>3. /\ DOMAIN n = StateFields /\ n.state = state /\ n.holds = holds /\ n.current = p
      /\ n.out = Append(<<>>, [to |-> Range(socks) \ {x}, event |-> ConfOf(p)])
      /\ DOMAIN n.pstate = DOMAIN pstate \union {p}
      /\ \A q \in DOMAIN n.pstate : n.pstate[q] = IF q = p THEN "LOBBY" ELSE pstate[q]
      /\ n.peerOf[p] = x /\ \A q \in DOMAIN pstate \ {p} : n.peerOf[q] = peerOf[q]
  BY NewPlayerAdds
<1>4. x # Me => Settled(n) /\ Follows(k, n)
  BY <1>1, NewPlayerFollowed
<1> HIDE DEF n
<1>5. /\ r.out = Append(n.out, [to |-> {x}, event |-> JoinedOf(p)])
      /\ SameShown(r, n)
  BY <1>3 DEF Send, StateFields, SameShown
<1> HIDE DEF p, r
<1>6. JoinedOf(p) \in Event /\ ConfOf(p) \in Event
  BY <1>2, Events DEF JoinedOf, ConfOf
<1>7. CASE x # Me
  <2>1. Typed(n) /\ {x} \in SUBSET Peers /\ Me \notin {x}
    BY <1>4, <1>7 DEF Settled
  <2>2. \A w : Mirror(n, w) => Mirror(r, w)
    BY <1>5, MirrorSame
  <2>3. Follows(k, r)
    BY <1>4, <1>5, <1>6, <1>7, <2>1, <2>2, Unheard
  <2>4. QED BY <2>3 DEF r, n, p
<1>8. CASE x = Me
  <2> DEFINE to == Range(socks) \ {Me}
             u == Send(Now, to, ConfOf(p))
  <2>1. to \in SUBSET Peers /\ Me \notin to /\ Typed(Now)
    BY NowFields, Everybody DEF ServerInv, Settled
  <2> HIDE DEF to
  <2>2. /\ Typed(u) /\ u.state = Now.state /\ SameRoster(u, Now) /\ SameBoard(u, Now)
    BY <1>6, <2>1, SendTyped
  <2>3. u.out = Append(Now.out, [to |-> to, event |-> ConfOf(p)])
    BY NowFields DEF Send, StateFields
  <2> HIDE DEF u
  <2>4. SameShown(u, Now)
    BY <2>2 DEF SameShown, SameRoster, SameBoard
  <2>5. \A w : Mirror(Now, w) => Mirror(u, w)
    BY <2>4, MirrorSame
  <2>6. Follows(k, u)
    BY <1>6, <2>1, <2>3, <2>5, Unheard
  <2>7. r.out = Append(u.out, [to |-> {Me}, event |-> JoinedOf(p)])
    <3>1. n.out = u.out
      <4>1. n.out = Append(<<>>, [to |-> to, event |-> ConfOf(p)])
        BY <1>3, <1>8 DEF to
      <4>2. Now.out = <<>>
        BY NowFields
      <4>3. QED BY <2>3, <4>1, <4>2
    <3>2. QED BY <1>5, <1>8, <3>1
  <2>8. ASSUME NEW w, Mirror(u, w) PROVE Mirror(r, On(w, JoinedOf(p)))
    <3>1. w.error = ""
      BY <2>8 DEF Mirror
    <3>2. On(w, JoinedOf(p)) = OnJoined(w, p)
      BY <3>1 DEF On, JoinedOf
    <3>3. /\ u.current = current /\ u.state = "LOBBY" /\ u.holds = holds /\ u.pstate = pstate
          /\ u.peerOf = peerOf
      BY <1>1, <2>4, NowFields DEF SameShown
    <3>4. /\ r.state = u.state /\ r.holds = u.holds /\ u.current \in Nat /\ u.current < p
          /\ u.state # "GAME_INIT" /\ r.current = p /\ r.peerOf[p] = Me
      BY <1>0, <1>1, <1>3, <1>5, <1>8, <3>3 DEF SameShown
    <3>5. /\ DOMAIN r.pstate = DOMAIN u.pstate \union {p} /\ p \notin DOMAIN u.pstate /\ p \in PlIds
          /\ \A q \in DOMAIN r.pstate : r.pstate[q] = IF q = p THEN "LOBBY" ELSE u.pstate[q]
          /\ \A q \in DOMAIN u.pstate : r.peerOf[q] = u.peerOf[q]
      BY <1>2, <1>3, <1>5, <3>3 DEF SameShown, Players
    <3>6. Mirror(r, OnJoined(w, p))
      BY <3>4, <3>5, <2>8, MirrorJoined
    <3>7. QED BY <3>2, <3>6
  <2>9. Follows(k, r)
    BY <1>6, <2>2, <2>6, <2>7, <2>8, Heard
  <2>10. QED BY <2>9 DEF r, n, p
<1>9. QED BY <1>7, <1>8

-----------------------------------------------------------------------------
(* What a newcomer is told (onPeerConnect).                                *)

(* The members of a set come in ascending order.                           *)
LEMMA InOrderAscends ==
  ASSUME NEW S \in SUBSET PlIds
  PROVE  \A i, j \in 1..Cardinality(S) : i < j => InOrder(S)[i] < InOrder(S)[j]
<1> DEFINE q == InOrder(S)
           n == Cardinality(S)
<1>1. \E f \in [1..n -> S] : Ascends(f, n)
  <2>1. IdMax \in 0..IdMax
    BY IdAssumption
  <2>2. QED BY <2>1, Enumerated DEF PlIds
<1>2. q \in [1..n -> S] /\ \A i, j \in DOMAIN q : i < j => q[i] < q[j]
  <2>1. \E f \in [1..n -> S] : \A i, j \in DOMAIN f : i < j => f[i] < f[j]
    BY <1>1 DEF Ascends
  <2>2. QED BY <2>1 DEF InOrder
<1> HIDE DEF q, n
<1>3. \A i, j \in 1..n : i < j => q[i] < q[j]
  BY <1>2
<1>4. QED BY <1>3 DEF q, n

\* The client when it connects, and the server as it has been told of it, i
\* players on.
Newcomer == [views |-> Quits(NewView("LOBBY")), early |-> FALSE, from |-> "LOBBY"]
Shown(c, i, sent) ==
  [state |-> "LOBBY", holds |-> {}, peerOf |-> c.from.peerOf,
   pstate |-> [p \in Done(c, i) |-> c.from.pstate[p]],
   current |-> IF i = 0 THEN 0 ELSE c.items[i], out |-> sent]

\* The same while a player has been named but not described.
Named(c, i, sent) ==
  [Shown(c, i, sent) EXCEPT !.pstate = [p \in Done(c, i) |-> IF p = c.items[i] THEN "LOBBY"
                                                             ELSE c.from.pstate[p]]]

LEMMA ShownFields ==
  ASSUME NEW c, NEW i, NEW sent, NEW s, s = Shown(c, i, sent)
  PROVE  /\ s.state = "LOBBY" /\ s.holds = {} /\ s.peerOf = c.from.peerOf /\ s.out = sent
         /\ s.pstate = [p \in Done(c, i) |-> c.from.pstate[p]]
         /\ s.current = IF i = 0 THEN 0 ELSE c.items[i]
BY DEF Shown

(* The same while a player has been named.                                 *)
LEMMA NamedFields ==
  ASSUME NEW c, NEW i, NEW sent, NEW s, s = Named(c, i, sent)
  PROVE  /\ s.state = "LOBBY" /\ s.holds = {} /\ s.peerOf = c.from.peerOf /\ s.out = sent
         /\ s.pstate = [p \in Done(c, i) |-> IF p = c.items[i] THEN "LOBBY" ELSE c.from.pstate[p]]
         /\ s.current = IF i = 0 THEN 0 ELSE c.items[i]
BY DEF Named, Shown

\* A player in another state.
Reset(players, p, st) == [players EXCEPT ![p] = st]

(* The state of a player described to a newcomer: one that has not left a  *)
(* finished match is described by a state the client refuses.              *)
LEMMA DescribedState ==
  ASSUME NEW s, s.state = "LOBBY", NEW p \in DOMAIN s.pstate, s.pstate[p] = "LOBBY",
         NEW st \in PlayerStates \ {"GAME_READY"},
         NEW r, r.state = s.state, r.holds = s.holds, r.peerOf = s.peerOf, r.current = s.current,
         r.pstate = Reset(s.pstate, p, st),
         NEW w, Mirror(s, w)
  PROVE  Mirror(r, OnPlayerState(w, p, st)) \/ OnPlayerState(w, p, st).error = "unsettable state"
<1> DEFINE u == OnPlayerState(w, p, st)
<1>0. r.pstate = [s.pstate EXCEPT ![p] = st]
  BY DEF Reset
<1>1. CASE st \in {"LOBBY", "LOBBY_READY"}
  <2>1. SettableAt(s, p, st)
    BY <1>1 DEF SettableAt
  <2>2. QED BY <1>0, <2>1, MirrorPlayerState
<1>2. CASE st \in {"GAME_INIT", "GAME"}
  <2>1. p \in Known(w) /\ (p \notin QuitOf(w) => w.players[p] = "LOBBY")
    BY DEF Mirror, QuitOf
  <2>2. CASE p \in QuitOf(w)
    <3>1. u = w
      BY <2>1, <2>2 DEF OnPlayerState, QuitOf
    <3>2. Known(w) \ QuitOf(w) = DOMAIN r.pstate \ QuitOf(w)
      BY <1>0 DEF Mirror
    <3>3. ASSUME NEW q \in Known(w) \ QuitOf(w) PROVE w.players[q] = r.pstate[q]
      <4>1. w.players[q] = s.pstate[q] /\ q \in DOMAIN s.pstate /\ q # p
        BY <2>2 DEF Mirror
      <4>2. QED BY <1>0, <4>1
    <3> HIDE DEF u
    <3>4. Mirror(r, w)
      BY <3>2, <3>3 DEF Mirror
    <3>5. QED BY <3>1, <3>4 DEF u
  <2>3. CASE p \notin QuitOf(w)
    <3>1. w.players[p] \notin {"QUIT", st}
      BY <1>2, <2>1, <2>3
    <3>2. u = Refuse(w, "unsettable state")
      BY <1>2, <2>1, <3>1 DEF OnPlayerState
    <3>3. "unsettable state" \in ClientErrors /\ Shape(w)
      BY DEF ClientErrors, Mirror
    <3> HIDE DEF u
    <3>4. u.error = "unsettable state"
      BY <3>2, <3>3, RefuseShaped
    <3>5. QED BY <3>4 DEF u
  <2>4. QED BY <2>2, <2>3
<1>3. st \in {"LOBBY", "LOBBY_READY", "GAME_INIT", "GAME"}
  BY DEF PlayerStates
<1>4. QED BY <1>1, <1>2, <1>3

(* One player named and described.                                         *)
LEMMA DescribeFollowed ==
  ASSUME NEW c, NEW n \in Nat, c.items \in [1..n -> PlIds], NEW i \in 1..n,
         \A j, l \in 1..n : j < l => c.items[j] < c.items[l],
         c.items[i] \in DOMAIN c.from.pstate,
         c.from.pstate[c.items[i]] \in PlayerStates \ {"GAME_READY"},
         NEW t, Typed(t), t.pstate = c.from.pstate, Follows(c.tale, Shown(c, i - 1, t.out))
  PROVE  Follows(c.tale, Shown(c, i, Describe(Me, t, c.items[i]).out))
<1> DEFINE p == c.items[i]
           st == c.from.pstate[p]
           e2 == [type |-> "PLAYER_STATE", plid |-> p, state |-> st]
           u == Send(t, {Me}, ConfOf(p))
           v == Describe(Me, t, p)
           a == Shown(c, i - 1, t.out)
           b == Named(c, i, u.out)
           d == Shown(c, i, v.out)
<1>1. p \in PlIds /\ p \in Nat /\ i \in Nat /\ i # 0 /\ st \in PlayerStates \ {"GAME_READY"}
  BY DEF PlIds
<1>2. /\ Done(c, i) = Done(c, i - 1) \union {p} /\ p \notin Done(c, i - 1)
      /\ Done(c, i - 1) \subseteq PlIds
  <2>1. \A j \in 1..n : c.items[j] \in Nat
    BY DEF PlIds
  <2>2. \A j \in 1..n : j # i => c.items[j] # c.items[i]
    <3> SUFFICES ASSUME NEW j \in 1..n, j # i PROVE c.items[j] # c.items[i]
      OBVIOUS
    <3>1. j < i \/ i < j
      OBVIOUS
    <3>2. QED BY <2>1, <3>1
  <2>3. Done(c, i) = Done(c, i - 1) \union {p} /\ p \notin Done(c, i - 1)
    BY <2>2, DoneMore
  <2>4. \A j \in 1..(i - 1) : j \in 1..n
    OBVIOUS
  <2>5. Done(c, i - 1) \subseteq PlIds
    BY <2>4 DEF Done
  <2>6. QED BY <2>3, <2>5
<1>3. ConfOf(p) \in Event /\ e2 \in Event /\ {Me} \in SUBSET Peers
  BY <1>1, Events, MeAssumption DEF ConfOf
<1>4. /\ u.out = Append(t.out, [to |-> {Me}, event |-> ConfOf(p)]) /\ DOMAIN u = StateFields
      /\ u.pstate = t.pstate
  BY DEF Send, Typed, StateFields
<1>5. Typed(u)
  BY <1>3, SendTyped
<1>6. v = Send(u, {Me}, [e2 EXCEPT !.state = t.pstate[p]])
  BY DEF Describe, ConfOf
<1>7. [e2 EXCEPT !.state = t.pstate[p]] = e2
  OBVIOUS
<1> HIDE DEF u, v
<1>8. v.out = Append(u.out, [to |-> {Me}, event |-> e2])
  BY <1>4, <1>6, <1>7 DEF Send, StateFields
<1> HIDE DEF e2
<1>9. /\ a.state = "LOBBY" /\ a.holds = {} /\ a.peerOf = c.from.peerOf /\ a.out = t.out
      /\ a.pstate = [q \in Done(c, i - 1) |-> c.from.pstate[q]]
      /\ a.current = IF i - 1 = 0 THEN 0 ELSE c.items[i - 1]
  <2>1. a = Shown(c, i - 1, t.out)
    OBVIOUS
  <2> HIDE DEF a
  <2>2. QED BY <2>1, ShownFields
<1>10. /\ b.state = "LOBBY" /\ b.holds = {} /\ b.peerOf = c.from.peerOf /\ b.out = u.out
       /\ b.pstate = [q \in Done(c, i) |-> IF q = p THEN "LOBBY" ELSE c.from.pstate[q]]
       /\ b.current = p
  <2>1. b = Named(c, i, u.out)
    OBVIOUS
  <2> HIDE DEF b
  <2>2. QED BY <1>1, <2>1, NamedFields
<1>11. /\ d.state = "LOBBY" /\ d.holds = {} /\ d.peerOf = c.from.peerOf /\ d.out = v.out
       /\ d.pstate = [q \in Done(c, i) |-> c.from.pstate[q]]
       /\ d.current = p
  <2>1. d = Shown(c, i, v.out)
    OBVIOUS
  <2> HIDE DEF d
  <2>2. QED BY <1>1, <2>1, ShownFields
<1>12. a.current \in Nat /\ a.current < p
  <2>1. CASE i = 1
    <3>1. a.current = 0 /\ p \in 1..IdMax
      BY <1>1, <1>9, <2>1 DEF PlIds
    <3>2. QED BY <3>1
  <2>2. CASE i # 1
    <3>1. i - 1 \in 1..n /\ i - 1 < i /\ i - 1 # 0
      BY <2>2
    <3>2. a.current = c.items[i - 1] /\ c.items[i - 1] \in PlIds /\ c.items[i - 1] < p
      BY <1>9, <3>1
    <3>3. QED BY <3>2 DEF PlIds
  <2>3. QED BY <2>1, <2>2
<1> HIDE DEF a, b, d, p
<1>13. ASSUME NEW w, Mirror(a, w) PROVE Mirror(b, On(w, ConfOf(p)))
  <2>1. w.error = ""
    BY <1>13 DEF Mirror
  <2>2. On(w, ConfOf(p)) = OnPlayerConf(w, p)
    BY <2>1 DEF On, ConfOf
  <2>3. /\ DOMAIN b.pstate = DOMAIN a.pstate \union {p} /\ p \notin DOMAIN a.pstate
        /\ \A q \in DOMAIN b.pstate : b.pstate[q] = IF q = p THEN "LOBBY" ELSE a.pstate[q]
    BY <1>2, <1>9, <1>10
  <2>4. /\ b.state = a.state /\ b.holds = a.holds /\ b.peerOf = a.peerOf /\ a.state # "GAME_INIT"
        /\ b.current = p
    BY <1>9, <1>10
  <2>5. Mirror(b, OnPlayerConf(w, p))
    BY <1>1, <1>12, <1>13, <2>3, <2>4, MirrorJoined
  <2>6. QED BY <2>2, <2>5
<1>14. Follows(c.tale, b)
  <2>1. Follows(c.tale, a)
    BY DEF a
  <2>2. a.out \in Seq(Message) /\ b.out = Append(a.out, [to |-> {Me}, event |-> ConfOf(p)])
    BY <1>4, <1>9, <1>10 DEF Typed, OutOK
  <2>3. QED BY <1>3, <1>13, <2>1, <2>2, HeardAfter
<1>15. ASSUME NEW w, Mirror(b, w) PROVE Mirror(d, On(w, e2)) \/ On(w, e2).error \in Refusals(c.tale, d)
  <2>1. w.error = ""
    BY <1>15 DEF Mirror
  <2>2. On(w, e2) = OnPlayerState(w, p, st)
    BY <2>1 DEF On, e2
  <2>3. p \in DOMAIN b.pstate /\ b.pstate[p] = "LOBBY" /\ d.pstate = Reset(b.pstate, p, st)
    <3> DEFINE D == Done(c, i)
               f == c.from.pstate
    <3>1. b.pstate = [q \in D |-> IF q = p THEN "LOBBY" ELSE f[q]] /\ d.pstate = [q \in D |-> f[q]]
      BY <1>10, <1>11
    <3>2. p \in D /\ st = f[p]
      BY <1>2
    <3> HIDE DEF D, f, st
    <3>3. QED BY <3>1, <3>2 DEF Reset
  <2>4. /\ b.state = "LOBBY" /\ d.state = b.state /\ d.holds = b.holds /\ d.peerOf = b.peerOf
        /\ d.current = b.current
    BY <1>10, <1>11
  <2> HIDE DEF st
  <2>5. Mirror(d, OnPlayerState(w, p, st)) \/ OnPlayerState(w, p, st).error = "unsettable state"
    <3>1. st \in PlayerStates \ {"GAME_READY"}
      BY <1>1
    <3>2. QED BY <1>15, <2>3, <2>4, <3>1, DescribedState, Zenon
  <2>6. "unsettable state" \in Refusals(c.tale, d)
    BY DEF Refusals
  <2>7. QED BY <2>2, <2>5, <2>6
<1>16. Follows(c.tale, d)
  <2>1. b.out \in Seq(Message) /\ d.out = Append(b.out, [to |-> {Me}, event |-> e2])
    BY <1>5, <1>8, <1>10, <1>11 DEF Typed, OutOK
  <2>2. QED BY <1>3, <1>14, <1>15, <2>1, HeardAfter
<1>17. QED BY <1>16 DEF d, v, p

(* All the players, one after the other.                                   *)
DescribedHeard(c, i, r) == TellingInv(c, i, r) /\ Follows(c.tale, Shown(c, i, r.out))

Describing == INSTANCE Loops WITH Step <- LAMBDA c, s, p : Describe(Me, s, p), Inv <- DescribedHeard

(* One turn of it.                                                         *)
LEMMA DescribeTyped ==
  ASSUME NEW c, NEW i, NEW t, TellingInv(c, i - 1, t), NEW p \in DOMAIN c.from.pstate
  PROVE  TellingInv(c, i, Describe(Me, t, p))
<1> DEFINE u == Send(t, {Me}, ConfOf(p))
           e2 == [type |-> "PLAYER_STATE", plid |-> p, state |-> t.pstate[p]]
           v == Send(u, {Me}, e2)
<1>1. /\ Typed(t) /\ t.state = c.from.state /\ t.died = c.from.died
      /\ SameRoster(t, c.from) /\ SameBoard(t, c.from) /\ SamePeers(t, c.from)
  BY DEF TellingInv
<1>2. p \in PlIds /\ t.pstate[p] \in PlayerStates
  BY <1>1 DEF SameRoster, Typed, RosterOK
<1>3. ConfOf(p) \in Event /\ e2 \in Event /\ {Me} \in SUBSET Peers
  BY <1>2, Events, MeAssumption DEF ConfOf
<1>4. Describe(Me, t, p) = v
  BY DEF Describe, ConfOf
<1> HIDE DEF e2
<1>5. /\ Typed(u) /\ u.state = t.state /\ u.died = t.died
      /\ SameRoster(u, t) /\ SameBoard(u, t) /\ SamePeers(u, t)
  BY <1>1, <1>3, SendTyped
<1> HIDE DEF u
<1>6. /\ Typed(v) /\ v.state = u.state /\ v.died = u.died
      /\ SameRoster(v, u) /\ SameBoard(v, u) /\ SamePeers(v, u)
  BY <1>3, <1>5, SendTyped
<1> HIDE DEF v
<1>7. TellingInv(c, i, v)
  BY <1>1, <1>5, <1>6 DEF TellingInv, SameRoster, SameBoard, SamePeers
<1>8. QED BY <1>4, <1>7

(* Nothing is shown of the players before the first of them.               *)
LEMMA ShownFirst ==
  \A c, sent, s :
    s = Shown(c, 0, sent) =>
      /\ s.state = "LOBBY" /\ s.holds = {} /\ s.peerOf = c.from.peerOf /\ s.out = sent
      /\ s.pstate = [p \in Done(c, 0) |-> c.from.pstate[p]]
      /\ s.current = 0
BY ShownFields

(* What the newcomer has been told once the state of the server is sent.   *)
LEMMA NewcomerFollowed ==
  ASSUME NEW c, NEW e, NEW sent
  PROVE  /\ e = [type |-> "STATE", state |-> "LOBBY"]
         /\ sent = Append(<<>>, [to |-> {Me}, event |-> e])
         => Follows(Newcomer, Shown(c, 0, sent))
<1>0. SUFFICES ASSUME e = [type |-> "STATE", state |-> "LOBBY"],
                      sent = Append(<<>>, [to |-> {Me}, event |-> e])
               PROVE  Follows(Newcomer, Shown(c, 0, sent))
  OBVIOUS
<1> DEFINE v == NewView("LOBBY")
           a == Shown(c, 0, <<>>)
           b == Shown(c, 0, sent)
<1>1. Done(c, 0) = {}
  BY DEF Done
<1>2. /\ DOMAIN v = ViewFields /\ v.state = "LOBBY" /\ v.players = <<>> /\ v.local = {}
      /\ v.holds = {} /\ v.started = FALSE /\ v.error = ""
  BY DEF NewView, ViewFields
<1>3. /\ a.state = "LOBBY" /\ a.holds = {} /\ DOMAIN a.pstate = {} /\ a.out = <<>> /\ a.current = 0
      /\ a.pstate = [p \in Done(c, 0) |-> c.from.pstate[p]] /\ a.peerOf = c.from.peerOf
  <2>1. a = Shown(c, 0, <<>>)
    OBVIOUS
  <2> HIDE DEF a
  <2>2. /\ a.state = "LOBBY" /\ a.holds = {} /\ a.peerOf = c.from.peerOf /\ a.out = <<>>
        /\ a.pstate = [p \in Done(c, 0) |-> c.from.pstate[p]]
        /\ a.current = 0
    BY <2>1, ShownFirst
  <2>3. QED BY <1>1, <2>2
<1>4. /\ b.state = "LOBBY" /\ b.holds = {} /\ b.out = sent /\ b.current = 0
      /\ b.pstate = [p \in Done(c, 0) |-> c.from.pstate[p]] /\ b.peerOf = c.from.peerOf
  <2>1. b = Shown(c, 0, sent)
    OBVIOUS
  <2> HIDE DEF b
  <2>2. /\ b.state = "LOBBY" /\ b.holds = {} /\ b.peerOf = c.from.peerOf /\ b.out = sent
        /\ b.pstate = [p \in Done(c, 0) |-> c.from.pstate[p]]
        /\ b.current = 0
    BY <2>1, ShownFirst
  <2>3. QED BY <2>2
<1> HIDE DEF v, a, b
<1>5. Known(v) = {} /\ QuitOf(v) = {}
  <2>1. DOMAIN <<>> = {}
    OBVIOUS
  <2>2. Known(v) = {}
    BY <1>2, <2>1 DEF Known
  <2>3. QED BY <2>2 DEF QuitOf
<1>6. Shape(v)
  <2>1. v.players \in [{} -> PlayerStates \union {"QUIT"}]
    <3>1. <<>> = [i \in {} |-> i]
      OBVIOUS
    <3>2. QED BY <1>2, <3>1
  <2>2. QED BY <1>2, <1>5, <2>1 DEF Shape, ViewStates
<1>7. Mirror(a, v)
  BY <1>2, <1>3, <1>5, <1>6 DEF Mirror
<1>8. Follows(Newcomer, a)
  <2>1. Newcomer.views = Quits(v)
    BY DEF Newcomer, v
  <2>2. Mine(<<>>) = <<>> /\ Reads(Quits(v), <<>>) = Quits(v)
    <3>1. <<>> \in Seq(Event)
      BY EmptySeq
    <3>2. QED BY <3>1, MineMore, ReadsMore
  <2>3. Ends(Newcomer, a) = Quits(v)
    BY <1>3, <2>1, <2>2 DEF Ends
  <2>4. QED BY <1>7, <2>3, MirrorQuits DEF Follows
<1>9. e \in Event /\ {Me} \in SUBSET Peers
  BY <1>0, Events, MeAssumption
<1>10. ASSUME NEW w, Mirror(a, w) PROVE Mirror(b, On(w, e))
  <2>1. w.error = "" /\ w.state = "LOBBY"
    BY <1>3, <1>10 DEF Mirror
  <2>2. On(w, e) = w
    BY <1>0, <2>1 DEF On, OnState
  <2>3. SameShown(b, a)
    BY <1>3, <1>4 DEF SameShown
  <2>4. QED BY <1>10, <2>2, <2>3, MirrorSame
<1>11. a.out \in Seq(Message) /\ b.out = Append(a.out, [to |-> {Me}, event |-> e])
  BY <1>0, <1>3, <1>4, EmptySeq
<1>12. Follows(Newcomer, b)
  BY <1>8, <1>9, <1>10, <1>11, HeardAfter
<1>13. QED BY <1>12 DEF b

(* onPeerConnect: a newcomer that reads what it is told shows the server,  *)
(* or has refused the state of a player.                                   *)
LEMMA SnapshotFollowed ==
  ASSUME NEW s, Settled(s), s.state = "LOBBY", InState(s, "GAME_READY") = {}, s.out = <<>>,
         \A p \in DOMAIN s.pstate : p <= s.current
  PROVE  Follows(Newcomer, Snapshot(s, Me))
<1> DEFINE e == [type |-> "STATE", state |-> "LOBBY"]
           P == DOMAIN s.pstate
           q == InOrder(P)
           n == Cardinality(P)
           c == Follow(Newcomer, s, q)
           b == Send(s, {Me}, e)
           R == Describing!Loop(c, b, q)
<1>1. Snapshot(s, Me) = R
  BY DEF Snapshot, Describing!Loop, Describing!MapThenFoldSet,
         Describing!Max, FoldLeft, MapThenFoldSet, Max
<1>2. Typed(s) /\ P \in SUBSET PlIds /\ s.holds = {}
  BY DEF Settled, Typed, RosterOK
<1>3. /\ n \in Nat /\ q \in [1..n -> P] /\ DOMAIN q = 1..n
      /\ \A x \in P : \E i \in 1..n : q[i] = x
      /\ \A i, j \in 1..n : i < j => q[i] < q[j]
  BY <1>2, InOrderEnumerates, InOrderAscends
<1>4. e \in Event /\ {Me} \in SUBSET Peers
  BY Events, MeAssumption
<1>5. b.out = Append(<<>>, [to |-> {Me}, event |-> e])
  BY <1>2 DEF Send, Typed, StateFields
<1> HIDE DEF P, q, n
<1>6. c.tale = Newcomer /\ c.from = s /\ c.items = q
  BY DEF Follow
<1>7. /\ Typed(b) /\ b.state = s.state /\ b.died = s.died
      /\ SameRoster(b, s) /\ SameBoard(b, s) /\ SamePeers(b, s)
  BY <1>2, <1>4, SendTyped
<1> HIDE DEF c, b
<1>8. DescribedHeard(c, 0, b)
  <2>1. Follows(Newcomer, Shown(c, 0, b.out))
    BY <1>5, NewcomerFollowed
  <2>2. TellingInv(c, 0, b)
    BY <1>6, <1>7 DEF TellingInv
  <2>3. QED BY <1>6, <2>1, <2>2 DEF DescribedHeard
<1> HIDE DEF e
<1>9. ASSUME NEW i \in 1..n, NEW t, DescribedHeard(c, i - 1, t)
      PROVE  DescribedHeard(c, i, Describe(Me, t, q[i]))
  <2>1. TellingInv(c, i - 1, t) /\ Follows(c.tale, Shown(c, i - 1, t.out))
    BY <1>9 DEF DescribedHeard
  <2>2. q[i] \in DOMAIN c.from.pstate
    BY <1>3, <1>6 DEF P
  <2>3. TellingInv(c, i, Describe(Me, t, q[i]))
    BY <2>1, <2>2, DescribeTyped
  <2>4. Typed(t) /\ t.pstate = c.from.pstate
    BY <2>1 DEF TellingInv, SameRoster
  <2>5. c.from.pstate[q[i]] \in PlayerStates \ {"GAME_READY"}
    <3>1. s.pstate \in [DOMAIN s.pstate -> PlayerStates]
      BY <1>2 DEF Typed, RosterOK
    <3>2. QED BY <1>6, <2>2, <3>1 DEF InState
  <2>6. c.items \in [1..n -> PlIds] /\ \A j, l \in 1..n : j < l => c.items[j] < c.items[l]
    BY <1>2, <1>3, <1>6
  <2>7. c.items[i] = q[i]
    BY <1>6
  <2>8. Follows(c.tale, Shown(c, i, Describe(Me, t, q[i]).out))
    BY <1>3, <2>1, <2>2, <2>4, <2>5, <2>6, <2>7, DescribeFollowed
  <2>9. QED BY <2>3, <2>8 DEF DescribedHeard
<1>10. DescribedHeard(c, n, R)
  <2> HIDE DEF R
  <2>1. DescribedHeard(c, n, Describing!Loop(c, b, q))
    BY <1>3, <1>8, <1>9, Describing!LoopInvariant
  <2>2. QED BY <2>1 DEF R
<1> HIDE DEF R
<1> DEFINE d == Shown(c, n, R.out)
<1>11. /\ Typed(R) /\ R.state = s.state /\ SameRoster(R, s) /\ SameBoard(R, s)
       /\ Follows(Newcomer, d)
  BY <1>6, <1>10 DEF DescribedHeard, TellingInv
<1>12. /\ d.state = "LOBBY" /\ d.holds = {} /\ d.peerOf = s.peerOf /\ d.out = R.out
       /\ d.pstate = [p \in Done(c, n) |-> s.pstate[p]]
       /\ d.current = IF n = 0 THEN 0 ELSE q[n]
  <2>1. d = Shown(c, n, R.out)
    OBVIOUS
  <2> HIDE DEF d
  <2>2. /\ d.state = "LOBBY" /\ d.holds = {} /\ d.peerOf = c.from.peerOf /\ d.out = R.out
        /\ d.pstate = [p \in Done(c, n) |-> c.from.pstate[p]]
        /\ d.current = IF n = 0 THEN 0 ELSE c.items[n]
    BY <2>1, ShownFields
  <2>3. QED BY <1>6, <2>2
<1> HIDE DEF d
<1>13. Done(c, n) = P
  BY <1>3, <1>6 DEF Done
<1>14. d.pstate = s.pstate
  <2>1. s.pstate \in [P -> PlayerStates]
    BY <1>2 DEF Typed, RosterOK, P
  <2>2. QED BY <1>12, <1>13, <2>1
<1>15. d.current \in Nat /\ d.current <= s.current /\ s.current \in Nat
  <2>1. s.current \in Nat
    <3>1. s.current \in 0..IdMax
      BY <1>2 DEF Typed, RosterOK
    <3>2. QED BY <3>1
  <2>2. CASE n = 0
    BY <1>12, <2>1, <2>2
  <2>3. CASE n # 0
    <3>1. n \in 1..n
      BY <1>3, <2>3
    <3>2. q[n] \in P /\ q[n] \in PlIds /\ d.current = q[n]
      BY <1>2, <1>3, <1>12, <2>3, <3>1
    <3>3. q[n] <= s.current
      BY <3>2 DEF P
    <3>4. QED BY <2>1, <3>2, <3>3 DEF PlIds
  <2>4. QED BY <2>2, <2>3
<1>16. ASSUME NEW w, Mirror(d, w) PROVE Mirror(R, w)
  <2>1. R.state = d.state /\ R.holds = d.holds /\ R.peerOf = d.peerOf /\ R.pstate = d.pstate
        /\ R.current = s.current
    BY <1>2, <1>11, <1>12, <1>14 DEF SameRoster, SameBoard
  <2>2. ASSUME NEW p \in Known(w) PROVE p <= R.current
    <3>1. p \in PlIds /\ p <= d.current
      BY <1>16 DEF Mirror, Shape
    <3>2. p \in Nat
      BY <3>1 DEF PlIds
    <3>3. QED BY <1>15, <2>1, <3>1, <3>2
  <2>3. QED BY <1>16, <2>1, <2>2 DEF Mirror
<1>17. Follows(Newcomer, R)
  BY <1>11, <1>12, <1>16, Unsaid
<1>18. QED BY <1>1, <1>17

-----------------------------------------------------------------------------
(* The invariant.                                                          *)

\* What the client may have refused.
Refused(b) == {"unsettable state"} \union (IF b THEN {"invalid in current state"} ELSE {})

\* Where the client may be once it has read everything, the client that takes
\* its players for gone as it reads included.
Bound == Reads(Quits(view), chan)
Tracks == \A w \in Bound : w.error \in Refused(early) \/ Mirror(Now, w)

\* IDs are given in ascending order.
NobodyBeyond == \A p \in Players : p <= current

ClientInv ==
  /\ ServerInv
  /\ Shape(view) /\ chan \in Seq(Event) /\ early \in BOOLEAN
  /\ NobodyBeyond
  /\ Followed => Tracks

\* The state a step of the server begins in, to follow its handler from.
Tale == [views |-> Bound, early |-> early, from |-> state]

(* At the beginning nothing has been said.                                 *)
LEMMA TaleBegins ==
  ASSUME Tracks
  PROVE  Follows(Tale, Now)
<1> DEFINE k == Tale
           s == Now
<1>1. k.views = Bound /\ k.early = early
  BY DEF Tale
<1>2. s.out = <<>>
  BY NowFields
<1>3. Mine(<<>>) = <<>> /\ Reads(k.views, <<>>) = k.views
  <2>1. <<>> \in Seq(Event)
    BY EmptySeq
  <2> HIDE DEF k
  <2>2. QED BY <2>1, MineMore, ReadsMore
<1>4. Tracks
  OBVIOUS
<1> HIDE DEF k
<1>5. Refused(early) \subseteq Refusals(k, s)
  BY <1>1 DEF Refused, Refusals, TooEarly
<1>6. Ends(k, s) = Bound
  BY <1>1, <1>2, <1>3 DEF Ends
<1> HIDE DEF s
<1>7. \A w \in Bound : w.error \in Refused(early) \/ Mirror(s, w)
  BY <1>4 DEF Tracks, s
<1>8. Follows(k, s)
  BY <1>5, <1>6, <1>7 DEF Follows
<1>9. QED BY <1>8 DEF k, s

(* What the variables become is what the handler has left.                 *)
LEMMA NowShown ==
  ASSUME NEW r, Become(r)
  PROVE  SameShown(Now', r)
BY DEF Become, Now, SameShown

(* A step of the server, followed to its end: what was sent is in flight.  *)
LEMMA StepTracks ==
  ASSUME chan \in Seq(Event), NEW r, r.out \in Seq(Message), Follows(Tale, r), Become(r),
         chan' = chan \o ForMe, view' = view, early' = (early \/ RankedEarly)
  PROVE  Tracks'
<1> DEFINE k == Tale
<1>1. k.views = Bound /\ k.early = early /\ k.from = state
  BY DEF Tale
<1>2. out' = r.out
  BY DEF Become
<1>3. Mine(r.out) \in Seq(Event) /\ chan' = chan \o Mine(r.out)
  BY <1>2, MineMore DEF ForMe
<1>4. Bound' = Ends(k, r)
  <2>1. Reads(Quits(view), chan \o Mine(r.out)) = Reads(Bound, Mine(r.out))
    BY <1>3, ReadsMore DEF Bound
  <2>2. Bound' = Reads(Quits(view'), chan')
    BY DEF Bound
  <2> HIDE DEF k
  <2>3. QED BY <1>1, <1>3, <2>1, <2>2 DEF Ends
<1>5. Refusals(k, r) \subseteq Refused(early')
  <2>1. HasRank(r) /\ state = "GAME_READY" => RankedEarly
    BY <1>2 DEF HasRank, RankedEarly
  <2> HIDE DEF k
  <2>2. TooEarly(k, r) => early'
    BY <1>1, <2>1 DEF TooEarly
  <2>3. QED BY <2>2 DEF Refusals, Refused
<1>6. Follows(k, r)
  OBVIOUS
<1> HIDE DEF k
<1> DEFINE n == Now'
<1>7. SameShown(n, r)
  BY NowShown
<1> HIDE DEF n
<1>8. \A w \in Bound' : w.error \in Refused(early') \/ Mirror(n, w)
  BY <1>4, <1>5, <1>6, <1>7, MirrorSame DEF Follows
<1>9. QED BY <1>8 DEF Tracks, n

(* A client that has refused an event stays as it is.                      *)
LEMMA RefusedTracks ==
  ASSUME Shape(view), chan \in Seq(Event), Tracks, view.error # "",
         chan' = <<>>, view' = view, early' = (early \/ RankedEarly)
  PROVE  Tracks'
<1>1. view \in Quits(view) /\ Quits(view) = {view}
  BY DEF Quits
<1> DEFINE a == FoldLeft(On, view, chan)
<1>2. a \in Reads(Quits(view), chan) /\ (view.error # "" => a = view)
  BY <1>1, AheadRead
<1> HIDE DEF a
<1>3. view \in Bound
  BY <1>2 DEF Bound
<1>4. view.error \in Refused(early)
  BY <1>3 DEF Tracks, Mirror
<1>5. Refused(early) \subseteq Refused(early')
  BY DEF Refused
<1>6. Bound' = {view}
  <2>1. Reads(Quits(view), <<>>) = Quits(view)
    <3>1. <<>> \in Seq(Event)
      BY EmptySeq
    <3>2. QED BY <3>1, ReadsMore
  <2>2. Bound' = Reads(Quits(view'), chan')
    BY DEF Bound
  <2>3. QED BY <1>1, <2>1, <2>2
<1>7. \A w \in Bound' : w.error \in Refused(early')
  BY <1>4, <1>5, <1>6
<1>8. QED BY <1>7 DEF Tracks

-----------------------------------------------------------------------------
(* The actions of the server, while the client is followed.                *)
Tracking == ServerInv /\ died = "" /\ Followed /\ Tracks

\* The handler leads every client that may be there to what it leaves.
Heeded == \E r : Become(r) /\ Follows(Tale, r)

(* What the handlers begin with.                                           *)
LEMMA TrackingFacts ==
  ASSUME Tracking
  PROVE  /\ ServerInv /\ Settled(Now) /\ Fit(Now) /\ Typed(Now) /\ Here(Now)
         /\ Follows(Tale, Now) /\ FromReady(Tale, Now) /\ Tale.from = state
         /\ Me \in Range(socks) /\ Me \notin closing
<1>1. ServerInv /\ Settled(Now) /\ Fit(Now) /\ Typed(Now)
  BY DEF Tracking, ServerInv, Settled
<1>2. Me \in Range(socks) /\ Me \notin closing
  BY DEF Tracking, Followed, Open, Connected
<1>3. Here(Now)
  BY <1>1, <1>2, NowFields DEF Here
<1>4. Follows(Tale, Now)
  BY TaleBegins DEF Tracking
<1>5. Tale.from = state /\ Now.state = state
  BY NowFields DEF Tale
<1>6. QED BY <1>1, <1>2, <1>3, <1>4, <1>5 DEF FromReady

(* What depends on nothing but the peers.                                  *)
LEMMA RewireFollowed ==
  ASSUME Tracking, NEW ss, NEW cl
  PROVE  Follows(Tale, Rewire(ss, cl)) /\ Rewire(ss, cl).out = <<>>
<1> DEFINE r == Rewire(ss, cl)
           k == Tale
           s == Now
<1>1. r.out = s.out /\ SameShown(r, s) /\ s.out = <<>>
  BY NowFields DEF Rewire, StateFields, SameShown
<1>2. Follows(k, s)
  BY TrackingFacts
<1> HIDE DEF r, k, s
<1>3. \A w : Mirror(s, w) => Mirror(r, w)
  BY <1>1, MirrorSame
<1>4. Follows(k, r)
  BY <1>1, <1>2, <1>3, Unsaid
<1>5. QED BY <1>1, <1>4 DEF r, k

(* What another newcomer is told.                                          *)
OverheardInv(c, i, r) == TellingInv(c, i, r) /\ Follows(c.tale, r)

Overhearing == INSTANCE Loops WITH Step <- LAMBDA c, s, p : Describe(c.to, s, p), Inv <- OverheardInv

(* An event for another peer.                                              *)
LEMMA SendUnheard ==
  ASSUME NEW k, NEW s, Typed(s), Follows(k, s), NEW x \in Peers, x # Me, NEW e \in Event
  PROVE  LET r == Send(s, {x}, e)
         IN  /\ Follows(k, r) /\ Typed(r) /\ r.state = s.state /\ r.died = s.died
             /\ SameRoster(r, s) /\ SameBoard(r, s) /\ SamePeers(r, s)
<1> DEFINE r == Send(s, {x}, e)
<1>1. {x} \in SUBSET Peers /\ Me \notin {x}
  OBVIOUS
<1>2. /\ Typed(r) /\ r.state = s.state /\ r.died = s.died
      /\ SameRoster(r, s) /\ SameBoard(r, s) /\ SamePeers(r, s)
  BY <1>1, SendTyped
<1>3. r.out = Append(s.out, [to |-> {x}, event |-> e])
  BY DEF Send, Typed, StateFields
<1> HIDE DEF r
<1>4. SameShown(r, s)
  BY <1>2 DEF SameShown, SameRoster, SameBoard
<1>5. \A w : Mirror(s, w) => Mirror(r, w)
  BY <1>4, MirrorSame
<1>6. Follows(k, r)
  BY <1>1, <1>3, <1>5, Unheard
<1>7. QED BY <1>2, <1>6 DEF r

(* onPeerConnect, of another client.                                       *)
LEMMA SnapshotUnheard ==
  ASSUME NEW k, NEW s, Typed(s), Follows(k, s), s.state \in {"LOBBY", "GAME_READY", "GAME"},
         NEW x \in Peers, x # Me
  PROVE  Follows(k, Snapshot(s, x))
<1> DEFINE e == [type |-> "STATE", state |-> s.state]
           b == Send(s, {x}, e)
           P == DOMAIN s.pstate
           q == InOrder(P)
           n == Cardinality(P)
           c == [from |-> s, to |-> x, tale |-> k]
           R == Overhearing!Loop(c, b, q)
<1>0. c.from = s /\ c.to = x /\ c.tale = k
  OBVIOUS
<1>1. Snapshot(s, x) = R
  BY DEF Snapshot, Overhearing!Loop, Overhearing!MapThenFoldSet,
         Overhearing!Max, FoldLeft, MapThenFoldSet, Max
<1>2. P \in SUBSET PlIds
  BY DEF Typed, RosterOK
<1>3. n \in Nat /\ q \in [1..n -> P] /\ DOMAIN q = 1..n
  BY <1>2, InOrderEnumerates
<1> HIDE DEF q, n, c
<1>4. OverheardInv(c, 0, b)
  <2>1. e \in Event
    BY Events
  <2> HIDE DEF e
  <2>2. /\ Follows(k, b) /\ Typed(b) /\ b.state = s.state /\ b.died = s.died
        /\ SameRoster(b, s) /\ SameBoard(b, s) /\ SamePeers(b, s)
    BY <2>1, SendUnheard
  <2> HIDE DEF b
  <2>3. QED BY <2>2, <1>0 DEF OverheardInv, TellingInv
<1>5. ASSUME NEW i \in 1..n, NEW t, OverheardInv(c, i - 1, t)
      PROVE  OverheardInv(c, i, Describe(c.to, t, q[i]))
  <2>1. /\ Typed(t) /\ t.state = s.state /\ t.died = s.died /\ Follows(k, t)
        /\ SameRoster(t, s) /\ SameBoard(t, s) /\ SamePeers(t, s)
    BY <1>0, <1>5 DEF OverheardInv, TellingInv
  <2>2. q[i] \in PlIds /\ t.pstate[q[i]] \in PlayerStates
    <3>1. q[i] \in DOMAIN t.pstate
      BY <1>3, <2>1 DEF SameRoster
    <3>2. QED BY <3>1, <2>1 DEF Typed, RosterOK
  <2> DEFINE e1 == [type |-> "PLAYER_CONF", plid |-> q[i]]
             e2 == [type |-> "PLAYER_STATE", plid |-> q[i], state |-> t.pstate[q[i]]]
             u == Send(t, {x}, e1)
             v == Send(u, {x}, e2)
  <2>3. e1 \in Event /\ e2 \in Event
    BY <2>2, Events
  <2>4. Describe(c.to, t, q[i]) = v
    <3>1. Describe(x, t, q[i]) = v
      BY DEF Describe
    <3>2. QED BY <3>1, <1>0
  <2> HIDE DEF e1, e2
  <2>5. /\ Follows(k, u) /\ Typed(u) /\ u.state = t.state /\ u.died = t.died
        /\ SameRoster(u, t) /\ SameBoard(u, t) /\ SamePeers(u, t)
    BY <2>1, <2>3, SendUnheard
  <2> HIDE DEF u
  <2>6. /\ Follows(k, v) /\ Typed(v) /\ v.state = u.state /\ v.died = u.died
        /\ SameRoster(v, u) /\ SameBoard(v, u) /\ SamePeers(v, u)
    BY <2>5, <2>3, SendUnheard
  <2> HIDE DEF v
  <2>7. TellingInv(c, i, v)
    BY <1>0, <2>1, <2>5, <2>6 DEF TellingInv, SameRoster, SameBoard, SamePeers
  <2>8. QED BY <1>0, <2>4, <2>6, <2>7 DEF OverheardInv
<1>6. OverheardInv(c, n, R)
  <2> HIDE DEF R, b
  <2>1. OverheardInv(c, n, Overhearing!Loop(c, b, q))
    BY <1>3, <1>4, <1>5, Overhearing!LoopInvariant
  <2>2. QED BY <2>1 DEF R
<1> HIDE DEF R
<1>7. QED BY <1>0, <1>1, <1>6 DEF OverheardInv

(* onAccept and onPeerConnect, of another client.                          *)
LEMMA ConnectHeeded ==
  ASSUME Tracking, NEW x \in Peers, Connect(x)
  PROVE  Heeded
<1> DEFINE ss == Append(socks, x)
           joined == [Now EXCEPT !.socks = Append(@, x)]
<1>1. ServerInv /\ Fit(Now) /\ Me \in Range(socks)
  BY TrackingFacts
<1>2. /\ socks \in Seq(Peers) /\ IsInjective(socks) /\ closing \subseteq Range(socks)
      /\ x \in Peers \ Range(socks)
  BY <1>1, InvFacts DEF Connect, Connected
<1>3. ss \in Seq(Peers) /\ IsInjective(ss) /\ closing \in SUBSET Range(ss) /\ x # Me
  BY <1>1, <1>2, Joined
<1> HIDE DEF ss
<1>4. joined = Rewire(ss, closing)
  BY NowFields DEF ss, Now, Rewire
<1>5. [joined EXCEPT !.closing = @ \union {x}] = Rewire(ss, closing \union {x})
  BY NowFields DEF ss, Now, Rewire
<1>6. CASE state # "LOBBY" \/ Cardinality(Players) >= PlNbMax
  <2> DEFINE s == Rewire(ss, closing \union {x})
  <2>1. Become(s)
    BY <1>5, <1>6 DEF Connect
  <2>2. Follows(Tale, s)
    BY RewireFollowed
  <2> HIDE DEF s
  <2>3. QED BY <2>1, <2>2 DEF Heeded
<1>7. CASE ~ (state # "LOBBY" \/ Cardinality(Players) >= PlNbMax)
  <2> DEFINE s == Snapshot(joined, x)
  <2>1. Become(s)
    BY <1>7 DEF Connect
  <2> HIDE DEF joined
  <2>2. Settled(joined) /\ SameLife(joined, Now)
    BY <1>1, <1>3, <1>4, Rewired
  <2>3. joined.state \in {"LOBBY", "GAME_READY", "GAME"} /\ Typed(joined)
    BY <1>1, <2>2 DEF Fit, Sound, SameLife, Settled
  <2>4. Follows(Tale, joined)
    BY <1>4, RewireFollowed
  <2>5. Follows(Tale, s)
    BY <1>3, <2>3, <2>4, SnapshotUnheard
  <2> HIDE DEF s
  <2>6. QED BY <2>1, <2>5 DEF Heeded
<1>8. QED BY <1>6, <1>7

(* processError.                                                           *)
LEMMA FailHeeded ==
  ASSUME Tracking, NEW x \in Peers, Fail(x)
  PROVE  Heeded
<1> DEFINE s == Rewire(socks, closing \union {x})
<1>1. Become([Now EXCEPT !.closing = @ \union {x}])
  BY DEF Fail
<1>2. [Now EXCEPT !.closing = @ \union {x}] = s
  BY NowFields DEF Now, Rewire
<1>3. Follows(Tale, s)
  BY RewireFollowed
<1> HIDE DEF s
<1>4. QED BY <1>1, <1>2, <1>3 DEF Heeded

(* PeerSocket::close, of another client.                                   *)
LEMMA CloseHeeded ==
  ASSUME Tracking, NEW x \in Peers, Close(x)
  PROVE  died' = "" => Heeded
<1> DEFINE i == CHOOSE j \in DOMAIN socks : socks[j] = x
           rest == RemoveAt(socks, i)
           told == IF i \in DOMAIN rest THEN rest[i] ELSE x
           s == [Now EXCEPT !.socks = rest, !.closing = @ \ {x}]
<1>1. /\ ServerInv /\ Fit(Now) /\ FromReady(Tale, Now)
      /\ Me \in Range(socks) /\ Me \notin closing
  BY TrackingFacts
<1>2. socks \in Seq(Peers) /\ IsInjective(socks) /\ closing \subseteq Range(socks) /\ x \in closing
  BY <1>1, InvFacts DEF Close
<1>3. PICK r \in OnPeerDisconnect(s, told) : Become(r)
  BY DEF Close
<1>4. i \in DOMAIN socks /\ socks[i] = x
  <2>1. \E j \in DOMAIN socks : socks[j] = x
    BY <1>2 DEF Range
  <2>2. QED BY <2>1
<1>5. s = Rewire(rest, closing \ {x})
  BY NowFields DEF Now, Rewire
<1> HIDE DEF i, rest, told, s
<1>6. rest \in Seq(Peers) /\ IsInjective(rest) /\ Range(socks) \ {x} \subseteq Range(rest)
  BY <1>2, <1>4, Removed DEF rest
<1>7. closing \ {x} \in SUBSET Range(rest)
  BY <1>2, <1>6
<1>8. Settled(s) /\ SameLife(s, Now) /\ s.socks = rest
  BY <1>1, <1>5, <1>6, <1>7, Rewired
<1>9. Fit(s)
  BY <1>1, <1>8, SameLifeFit DEF Fit
<1>10. Here(s)
  <2>1. Me # x
    BY <1>1, <1>2
  <2>2. QED BY <1>1, <1>6, <1>8, <2>1 DEF Here, Settled
<1>11. Follows(Tale, s)
  BY <1>5, RewireFollowed
<1>12. FromReady(Tale, s)
  BY <1>1, <1>8 DEF FromReady, SameLife
<1>13. r.died = "" => Follows(Tale, r)
  <2> DEFINE k == Tale
  <2>1. Follows(k, s) /\ FromReady(k, s)
    BY <1>11, <1>12
  <2> HIDE DEF k
  <2>2. r.died = "" => Follows(k, r)
    BY <1>3, <1>8, <1>9, <1>10, <2>1, OnPeerDisconnectFollowed
  <2>3. QED BY <2>2 DEF k
<1>14. r.died = died'
  BY <1>3 DEF Become
<1>15. QED BY <1>3, <1>13, <1>14 DEF Heeded

\* IDs are not used twice.
Fresh == Players \union DOMAIN pstate' = Players \/ current' > current

(* A new player has an ID nobody has had.                                  *)
LEMMA FreshBeyond ==
  ASSUME ServerInv, Players # PlIds, Fresh, current' = NextPlayerId,
         DOMAIN pstate' = Players \union {NextPlayerId}
  PROVE  current < NextPlayerId
<1>1. NextPlayerId \in PlIds \ Players
  BY InvFacts, NextPlayerIdFree DEF Players
<1> DEFINE p == NextPlayerId
<1> HIDE DEF p
<1>2. p \in Players \union DOMAIN pstate' /\ p \notin Players
  BY <1>1 DEF p
<1>3. current' > current
  BY <1>2 DEF Fresh
<1>4. p > current
  BY <1>3 DEF p
<1>5. p \in Int /\ current \in Int
  BY <1>1, CurrentCounts DEF PlIds, p
<1>6. QED BY <1>4, <1>5 DEF p

(* processPktPlayerJoin.                                                   *)
LEMMA JoinHeeded ==
  ASSUME Tracking, NEW x \in Peers, Join(x), Fresh
  PROVE  Heeded
<1> DEFINE n == NewPlayer(Now, x)
           p == NextPlayerId
           r == Send(n, {x}, JoinedOf(p))
<1>1. ServerInv /\ Follows(Tale, Now) /\ Me \in Range(socks) /\ died = ""
  BY TrackingFacts DEF Tracking
<1>2. Become(r) /\ Players # PlIds
  BY DEF Join, JoinedOf
<1>3. DOMAIN n = StateFields /\ n.current = p /\ DOMAIN n.pstate = Players \union {p}
  BY <1>1, NewPlayerAdds DEF Players
<1> HIDE DEF n
<1>4. r.current = p /\ DOMAIN r.pstate = Players \union {p}
  BY <1>3 DEF Send, StateFields
<1>5. current' = p /\ DOMAIN pstate' = Players \union {p}
  BY <1>2, <1>4 DEF Become
<1>6. current < p
  BY <1>1, <1>2, <1>5, FreshBeyond
<1>7. \A k : Follows(k, Now) => Follows(k, r)
  BY <1>1, <1>6, JoinFollowed DEF n
<1> HIDE DEF r
<1>8. QED BY <1>1, <1>2, <1>7 DEF Heeded

(* newLocalPlayer.                                                         *)
LEMMA JoinLocalHeeded ==
  ASSUME Tracking, JoinLocal, Fresh
  PROVE  Heeded
<1> DEFINE r == NewPlayer(Now, Local)
           p == NextPlayerId
<1>1. ServerInv /\ Fit(Now) /\ Follows(Tale, Now) /\ Me \in Range(socks)
  BY TrackingFacts
<1>2. Become(r) /\ Players # PlIds /\ state = "LOBBY"
  BY DEF JoinLocal
<1>3. r.current = p /\ DOMAIN r.pstate = Players \union {p}
  BY <1>1, NewPlayerAdds DEF Players
<1>4. current' = p /\ DOMAIN pstate' = Players \union {p}
  BY <1>2, <1>3 DEF Become
<1>5. current < p
  BY <1>1, <1>2, <1>4, FreshBeyond
<1>6. Local # Me
  BY PeersAssumption
<1>7. \A k : Follows(k, Now) => Follows(k, r)
  BY <1>1, <1>2, <1>5, <1>6, NewPlayerFollowed
<1> HIDE DEF r
<1>8. QED BY <1>1, <1>2, <1>7 DEF Heeded

(* processPktPlayerState and playerSetState.                               *)
LEMMA ChangeStateHeeded ==
  ASSUME Tracking, NEW p \in Players, NEW st \in PlayerStates, ChangeState(p, st)
  PROVE  Heeded
<1> DEFINE t == SetPlayerState(Now, p, st)
           r == CheckAllPlayersReady(t)
<1>1. Become(r) /\ Settable(p, st)
  BY DEF ChangeState
<1>2. Settled(Now) /\ Typed(Now) /\ Here(Now) /\ Follows(Tale, Now)
  BY TrackingFacts
<1>3. p \in DOMAIN Now.pstate
  BY NowFields DEF Players
<1>4. SettableAt(Now, p, st)
  BY <1>1, NowFields DEF Settable, SettableAt
<1>5. Here(t) /\ \A k : Follows(k, Now) => Follows(k, t)
  BY <1>2, <1>3, <1>4, SetPlayerStateFollowed
<1>6. Typed(t) /\ t.state = Now.state /\ SameBoard(t, Now)
  BY <1>2, <1>3, SetPlayerStateTyped
<1> HIDE DEF t
<1>7. Settled(t)
  BY <1>2, <1>6 DEF Settled, SameBoard
<1>8. \A k : Follows(k, t) => Follows(k, r)
  BY <1>5, <1>7, CheckAllPlayersReadyFollowed
<1> HIDE DEF r
<1>9. QED BY <1>1, <1>2, <1>5, <1>8 DEF Heeded

(* The same with QUIT.                                                     *)
LEMMA QuitHeeded ==
  ASSUME Tracking, NEW p \in Players, Quit(p)
  PROVE  died' = "" => Heeded
<1>1. PICK r \in RemovePlayer(Now, p) : Become(r)
  BY DEF Quit
<1>2. /\ Settled(Now) /\ Fit(Now) /\ Here(Now) /\ Follows(Tale, Now) /\ FromReady(Tale, Now)
      /\ p \in DOMAIN Now.pstate
  BY TrackingFacts, NowFields DEF Players
<1>3. Leavable(Tale, Now)
  BY <1>2 DEF Leavable
<1>4. r.died = "" => Follows(Tale, r)
  BY <1>1, <1>2, <1>3, RemoveOneFollowed
<1>5. r.died = died'
  BY <1>1 DEF Become
<1>6. QED BY <1>1, <1>4, <1>5 DEF Heeded

(* doStepPlayer.                                                           *)
LEMMA StepPlayerHeeded ==
  ASSUME Tracking, NEW p \in Players, StepPlayer(p)
  PROVE  died' = "" => Heeded
<1>1. PICK l \in {lost, lost \union {p}} :
        \E s \in UpdateRanks([Now EXCEPT !.lost = l]) : Become(s)
  BY DEF StepPlayer
<1> DEFINE t == [Now EXCEPT !.lost = l]
<1>2. PICK r \in UpdateRanks(t) : Become(r)
  BY <1>1
<1>3. ServerInv /\ Settled(Now) /\ Fit(Now) /\ Typed(Now) /\ Here(Now) /\ Follows(Tale, Now)
  BY TrackingFacts
<1>4. l \subseteq fields
  <2>1. p \in fields
    BY <1>3, InvFacts DEF StepPlayer
  <2>2. lost \subseteq fields
    BY <1>3, NowFields DEF Typed, BoardOK
  <2>3. QED BY <2>1, <2>2
<1>5. /\ DOMAIN t = StateFields /\ t.lost = l /\ t.state = state /\ t.died = died
      /\ t.fields = fields /\ t.ranked = ranked /\ t.holds = holds /\ t.started = started
      /\ t.out = Now.out /\ SameRoster(t, Now) /\ SamePeers(t, Now)
  BY NowFields DEF StateFields, SameRoster, SamePeers
<1> HIDE DEF t
<1>6. Typed(t)
  BY <1>3, <1>4, <1>5, NowFields
     DEF Typed, RosterOK, BoardOK, PeersOK, OutOK, SameRoster, SamePeers
<1>7. Settled(t) /\ Here(t) /\ SameShown(t, Now)
  BY <1>3, <1>5, <1>6, NowFields DEF Settled, Here, SameShown, SameRoster, SamePeers
<1>8. Follows(Tale, t)
  <2> DEFINE s == Now
             k == Tale
  <2>1. SameShown(t, s) /\ Follows(k, s) /\ t.out = s.out
    BY <1>3, <1>5, <1>7
  <2> HIDE DEF s, k
  <2>2. \A w : Mirror(s, w) => Mirror(t, w)
    BY <2>1, MirrorSame
  <2>3. Follows(k, t)
    BY <2>1, <2>2, Unsaid
  <2>4. QED BY <2>3 DEF k
<1>9. t.state = "GAME"
  BY <1>5 DEF StepPlayer
<1>10. r.died = "" => Follows(Tale, r)
  <2> DEFINE k == Tale
  <2>1. Follows(k, t)
    BY <1>8
  <2> HIDE DEF k
  <2>2. r.died = "" => Follows(k, r)
    BY <1>2, <1>7, <1>9, <2>1, UpdateRanksFollowed
  <2>3. QED BY <2>2 DEF k
<1>11. r.died = died'
  BY <1>2 DEF Become
<1>12. QED BY <1>2, <1>10, <1>11 DEF Heeded

-----------------------------------------------------------------------------
(* Who is connected, and the IDs, whether the client is or not.            *)
Quiet == Open' \subseteq Open /\ (NobodyBeyond => NobodyBeyond')

(* Players only leave, peers neither come nor go.                          *)
LEMMA ShrinksQuiet ==
  ASSUME NEW r, Become(r), SamePeers(r, Now), Shrinks(r, Now)
  PROVE  Quiet
<1>1. socks' = socks /\ closing' = closing
  BY NowFields DEF Become, SamePeers
<1>2. current' = current /\ Players' \subseteq Players
  BY NowFields DEF Become, Shrinks, Players
<1>3. Open' = Open
  BY <1>1 DEF Open, Connected
<1>4. NobodyBeyond => NobodyBeyond'
  BY <1>2 DEF NobodyBeyond
<1>5. QED BY <1>3, <1>4 DEF Quiet

(* onAccept: the newcomer may be connected, and nobody else.               *)
LEMMA ConnectQuiet ==
  ASSUME ServerInv, died = "", NEW x \in Peers, Connect(x)
  PROVE  Open' \subseteq Open \union {x} /\ (NobodyBeyond => NobodyBeyond')
<1> DEFINE ss == Append(socks, x)
           joined == [Now EXCEPT !.socks = Append(@, x)]
<1>1. /\ socks \in Seq(Peers) /\ IsInjective(socks) /\ closing \subseteq Range(socks)
      /\ x \in Peers \ Range(socks) /\ Fit(Now)
  BY InvFacts DEF Connect, Connected, ServerInv
<1>2. /\ ss \in Seq(Peers) /\ IsInjective(ss) /\ Range(ss) = Range(socks) \union {x}
      /\ closing \in SUBSET Range(ss) /\ closing \union {x} \in SUBSET Range(ss)
  BY <1>1, Joined
<1> HIDE DEF ss
<1>3. joined = Rewire(ss, closing)
  BY NowFields DEF ss, Now, Rewire
<1>4. [joined EXCEPT !.closing = @ \union {x}] = Rewire(ss, closing \union {x})
  BY NowFields DEF ss, Now, Rewire
<1>5. \E r : /\ Become(r) /\ r.socks = ss /\ closing \subseteq r.closing
             /\ r.current = current /\ r.pstate = pstate
  <2>1. CASE state # "LOBBY" \/ Cardinality(Players) >= PlNbMax
    <3> DEFINE r == Rewire(ss, closing \union {x})
    <3>1. Become(r)
      BY <1>4, <2>1 DEF Connect
    <3>2. r.socks = ss /\ r.closing = closing \union {x} /\ SameRoster(r, Now)
      BY <1>2, Rewired
    <3> HIDE DEF r
    <3>3. QED BY <3>1, <3>2, NowFields DEF SameRoster
  <2>2. CASE ~ (state # "LOBBY" \/ Cardinality(Players) >= PlNbMax)
    <3> DEFINE r == Snapshot(joined, x)
    <3>1. Become(r)
      BY <2>2 DEF Connect
    <3> HIDE DEF joined
    <3>2. /\ Settled(joined) /\ SameLife(joined, Now) /\ SameRoster(joined, Now)
          /\ joined.socks = ss /\ joined.closing = closing
      BY <1>2, <1>3, Rewired
    <3>3. joined.state \in {"LOBBY", "GAME_READY", "GAME"} /\ Typed(joined)
      BY <1>1, <3>2 DEF Fit, Sound, SameLife, Settled
    <3>4. SameRoster(r, joined) /\ SamePeers(r, joined)
      BY <3>3, SnapshotTyped
    <3> HIDE DEF r
    <3>5. QED BY <3>1, <3>2, <3>4, NowFields DEF SameRoster, SamePeers
  <2>3. QED BY <2>1, <2>2
<1>6. socks' = ss /\ closing \subseteq closing' /\ current' = current /\ pstate' = pstate
  BY <1>5 DEF Become
<1>7. Open' \subseteq Open \union {x}
  BY <1>2, <1>6 DEF Open, Connected
<1>8. NobodyBeyond => NobodyBeyond'
  BY <1>6 DEF NobodyBeyond, Players
<1>9. QED BY <1>7, <1>8

(* processError.                                                           *)
LEMMA FailQuiet ==
  ASSUME ServerInv, NEW x \in Peers, Fail(x)
  PROVE  Quiet
<1> DEFINE s == Rewire(socks, closing \union {x})
<1>1. /\ socks \in Seq(Peers) /\ IsInjective(socks) /\ closing \union {x} \in SUBSET Range(socks)
  BY InvFacts DEF Fail, Open, Connected
<1>2. Become([Now EXCEPT !.closing = @ \union {x}])
  BY DEF Fail
<1>3. [Now EXCEPT !.closing = @ \union {x}] = s
  BY NowFields DEF Now, Rewire
<1>4. SameRoster(s, Now) /\ s.socks = socks /\ s.closing = closing \union {x}
  BY <1>1, Rewired
<1>5. Become(s)
  BY <1>2, <1>3
<1> HIDE DEF s
<1>6. socks' = socks /\ closing \subseteq closing' /\ current' = current /\ pstate' = pstate
  BY <1>4, <1>5, NowFields DEF SameRoster, Become
<1>7. QED BY <1>6 DEF Quiet, Open, Connected, NobodyBeyond, Players

(* PeerSocket::close.                                                      *)
LEMMA CloseQuiet ==
  ASSUME ServerInv, died = "", NEW x \in Peers, Close(x)
  PROVE  Quiet
<1> DEFINE i == CHOOSE j \in DOMAIN socks : socks[j] = x
           rest == RemoveAt(socks, i)
           told == IF i \in DOMAIN rest THEN rest[i] ELSE x
           s == [Now EXCEPT !.socks = rest, !.closing = @ \ {x}]
<1>1. socks \in Seq(Peers) /\ IsInjective(socks) /\ closing \subseteq Range(socks) /\ x \in closing
  BY InvFacts DEF Close
<1>2. PICK r \in OnPeerDisconnect(s, told) : Become(r)
  BY DEF Close
<1>3. i \in DOMAIN socks /\ socks[i] = x
  <2>1. \E j \in DOMAIN socks : socks[j] = x
    BY <1>1 DEF Range
  <2>2. QED BY <2>1
<1>4. s = Rewire(rest, closing \ {x})
  BY NowFields DEF Now, Rewire
<1> HIDE DEF i, rest, told, s
<1>5. rest \in Seq(Peers) /\ IsInjective(rest) /\ Range(rest) = Range(socks) \ {x}
  BY <1>1, <1>3, Removed DEF rest
<1>6. closing \ {x} \in SUBSET Range(rest)
  BY <1>1, <1>5
<1>7. /\ Settled(s) /\ s.socks = rest /\ s.closing = closing \ {x} /\ SameRoster(s, Now)
  BY <1>4, <1>5, <1>6, Rewired
<1>8. SamePeers(r, s) /\ Shrinks(r, s)
  BY <1>2, <1>7, OnPeerDisconnectSettles
<1>9. socks' = rest /\ closing' = closing \ {x} /\ current' = current /\ Players' \subseteq Players
  BY <1>2, <1>7, <1>8, NowFields DEF SamePeers, Shrinks, SameRoster, Become, Players
<1>10. Open' \subseteq Open
  BY <1>5, <1>9 DEF Open, Connected
<1>11. NobodyBeyond => NobodyBeyond'
  BY <1>9 DEF NobodyBeyond
<1>12. QED BY <1>10, <1>11 DEF Quiet

(* The players of a lobby joined by one of them.                           *)
LEMMA GrowsQuiet ==
  ASSUME ServerInv, Players # PlIds, Fresh, current' = NextPlayerId,
         DOMAIN pstate' = Players \union {NextPlayerId}, socks' = socks, closing' = closing
  PROVE  Quiet
<1> DEFINE p == NextPlayerId
<1>1. current < p /\ p \in PlIds
  BY FreshBeyond, InvFacts, NextPlayerIdFree DEF Players
<1>2. current \in Nat /\ Players \subseteq PlIds
  BY CurrentCounts, InvFacts DEF Players
<1>3. current' = p /\ Players' = Players \union {p}
  BY DEF Players
<1> HIDE DEF p
<1>4. ASSUME NobodyBeyond, NEW q \in Players' PROVE q <= current'
  <2>1. CASE q = p
    BY <1>1, <1>3, <2>1 DEF PlIds
  <2>2. CASE q \in Players
    <3>1. q <= current /\ q \in Nat
      BY <1>2, <1>4, <2>2 DEF NobodyBeyond, PlIds
    <3>2. q <= p
      BY <1>1, <1>2, <3>1 DEF PlIds
    <3>3. QED BY <1>3, <3>2
  <2>3. QED BY <1>3, <1>4, <2>1, <2>2
<1>5. NobodyBeyond => NobodyBeyond'
  BY <1>4 DEF NobodyBeyond
<1>6. Open' = Open
  BY DEF Open, Connected
<1>7. QED BY <1>5, <1>6 DEF Quiet

(* processPktPlayerJoin and newLocalPlayer.                                *)
LEMMA JoinQuiet ==
  ASSUME ServerInv, NEW x \in Peers, Join(x), Fresh
  PROVE  Quiet
<1> DEFINE n == NewPlayer(Now, x)
           p == NextPlayerId
           r == Send(n, {x}, JoinedOf(p))
<1>1. Become(r) /\ Players # PlIds
  BY DEF Join, JoinedOf
<1>2. /\ DOMAIN n = StateFields /\ n.current = p /\ DOMAIN n.pstate = Players \union {p}
      /\ n.socks = socks /\ n.closing = closing
  BY NewPlayerAdds DEF Players
<1> HIDE DEF n
<1>3. /\ r.current = p /\ DOMAIN r.pstate = Players \union {p}
      /\ r.socks = socks /\ r.closing = closing
  BY <1>2 DEF Send, StateFields
<1> HIDE DEF r
<1>4. /\ current' = p /\ DOMAIN pstate' = Players \union {p}
      /\ socks' = socks /\ closing' = closing
  BY <1>1, <1>3 DEF Become
<1>5. QED BY <1>1, <1>4, GrowsQuiet

LEMMA JoinLocalQuiet ==
  ASSUME ServerInv, JoinLocal, Fresh
  PROVE  Quiet
<1> DEFINE r == NewPlayer(Now, Local)
           p == NextPlayerId
<1>1. Become(r) /\ Players # PlIds
  BY DEF JoinLocal
<1>2. /\ r.current = p /\ DOMAIN r.pstate = Players \union {p}
      /\ r.socks = socks /\ r.closing = closing
  BY NewPlayerAdds DEF Players
<1> HIDE DEF r
<1>3. /\ current' = p /\ DOMAIN pstate' = Players \union {p}
      /\ socks' = socks /\ closing' = closing
  BY <1>1, <1>2 DEF Become
<1>4. QED BY <1>1, <1>3, GrowsQuiet

(* processPktPlayerState and playerSetState.                               *)
LEMMA ChangeStateQuiet ==
  ASSUME ServerInv, NEW p \in Players, NEW st \in PlayerStates, ChangeState(p, st)
  PROVE  Quiet
<1> DEFINE t == SetPlayerState(Now, p, st)
           r == CheckAllPlayersReady(t)
<1>1. Become(r)
  BY DEF ChangeState
<1>2. Settled(Now) /\ Typed(Now)
  BY DEF ServerInv, Settled
<1>3. p \in DOMAIN Now.pstate
  BY NowFields DEF Players
<1>4. /\ Typed(t) /\ t.state = Now.state /\ SameBoard(t, Now) /\ Keeps(t, Now)
      /\ t.pstate = [Now.pstate EXCEPT ![p] = st]
  BY <1>2, <1>3, SetPlayerStateTyped
<1> HIDE DEF t
<1>5. Settled(t) /\ DOMAIN t.pstate = DOMAIN Now.pstate
  BY <1>2, <1>4 DEF Settled, SameBoard
<1>6. Keeps(r, t) /\ DOMAIN r.pstate = DOMAIN t.pstate
  BY <1>5, CheckAllPlayersReadySettles
<1> HIDE DEF r
<1>7. SamePeers(r, Now) /\ Shrinks(r, Now)
  BY <1>4, <1>5, <1>6 DEF Keeps, SamePeers, Shrinks
<1>8. QED BY <1>1, <1>7, ShrinksQuiet

(* The same with QUIT.                                                     *)
LEMMA QuitQuiet ==
  ASSUME ServerInv, NEW p \in Players, Quit(p)
  PROVE  Quiet
<1>1. PICK r \in RemovePlayer(Now, p) : Become(r)
  BY DEF Quit
<1>2. p \in PlIds
  BY InvFacts DEF Players
<1>3. SamePeers(r, Now) /\ Shrinks(r, Now)
  BY <1>1, <1>2, RemovePlayerSettles DEF ServerInv
<1>4. QED BY <1>1, <1>3, ShrinksQuiet

(* doStepPlayer.                                                           *)
LEMMA StepPlayerQuiet ==
  ASSUME ServerInv, NEW p \in Players, StepPlayer(p)
  PROVE  Quiet
<1>1. PICK l \in {lost, lost \union {p}} :
        \E s \in UpdateRanks([Now EXCEPT !.lost = l]) : Become(s)
  BY DEF StepPlayer
<1> DEFINE t == [Now EXCEPT !.lost = l]
<1>2. PICK r \in UpdateRanks(t) : Become(r)
  BY <1>1
<1>3. Settled(Now) /\ Typed(Now)
  BY DEF ServerInv, Settled
<1>4. l \subseteq fields
  <2>1. p \in fields
    BY InvFacts DEF StepPlayer
  <2>2. lost \subseteq fields
    BY <1>3, NowFields DEF Typed, BoardOK
  <2>3. QED BY <2>1, <2>2
<1>5. /\ DOMAIN t = StateFields /\ t.lost = l /\ t.state = state /\ t.died = died
      /\ t.fields = fields /\ t.ranked = ranked /\ t.holds = holds /\ t.started = started
      /\ t.out = Now.out /\ SameRoster(t, Now) /\ SamePeers(t, Now)
  BY NowFields DEF StateFields, SameRoster, SamePeers
<1> HIDE DEF t
<1>6. Typed(t)
  BY <1>3, <1>4, <1>5, NowFields
     DEF Typed, RosterOK, BoardOK, PeersOK, OutOK, SameRoster, SamePeers
<1>7. Settled(t)
  BY <1>3, <1>5, <1>6, NowFields DEF Settled
<1>8. Keeps(r, t) /\ r.pstate = t.pstate
  BY <1>2, <1>7, UpdateRanksSettles
<1>9. SamePeers(r, Now) /\ Shrinks(r, Now)
  BY <1>5, <1>8 DEF Keeps, SamePeers, Shrinks, SameRoster
<1>10. QED BY <1>2, <1>9, ShrinksQuiet

-----------------------------------------------------------------------------
(* Every action of the server.                                             *)

(* It keeps the invariant of the server and the order of the IDs, and      *)
(* connects no client but the newcomer.                                    *)
LEMMA RunningKeeps ==
  ASSUME ServerInv, died = "", ServerRunning, Fresh
  PROVE  /\ ServerInv' /\ (NobodyBeyond => NobodyBeyond')
         /\ Me \in Open' /\ Me \notin Open => Connect(Me)
<1>1. Fit(Now)
  BY DEF ServerInv
<1>2. ASSUME NEW x \in Peers, Connect(x)
      PROVE  /\ ServerInv' /\ (NobodyBeyond => NobodyBeyond')
             /\ Me \in Open' /\ Me \notin Open => Connect(Me)
  <2>1. Open' \subseteq Open \union {x} /\ (NobodyBeyond => NobodyBeyond')
    BY <1>2, ConnectQuiet
  <2>2. ServerInv'
    BY <1>2, ConnectKeepsInv
  <2>3. QED BY <1>2, <2>1, <2>2
<1>3. ASSUME ~ \E x \in Peers : Connect(x)
      PROVE  ServerInv' /\ Quiet
  <2>1. ASSUME NEW x \in Peers, Fail(x) PROVE ServerInv' /\ Quiet
    BY <2>1, FailKeepsInv, FailQuiet
  <2>2. ASSUME NEW x \in Peers, Close(x) PROVE ServerInv' /\ Quiet
    BY <2>2, CloseKeepsInv, CloseQuiet
  <2>3. ASSUME NEW x \in Peers, Join(x) PROVE ServerInv' /\ Quiet
    BY <2>3, JoinKeepsInv, JoinQuiet
  <2>4. ASSUME JoinLocal PROVE ServerInv' /\ Quiet
    BY <2>4, JoinLocalKeepsInv, JoinLocalQuiet
  <2>5. ASSUME NEW p \in Players, NEW st \in PlayerStates, ChangeState(p, st)
        PROVE  ServerInv' /\ Quiet
    BY <2>5, <1>1, ChangeStateKeepsInv, ChangeStateQuiet
  <2>6. ASSUME NEW p \in Players, Quit(p) PROVE ServerInv' /\ Quiet
    BY <2>6, QuitKeepsInv, QuitQuiet
  <2>7. ASSUME NEW p \in Players, StepPlayer(p) PROVE ServerInv' /\ Quiet
    BY <2>7, StepPlayerKeepsInv, StepPlayerQuiet
  <2>8. QED BY <1>3, <2>1, <2>2, <2>3, <2>4, <2>5, <2>6, <2>7 DEF ServerRunning
<1>4. Quiet => Me \notin Open' \/ Me \in Open
  BY DEF Quiet
<1>5. QED BY <1>2, <1>3, <1>4 DEF Quiet

(* While the client stays, it is led to what the handler leaves.           *)
LEMMA RunningHeeded ==
  ASSUME Tracking, ServerRunning, Fresh
  PROVE  died' = "" => Heeded
<1>1. ASSUME NEW x \in Peers, Connect(x) PROVE Heeded
  BY <1>1, ConnectHeeded
<1>2. ASSUME NEW x \in Peers, Fail(x) PROVE Heeded
  BY <1>2, FailHeeded
<1>3. ASSUME NEW x \in Peers, Close(x) PROVE died' = "" => Heeded
  BY <1>3, CloseHeeded
<1>4. ASSUME NEW x \in Peers, Join(x) PROVE Heeded
  BY <1>4, JoinHeeded
<1>5. ASSUME JoinLocal PROVE Heeded
  BY <1>5, JoinLocalHeeded
<1>6. ASSUME NEW p \in Players, NEW st \in PlayerStates, ChangeState(p, st) PROVE Heeded
  BY <1>6, ChangeStateHeeded
<1>7. ASSUME NEW p \in Players, Quit(p) PROVE died' = "" => Heeded
  BY <1>7, QuitHeeded
<1>8. ASSUME NEW p \in Players, StepPlayer(p) PROVE died' = "" => Heeded
  BY <1>8, StepPlayerHeeded
<1>9. QED BY <1>1, <1>2, <1>3, <1>4, <1>5, <1>6, <1>7, <1>8 DEF ServerRunning

(* onPeerConnect, of this client.                                          *)
LEMMA NewcomerTracks ==
  ASSUME ServerInv, died = "", NobodyBeyond, Connect(Me), Me \in Open',
         chan' = ForMe, view' = NewView("LOBBY"), early' = FALSE
  PROVE  Tracks'
<1> DEFINE ss == Append(socks, Me)
           joined == [Now EXCEPT !.socks = Append(@, Me)]
<1>1. /\ socks \in Seq(Peers) /\ IsInjective(socks) /\ closing \subseteq Range(socks)
      /\ Me \in Peers \ Range(socks) /\ Fit(Now)
  BY InvFacts DEF Connect, Connected, ServerInv
<1>2. /\ ss \in Seq(Peers) /\ IsInjective(ss)
      /\ closing \in SUBSET Range(ss) /\ closing \union {Me} \in SUBSET Range(ss)
  BY <1>1, Joined
<1> HIDE DEF ss
<1>3. joined = Rewire(ss, closing)
  BY NowFields DEF ss, Now, Rewire
<1>4. [joined EXCEPT !.closing = @ \union {Me}] = Rewire(ss, closing \union {Me})
  BY NowFields DEF ss, Now, Rewire
<1>5. ~ (state # "LOBBY" \/ Cardinality(Players) >= PlNbMax)
  <2> SUFFICES ASSUME state # "LOBBY" \/ Cardinality(Players) >= PlNbMax PROVE FALSE
    OBVIOUS
  <2> DEFINE r == Rewire(ss, closing \union {Me})
  <2>1. Become(r)
    BY <1>4 DEF Connect
  <2>2. r.closing = closing \union {Me}
    BY <1>2, Rewired
  <2> HIDE DEF r
  <2>3. Me \in closing'
    BY <2>1, <2>2 DEF Become
  <2>4. QED BY <2>3 DEF Open
<1> DEFINE r == Snapshot(joined, Me)
           k == Newcomer
<1>6. Become(r)
  BY <1>5 DEF Connect
<1>7. /\ Settled(joined) /\ SameLife(joined, Now) /\ SameRoster(joined, Now)
      /\ joined.out = <<>>
  <2>1. joined.out = <<>>
    BY NowFields DEF StateFields
  <2>2. QED BY <1>2, <1>3, <2>1, Rewired
<1> HIDE DEF joined
<1>8. joined.state = "LOBBY" /\ InState(joined, "GAME_READY") = {} /\ Typed(joined)
  <2>1. joined.state = "LOBBY"
    BY <1>5, <1>7, NowFields DEF SameLife
  <2>2. Sound(joined)
    BY <1>1, <1>7, SameLifeFit DEF Fit
  <2>3. QED BY <1>7, <2>1, <2>2 DEF Sound, Settled
<1>9. \A p \in DOMAIN joined.pstate : p <= joined.current
  BY <1>7, NowFields DEF SameRoster, NobodyBeyond, Players
<1>10. Follows(k, r)
  BY <1>7, <1>8, <1>9, SnapshotFollowed
<1>11. r.out \in Seq(Message)
  BY <1>8, SnapshotTyped, MeAssumption DEF Typed, OutOK
<1> HIDE DEF r
<1>12. out' = r.out
  BY <1>6 DEF Become
<1>13. k.views = Quits(NewView("LOBBY")) /\ k.early = FALSE /\ k.from = "LOBBY"
  BY DEF Newcomer
<1> HIDE DEF k
<1>14. Bound' = Ends(k, r)
  <2>1. Bound' = Reads(Quits(view'), chan')
    BY DEF Bound
  <2>2. QED BY <1>12, <1>13, <2>1 DEF Ends, ForMe
<1>15. Refusals(k, r) = Refused(early')
  BY <1>13 DEF Refusals, Refused, TooEarly
<1> DEFINE n == Now'
<1>16. SameShown(n, r)
  BY <1>6, NowShown
<1> HIDE DEF n
<1>17. \A w \in Bound' : w.error \in Refused(early') \/ Mirror(n, w)
  BY <1>10, <1>14, <1>15, <1>16, MirrorSame DEF Follows
<1>18. QED BY <1>17 DEF Tracks, n

-----------------------------------------------------------------------------
(* The steps.                                                              *)

(* What a client begins with.                                              *)
LEMMA NewViewShaped ==
  ASSUME NEW st \in ViewStates
  PROVE  Shape(NewView(st))
<1> DEFINE v == NewView(st)
<1>1. /\ DOMAIN v = ViewFields /\ v.state = st /\ v.players = <<>> /\ v.local = {}
      /\ v.holds = {} /\ v.started = FALSE /\ v.error = ""
  BY DEF NewView, ViewFields
<1> HIDE DEF v
<1>2. DOMAIN <<>> = {}
  OBVIOUS
<1>3. <<>> \in [{} -> PlayerStates \union {"QUIT"}]
  <2>1. <<>> = [i \in {} |-> i]
    BY <1>2
  <2>2. QED BY <2>1
<1>4. Known(v) = {} /\ QuitOf(v) = {}
  BY <1>1, <1>2 DEF Known, QuitOf
<1>5. Shape(v)
  BY <1>1, <1>3, <1>4 DEF Shape
<1>6. QED BY <1>5 DEF v

(* What the server sends is typed.                                         *)
LEMMA ForMeTyped ==
  ASSUME ServerInv'
  PROVE  ForMe \in Seq(Event)
<1>1. out' \in Seq(Message)
  BY DEF ServerInv
<1>2. QED BY <1>1, MineMore DEF ForMe

(* The end of a handler, for a client that stays.                          *)
LEMMA HeededTracks ==
  ASSUME ServerInv', Shape(view), chan \in Seq(Event), Tracks, Heeded,
         chan' = (IF view.error = "" THEN chan \o ForMe ELSE <<>>), view' = view,
         early' = (early \/ RankedEarly)
  PROVE  Tracks'
<1>1. PICK r : Become(r) /\ Follows(Tale, r)
  BY DEF Heeded
<1>2. r.out \in Seq(Message)
  BY <1>1 DEF Become, ServerInv
<1>3. CASE view.error = ""
  <2>1. chan' = chan \o ForMe
    BY <1>3
  <2>2. QED BY <1>1, <1>2, <2>1, StepTracks
<1>4. CASE view.error # ""
  <2>1. chan' = <<>>
    BY <1>4
  <2>2. QED BY <1>4, <2>1, RefusedTracks
<1>5. QED BY <1>3, <1>4

(* The server does one thing.                                              *)
LEMMA ServerStepKeeps ==
  ASSUME ClientInv, ServerStep
  PROVE  ClientInv'
<1>1. /\ ServerInv /\ Shape(view) /\ chan \in Seq(Event) /\ early \in BOOLEAN
      /\ NobodyBeyond /\ (Followed => Tracks)
  BY DEF ClientInv
<1>2. died = "" /\ ServerRunning /\ Fresh
  BY DEF ServerStep, Fresh
<1>3. /\ ServerInv' /\ NobodyBeyond'
      /\ Me \in Open' /\ Me \notin Open => Connect(Me)
  BY <1>1, <1>2, RunningKeeps
<1>4. ForMe \in Seq(Event) /\ <<>> \in Seq(Event)
  BY <1>3, ForMeTyped, EmptySeq
<1>5. Shape(NewView("NONE")) /\ Shape(NewView("LOBBY"))
  BY NewViewShaped DEF ViewStates
<1>6. RankedEarly \in BOOLEAN
  BY DEF RankedEarly
<1>7. CASE died' # "" \/ Me \notin Open'
  <2>1. chan' = <<>> /\ view' = NewView("NONE") /\ early' = FALSE
    BY <1>7 DEF ServerStep
  <2>2. ~ Followed'
    BY <1>7 DEF Followed
  <2>3. QED BY <1>3, <1>4, <1>5, <2>1, <2>2 DEF ClientInv
<1>8. CASE died' = "" /\ Me \in Open' \ Open
  <2>1. chan' = ForMe /\ view' = NewView("LOBBY") /\ early' = FALSE
    BY <1>8 DEF ServerStep
  <2>2. Connect(Me) /\ Me \in Open'
    BY <1>3, <1>8
  <2>3. Tracks'
    BY <1>1, <1>2, <2>1, <2>2, NewcomerTracks
  <2>4. QED BY <1>3, <1>4, <1>5, <2>1, <2>3 DEF ClientInv
<1>9. CASE died' = "" /\ Me \in Open' \intersect Open
  <2>1. /\ chan' = (IF view.error = "" THEN chan \o ForMe ELSE <<>>)
        /\ view' = view /\ early' = (early \/ RankedEarly)
    BY <1>9 DEF ServerStep
  <2>2. Followed /\ Tracks
    BY <1>1, <1>2, <1>9 DEF Followed
  <2>3. Tracking
    BY <1>1, <1>2, <2>2 DEF Tracking
  <2>4. Heeded
    BY <1>2, <1>9, <2>3, RunningHeeded
  <2>5. Tracks'
    BY <1>1, <1>3, <2>1, <2>2, <2>4, HeededTracks
  <2>6. chan' \in Seq(Event)
    <3>1. chan \o ForMe \in Seq(Event)
      BY <1>1, <1>4, ConcatProperties
    <3>2. chan' = chan \o ForMe \/ chan' = <<>>
      BY <2>1
    <3>3. QED BY <1>4, <3>1, <3>2
  <2>7. early' \in BOOLEAN
    BY <2>1
  <2>8. Shape(view')
    BY <1>1, <2>1
  <2>9. QED BY <1>3, <2>5, <2>6, <2>7, <2>8 DEF ClientInv
<1>10. QED BY <1>7, <1>8, <1>9

(* The server does nothing.                                                *)
LEMMA IdleKeeps ==
  ASSUME ServerInv, Idle
  PROVE  /\ ServerInv' /\ Now' = Now /\ (NobodyBeyond <=> NobodyBeyond')
         /\ (Followed <=> Followed')
<1>1. Become(Now)
  BY NowFields DEF Idle, Become
<1>2. Settled(Now) /\ (Now.died = "" => Fit(Now))
  BY NowFields DEF ServerInv
<1>3. ServerInv'
  <2> DEFINE s == Now
  <2>1. Settled(s) /\ (s.died = "" => Fit(s)) /\ Become(s)
    BY <1>1, <1>2
  <2> HIDE DEF s
  <2>2. QED BY <2>1, Adopted
<1>4. Now' = Now
  BY DEF Idle, Now
<1>5. QED BY <1>3, <1>4 DEF Idle, NobodyBeyond, Players, Followed, Open, Connected

(* A client that may be in fewer places.                                   *)
LEMMA FewerTracks ==
  ASSUME ClientInv, Idle, Bound' \subseteq Bound, Shape(view'), chan' \in Seq(Event), early' = early
  PROVE  ClientInv'
<1>1. ServerInv /\ NobodyBeyond /\ (Followed => Tracks) /\ early \in BOOLEAN
  BY DEF ClientInv
<1>2. ServerInv' /\ Now' = Now /\ NobodyBeyond' /\ (Followed <=> Followed')
  BY <1>1, IdleKeeps
<1>3. Tracks => Tracks'
  <2> SUFFICES ASSUME Tracks PROVE Tracks'
    OBVIOUS
  <2> DEFINE n == Now'
             s == Now
  <2>1. n = s /\ \A w \in Bound : w.error \in Refused(early) \/ Mirror(s, w)
    BY <1>2 DEF Tracks
  <2> HIDE DEF n, s
  <2>2. \A w \in Bound' : w.error \in Refused(early') \/ Mirror(n, w)
    BY <2>1
  <2>3. QED BY <2>2 DEF Tracks, n
<1>4. QED BY <1>1, <1>2, <1>3 DEF ClientInv

(* The client reads an event.                                              *)
LEMMA ReceiveKeeps ==
  ASSUME ClientInv, Receive
  PROVE  ClientInv'
<1>1. Shape(view) /\ chan \in Seq(Event) /\ chan # <<>>
  BY DEF ClientInv, Receive
<1>2. Head(chan) \in Event /\ Tail(chan) \in Seq(Event)
  BY <1>1, HeadTailProperties
<1>3. view' = On(view, Head(chan)) /\ chan' = Tail(chan) /\ early' = early /\ Idle
  BY DEF Receive
<1>4. Shape(view')
  BY <1>1, <1>2, <1>3, OnShaped
<1>5. Quits(view') \subseteq Read(Quits(view), Head(chan))
  <2>1. view \in Quits(view)
    BY DEF Quits
  <2>2. Quits(On(view, Head(chan))) \subseteq Read(Quits(view), Head(chan))
    BY <2>1 DEF Read
  <2>3. QED BY <1>3, <2>2
<1>6. Bound = Reads(Read(Quits(view), Head(chan)), Tail(chan))
  BY <1>1, ReadsMore DEF Bound
<1>7. Bound' \subseteq Bound
  <2>1. Bound' = Reads(Quits(view'), Tail(chan))
    BY <1>3 DEF Bound
  <2>2. Reads(Quits(view'), Tail(chan)) \subseteq Reads(Read(Quits(view), Head(chan)), Tail(chan))
    BY <1>2, <1>5, ReadsGrow
  <2>3. QED BY <1>6, <2>1, <2>2
<1>8. QED BY <1>2, <1>3, <1>4, <1>7, FewerTracks

(* Taken for gone one after the other, or all together.                    *)
LEMMA QuitsTwice ==
  ASSUME NEW v, Shape(v), NEW S \in SUBSET v.local
  PROVE  QuitWith(v, S).error = v.error /\ QuitWith(v, S).local = v.local
         /\ \A T : QuitWith(QuitWith(v, S), T) = QuitWith(v, S \union T)
<1> DEFINE u == QuitWith(v, S)
<1>1. DOMAIN v = ViewFields
  BY DEF Shape
<1>2. /\ DOMAIN u = ViewFields /\ u.error = v.error /\ u.state = v.state
      /\ u.local = v.local /\ u.holds = v.holds /\ u.started = v.started
      /\ u.players = [p \in DOMAIN v.players |-> IF p \in S THEN "QUIT" ELSE v.players[p]]
  BY <1>1 DEF QuitWith, ViewFields
<1> HIDE DEF u
<1>3. ASSUME NEW T PROVE QuitWith(u, T) = QuitWith(v, S \union T)
  <2> DEFINE a == [p \in DOMAIN u.players |-> IF p \in T THEN "QUIT" ELSE u.players[p]]
             b == [p \in DOMAIN v.players |-> IF p \in S \union T THEN "QUIT" ELSE v.players[p]]
  <2>1. a = b
    BY <1>2
  <2>2. QuitWith(u, T) = [u EXCEPT !.players = a] /\ QuitWith(v, S \union T) = [v EXCEPT !.players = b]
    BY DEF QuitWith
  <2> HIDE DEF a, b
  <2>3. [u EXCEPT !.players = a] = [v EXCEPT !.players = a]
    BY <1>1, <1>2 DEF ViewFields
  <2>4. QED BY <2>1, <2>2, <2>3
<1>4. QED BY <1>2, <1>3 DEF u

(* The client takes one of its players for gone.                           *)
LEMMA ClientQuitKeeps ==
  ASSUME ClientInv, ClientQuit
  PROVE  ClientInv'
<1>1. Shape(view) /\ chan \in Seq(Event) /\ view.error = ""
  BY DEF ClientInv, ClientQuit
<1>2. PICK p \in view.local \ Gone : view' = [view EXCEPT !.players[p] = "QUIT"]
  BY DEF ClientQuit
<1>3. chan' = chan /\ early' = early /\ Idle
  BY DEF ClientQuit
<1> DEFINE v == view
           u == view'
<1>4. u = QuitWith(v, {p})
  <2>1. v.players = [q \in Known(v) |-> v.players[q]] /\ DOMAIN v.players = Known(v) /\ p \in Known(v)
    BY <1>1, <1>2 DEF Shape, Known
  <2>2. [v.players EXCEPT ![p] = "QUIT"] =
          [q \in DOMAIN v.players |-> IF q \in {p} THEN "QUIT" ELSE v.players[q]]
    BY <2>1
  <2>3. QED BY <1>2, <2>2 DEF QuitWith
<1>5. Shape(v) /\ v.error = "" /\ p \in v.local
  BY <1>1, <1>2
<1> HIDE DEF u, v
<1>6. u.error = "" /\ u.local = v.local /\ \A T : QuitWith(u, T) = QuitWith(v, {p} \union T)
  <2> DEFINE S == {p}
  <2>1. S \in SUBSET v.local /\ u = QuitWith(v, S)
    BY <1>4, <1>5
  <2> HIDE DEF S
  <2>2. /\ QuitWith(v, S).error = v.error /\ QuitWith(v, S).local = v.local
        /\ \A T : QuitWith(QuitWith(v, S), T) = QuitWith(v, S \union T)
    BY <1>5, <2>1, QuitsTwice
  <2>3. u.error = "" /\ u.local = v.local /\ \A T : QuitWith(u, T) = QuitWith(v, S \union T)
    BY <1>5, <2>1, <2>2
  <2>4. QED BY <2>3 DEF S
<1>7. u \in Quits(v)
  BY <1>4, <1>5 DEF Quits
<1>8. Shape(u)
  BY <1>5, <1>7, QuitsShaped
<1>9. Quits(u) \subseteq Quits(v)
  <2>1. ASSUME NEW T \in SUBSET u.local PROVE QuitWith(u, T) \in Quits(v)
    <3>1. {p} \union T \in SUBSET v.local
      BY <1>5, <1>6
    <3>2. QED BY <1>5, <1>6, <3>1 DEF Quits
  <2>2. Quits(u) = {u} \union {QuitWith(u, T) : T \in SUBSET u.local}
    BY <1>6 DEF Quits
  <2>3. QED BY <1>7, <2>1, <2>2
<1>10. Bound' \subseteq Bound
  <2>1. Bound' = Reads(Quits(u), chan)
    BY <1>3 DEF Bound, u
  <2>2. Bound = Reads(Quits(v), chan)
    BY DEF Bound, v
  <2>3. QED BY <1>1, <1>9, <2>1, <2>2, ReadsGrow
<1>11. QED BY <1>1, <1>3, <1>8, <1>10, FewerTracks DEF u

(* Nothing at all happens.                                                 *)
LEMMA StoppedKeeps ==
  ASSUME ClientInv, UNCHANGED clientVars
  PROVE  ClientInv'
<1>1. UNCHANGED vars /\ chan' = chan /\ view' = view /\ early' = early
  BY DEF clientVars
<1>2. ServerInv'
  BY <1>1, NextInv DEF ClientInv
<1>3. Now' = Now /\ (NobodyBeyond <=> NobodyBeyond') /\ (Followed <=> Followed')
  BY <1>1 DEF vars, Now, NobodyBeyond, Players, Followed, Open, Connected
<1>4. Bound' = Bound
  BY <1>1 DEF Bound
<1>5. Tracks => Tracks'
  <2> SUFFICES ASSUME Tracks PROVE Tracks'
    OBVIOUS
  <2> DEFINE n == Now'
             s == Now
  <2>1. n = s /\ \A w \in Bound : w.error \in Refused(early) \/ Mirror(s, w)
    BY <1>3 DEF Tracks
  <2> HIDE DEF n, s
  <2>2. \A w \in Bound' : w.error \in Refused(early') \/ Mirror(n, w)
    BY <1>1, <1>4, <2>1
  <2>3. QED BY <2>2 DEF Tracks, n
<1>6. Shape(view')
  BY <1>1 DEF ClientInv
<1>7. QED BY <1>1, <1>2, <1>3, <1>5, <1>6 DEF ClientInv

(* Every step keeps the invariant.                                         *)
LEMMA ClientNextInv == ClientInv /\ [ClientNext]_clientVars => ClientInv'
BY ServerStepKeeps, ReceiveKeeps, ClientQuitKeeps, StoppedKeeps DEF ClientNext

(* It holds when the server starts: the client is not there yet.           *)
LEMMA ClientInitInv == ClientInit => ClientInv
<1> SUFFICES ASSUME ClientInit PROVE ClientInv
  OBVIOUS
<1>1. Init /\ chan = <<>> /\ view = NewView("NONE") /\ early = FALSE
  BY DEF ClientInit
<1>2. ServerInv
  BY <1>1, InitInv
<1>3. Shape(view)
  BY <1>1, NewViewShaped DEF ViewStates
<1>4. DOMAIN <<>> = {}
  OBVIOUS
<1>5. NobodyBeyond
  BY <1>1, <1>4 DEF Init, NobodyBeyond, Players
<1>6. ~ Followed
  BY <1>1, <1>4 DEF Init, Followed, Open, Connected, Range
<1>7. QED BY <1>1, <1>2, <1>3, <1>5, <1>6, EmptySeq DEF ClientInv

-----------------------------------------------------------------------------
(* The theorems.                                                           *)

(* What the client will be is one of the places followed, where it has     *)
(* taken nobody else for gone.                                             *)
LEMMA AheadBound ==
  ASSUME Shape(view), chan \in Seq(Event)
  PROVE  Ahead \in Bound /\ QuitOf(Ahead) \subseteq Gone
<1>1. view \in Quits(view)
  BY DEF Quits
<1>2. Ahead \in Reads(Quits(view), chan) /\ QuitOf(Ahead) \subseteq QuitOf(view)
  BY <1>1, AheadRead DEF Ahead
<1>3. QuitOf(view) \subseteq Gone
  BY DEF Shape, QuitOf, Gone
<1>4. QED BY <1>2, <1>3 DEF Bound

(* The server keeps its own invariant, the copy of the client is what it   *)
(* should be, and as long as the client is connected, what it will be once *)
(* it has read the events in flight shows what the server holds, whichever *)
(* of its players it takes for gone in the meantime, or has refused an     *)
(* event it may refuse.                                                    *)
THEOREM ClientInvariant == ClientSpec => []ClientInv
<1>1. ClientInit => ClientInv
  BY ClientInitInv
<1>2. ClientInv /\ [ClientNext]_clientVars => ClientInv'
  BY ClientNextInv
<1>3. QED BY <1>1, <1>2, PTL DEF ClientSpec

(* Whatever is sent to it, and whenever it reads it, the client keeps only *)
(* players and fields it knows of, in states there are.                    *)
THEOREM ClientTypesCorrect == ClientSpec => []ClientTypeOK
<1>1. ClientInv => ClientTypeOK
  <2> SUFFICES ASSUME ClientInv PROVE ClientTypeOK
    OBVIOUS
  <2>1. Shape(view) /\ chan \in Seq(Event) /\ early \in BOOLEAN
    BY DEF ClientInv
  <2>2. \A i \in DOMAIN chan : chan[i] \in Event
    BY <2>1
  <2>3. /\ view.state \in {"NONE", "LOBBY", "GAME_INIT", "GAME_READY", "GAME"}
        /\ DOMAIN view.players \subseteq PlIds
        /\ view.local \subseteq DOMAIN view.players
        /\ view.holds \subseteq DOMAIN view.players
        /\ view.started \in BOOLEAN
        /\ view.error \in ClientErrors \union {""}
    BY <2>1 DEF Shape, ViewStates, Known
  <2>4. view.players \in [DOMAIN view.players -> PlayerStates \union {"QUIT"}]
    BY <2>1 DEF Shape, Known
  <2>5. \A p \in DOMAIN view.players : view.players[p] \in PlayerStates \union {"QUIT"}
    BY <2>4
  <2>6. QED BY <2>1, <2>2, <2>3, <2>5 DEF ClientTypeOK
<1>2. QED BY <1>1, ClientInvariant, PTL

(* However many peers, players and events in flight there are, a client    *)
(* that reads everything sent to it ends up with the state of the server,  *)
(* its players and its fields, but for players it has itself taken for     *)
(* gone: no implicit change of setState is missed or made twice.           *)
THEOREM ClientConverges == ClientSpec => []ViewConverges
<1>1. ClientInv => ViewConverges
  <2> SUFFICES ASSUME ClientInv, Followed, Ahead.error = ""
               PROVE  /\ Ahead.state = state
                      /\ Known(Ahead) \ Gone = Players \ Gone
                      /\ \A p \in Players \ Gone : Ahead.players[p] = pstate[p]
                      /\ Ahead.holds \ Gone = holds \ Gone
                      /\ \A p \in Ahead.local \ Gone : peerOf[p] = Me
    BY DEF ViewConverges
  <2>1. Tracks /\ Ahead \in Bound /\ QuitOf(Ahead) \subseteq Gone
    BY AheadBound DEF ClientInv
  <2>2. Mirror(Now, Ahead)
    <3>1. "" \notin Refused(early)
      BY DEF Refused
    <3>2. QED BY <2>1, <3>1 DEF Tracks
  <2> DEFINE w == Ahead
             s == Now
  <2>3. s.state = state /\ s.pstate = pstate /\ s.holds = holds /\ s.peerOf = peerOf
    BY NowFields
  <2>4. Mirror(s, w) /\ QuitOf(w) \subseteq Gone
    BY <2>1, <2>2
  <2> HIDE DEF s, w
  <2>5. /\ w.state = state
        /\ Known(w) \ QuitOf(w) = Players \ QuitOf(w)
        /\ \A p \in Known(w) \ QuitOf(w) : w.players[p] = pstate[p]
        /\ \A p \in w.local \ QuitOf(w) : peerOf[p] = Me
        /\ holds \subseteq w.holds /\ w.holds \subseteq holds \union QuitOf(w)
    BY <2>3, <2>4 DEF Mirror, Players
  <2>6. /\ Known(w) \ Gone = Players \ Gone
        /\ w.holds \ Gone = holds \ Gone
    BY <2>4, <2>5
  <2>7. \A p \in Players \ Gone : w.players[p] = pstate[p]
    BY <2>4, <2>5
  <2>8. \A p \in w.local \ Gone : peerOf[p] = Me
    BY <2>4, <2>5
  <2>9. QED BY <2>5, <2>6, <2>7, <2>8 DEF w
<1>2. QED BY <1>1, ClientInvariant, PTL

(* A client never refuses what it is sent in the order it is sent, except  *)
(* the state of a player described to a newcomer that it holds unsettable, *)
(* and a rank sent while the match it belongs to was being prepared.       *)
THEOREM ClientAccepts == ClientSpec => []EventsAccepted
<1>1. ClientInv => EventsAccepted
  <2> SUFFICES ASSUME ClientInv, Followed
               PROVE  \/ Ahead.error \in {"", "unsettable state"}
                      \/ early /\ Ahead.error = "invalid in current state"
    BY DEF EventsAccepted
  <2>1. Tracks /\ Ahead \in Bound
    BY AheadBound DEF ClientInv
  <2>2. Mirror(Now, Ahead) => Ahead.error = ""
    BY DEF Mirror
  <2>3. Ahead.error \in Refused(early) \/ Ahead.error = ""
    BY <2>1, <2>2 DEF Tracks
  <2>4. QED BY <2>3 DEF Refused
<1>2. QED BY <1>1, ClientInvariant, PTL

=============================================================================
