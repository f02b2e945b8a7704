----------------------------- MODULE ClientView -----------------------------
(***************************************************************************)
(* What one client makes of the events of the server (client.cpp): its own *)
(* copy of the server state, of the players and of who has a field, kept   *)
(* from a first-in first-out stream that never repeats the implicit        *)
(* changes of ServerInstance::setState.                                    *)
(*                                                                         *)
(* The commands of the client are the actions Join, ChangeState and Quit   *)
(* of Server, taken when the server reads them.  The client acts on its    *)
(* copy by itself in one case only: it takes a player that quits for gone  *)
(* at once.                                                                *)
(***************************************************************************)
EXTENDS Server

CONSTANTS
  Me,        \* the peer of this client
  ChanMax    \* bound on the events in flight

ASSUME MeAssumption == Me \in Peers
ASSUME ChanAssumption == ChanMax \in Nat

VARIABLES
  chan,      \* the events sent to this client that it has not read yet
  view,      \* the client: state, players, fields, error
  early      \* history: a field was ranked before its match started, while the
             \* client was there

clientVars == <<vars, chan, view, early>>

ClientErrors ==
  {"invalid player", "unsettable state", "invalid new state",
   "invalid in current state", "field already initialized", "duplicate player",
   "match already started"}

ClientTypeOK ==
  /\ \A i \in DOMAIN chan : chan[i] \in Event
  /\ view.state \in {"NONE", "LOBBY", "GAME_INIT", "GAME_READY", "GAME"}
  /\ DOMAIN view.players \subseteq PlIds
  /\ \A p \in DOMAIN view.players : view.players[p] \in PlayerStates \union {"QUIT"}
  /\ view.local \subseteq DOMAIN view.players
  /\ view.holds \subseteq DOMAIN view.players
  /\ view.started \in BOOLEAN
  /\ view.error \in ClientErrors \union {""}
  /\ early \in BOOLEAN

-----------------------------------------------------------------------------
Known(v) == DOMAIN v.players

\* A CallbackError: the client closes the connection.
Refuse(v, why) == [v EXCEPT !.error = why]

Move(v, from, to) ==
  [p \in Known(v) |-> IF v.players[p] = from THEN to ELSE v.players[p]]

(* processPktServerState and the stopMatch of the client.                  *)
OnState(v, st) ==
  CASE st = v.state -> v
    [] st # v.state /\ st = "GAME_INIT" ->
         IF v.started THEN Refuse(v, "match already started")
         ELSE [v EXCEPT !.state = st, !.players = Move(v, "LOBBY_READY", "GAME_INIT")]
    [] st # v.state /\ st = "GAME_READY" ->
         IF v.started THEN Refuse(v, "match already started")
         ELSE [v EXCEPT !.state = st, !.started = TRUE]
    [] st # v.state /\ st = "GAME" ->
         [v EXCEPT !.state = st, !.players = Move(v, "GAME_READY", "GAME")]
    [] st # v.state /\ st = "LOBBY" ->
         IF v.started THEN [v EXCEPT !.state = st, !.started = FALSE, !.holds = {}] ELSE v

\* Mutant: a move back to the lobby is refused during a match.
SettableInLobby(v, p, st) ==
  \/ st \in {"LOBBY", "LOBBY_READY"} /\ v.state = "LOBBY"
  \/ st = "GAME_READY" /\ v.state = "GAME_READY" /\ v.players[p] = "GAME_INIT"

SettableInView(v, p, st) ==
  \/ st = "LOBBY" /\ v.state \in {"LOBBY", "GAME"}
  \/ st = "LOBBY_READY" /\ v.state = "LOBBY"
  \/ st = "GAME_READY" /\ v.state = "GAME_READY" /\ v.players[p] = "GAME_INIT"

\* Mutant: the field of a player that quits is not given up.
OnPlayerStateKeepingField(v, p, st) ==
  IF st = "QUIT" /\ p \in Known(v) /\ v.players[p] # "QUIT"
  THEN [v EXCEPT !.players = Restricted(@, p), !.local = @ \ {p}]
  ELSE IF p \in Known(v) /\ SettableInView(v, p, st) THEN [v EXCEPT !.players[p] = st] ELSE v

(* processPktPlayerState                                                   *)
OnPlayerState(v, p, st) ==
  CASE p \notin Known(v) -> Refuse(v, "invalid player")
    [] p \in Known(v) /\ v.players[p] \in {"QUIT", st} -> v
    [] p \in Known(v) /\ v.players[p] \notin {"QUIT", st} ->
         CASE st = "QUIT" -> [v EXCEPT !.players = Restricted(@, p),
                                       !.local = @ \ {p}, !.holds = @ \ {p}]
           [] st \in {"GAME_INIT", "GAME"} -> Refuse(v, "unsettable state")
           [] OTHER -> IF SettableInView(v, p, st) THEN [v EXCEPT !.players[p] = st]
                       ELSE Refuse(v, "invalid new state")

(* createNewPlayer                                                         *)
Created(v, p) == [v EXCEPT !.players = With(@, p, "LOBBY")]

(* processPktPlayerConf: the event of a player unknown so far adds it.     *)
OnPlayerConf(v, p) == IF p \in Known(v) THEN v ELSE Created(v, p)

(* processNewPlayerResponse                                                *)
OnJoined(v, p) ==
  IF p \in Known(v) THEN Refuse(v, "duplicate player")
  ELSE [Created(v, p) EXCEPT !.local = @ \union {p}]

(* processPktPlayerField                                                   *)
OnField(v, p) ==
  CASE v.state # "GAME_INIT" -> Refuse(v, "invalid in current state")
    [] v.state = "GAME_INIT" /\ p \notin Known(v) -> Refuse(v, "invalid player")
    [] v.state = "GAME_INIT" /\ p \in v.holds -> Refuse(v, "field already initialized")
    [] OTHER -> [v EXCEPT !.holds = @ \union {p}]

(* processPktPlayerRank                                                    *)
OnRank(v, p) ==
  CASE v.state # "GAME" -> Refuse(v, "invalid in current state")
    [] v.state = "GAME" /\ p \notin v.holds -> Refuse(v, "invalid player")
    [] OTHER -> v

(* onServerEvent                                                           *)
On(v, e) ==
  CASE v.error # "" -> v
    [] v.error = "" /\ e.type = "STATE" -> OnState(v, e.state)
    [] v.error = "" /\ e.type = "PLAYER_STATE" -> OnPlayerState(v, e.plid, e.state)
    [] v.error = "" /\ e.type = "PLAYER_CONF" -> OnPlayerConf(v, e.plid)
    [] v.error = "" /\ e.type = "JOINED" -> OnJoined(v, e.plid)
    [] v.error = "" /\ e.type = "FIELD" -> OnField(v, e.plid)
    [] v.error = "" /\ e.type = "RANK" -> OnRank(v, e.plid)

-----------------------------------------------------------------------------
(* onServerConnect                                                         *)
NewView(st) ==
  [state |-> st, players |-> <<>>, local |-> {}, holds |-> {}, started |-> FALSE,
   error |-> ""]

ClientInit == Init /\ chan = <<>> /\ view = NewView("NONE") /\ early = FALSE

\* The events of the last handler that are for this client, in order.
Told(q, m) == IF Me \in m.to THEN Append(q, m.event) ELSE q
Mine(sent) == FoldLeft(Told, <<>>, sent)
ForMe == Mine(out')

(* The players the client has taken for gone.                              *)
Gone == {p \in view.local : view.players[p] = "QUIT"}

(* A command about a player of this client comes from a client that has    *)
(* it, and QUIT from one that has taken it for gone.                       *)
ServerRunning ==
  \/ \E x \in Peers : Connect(x) \/ Fail(x) \/ Close(x) \/ Join(x)
  \/ JoinLocal
  \/ \E p \in Players :
       \/ /\ peerOf[p] = Me => p \in view.local
          /\ \E st \in PlayerStates : ChangeState(p, st)
       \/ /\ peerOf[p] = Me => p \in view.local /\ view.players[p] = "QUIT"
          /\ Quit(p)
       \/ StepPlayer(p)

RankedEarly ==
  state = "GAME_READY" /\ \E i \in DOMAIN out' : out'[i].event.type = "RANK"

(* The server does one thing; player IDs are not used twice.  The client is *)
(* followed from its connection until the server or the client gives it up.*)
ServerStep ==
  /\ died = "" /\ ServerRunning
  /\ Players \union DOMAIN pstate' = Players \/ current' > current
  /\ CASE died' # "" \/ Me \notin Open' ->
            chan' = <<>> /\ view' = NewView("NONE") /\ early' = FALSE
       [] died' = "" /\ Me \in Open' \ Open ->
            chan' = ForMe /\ view' = NewView("LOBBY") /\ early' = FALSE
       [] died' = "" /\ Me \in Open' \intersect Open ->
            /\ chan' = IF view.error = "" THEN chan \o ForMe ELSE <<>>
            /\ view' = view
            /\ early' = (early \/ RankedEarly)
  /\ Len(chan') <= ChanMax

\* The server does nothing.
Idle ==
  /\ out' = <<>>
  /\ UNCHANGED <<state, pstate, peerOf, current, fields, lost, ranked, holds, started,
                 socks, closing, died>>

(* The client reads an event.                                              *)
Receive ==
  /\ chan # <<>> /\ view.error = ""
  /\ view' = On(view, Head(chan))
  /\ chan' = Tail(chan)
  /\ UNCHANGED early
  /\ Idle

(* ClientInstance::playerSetState with QUIT.                               *)
ClientQuit ==
  /\ view.error = ""
  /\ \E p \in view.local \ Gone : view' = [view EXCEPT !.players[p] = "QUIT"]
  /\ UNCHANGED <<chan, early>>
  /\ Idle

ClientNext ==
  \/ ServerStep
  \/ Receive
  \/ ClientQuit
  \/ died # "" /\ UNCHANGED clientVars

ClientSpec == ClientInit /\ [][ClientNext]_clientVars

-----------------------------------------------------------------------------
(* What the client will be once it has read everything sent to it.         *)
Ahead == FoldLeft(On, view, chan)

Followed == died = "" /\ Me \in Open

(* Whatever is in flight, a client that reads it ends up with the state of *)
(* the server, the same players in the same states and the same owners of  *)
(* fields, although implicit changes are not sent and its view of a match  *)
(* begins and ends at other moments; but for players it has itself taken   *)
(* for gone.                                                               *)
ViewConverges ==
  Followed /\ Ahead.error = "" =>
    /\ Ahead.state = state
    /\ Known(Ahead) \ Gone = Players \ Gone
    /\ \A p \in Players \ Gone : Ahead.players[p] = pstate[p]
    /\ Ahead.holds \ Gone = holds \ Gone
    /\ \A p \in Ahead.local \ Gone : peerOf[p] = Me

(* The client accepts everything the server sends, in whatever order the   *)
(* players act: no event about a player it does not know, no change it     *)
(* holds invalid, no field or rank outside of a match.  There are two      *)
(* exceptions: the state of a player described to a newcomer, GAME for one *)
(* that has not left a finished match (netplay.proto calls it "not needed  *)
(* in protocol"), and the rank of a field found dead before the match has  *)
(* started, when a player leaves and nobody has set lost_ yet.             *)
EventsAccepted ==
  Followed =>
    \/ Ahead.error \in {"", "unsettable state"}
    \/ early /\ Ahead.error = "invalid in current state"

=============================================================================
