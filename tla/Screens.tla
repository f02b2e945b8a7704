------------------------------ MODULE Screens ------------------------------
(***************************************************************************)
(* The screens of the graphical interface (gui/interface.cpp,              *)
(* gui/screen_menus.cpp, gui/screen_game.cpp), the instance they start and *)
(* stop, the connection of a client (ClientSocket) and the scheduler that  *)
(* steps the local players (GameInputScheduler).                           *)
(*                                                                         *)
(* One process is modelled: it runs a server, whose handlers call the      *)
(* screens at once, or a client, which copies a distant server (dist) from *)
(* events that arrive later.  Fields are reduced to who has one and who    *)
(* has not lost; nicknames and chat are in Settings.tla, the events that a *)
(* client refuses in ClientView.tla.  Of the inputs sent to the distant    *)
(* server only those of players that are gone there matter here.  Handlers *)
(* run one at a time: the process has one thread.                          *)
(***************************************************************************)
EXTENDS Naturals, SequencesExt

CONSTANTS
  Keyboards,  \* inputMappings().keyboard, by rank
  Joysticks,  \* joysticks, each with the first joystick mapping
  NoMapping,  \* InputType::NONE
  Debug,      \* Global.Debug in the configuration file
  PlNbMax,    \* ServerConf::pl_nb_max
  PlIdMax,    \* bound on the players that ever join an instance
  MatchMax,   \* bound on the matches of an instance
  FlightMax   \* bound on the packets on their way when somebody acts

ASSUME MappingsAssumption ==
  /\ Keyboards = 1..Cardinality(Keyboards) /\ Keyboards # {}
  /\ Keyboards \intersect Joysticks = {} /\ NoMapping \notin Keyboards \union Joysticks
ASSUME BoundsAssumption == Debug \in BOOLEAN /\ PlNbMax \in 2..PlIdMax - 1

VARIABLES
  gui,     \* the current screen and what it keeps
  inst,    \* instance_: the server or the client, a copy of the distant server
  net,     \* the connection of the client
  dist,    \* the distant server
  failure  \* how the program failed: an exception, an object that was freed, a frame
           \* that is not there, or an assertion, named for what it is about: the
           \* "instance", the address "submitting", a "mapping", a player's "conf"

vars == <<gui, inst, net, dist, failure>>

PlIds == 1..PlIdMax
Mappings == Keyboards \union Joysticks
States == {"QUIT", "LOBBY", "LOBBY_READY", "GAME_INIT", "GAME_READY", "GAME"}
Matching == {"LOBBY", "GAME_INIT", "GAME_READY", "GAME"}

Ring == (IF Debug THEN <<"DebugStart">> ELSE <<>>) \o <<"Join", "Create", "Exit">>

(* A screen just entered; timers of the former one find nobody to step.    *)
Fresh(screen) ==
  [screen |-> screen, focus |-> Ring[1], submitting |-> NoMapping, frames |-> <<>>,
   maps |-> <<>>, sched |-> {}, armed |-> FALSE, queued |-> FALSE]

NoInstance ==
  [kind |-> "none", state |-> "NONE", players |-> <<>>, fields |-> {}, alive |-> {},
   match |-> 0, last |-> 0, shared |-> FALSE]

Server == [NoInstance EXCEPT !.kind = "server", !.state = "LOBBY"]

(* The program starts, and every connection that ends leads, there.        *)
StartAgain == Fresh("Start")

Offline == [conn |-> "none", up |-> <<>>, down |-> <<>>, closed |-> FALSE, refused |-> FALSE]

(* The connection is closed; its timer and abandoned attempts stay.  The   *)
(* distant server is forgotten then: the next one may be another.          *)
Closed(n) == Offline @@ n

Init ==
  /\ gui = StartAgain
  /\ inst = NoInstance
  /\ net = Offline @@ [timer |-> "off", abandoned |-> FALSE]
  /\ dist = Server
  /\ failure = "none"

Fails(why) == failure' = why /\ UNCHANGED <<gui, inst, net, dist>>

-----------------------------------------------------------------------------
(* Players and matches, on a server and on its copies.                     *)

With(f, p, value) == (p :> value) @@ f
Without(f, p) == [q \in DOMAIN f \ {p} |-> f[q]]

In(i, state) == {p \in DOMAIN i.players : i.players[p].state = state}
Locals(i) == {p \in DOMAIN i.players : i.players[p].local}

(* Everybody found in a state moves to another.                            *)
Move(i, who, to) ==
  [i EXCEPT !.players = [p \in DOMAIN @ |->
                           IF p \in who THEN [@[p] EXCEPT !.state = to] ELSE @[p]]]

NewPlayer(i, local) ==
  [i EXCEPT !.last = @ + 1,
            !.players = With(@, i.last + 1, [local |-> local, state |-> "LOBBY"])]

GameInit(i) ==
  [Move(i, In(i, "LOBBY_READY"), "GAME_INIT")
     EXCEPT !.state = "GAME_INIT", !.match = @ + 1, !.fields = {}]

SetFields(i, who) == [i EXCEPT !.fields = @ \union who, !.alive = @ \union who]

GameReady(i) == [i EXCEPT !.state = "GAME_READY"]

(* A server makes a field for everybody it takes into the match.           *)
PrepareMatch(i) ==
  LET j == GameInit(i) IN GameReady(SetFields(j, In(j, "GAME_INIT")))

GameStarts(i) == [Move(i, In(i, "GAME_READY"), "GAME") EXCEPT !.state = "GAME"]

StopMatch(i) == [i EXCEPT !.state = "LOBBY", !.fields = {}, !.alive = {}]

CheckAllPlayersReady(i) ==
  CASE i.state = "LOBBY" /\ Cardinality(In(i, "LOBBY_READY")) = PlNbMax ->
         PrepareMatch(i)
    [] i.state = "GAME_READY" /\ In(i, "GAME_INIT") = {} -> GameStarts(i)
    [] OTHER -> i

(* States a server accepts from a player.                                  *)
Settable(i, p, state) ==
  CASE state = "LOBBY" -> i.state \in {"LOBBY", "GAME"}
    [] state = "LOBBY_READY" -> i.state = "LOBBY"
    [] state = "GAME_READY" -> i.state = "GAME_READY" /\ i.players[p].state = "GAME_INIT"
    [] OTHER -> FALSE

RemovePlayer(i, p) ==
  [i EXCEPT !.players = Without(@, p), !.fields = @ \ {p}, !.alive = @ \ {p}]

(* One more match may be prepared (bound).                                 *)
MatchLeft(i) == i.match < MatchMax

-----------------------------------------------------------------------------
(* The screens as observers of the instance.                               *)

FrameMaps(g) == {g.frames[p].map : p \in DOMAIN g.frames}

(* Mutants of GetUnusedInputMapping: the mapping of the first keyboard for  *)
(* everybody; one rank more for each frame.                                *)
FirstMapping(g, device) ==
  IF device \in Joysticks THEN device ELSE CHOOSE m \in Keyboards : \A n \in Keyboards : m <= n
NextMapping(g, device) ==
  IF device \in Joysticks THEN device ELSE Cardinality(DOMAIN g.frames) + 1

(* The mapping given to who presses a key of the keyboard or a button of a *)
(* joystick.                                                               *)
GetUnusedInputMapping(g, device) ==
  LET free == Keyboards \ FrameMaps(g) IN
  CASE device \in Joysticks -> IF device \in FrameMaps(g) THEN NoMapping ELSE device
    [] free = {} -> NoMapping
    [] OTHER -> CHOOSE m \in free : \A n \in free : m <= n

(* A frame starts on the choice of a configuration.                        *)
NewFrame(local, map) == [local |-> local, map |-> map, focus |-> TRUE]

AddFrame(g, p, local, map) == [g EXCEPT !.frames = @ @@ (p :> NewFrame(local, map))]

EraseFrame(g, p) == [g EXCEPT !.frames = Without(@, p)]

(* Mutant of LobbyOf: remote players only get a frame when they join.       *)
LobbyOfLocals(i, maps) ==
  [Fresh("Lobby") EXCEPT !.frames =
     [p \in Locals(i) \intersect DOMAIN maps |-> NewFrame(TRUE, maps[p])]]

(* The lobby is entered with a frame for each local player given a mapping *)
(* and one for each remote player.                                         *)
LobbyOf(i, maps) ==
  [Fresh("Lobby") EXCEPT !.frames =
     [p \in {q \in DOMAIN i.players : i.players[q].local => q \in DOMAIN maps} |->
        NewFrame(i.players[p].local, IF i.players[p].local THEN maps[p] ELSE NoMapping)]]


LobbyOnStateChange(g, i) ==
  IF i.state # "GAME_INIT" THEN g
  ELSE [Fresh("Game") EXCEPT !.maps =
          [p \in {q \in DOMAIN g.frames : g.frames[q].local} |-> g.frames[p].map]]


(* Displays of fields are left out.                                        *)
GameOnStateChange(g, i) ==
  CASE i.state = "LOBBY" -> [g EXCEPT !.sched = {}, !.armed = FALSE]
    [] i.state = "GAME" -> [g EXCEPT !.sched = Locals(i) \intersect i.fields, !.armed = TRUE]
    [] OTHER -> g

OnStateChange(g, i) ==
  CASE g.screen = "Lobby" -> LobbyOnStateChange(g, i)
    [] g.screen = "Game" -> GameOnStateChange(g, i)
    [] OTHER -> g

(* Local players are ready as soon as the game screen shows the fields.    *)
Entrants(g, i) == IF g.screen = "Game" THEN Locals(i) \intersect In(i, "GAME_INIT") ELSE {}

(* What the screens see when the server goes from i to j.                  *)
Follow(g, i, j) ==
  LET prepared ==
        OnStateChange(OnStateChange(g, [j EXCEPT !.state = "GAME_INIT"]),
                      [j EXCEPT !.state = "GAME_READY"])
      now == IF j.match # i.match THEN prepared ELSE g IN
  IF j.state # i.state /\ j.state \in {"LOBBY", "GAME"} THEN OnStateChange(now, j) ELSE now

(* The server of this process: its local players answer within the call.   *)
Checked(g, i) ==
  LET j == CheckAllPlayersReady(i)
      shown == Follow(g, i, j) IN
  IF j.match = i.match THEN j
  ELSE CheckAllPlayersReady(Move(j, Entrants(shown, j), "GAME_READY"))

ServerGoes(g, i) ==
  LET j == Checked(g, i) IN
  /\ gui' = Follow(g, i, j)
  /\ inst' = j

-----------------------------------------------------------------------------
(* The start screen.  Nothing is started while an attempt to connect that  *)
(* was given up is pending (bound): see OnAbandonedConnect.                *)

Focus(button) == gui' = [gui EXCEPT !.focus = button]

MoveFocus ==
  /\ gui.screen = "Start"
  /\ \E k \in DOMAIN Ring, d \in {1, Len(Ring) - 1} :
       gui.focus = Ring[k] /\ Focus(Ring[((k + d - 1) % Len(Ring)) + 1])
  /\ UNCHANGED <<inst, net, dist, failure>>

(* The screen that a button opens.                                         *)
Opened(button) == Fresh(IF button = "Exit" THEN "Ended" ELSE button)

PressButton ==
  /\ gui.screen = "Start" /\ gui.focus \in {"Join", "Create", "Exit"}
  /\ gui' = Opened(gui.focus)
  /\ UNCHANGED <<inst, net, dist, failure>>

StartCancel ==
  /\ gui.screen = "Start"
  /\ IF gui.focus = "Exit" THEN gui' = Fresh("Ended") ELSE Focus("Exit")
  /\ UNCHANGED <<inst, net, dist, failure>>

(* A server, two players with the same mapping, both ready.                *)
OnDebugStart ==
  /\ gui.screen = "Start" /\ gui.focus = "DebugStart" /\ ~net.abandoned
  /\ LET two == NewPlayer(NewPlayer([Server EXCEPT !.shared = TRUE], TRUE), TRUE)
         game == [Fresh("Game") EXCEPT !.maps = [p \in 1..2 |-> 1]] IN
     IF inst.kind # "none" THEN Fails("instance")
     ELSE ServerGoes(game, Move(two, {1, 2}, "LOBBY_READY")) /\ UNCHANGED <<net, dist, failure>>

-----------------------------------------------------------------------------
(* A server is created.                                                    *)

CreateCancel ==
  /\ gui.screen = "Create"
  /\ gui' = Fresh("Start")
  /\ UNCHANGED <<inst, net, dist, failure>>

CreateSubmit(device) ==
  /\ gui.screen = "Create" /\ ~net.abandoned
  /\ LET i == NewPlayer(Server, TRUE)
         map == GetUnusedInputMapping(Fresh("Lobby"), device) IN
     CASE inst.kind # "none" -> Fails("instance")
       [] inst.kind = "none" /\ map = NoMapping -> Fails("mapping")
       [] OTHER ->
          /\ gui' = LobbyOf(i, 1 :> map)
          /\ inst' = i
          /\ UNCHANGED <<net, dist, failure>>

(* The port is not free or the configuration is not valid.                 *)
CreateFails == gui.screen = "Create" /\ Fails("exception")

-----------------------------------------------------------------------------
(* A server is joined.                                                     *)

(* submitting_event_: inputs are ignored while it is kept.                 *)
Submitting == gui.submitting # NoMapping

JoinCancel ==
  /\ gui.screen = "Join" /\ ~Submitting
  /\ gui' = Fresh("Start")
  /\ UNCHANGED <<inst, net, dist, failure>>

StartClient ==
  /\ inst' = [NoInstance EXCEPT !.kind = "client"]
  /\ net' = [net EXCEPT !.conn = "connecting", !.timer = "armed"]

JoinSubmit(device) ==
  /\ gui.screen = "Join" /\ ~Submitting
  /\ net.timer = "off" /\ ~net.abandoned
  /\ IF inst.kind # "none" THEN Fails("instance")
     ELSE /\ gui' = [gui EXCEPT !.submitting = device]
          /\ StartClient
          /\ UNCHANGED <<dist, failure>>

(* The name of the server is not found.                                    *)
JoinFails == gui.screen = "Join" /\ ~Submitting /\ Fails("exception")

(* What a server in the lobby sends to who connects: its players.          *)
Welcome(s) ==
  FlattenSeq([p \in 1..s.last |-> <<<<"player", p>>, <<"state", p, s.players[p].state>>>>])

(* A distant server in its lobby, with some players.                       *)
Crowd(n) ==
  [Server EXCEPT !.last = n, !.players = [p \in 1..n |-> [local |-> FALSE, state |-> "LOBBY"]]]

(* The connection is accepted and the first player asks to join; the       *)
(* server may be full or in a match, and closes it.                        *)
OnConnect ==
  /\ net.conn = "connecting"
  /\ IF ~Submitting THEN Fails("submitting")
     ELSE \E s \in {Crowd(n) : n \in 0..PlNbMax - 1}, accepted \in BOOLEAN :
            /\ dist' = s
            /\ net' = [net EXCEPT !.conn = "up", !.timer = IF @ = "armed" THEN "off" ELSE @,
                                  !.up = IF accepted THEN <<<<"join", NoMapping, 0>>>> ELSE <<>>,
                                  !.down = IF accepted THEN Welcome(s) ELSE <<>>,
                                  !.closed = ~accepted]
            /\ inst' = [inst EXCEPT !.state = "LOBBY"]
            /\ UNCHANGED <<gui, failure>>

NotConnected ==
  /\ gui' = [gui EXCEPT !.submitting = NoMapping]
  /\ inst' = NoInstance
  /\ UNCHANGED <<dist, failure>>

OnConnectError ==
  /\ net.conn = "connecting"
  /\ net' = [Closed(net) EXCEPT !.timer = IF @ = "armed" THEN "off" ELSE @]
  /\ NotConnected

TimeIsOut ==
  /\ net.timer = "armed"
  /\ net' = [net EXCEPT !.timer = "queued"]
  /\ UNCHANGED <<gui, inst, dist, failure>>

(* Mutant of Disconnected: an address already submitted stays so.           *)
DisconnectedUnheard == IF gui.screen = "Join" THEN gui ELSE Fresh("Start")

(* The screens hear that the server is gone.                               *)
Disconnected == IF gui.screen = "Join" THEN [gui EXCEPT !.submitting = NoMapping] ELSE StartAgain

(* The attempt is given up, but not stopped: the socket still refers to    *)
(* the instance that is freed here.  A connection that was made meanwhile  *)
(* is closed, which ends the submission, and then reported as failed to a  *)
(* screen that asserts it is submitting.                                   *)
OnTimeout ==
  /\ net.timer = "queued"
  /\ CASE net.conn = "connecting" ->
            /\ net' = [Closed(net) EXCEPT !.timer = "off", !.abandoned = TRUE]
            /\ NotConnected
       [] net.conn = "up" -> Fails("submitting")
       [] net.conn = "none" -> Fails("freed")

(* The attempt that was given up completes, either way.                    *)
OnAbandonedConnect == net.abandoned /\ Fails("freed")

StopInstance == inst' = NoInstance /\ net' = Closed(net) /\ dist' = Server

(* The end of the connection is read, once all that was sent before is.    *)
OnServerDisconnect ==
  /\ net.conn = "up" /\ net.closed /\ net.down = <<>> /\ net.timer = "off"
  /\ gui' = Disconnected
  /\ StopInstance
  /\ UNCHANGED failure

(* The connection breaks.                                                  *)
ConnectionLost ==
  /\ net.conn = "up" /\ ~net.closed
  /\ net' = [net EXCEPT !.closed = TRUE, !.up = <<>>, !.down = <<>>]
  /\ UNCHANGED <<gui, inst, dist, failure>>

-----------------------------------------------------------------------------
(* The distant server.                                                     *)

StateEvents(i, j) ==
  CASE j.match # i.match ->
         LET who == SetToSeq(j.fields) IN
         <<<<"server", "GAME_INIT">>>> \o [k \in DOMAIN who |-> <<"field", who[k]>>]
           \o <<<<"server", "GAME_READY">>>>
    [] j.state # i.state -> <<<<"server", j.state>>>>
    [] OTHER -> <<>>

(* It goes to a state and tells it, after the events of the change itself. *)
DistantGoes(n, i, events) ==
  LET j == CheckAllPlayersReady(i) IN
  /\ dist' = j
  /\ net' = [n EXCEPT !.down = @ \o events \o StateEvents(i, j)]
  /\ UNCHANGED <<gui, inst, failure>>

ThrowOut ==
  /\ net' = [net EXCEPT !.up = <<>>, !.closed = TRUE]
  /\ UNCHANGED <<gui, inst, dist, failure>>

DistantReads ==
  /\ net.conn = "up" /\ ~net.closed /\ net.up # <<>>
  /\ LET cmd == Head(net.up)
         n == [net EXCEPT !.up = Tail(@)]
         next == dist.last + 1 IN
     \/ /\ cmd[1] = "join" /\ dist.state # "LOBBY"
        /\ ThrowOut
     \/ /\ cmd[1] = "join" /\ dist.state = "LOBBY"
        /\ IF Cardinality(DOMAIN dist.players) > PlNbMax
           THEN DistantGoes(n, dist, <<<<"refused">>>>)
           ELSE /\ dist.last < PlIdMax
                /\ DistantGoes(n, NewPlayer(dist, TRUE), <<<<"joined", next, cmd[2], cmd[3]>>>>)
     \/ /\ cmd[1] = "input"
        /\ IF dist.state = "GAME" /\ cmd[2] \notin DOMAIN dist.players
           THEN ThrowOut ELSE DistantGoes(n, dist, <<>>)
     \/ /\ cmd[1] \in {"state", "conf"}
        /\ LET p == cmd[2] IN
           IF p \notin DOMAIN dist.players \/ (cmd[1] = "conf" /\ dist.players[p].state # "LOBBY")
           THEN ThrowOut
           ELSE CASE cmd[1] = "conf" -> DistantGoes(n, dist, <<cmd>>)
                  [] cmd[1] = "state" /\ cmd[3] = "QUIT" ->
                       DistantGoes(n, RemovePlayer(dist, p), <<cmd>>)
                  [] cmd[1] = "state" /\ cmd[3] # "QUIT" ->
                       IF dist.players[p].state # cmd[3] /\ Settable(dist, p, cmd[3])
                       THEN DistantGoes(n, Move(dist, {p}, cmd[3]), <<cmd>>)
                       ELSE DistantGoes(n, dist, <<>>)

(* The last player number is kept for who asks to join (bound), unless it  *)
(* makes the server full.                                                  *)
Reserved ==
  /\ Locals(dist) = {} /\ dist.last + 1 >= PlIdMax
  /\ Cardinality(DOMAIN dist.players) # PlNbMax

(* Somebody acts while few packets are on their way (bound).               *)
Room(n) == Len(net.up) + Len(net.down) + n <= FlightMax

OthersAct == net.conn = "up" /\ ~net.closed /\ Room(1)

Others(i) == DOMAIN i.players \ Locals(i)

DistantJoin ==
  /\ OthersAct /\ dist.state = "LOBBY"
  /\ dist.last < PlIdMax /\ ~Reserved
  /\ Cardinality(DOMAIN dist.players) <= PlNbMax
  /\ DistantGoes(net, NewPlayer(dist, FALSE), <<<<"player", dist.last + 1>>>>)

DistantSetState ==
  /\ OthersAct
  /\ \E p \in Others(dist), state \in {"LOBBY", "LOBBY_READY", "GAME_READY"} :
       /\ state # dist.players[p].state /\ Settable(dist, p, state)
       /\ state = "LOBBY_READY" => MatchLeft(dist)
       /\ DistantGoes(net, Move(dist, {p}, state), <<<<"state", p, state>>>>)

DistantQuit ==
  /\ OthersAct /\ dist.state = "LOBBY"
  /\ Locals(dist) # {} \/ dist.last < PlIdMax
  /\ \E p \in Others(dist) : DistantGoes(net, RemovePlayer(dist, p), <<<<"state", p, "QUIT">>>>)

DistantMatchEnds ==
  /\ OthersAct /\ dist.state = "GAME"
  /\ DistantGoes(net, StopMatch(dist), <<<<"server", "LOBBY">>>>)

-----------------------------------------------------------------------------
(* The client reads an event or a response; a timer that expired before is *)
(* served first.                                                           *)

Reads(kind) ==
  /\ net.conn = "up" /\ net.timer = "off"
  /\ net.down # <<>> /\ Head(net.down)[1] = kind
  /\ UNCHANGED <<dist>>

Rest(n) == [n EXCEPT !.down = Tail(@)]

OnServerState ==
  /\ Reads("server")
  /\ LET state == Head(net.down)[2]
         i == CASE state = "GAME_INIT" -> GameInit(inst)
                [] state = "GAME_READY" -> GameReady(inst)
                [] state = "GAME" -> GameStarts(inst)
                [] state = "LOBBY" -> StopMatch(inst)
         g == OnStateChange(gui, i)
         ready == IF state = "GAME_READY" THEN SetToSeq(Entrants(g, i)) ELSE <<>> IN
     /\ gui' = g
     /\ inst' = i
     /\ net' = [Rest(net) EXCEPT !.up = @ \o [k \in DOMAIN ready |->
                                                <<"state", ready[k], "GAME_READY">>]]
  /\ UNCHANGED failure

(* Everybody named gets a field, whatever state the copy knows it in.      *)
OnPlayerField ==
  /\ Reads("field")
  /\ inst' = SetFields(inst, {Head(net.down)[2]})
  /\ net' = Rest(net)
  /\ UNCHANGED <<gui, failure>>

OnPlayerJoined ==
  /\ Reads("player")
  /\ LET p == Head(net.down)[2] IN
     /\ inst' = [inst EXCEPT !.players = With(@, p, [local |-> FALSE, state |-> "LOBBY"])]
     /\ gui' = IF gui.screen = "Lobby" THEN AddFrame(gui, p, FALSE, NoMapping) ELSE gui
  /\ net' = Rest(net)
  /\ UNCHANGED failure

(* The lobby is told of a change of a player it has no frame of.           *)
NoFrame(p) == gui.screen = "Lobby" /\ p \notin DOMAIN gui.frames

(* The change of a player that has left is read before the player is gone. *)
OnPlayerChangeFieldConf ==
  /\ Reads("conf")
  /\ IF NoFrame(Head(net.down)[2])
     THEN Fails("noframe")
     ELSE net' = Rest(net) /\ UNCHANGED <<gui, inst, failure>>

(* A player that this client has made quit stays in its copy for ever.     *)
OnPlayerState ==
  /\ Reads("state")
  /\ LET p == Head(net.down)[2]
         state == Head(net.down)[3]
         known == inst.players[p].state IN
     CASE known = "QUIT" \/ known = state ->
            net' = Rest(net) /\ UNCHANGED <<gui, inst, failure>>
       [] known # "QUIT" /\ state = "QUIT" ->
            /\ inst' = RemovePlayer(inst, p)
            /\ gui' = IF gui.screen = "Lobby" THEN EraseFrame(gui, p) ELSE gui
            /\ net' = Rest(net) /\ UNCHANGED failure
       [] NoFrame(p) -> Fails("noframe")
       [] OTHER ->
            /\ inst' = Move(inst, {p}, state)
            /\ net' = Rest(net) /\ UNCHANGED <<gui, failure>>

(* The first player opens the lobby, with the mapping of the device that   *)
(* submitted; the others had one when they asked.  Each match replaces the *)
(* lobby: an answer to a former one reaches a screen that was freed.       *)
OnNewPlayer ==
  /\ Reads("joined")
  /\ LET p == Head(net.down)[2]
         i == [inst EXCEPT !.players = With(@, p, [local |-> TRUE, state |-> "LOBBY"])]
         first == gui.screen = "Join"
         map == IF first THEN GetUnusedInputMapping(Fresh("Lobby"), gui.submitting)
                ELSE Head(net.down)[3] IN
     CASE first /\ ~Submitting -> Fails("submitting")
       [] ~first /\ Head(net.down)[4] # inst.match -> Fails("freed")
       [] (first => Submitting) /\ (~first => Head(net.down)[4] = inst.match)
            /\ map = NoMapping -> Fails("mapping")
       [] OTHER ->
          /\ inst' = i
          /\ gui' = IF first THEN LobbyOf(i, p :> map) ELSE AddFrame(gui, p, TRUE, map)
          /\ net' = Rest(net)
          /\ UNCHANGED failure

(* A refusal is dropped: the first player waits for ever.                  *)
OnRefused ==
  /\ Reads("refused")
  /\ net' = [Rest(net) EXCEPT !.refused = TRUE]
  /\ UNCHANGED <<gui, inst, failure>>

-----------------------------------------------------------------------------
(* The lobby.                                                              *)

Send(cmd) == net' = [net EXCEPT !.up = Append(@, cmd)]

(* The frame that an input reaches: the first with its mapping.            *)
Reached(m) ==
  {p \in DOMAIN gui.frames : /\ gui.frames[p].local /\ gui.frames[p].map = m
                             /\ \A q \in DOMAIN gui.frames : gui.frames[q].map = m => p <= q}

(* GameInstance::playerSetState by a screen, seen as g, to another state.   *)
PlayerSetState(g, p, state) ==
  /\ IF inst.kind = "server"
     THEN ServerGoes(g, Move(inst, {p}, state)) /\ UNCHANGED net
     ELSE Room(1) /\ Send(<<"state", p, state>>) /\ gui' = g /\ UNCHANGED inst
  /\ UNCHANGED <<dist, failure>>

FrameConfirm(m) ==
  /\ gui.screen = "Lobby"
  /\ MatchLeft(inst)
  /\ \E p \in Reached(m) :
       /\ inst.players[p].state # "LOBBY_READY"
       /\ PlayerSetState([gui EXCEPT !.frames[p].focus = FALSE], p, "LOBBY_READY")

(* Not ready any more, or out: a client goes by the state it has been told. *)
FrameUnready(m) ==
  /\ gui.screen = "Lobby"
  /\ \E p \in Reached(m) :
       /\ inst.players[p].state = "LOBBY_READY"
       /\ PlayerSetState([gui EXCEPT !.frames[p].focus = TRUE], p, "LOBBY")

FrameQuit(m) ==
  /\ gui.screen = "Lobby"
  /\ \E p \in Reached(m) :
       /\ inst.players[p].state # "LOBBY_READY"
       /\ IF inst.kind = "server"
          THEN ServerGoes(EraseFrame(gui, p), RemovePlayer(inst, p)) /\ UNCHANGED net
          ELSE /\ Room(1) /\ Send(<<"state", p, "QUIT">>)
               /\ inst' = Move(inst, {p}, "QUIT")
               /\ gui' = EraseFrame(gui, p)
  /\ UNCHANGED <<dist, failure>>

(* A client asserts that who chooses is in the lobby.                      *)
OnConfChange(m) ==
  /\ gui.screen = "Lobby" /\ inst.kind = "client"
  /\ \E p \in Reached(m) :
       /\ gui.frames[p].focus
       /\ IF inst.players[p].state # "LOBBY" THEN Fails("conf")
          ELSE Room(1) /\ Send(<<"conf", p>>) /\ UNCHANGED <<gui, inst, dist, failure>>

(* A player asked for, with the mapping it was given, is still awaited.     *)
Joining == \E e \in ToSet(net.up) \union ToSet(net.down) : e[1] \in {"join", "joined"}

OnMappingChange(m) ==
  /\ gui.screen = "Lobby" /\ m \in Keyboards
  /\ \E p \in Reached(m), new \in Keyboards \ FrameMaps(gui) :
       gui.frames[p].focus /\ gui' = [gui EXCEPT !.frames[p].map = new]
  /\ inst' = [inst EXCEPT !.shared = @ \/ Joining]
  /\ UNCHANGED <<net, dist, failure>>

(* Another local player; a client gets it later, with the mapping that was *)
(* free when it asked.                                                     *)
LobbyConfirm(device) ==
  /\ gui.screen = "Lobby"
  /\ LET map == GetUnusedInputMapping(gui, device) IN
     /\ map # NoMapping
     /\ IF inst.kind = "server"
        THEN /\ Cardinality(DOMAIN inst.players) < PlNbMax /\ inst.last < PlIdMax
             /\ ServerGoes(AddFrame(gui, inst.last + 1, TRUE, map), NewPlayer(inst, TRUE))
             /\ UNCHANGED net
        ELSE /\ Room(1) /\ Send(<<"join", map, inst.match>>)
             /\ inst' = [inst EXCEPT !.shared = @ \/ Joining]
             /\ UNCHANGED gui
  /\ UNCHANGED <<dist, failure>>

(* Back to the start, which stops the instance.                            *)
Leave ==
  /\ gui.screen \in {"Lobby", "Game"}
  /\ gui' = Fresh("Start")
  /\ StopInstance
  /\ UNCHANGED failure

-----------------------------------------------------------------------------
(* Remote players of the server of this process.                           *)

RemoteJoin ==
  /\ inst.kind = "server" /\ inst.state = "LOBBY" /\ inst.last < PlIdMax
  /\ Cardinality(DOMAIN inst.players) <= PlNbMax
  /\ inst' = NewPlayer(inst, FALSE)
  /\ gui' = IF gui.screen = "Lobby" THEN AddFrame(gui, inst.last + 1, FALSE, NoMapping) ELSE gui
  /\ UNCHANGED <<net, dist, failure>>

RemoteSetState ==
  /\ inst.kind = "server"
  /\ \E p \in Others(inst), state \in {"LOBBY", "LOBBY_READY", "GAME_READY"} :
       /\ state # inst.players[p].state /\ Settable(inst, p, state)
       /\ state = "LOBBY_READY" => MatchLeft(inst)
       /\ ServerGoes(gui, Move(inst, {p}, state))
  /\ UNCHANGED <<net, dist, failure>>

(* The match may end when at most one field is not lost.                   *)
AfterLoss(i) == {i} \union (IF Cardinality(i.alive) <= 1 THEN {StopMatch(i)} ELSE {})

(* A remote player quits or is disconnected.  Who leaves a match that is   *)
(* being prepared is in Server.tla.                                        *)
RemoteQuit ==
  /\ inst.kind = "server" /\ inst.state \in {"LOBBY", "GAME"}
  /\ \E p \in Others(inst) :
       LET g == IF gui.screen = "Lobby" THEN EraseFrame(gui, p) ELSE gui IN
       \E i \in IF p \in inst.fields THEN AfterLoss(RemovePlayer(inst, p))
                ELSE {RemovePlayer(inst, p)} :
         ServerGoes(IF i.state # inst.state THEN OnStateChange(g, i) ELSE g, i)
  /\ UNCHANGED <<net, dist, failure>>

(* The input of a remote player, which may lose or end the match.          *)
RemoteInput ==
  /\ inst.kind = "server" /\ inst.state = "GAME"
  /\ \E p \in Others(inst) \intersect inst.alive :
       \E i \in {inst} \union AfterLoss([inst EXCEPT !.alive = @ \ {p}]) :
         /\ inst' = i
         /\ gui' = IF i.state # inst.state THEN OnStateChange(gui, i) ELSE gui
  /\ UNCHANGED <<net, dist, failure>>

-----------------------------------------------------------------------------
(* The game screen and its scheduler.                                      *)

InputTimer ==
  /\ gui.armed /\ ~gui.queued
  /\ gui' = [gui EXCEPT !.armed = FALSE, !.queued = TRUE]
  /\ UNCHANGED <<inst, net, dist, failure>>

(* The players who step before the window is full, in order.               *)
Steppers == {s \in SUBSET gui.sched : \A p \in s, q \in gui.sched \ s : p < q}

(* The inputs that a client sends for players it has made quit (one at a   *)
(* time is kept: bound).                                                   *)
GhostInputs(stepped) ==
  {p \in stepped : inst.players[p].state = "QUIT" /\ ~net.closed
                   /\ \A cmd \in ToSet(net.up) : cmd[1] # "input"}

(* The local players step, those with a field that this client has made    *)
(* quit too.  Who loses is not stepped again; the end of the match stops   *)
(* the scheduler from within the loop.                                     *)
OnInputTick ==
  /\ gui.queued
  /\ \E stepped \in Steppers, lost \in SUBSET inst.alive :
       LET i == [inst EXCEPT !.alive = @ \ lost] IN
       /\ lost \subseteq stepped
       /\ \/ /\ inst' = i
             /\ gui' = [gui EXCEPT !.queued = FALSE, !.sched = @ \ lost,
                                   !.armed = @ \/ gui.sched \ lost # {}]
          \/ /\ inst.kind = "server" /\ stepped # {} /\ Cardinality(i.alive) <= 1
             /\ inst' = StopMatch(i)
             /\ gui' = [OnStateChange(gui, StopMatch(i)) EXCEPT !.queued = FALSE]
       /\ LET ghosts == SetToSeq(GhostInputs(stepped)) IN
          net' = [net EXCEPT !.up = @ \o [k \in DOMAIN ghosts |-> <<"input", ghosts[k]>>]]
  /\ UNCHANGED <<dist, failure>>

(* Local players go back to the lobby with their mappings.                 *)
GameConfirm ==
  /\ gui.screen = "Game" /\ inst.state = "LOBBY"
  /\ LET back == {p \in Locals(inst) : inst.players[p].state # "LOBBY"}
         told == SetToSeq(back)
         unmapped == Locals(inst) \ DOMAIN gui.maps IN
     IF unmapped # {} THEN Fails("mapping")
     ELSE /\ gui' = LobbyOf(inst, gui.maps)
          /\ IF inst.kind = "server"
             THEN inst' = Move(inst, back, "LOBBY") /\ UNCHANGED net
             ELSE /\ Room(Cardinality(back))
                  /\ net' = [net EXCEPT !.up = @ \o [k \in DOMAIN told |->
                                                       <<"state", told[k], "LOBBY">>]]
                  /\ UNCHANGED inst
          /\ UNCHANGED <<dist, failure>>

-----------------------------------------------------------------------------
Menus ==
  MoveFocus \/ PressButton \/ StartCancel \/ OnDebugStart \/ CreateCancel \/ CreateFails
  \/ JoinCancel \/ JoinFails
  \/ \E d \in {1} \union Joysticks : CreateSubmit(d) \/ JoinSubmit(d) \/ LobbyConfirm(d)

Connection ==
  OnConnect \/ OnConnectError \/ TimeIsOut \/ OnTimeout \/ OnAbandonedConnect
  \/ OnServerDisconnect \/ ConnectionLost

Distant == DistantReads \/ DistantJoin \/ DistantSetState \/ DistantQuit \/ DistantMatchEnds

Receives ==
  OnServerState \/ OnPlayerField \/ OnPlayerJoined \/ OnPlayerChangeFieldConf \/ OnPlayerState \/ OnNewPlayer
  \/ OnRefused

Lobby ==
  \/ \E m \in Mappings : FrameConfirm(m) \/ FrameUnready(m) \/ FrameQuit(m) \/ OnConfChange(m)
                         \/ OnMappingChange(m)
  \/ Leave

Game == InputTimer \/ OnInputTick \/ GameConfirm

Remote == RemoteJoin \/ RemoteSetState \/ RemoteQuit \/ RemoteInput

Next ==
  /\ failure = "none" /\ gui.screen # "Ended"
  /\ Menus \/ Connection \/ Distant \/ Receives \/ Lobby \/ Game \/ Remote

(***************************************************************************)
(* The timer of a connection expires and handlers are run; the connection  *)
(* itself may hang.  The distant server reads what it is sent, and the     *)
(* client what it receives.  Users do as they like.                        *)
(***************************************************************************)
Fairness ==
  /\ WF_vars(TimeIsOut /\ Next) /\ WF_vars(OnTimeout /\ Next)
  /\ WF_vars(DistantReads /\ Next) /\ WF_vars(Receives /\ Next)
  /\ WF_vars(OnServerDisconnect /\ Next)

Spec == Init /\ [][Next]_vars /\ Fairness

-----------------------------------------------------------------------------
(***************************************************************************)
(* Properties.                                                             *)
(***************************************************************************)

(* The type of the state.                                                  *)
Instances ==
  [kind : {"none", "server", "client"}, state : {"NONE"} \union Matching,
   players : UNION {[P -> [local : BOOLEAN, state : States]] : P \in SUBSET PlIds},
   fields : SUBSET PlIds, alive : SUBSET PlIds, match : 0..MatchMax + 1, last : 0..PlIdMax,
   shared : BOOLEAN]

ScreensTypeOK ==
  /\ gui.screen \in {"Start", "Join", "Create", "Lobby", "Game", "Ended"}
  /\ gui.focus \in ToSet(Ring) /\ gui.submitting \in Mappings \union {NoMapping}
  /\ DOMAIN gui.frames \subseteq PlIds /\ DOMAIN gui.maps \subseteq PlIds
  /\ FrameMaps(gui) \subseteq Mappings \union {NoMapping}
  /\ gui.sched \subseteq PlIds
  /\ gui.armed \in BOOLEAN /\ gui.queued \in BOOLEAN
  /\ inst \in Instances /\ dist \in Instances
  /\ net.conn \in {"none", "connecting", "up"} /\ net.timer \in {"off", "armed", "queued"}
  /\ failure \in {"none", "exception", "freed", "noframe", "instance", "submitting", "mapping", "conf"}

(* The lobby screen is only there while the instance is in its lobby, with *)
(* a frame for each player that has not quit, whether the player came with *)
(* the screen, later, or by an answer, and a mapping for each local one.   *)
FramesShowPlayers ==
  gui.screen = "Lobby" =>
    /\ inst.state = "LOBBY"
    /\ DOMAIN gui.frames = DOMAIN inst.players \ In(inst, "QUIT")
    /\ \A p \in DOMAIN gui.frames :
         /\ gui.frames[p].local = inst.players[p].local
         /\ gui.frames[p].local <=> gui.frames[p].map # NoMapping

(* Two local players are never given the same keys, in the lobby or in the *)
(* game, unless keys were taken while another player was still awaited (or *)
(* by the debug start).                                                    *)
MappingsApart ==
  ~inst.shared =>
    /\ \A p, q \in Locals([players |-> gui.frames]) :
         p # q => gui.frames[p].map # gui.frames[q].map
    /\ \A p, q \in DOMAIN gui.maps : p # q => gui.maps[p] # gui.maps[q]


(* A choice of a configuration that the client asserts against: the player *)
(* asked to be in the lobby and is not there yet, or a match comes.        *)
UnreadyPending ==
  \/ net.closed \/ <<"server", "GAME_INIT">> \in ToSet(net.down)
  \/ \E p \in DOMAIN gui.frames :
       /\ gui.frames[p].focus /\ inst.players[p].state # "LOBBY"
       /\ <<"state", p, "LOBBY">> \in ToSet(net.up) \union ToSet(net.down)


(* A screen that submits an address gets out of it, with a lobby or an     *)
(* error, unless the first player is refused.                              *)
JoiningEnds == Submitting ~> ~Submitting \/ net.refused \/ failure # "none"

=============================================================================
