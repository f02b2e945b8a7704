------------------------------ MODULE Settings ------------------------------
(***************************************************************************)
(* Nicknames, field configurations and chat in the lobby, and the commands *)
(* and responses that carry them between a client and the server           *)
(* (server.cpp, client.cpp, and ClientSocket in netplay.cpp).              *)
(*                                                                         *)
(* One client is modelled with the channels both ways; the players of the  *)
(* server's process and of other peers change on the server's side only.   *)
(* A field configuration is its name; without a name it is Custom, or      *)
(* Invalid when FieldConf::isValid refuses its values.  Players do not     *)
(* leave here (see ClientView): a peer that sends an Invalid configuration *)
(* is closed, which for the others is to leave.  GAME stands for the three *)
(* states of a player in a match.                                          *)
(***************************************************************************)
EXTENDS Naturals, SequencesExt

CONSTANTS
  Nicks,      \* nicknames, the default "Player" among them
  Player,     \* the nickname given to who asks for none
  Confs,      \* ServerConf::field_confs, by name: a sequence
  Custom,     \* a field configuration without a name
  Unknown,    \* a name that is not one of the server's
  Invalid,    \* values that FieldConf::fromPacket does not accept
  None,       \* a field that is not set in a packet
  LocalOnes,  \* the players of the server's own process, there from the start
  PlNbMax,    \* ServerConf::pl_nb_max
  AskMax,     \* bound on the commands of the client
  ChangeMax   \* bound on the changes of the other players

ASSUME PlayersAssumption ==
  IsFiniteSet(LocalOnes) /\ LocalOnes = 1..Cardinality(LocalOnes)
ASSUME BoundsAssumption == AskMax \in Nat /\ ChangeMax \in Nat
ASSUME ConfsAssumption ==
  /\ Confs \in Seq(ToSet(Confs)) \ {<<>>} /\ Player \in Nicks
  /\ {Custom, Unknown, Invalid} \intersect ToSet(Confs) = {}
  /\ Invalid \notin {Custom, Unknown}

VARIABLES
  state,      \* state_ of the server; PREPARING is GAME_INIT and GAME_READY
  player,     \* players_ on the server, by ID: nick, conf and state
  copy,       \* players_ on the client
  mine,       \* peers_: the players of the client
  toServer,   \* commands on their way
  toClient,   \* events and responses on their way
  callbacks,  \* command_callbacks_ of the client
  thrown,     \* why the server or the client has closed the connection
  untold,     \* players whose nickname changed without an event (history)
  asks,       \* commands of the client so far
  changes     \* changes of the other players so far

vars == <<state, player, copy, mine, toServer, toClient, callbacks, thrown, untold,
          asks, changes>>

PlIds == 1..(Cardinality(LocalOnes) + AskMax + ChangeMax)
States == {"LOBBY", "LOBBY_READY", "GAME"}
FieldConfs == ToSet(Confs) \union {Custom}
Players == [nick : Nicks, conf : FieldConfs, state : States]

ASSUME NoneAssumption ==
  None \notin Nicks \union FieldConfs \union Players \union {Invalid}

(* The players found in some state, all of them moved to another.          *)
Move(f, from, to) ==
  [p \in DOMAIN f |-> IF f[p].state = from THEN [f[p] EXCEPT !.state = to] ELSE f[p]]

With(f, p, value) == [q \in DOMAIN f \union {p} |-> IF q = p THEN value ELSE f[q]]

-----------------------------------------------------------------------------
(* The server.                                                             *)

Init ==
  /\ state = "LOBBY"
  /\ player \in [LocalOnes -> {[nick |-> Player, conf |-> Head(Confs), state |-> "LOBBY"]}]
  /\ copy = player           \* what onPeerConnect tells of them
  /\ mine = {} /\ untold = {}
  /\ toServer = <<>> /\ toClient = <<>> /\ callbacks = <<>>
  /\ thrown = "" /\ asks = 0 /\ changes = 0

(* newPlayer: the peer is told by the response, which comes last.          *)
NewPlayer(nick) ==
  [nick |-> IF nick = None THEN Player ELSE nick,
   conf |-> Head(Confs), state |-> "LOBBY"]

(* What a handler does: the state and the players it leaves, whether it    *)
(* succeeds, and the events it broadcasts.                                 *)
Nothing == [state |-> state, player |-> player, untold |-> untold, ok |-> TRUE,
            events |-> <<>>]
Refused == [Nothing EXCEPT !.ok = FALSE]

(* Mutant: a change of configuration that forgets the new nickname.        *)
ConfEventShort(p, nick, conf) ==
  [type |-> "CONF", plid |-> p, nick |-> IF conf = None THEN nick ELSE None, conf |-> conf]

ConfEvent(p, nick, conf) == [type |-> "CONF", plid |-> p, nick |-> nick, conf |-> conf]

(* A name ServerConf::fieldConf finds, or no name and the values in full.  *)
Known(conf) == conf \in FieldConfs

(* processPktPlayerConf, and playerSetNick and playerSetFieldConf, which   *)
(* do half of it each: a nickname is set before a bad configuration is     *)
(* refused, and then nobody is told of it.                                 *)
SetConf(p, nick, conf) ==
  LET renamed == nick # None /\ nick # player[p].nick
      pl == IF renamed THEN [player[p] EXCEPT !.nick = nick] ELSE player[p]
      told == IF renamed THEN nick ELSE None
      o == [Nothing EXCEPT !.player[p] = pl,
                           !.untold = IF renamed THEN @ \ {p} ELSE @]
  IN  CASE conf = None ->
             [o EXCEPT !.events = IF renamed THEN <<ConfEvent(p, told, None)>> ELSE <<>>]
        [] conf # None /\ Known(conf) ->
             [o EXCEPT !.player[p].conf = conf, !.events = <<ConfEvent(p, told, conf)>>]
        [] OTHER ->
             [o EXCEPT !.ok = FALSE, !.untold = IF renamed THEN @ \union {p} ELSE @]

(* processPktPlayerState and playerSetState, then checkAllPlayersReady,    *)
(* which prepares the match when exactly pl_nb_max players are ready.  A   *)
(* player may go back to the lobby in a match, but not while it is         *)
(* prepared, and is ready only when the server is in the lobby.            *)
StateValid(st) == IF st = "LOBBY" THEN state # "PREPARING" ELSE state = "LOBBY"

SetState(p, st) ==
  LET moved == [player EXCEPT ![p].state = st]
      ready == {q \in DOMAIN moved : moved[q].state = "LOBBY_READY"}
      o == [Nothing EXCEPT !.player = moved,
                           !.events = <<[type |-> "STATE", plid |-> p, state |-> st]>>]
  IN  IF st = player[p].state THEN Nothing
      ELSE IF ~ StateValid(st) THEN Refused
      ELSE IF state = "LOBBY" /\ Cardinality(ready) = PlNbMax
      THEN [o EXCEPT !.state = "PREPARING", !.player = Move(@, "LOBBY_READY", "GAME"),
                     !.events = Append(@, [type |-> "GAME"])]
      ELSE o

(* processPktPlayerJoin and newPlayer: the new player is broadcast, except *)
(* to the client that asked for it, which the response will tell.          *)
Newest == Cardinality(DOMAIN player) + 1

Join(nick) ==
  IF Cardinality(DOMAIN player) > PlNbMax THEN Refused
  ELSE [Nothing EXCEPT !.player = With(@, Newest, NewPlayer(nick))]

(* Takes the outcome of a handler, with what is sent to the client alone.  *)
Become(o, answer) ==
  /\ state' = o.state /\ player' = o.player /\ untold' = o.untold
  /\ toClient' = toClient \o o.events \o answer

(* The other players.  Only the chat of the server's own is broadcast: the *)
(* server does not relay that of its peers (processPktChat).               *)
OtherChanges(p) ==
  /\ changes < ChangeMax /\ thrown = "" /\ p \notin mine
  /\ changes' = changes + 1
  /\ \/ \E nick \in Nicks \union {None}, conf \in FieldConfs \union {Unknown, None} :
          /\ player[p].state = "LOBBY"
          /\ p \in LocalOnes => conf # Unknown /\ None \in {nick, conf}
          /\ Become(SetConf(p, nick, conf), <<>>)
     \/ \E st \in {"LOBBY", "LOBBY_READY"} :
          /\ p \in LocalOnes => StateValid(st)
          /\ Become(SetState(p, st), <<>>)
     \/ p \in LocalOnes /\ Become(Nothing, <<[type |-> "CHAT", plid |-> p]>>)
  /\ UNCHANGED <<copy, mine, toServer, callbacks, thrown, asks>>

(* Mutant: a join the others are not told of.                              *)
OtherJoinsUntold ==
  /\ changes < ChangeMax /\ thrown = "" /\ state = "LOBBY"
  /\ changes' = changes + 1
  /\ Join(None).ok /\ Become(Join(None), <<>>)
  /\ UNCHANGED <<copy, mine, toServer, callbacks, thrown, asks>>

OtherJoins ==
  /\ changes < ChangeMax /\ thrown = "" /\ state = "LOBBY"
  /\ changes' = changes + 1
  /\ \E nick \in Nicks \union {None} :
       LET o == Join(nick)
           pl == o.player[Newest]
       IN  o.ok /\ Become(o, <<ConfEvent(Newest, pl.nick, pl.conf)>>)
  /\ UNCHANGED <<copy, mine, toServer, callbacks, thrown, asks>>

Response(m, o, p) ==
  [type |-> "RESPONSE", to |-> m.type, ok |-> o.ok, plid |-> p,
   new |-> IF m.type = "JOIN" /\ o.ok THEN o.player[p] ELSE None]

(* Mutant: no response to what fails.                                      *)
AnswerOk(m, o, p) == Become(o, IF o.ok THEN <<Response(m, o, p)>> ELSE <<>>)

(* onPeerClientCommand: a response to all that does not end the connection.*)
Answer(m, o, p) == Become(o, <<Response(m, o, p)>>)

(* startMatch, once all are GAME_READY, and stopMatch, at the last rank:   *)
(* the players keep the state that stands here for all of the match.       *)
MatchProceeds ==
  /\ thrown = "" /\ state # "LOBBY"
  /\ state' = IF state = "PREPARING" THEN "GAME" ELSE "LOBBY"
  /\ UNCHANGED <<player, copy, mine, toServer, toClient, callbacks, thrown, untold,
                 asks, changes>>

(* A CallbackError ends the connection (PeerSocket::processError).         *)
ThrowOut(why) ==
  /\ thrown' = why
  /\ UNCHANGED <<state, player, mine, toClient, untold>>

ServerReads ==
  /\ toServer # <<>> /\ thrown = ""
  /\ LET m == Head(toServer)
         p == IF m.type = "JOIN" THEN Newest ELSE m.plid
         o == CASE m.type = "JOIN" -> Join(m.nick)
                [] m.type = "CONF" -> SetConf(p, m.nick, m.conf)
                [] m.type = "STATE" -> SetState(p, m.state)
                [] m.type = "CHAT" -> Nothing
     IN  CASE m.type = "JOIN" /\ state # "LOBBY" -> ThrowOut("match is running")
           [] m.type = "CONF" /\ player[p].state # "LOBBY" ->
                ThrowOut(IF m.hasty THEN "hasty" ELSE "not in lobby")
           [] m.type = "CONF" /\ player[p].state = "LOBBY" /\ m.conf = Invalid ->
                ThrowOut("invalid configuration")
           [] OTHER -> /\ Answer(m, o, p)
                       /\ mine' = IF m.type = "JOIN" /\ o.ok THEN mine \union {p} ELSE mine
                       /\ UNCHANGED thrown
  /\ toServer' = Tail(toServer)
  /\ UNCHANGED <<copy, callbacks, asks, changes>>

-----------------------------------------------------------------------------
(* The client.                                                             *)

(* sendClientCommand.                                                      *)
Send(m) ==
  /\ asks < AskMax /\ thrown = ""
  /\ toServer' = Append(toServer, m)
  /\ callbacks' = Append(callbacks, [type |-> m.type, plid |-> m.plid])
  /\ asks' = asks + 1
  /\ UNCHANGED <<state, player, mine, toClient, thrown, untold, changes>>

Own == {p \in DOMAIN copy : p \in mine}

(* A state asked for has not been answered yet.                            *)
Waiting(p) == \E i \in DOMAIN callbacks : callbacks[i] = [type |-> "STATE", plid |-> p]

NewLocalPlayer ==
  /\ \E nick \in Nicks \union {None} : Send([type |-> "JOIN", plid |-> 0, nick |-> nick])
  /\ UNCHANGED copy

(* playerSetNick: takes effect on the client at once.                      *)
ClientSetNick(p) ==
  /\ copy[p].state = "LOBBY"
  /\ \E nick \in Nicks :
       /\ nick # copy[p].nick
       /\ copy' = [copy EXCEPT ![p].nick = nick]
       /\ Send([type |-> "CONF", plid |-> p, nick |-> nick, conf |-> None,
                hasty |-> Waiting(p)])

(* Mutant: in any state of the player.                                     *)
ClientSetFieldConfAnytime(p) ==
  /\ \E conf \in FieldConfs \union {Unknown, Invalid} :
       Send([type |-> "CONF", plid |-> p, nick |-> None, conf |-> conf,
             hasty |-> Waiting(p)])
  /\ UNCHANGED copy

(* playerSetFieldConf: takes effect once the server has broadcast it.      *)
ClientSetFieldConf(p) ==
  /\ copy[p].state = "LOBBY"
  /\ \E conf \in FieldConfs \union {Unknown, Invalid} :
       Send([type |-> "CONF", plid |-> p, nick |-> None, conf |-> conf,
             hasty |-> Waiting(p)])
  /\ UNCHANGED copy

ClientSetState(p) ==
  /\ \E st \in {"LOBBY", "LOBBY_READY"} :
       st # copy[p].state /\ Send([type |-> "STATE", plid |-> p, state |-> st])
  /\ UNCHANGED copy

ClientSendChat(p) == Send([type |-> "CHAT", plid |-> p]) /\ UNCHANGED copy

(* processPktPlayerConf: a player nobody knows yet is created, others take *)
(* what is set in the packet.                                              *)
Configured(c, m) ==
  LET set(value, given) == IF given = None THEN value ELSE given
  IN  With(c, m.plid,
           IF m.plid \notin DOMAIN c
           THEN [nick |-> m.nick, conf |-> m.conf, state |-> "LOBBY"]
           ELSE [nick |-> set(c[m.plid].nick, m.nick), conf |-> set(c[m.plid].conf, m.conf),
                 state |-> c[m.plid].state])

OnPlayerConf(m) == copy' = Configured(copy, m) /\ UNCHANGED <<callbacks, thrown>>

(* processPacket: the callback is that of the oldest command.  Those of    *)
(* joins create the player, the others do nothing.                         *)
OnResponse(m) ==
  IF callbacks = <<>>
  THEN thrown' = "no command issued" /\ UNCHANGED <<copy, callbacks>>
  ELSE /\ callbacks' = Tail(callbacks)
       /\ IF Head(callbacks).type # "JOIN" \/ ~ m.ok
          THEN UNCHANGED <<copy, thrown>>
          ELSE IF m.new = None
          THEN thrown' = "missing response field" /\ UNCHANGED copy
          ELSE copy' = With(copy, m.plid, m.new) /\ UNCHANGED thrown

ClientReads ==
  /\ toClient # <<>> /\ thrown = ""
  /\ LET m == Head(toClient)
         known == m.plid \in DOMAIN copy
     IN  CASE m.type = "CONF" -> OnPlayerConf(m)
           [] m.type = "RESPONSE" -> OnResponse(m)
           [] m.type = "GAME" ->
                copy' = Move(copy, "LOBBY_READY", "GAME") /\ UNCHANGED <<callbacks, thrown>>
           [] m.type = "STATE" /\ known ->
                copy' = [copy EXCEPT ![m.plid].state = m.state]
                  /\ UNCHANGED <<callbacks, thrown>>
           [] m.type = "CHAT" /\ known -> UNCHANGED <<copy, callbacks, thrown>>
           [] OTHER -> thrown' = "invalid player" /\ UNCHANGED <<copy, callbacks>>
  /\ toClient' = Tail(toClient)
  /\ UNCHANGED <<state, player, mine, toServer, untold, asks, changes>>

Next ==
  \/ \E p \in DOMAIN player : OtherChanges(p)
  \/ OtherJoins
  \/ ServerReads
  \/ MatchProceeds
  \/ ClientReads
  \/ NewLocalPlayer
  \/ \E p \in Own : ClientSetNick(p) \/ ClientSetFieldConf(p) \/ ClientSetState(p)
                      \/ ClientSendChat(p)

Spec == Init /\ [][Next]_vars

-----------------------------------------------------------------------------
(* Properties.                                                             *)

(* Players have settings of the server's, on both sides; a player of the   *)
(* client is one of the server.                                            *)
SettingsTypeOK ==
  /\ state \in {"LOBBY", "PREPARING", "GAME"}
  /\ DOMAIN player \subseteq PlIds /\ player \in [DOMAIN player -> Players]
  /\ DOMAIN copy \subseteq DOMAIN player /\ copy \in [DOMAIN copy -> Players]
  /\ mine \subseteq DOMAIN player \ LocalOnes
  /\ thrown \in {"", "match is running", "hasty", "not in lobby", "invalid configuration"}

(* A response is for the command whose callback is called: what waits in   *)
(* command_callbacks_ is what is on its way, one way or the other, in the  *)
(* same order and about the same players, whether the commands succeed or  *)
(* not (onPeerClientCommand, ClientSocket::processPacket).                 *)
AnswerOf(m) == [type |-> m.to, plid |-> IF m.to = "JOIN" THEN 0 ELSE m.plid]
Answers(q) ==
  FoldLeft(LAMBDA a, m : IF m.type = "RESPONSE" THEN Append(a, AnswerOf(m)) ELSE a, <<>>, q)
Asked(q) == [i \in DOMAIN q |-> [type |-> q[i].type, plid |-> q[i].plid]]

ResponsesMatch == thrown = "" => callbacks = Answers(toClient) \o Asked(toServer)

(* Once nothing is on its way the client shows the players, nicknames,     *)
(* configurations and states of the server, although it changes its own    *)
(* nicknames ahead of it and gets back those it had asked for before.  The *)
(* exception: a peer whose packet holds a good nickname and a bad          *)
(* configuration, of which nobody is told (server.cpp:505).                *)
SettingsAgree ==
  thrown = "" /\ toClient = <<>> /\ toServer = <<>> =>
    /\ DOMAIN copy = DOMAIN player
    /\ \A p \in DOMAIN player :
         /\ copy[p].conf = player[p].conf /\ copy[p].state = player[p].state
         /\ copy[p].nick = player[p].nick \/ p \in untold

(* A client is not disconnected for a setting that reaches the server when *)
(* its player has left the lobby, unless it sent it without waiting for    *)
(* the answer to the state it had asked for itself: no change of others,   *)
(* not even the start of the match, catches it unawares.                   *)
OnlyHastyThrownOut == thrown # "not in lobby"
=============================================================================
