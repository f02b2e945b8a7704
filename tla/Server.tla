------------------------------- MODULE Server -------------------------------
(***************************************************************************)
(* The server: who is connected, who plays, and the life of a match from   *)
(* the lobby to its end (server.cpp, and the peers of netplay.cpp).        *)
(*                                                                         *)
(* A handler of ServerInstance is a chain of calls, each of which may set  *)
(* the server state, broadcast, and call the next one.  It is written as   *)
(* operators from a record of the whole state to another; an action takes  *)
(* one of the results.  Handlers that end up ranking fields have several   *)
(* results, because ticks are not modelled here: which of the dead fields  *)
(* the match tick has reached is left open (Elimination, which Match       *)
(* implements).                                                            *)
(***************************************************************************)
EXTENDS Integers, SequencesExt

CONSTANTS
  Peers,      \* addresses of PeerSocket objects: reused once freed
  Local,      \* stands for the peer of the players of the server's own process
  LocalMax,   \* bound on the number of local players
  PlNbMax,    \* ServerConf::pl_nb_max
  IdMax       \* last player ID before nextPlayerId wraps (2^32 - 1 in the code)

ASSUME PeersAssumption == Local \notin Peers
ASSUME IdAssumption == PlNbMax \in Nat \ {0} /\ IdMax \in Nat
ASSUME LocalAssumption == LocalMax \in Nat

PlIds == 1..IdMax
ServerStates == {"NONE", "LOBBY", "GAME_READY", "GAME"}  \* after a handler
PlayerStates == {"LOBBY", "LOBBY_READY", "GAME_INIT", "GAME_READY", "GAME"}

VARIABLES
  state,      \* GameInstance::state_
  pstate,     \* players_: the state of each player, by ID
  peerOf,     \* peers_: the peer of each player, Local when it has none
  current,    \* current_plid_
  fields,     \* match_.fields_, a field named after the player it was made for
  lost,       \* the fields with lost_ set (meaningless until the match starts)
  ranked,     \* the fields with a rank_
  holds,      \* the players with a field()
  started,    \* match_.started_
  socks,      \* ServerSocket::peers_, a vector
  closing,    \* the peers with delayed_close_ set
  out,        \* what the last handler sent, in order: the peers and the event
  died        \* "stopped", or the assertion that failed, once the server is gone

vars == <<state, pstate, peerOf, current, fields, lost, ranked, holds, started,
          socks, closing, out, died>>

Players == DOMAIN pstate

Event ==
  [type : {"STATE"}, state : {"LOBBY", "GAME_INIT", "GAME_READY", "GAME"}]
    \union [type : {"PLAYER_STATE"}, plid : PlIds, state : PlayerStates \union {"QUIT"}]
    \union [type : {"PLAYER_CONF", "JOINED", "FIELD", "RANK"}, plid : PlIds]

TypeOK ==
  /\ state \in ServerStates
  /\ Players \subseteq PlIds /\ pstate \in [Players -> PlayerStates]
  /\ peerOf \in [Players -> Peers \union {Local}]
  /\ current \in 0..IdMax
  /\ fields \subseteq PlIds /\ lost \subseteq fields /\ ranked \subseteq fields
  /\ holds \subseteq Players \intersect fields
  /\ started \in BOOLEAN
  /\ Range(socks) \subseteq Peers /\ IsInjective(socks)
  /\ closing \subseteq Range(socks)
  /\ \A i \in DOMAIN out : out[i].to \subseteq Peers /\ out[i].event \in Event
  /\ died \in {"", "stopped", "match not started", "ranked field without player"}

-----------------------------------------------------------------------------
(* The state handlers work on, and the step that adopts their result.      *)
Now ==
  [state |-> state, pstate |-> pstate, peerOf |-> peerOf, current |-> current,
   fields |-> fields, lost |-> lost, ranked |-> ranked, holds |-> holds,
   started |-> started, socks |-> socks, closing |-> closing, out |-> <<>>,
   died |-> died]

Become(s) ==
  /\ state' = s.state /\ pstate' = s.pstate /\ peerOf' = s.peerOf
  /\ current' = s.current
  /\ fields' = s.fields /\ lost' = s.lost /\ ranked' = s.ranked
  /\ holds' = s.holds /\ started' = s.started
  /\ socks' = s.socks /\ closing' = s.closing
  /\ out' = s.out /\ died' = s.died

Send(s, peers, event) == [s EXCEPT !.out = Append(@, [to |-> peers, event |-> event])]

(* ServerSocket::broadcastEvent: peers being closed are not left out.      *)
Broadcast(s, event) == Send(s, Range(s.socks), event)

BroadcastPlayerState(s, p, st) ==
  Broadcast(s, [type |-> "PLAYER_STATE", plid |-> p, state |-> st])

(* A failed assertion ends the process.                                    *)
Die(s, why) == [s EXCEPT !.died = IF @ = "" THEN why ELSE @]

(* std::map iterates in the order of its keys.                             *)
InOrder(S) ==
  CHOOSE q \in [1..Cardinality(S) -> S] : \A i, j \in DOMAIN q : i < j => q[i] < q[j]

-----------------------------------------------------------------------------
(* ServerInstance::setState, with the implicit changes of player states.   *)
MoveAll(s, from, to) ==
  [s EXCEPT !.pstate = [p \in DOMAIN @ |-> IF @[p] = from THEN to ELSE @[p]]]

SetState(s, st) ==
  LET sent  == Broadcast(s, [type |-> "STATE", state |-> st])
      moved == CASE st = "GAME_INIT" -> MoveAll(sent, "LOBBY_READY", "GAME_INIT")
                 [] st = "GAME"      -> MoveAll(sent, "GAME_READY", "GAME")
                 [] OTHER            -> sent
  IN  [moved EXCEPT !.state = st]

(* startMatch; Match::start clears lost_ but not the ranks.                *)
StartMatch(s) == SetState([s EXCEPT !.started = TRUE, !.lost = {}], "GAME")

(* Match::clear, before the fields of a match are made; Match::addField.   *)
ClearMatch(s) == [s EXCEPT !.fields = {}, !.lost = {}, !.ranked = {}]
AddField(s, p) == [s EXCEPT !.fields = @ \union {p}, !.holds = @ \union {p}]

\* Mutant: the players keep their fields.
StopMatchKeepingFields(s) ==
  IF s.state = "LOBBY" \/ ~s.started THEN s
  ELSE SetState([ClearMatch(s) EXCEPT !.started = FALSE], "LOBBY")

(* stopMatch, and the assertion of Match::stop.  The fields stay in match_ *)
(* until the next prepareMatch, but nothing reads them: they go now.       *)
StopMatch(s) ==
  IF s.state = "LOBBY" THEN s
  ELSE LET freed == [s EXCEPT !.holds = {}]
       IN  IF s.started THEN SetState([ClearMatch(freed) EXCEPT !.started = FALSE], "LOBBY")
                        ELSE Die(freed, "match not started")

InState(s, st) == {p \in DOMAIN s.pstate : s.pstate[p] = st}

(* checkAllPlayersReady while the match is prepared.                       *)
CheckGameReady(s) ==
  IF s.state = "GAME_READY" /\ InState(s, "GAME_INIT") = {} THEN StartMatch(s) ELSE s

SetPlayerState(s, p, st) ==
  BroadcastPlayerState([s EXCEPT !.pstate[p] = st], p, st)

(* ScreenGame::onStateChange, called from within setState(GAME_READY): the *)
(* players of the server's process are ready at once.                      *)
LocalReady(s, p) == CheckGameReady(SetPlayerState(s, p, "GAME_READY"))
LocalPlayersReady(s) ==
  LET locals == {p \in InState(s, "GAME_INIT") : s.peerOf[p] = Local}
  IN  FoldLeft(LocalReady, s, InOrder(locals))

(* prepareMatch.                                                           *)
MakeField(s, p) == Broadcast(AddField(s, p), [type |-> "FIELD", plid |-> p])
MakeFields(s) == FoldLeft(MakeField, s, InOrder(InState(s, "GAME_INIT")))
PrepareMatch(s) ==
  LET made == MakeFields(SetState(ClearMatch(s), "GAME_INIT"))
  IN  LocalPlayersReady(SetState(made, "GAME_READY"))

\* Mutant: off by one.
CheckAllPlayersReadyPast(s) ==
  IF s.state = "LOBBY" /\ Cardinality(InState(s, "LOBBY_READY")) > PlNbMax
  THEN PrepareMatch(s)
  ELSE CheckGameReady(s)

(* checkAllPlayersReady.                                                   *)
CheckAllPlayersReady(s) ==
  IF s.state = "LOBBY" /\ Cardinality(InState(s, "LOBBY_READY")) = PlNbMax
  THEN PrepareMatch(s)
  ELSE CheckGameReady(s)

-----------------------------------------------------------------------------
(* The sets of fields Match::updateRanks may find dead and reached by the  *)
(* match tick.  Before the match starts lost_ and tick_ have no value yet. *)
Rankable(s) ==
  LET unranked == s.fields \ s.ranked
  IN  IF ~s.started THEN SUBSET unranked
      ELSE IF s.lost = s.fields THEN {unranked}
      ELSE SUBSET (unranked \intersect s.lost)

(* updateRanks: the fields ranked are announced, each with its player, and *)
(* the match stops when fewer than two fields are left.                    *)
RankField(s, f) ==
  IF f \in s.holds THEN Broadcast(s, [type |-> "RANK", plid |-> f])
                   ELSE Die(s, "ranked field without player")
RankFields(s, told) ==
  FoldLeft(RankField, [s EXCEPT !.ranked = @ \union told], InOrder(told))

UpdateRanksWith(s, dead) ==
  LET left  == (s.fields \ s.ranked) \ dead
      over  == Cardinality(left) < 2
      after == RankFields(s, dead \union (IF over THEN left ELSE {}))
  IN  IF over /\ after.died = "" THEN StopMatch(after) ELSE after

UpdateRanks(s) == {UpdateRanksWith(s, dead) : dead \in Rankable(s)}

Restricted(f, p) == [q \in DOMAIN f \ {p} |-> f[q]]
With(f, p, value) == [q \in DOMAIN f \union {p} |-> IF q = p THEN value ELSE f[q]]

Erase(s, p) ==
  [s EXCEPT !.holds = @ \ {p}, !.pstate = Restricted(@, p), !.peerOf = Restricted(@, p)]

\* Mutants: the field is kept; nobody checks whether the others are ready;
\* the peer of the player is not told.
RemovePlayerKeepingField(s, p) ==
  LET erased == [s EXCEPT !.pstate = Restricted(@, p), !.peerOf = Restricted(@, p)]
  IN  {CheckAllPlayersReady(BroadcastPlayerState(erased, p, "QUIT"))}

RemovePlayerUnchecked(s, p) ==
  LET updated == IF p \in s.holds THEN UpdateRanks([s EXCEPT !.lost = @ \union {p}]) ELSE {s}
  IN  {IF s1.died = "" THEN BroadcastPlayerState(Erase(s1, p), p, "QUIT") ELSE s1 :
         s1 \in updated}

(* Field::abort.                                                           *)
Abort(s, p) == [s EXCEPT !.lost = @ \union {p}]

(* removePlayer.  Its last call may start the match the others wait for.   *)
RemovePlayer(s, p) ==
  LET updated == IF p \in s.holds THEN UpdateRanks(Abort(s, p)) ELSE {s}
      left(s1) == CheckAllPlayersReady(BroadcastPlayerState(Erase(s1, p), p, "QUIT"))
  IN  {IF s1.died = "" THEN left(s1) ELSE s1 : s1 \in updated}

(* onPeerDisconnect: all the players of the peer, in the order of their ID.*)
RemoveFromAll(S, p) == UNION {IF s.died = "" THEN RemovePlayer(s, p) ELSE {s} : s \in S}
OnPeerDisconnect(s, x) ==
  FoldLeft(RemoveFromAll, {s}, InOrder({p \in DOMAIN s.pstate : s.peerOf[p] = x}))

(* nextPlayerId, while an ID is free (it loops for ever otherwise).        *)
NextPlayerId ==
  LET after(k) == ((current + k) % IdMax) + 1
  IN  after(Min({k \in 0..IdMax-1 : after(k) \notin Players}))

(* newPlayer, for a peer or for the server's own process; the response to  *)
(* the player's peer comes after the event sent to the others.             *)
NewPlayer(s, x) ==
  LET p == NextPlayerId
      joined == [s EXCEPT !.pstate = With(@, p, "LOBBY"),
                          !.peerOf = With(@, p, x),
                          !.current = p]
  IN  Send(joined, Range(socks) \ {x}, [type |-> "PLAYER_CONF", plid |-> p])

-----------------------------------------------------------------------------
Init ==
  /\ state = "LOBBY"      \* startServer
  /\ pstate = <<>> /\ peerOf = <<>> /\ current = 0
  /\ fields = {} /\ lost = {} /\ ranked = {} /\ holds = {} /\ started = FALSE
  /\ socks = <<>> /\ closing = {} /\ out = <<>> /\ died = ""

Connected == Range(socks)
Open == Connected \ closing

\* Mutant: a newcomer takes every player to be in the lobby.
SnapshotWithoutStates(s, x) ==
  LET describe(s1, p) == Send(s1, {x}, [type |-> "PLAYER_CONF", plid |-> p])
  IN  FoldLeft(describe, Send(s, {x}, [type |-> "STATE", state |-> s.state]),
               InOrder(DOMAIN s.pstate))

(* What onPeerConnect tells a new peer about the others.                   *)
Describe(x, s, p) ==
  Send(Send(s, {x}, [type |-> "PLAYER_CONF", plid |-> p]),
       {x}, [type |-> "PLAYER_STATE", plid |-> p, state |-> s.pstate[p]])
Snapshot(s, x) ==
  FoldLeft(LAMBDA s1, p : Describe(x, s1, p),
           Send(s, {x}, [type |-> "STATE", state |-> s.state]), InOrder(DOMAIN s.pstate))

(* onAccept and onPeerConnect: the peer is a peer already when it is       *)
(* turned away.                                                            *)
Connect(x) ==
  LET joined == [Now EXCEPT !.socks = Append(@, x)]
  IN  /\ x \notin Connected
      /\ IF state # "LOBBY" \/ Cardinality(Players) >= PlNbMax
         THEN Become([joined EXCEPT !.closing = @ \union {x}])
         ELSE Become(Snapshot(joined, x))

(* PeerSocket::processError: an I/O error, or an exception thrown by the   *)
(* handler of a packet.  Nothing more is read from the peer, which is      *)
(* closed when its pending writes are done.                                *)
Fail(x) ==
  /\ x \in Open
  /\ Become([Now EXCEPT !.closing = @ \union {x}])

(* PeerSocket::close: the server is told of the peer the erased iterator   *)
(* now points to, the next one, or for the last one what is left of it.    *)
Close(x) ==
  /\ x \in closing
  /\ LET i == CHOOSE j \in DOMAIN socks : socks[j] = x
         rest == RemoveAt(socks, i)
         told == IF i \in DOMAIN rest THEN rest[i] ELSE x
     IN  \E s \in OnPeerDisconnect([Now EXCEPT !.socks = rest, !.closing = @ \ {x}], told) :
           Become(s)

(* processPktPlayerJoin                                                    *)
Join(x) ==
  /\ x \in Open /\ state = "LOBBY"
  /\ Cardinality(Players) <= PlNbMax /\ Players # PlIds
  /\ Become(Send(NewPlayer(Now, x), {x}, [type |-> "JOINED", plid |-> NextPlayerId]))

(* newLocalPlayer; the limits are those of ScreenLobby.                    *)
JoinLocal ==
  /\ state = "LOBBY"
  /\ Cardinality(Players) < PlNbMax /\ Players # PlIds
  /\ Cardinality({p \in Players : peerOf[p] = Local}) < LocalMax
  /\ Become(NewPlayer(Now, Local))

(* The states processPktPlayerState and playerSetState let a player set.   *)
Settable(p, st) ==
  \/ st = "LOBBY" /\ state \in {"LOBBY", "GAME"}
  \/ st = "LOBBY_READY" /\ state = "LOBBY"
  \/ st = "GAME_READY" /\ state = "GAME_READY" /\ pstate[p] = "GAME_INIT"

(* A player of a peer, or in the lobby one of the server's process, sets   *)
(* its state.                                                              *)
ChangeState(p, st) ==
  /\ peerOf[p] \in Open \/ (peerOf[p] = Local /\ state = "LOBBY")
  /\ st # pstate[p] /\ Settable(p, st)
  /\ Become(CheckAllPlayersReady(SetPlayerState(Now, p, st)))

(* The same with QUIT.                                                     *)
Quit(p) ==
  /\ peerOf[p] \in Open \/ (peerOf[p] = Local /\ state = "LOBBY")
  /\ \E s \in RemovePlayer(Now, p) : Become(s)

(* doStepPlayer: the field may lose, and the step may move the match tick. *)
StepPlayer(p) ==
  /\ state = "GAME"
  /\ p \in holds \ lost
  /\ peerOf[p] \in Open \union {Local}
  /\ \E l \in {lost, lost \union {p}} :
       \E s \in UpdateRanks([Now EXCEPT !.lost = l]) : Become(s)

(* stopServer: the peers are closed from the last one, while the state is  *)
(* already NONE.                                                           *)
CloseLast(S, x) ==
  UNION {IF s.died # "" THEN {s}
         ELSE OnPeerDisconnect([s EXCEPT !.socks = Front(@), !.closing = @ \ {x}], x) : s \in S}
StopServer ==
  \E s \in FoldLeft(CloseLast, {[Now EXCEPT !.state = "NONE"]}, Reverse(socks)) :
    Become([s EXCEPT !.died = IF @ = "" THEN "stopped" ELSE @])

Running ==
  \/ \E x \in Peers : Connect(x) \/ Fail(x) \/ Close(x) \/ Join(x)
  \/ JoinLocal
  \/ StopServer
  \/ \E p \in Players : \/ \E st \in PlayerStates : ChangeState(p, st)
                        \/ Quit(p)
                        \/ StepPlayer(p)

(* Nothing happens once the server is stopped or has failed an assertion.  *)
Next ==
  \/ died = "" /\ Running
  \/ died # "" /\ UNCHANGED vars

Spec == Init /\ [][Next]_vars

-----------------------------------------------------------------------------
(* The lobby waits for players only while too few are ready: whoever joins,*)
(* changes its mind or leaves, no handler ends with enough players ready   *)
(* and the match not being prepared, nor with one forgotten in LOBBY_READY *)
(* once it is (checkAllPlayersReady, setState).                            *)
LobbyWaits ==
  died = "" => Cardinality(InState(Now, "LOBBY_READY"))
                 < (IF state = "LOBBY" THEN PlNbMax ELSE 1)

(* A match being prepared waits for somebody: nothing calls startMatch     *)
(* later if the last player awaited leaves (removePlayer).                 *)
PreparationWaits ==
  died = "" /\ state = "GAME_READY" => InState(Now, "GAME_INIT") # {}

(* Players, fields and Match follow the server state: match_ is started    *)
(* just when the server is in GAME, so that Match::start and Match::clear  *)
(* find it stopped; the players of the match, and they only, have a field. *)
MatchFollowsState ==
  died = "" =>
    /\ started <=> state = "GAME"
    /\ state = "LOBBY" => holds = {} /\ InState(Now, "GAME_READY") = {}
    /\ state = "GAME_READY" => holds = InState(Now, "GAME_INIT") \union InState(Now, "GAME_READY")
    /\ state = "GAME" => /\ InState(Now, "GAME_READY") = {}
                         /\ \A p \in holds : pstate[p] \in {"GAME", "LOBBY"}

(* netplay.h, onPeerDisconnect: "Called after a peer disconnection"; the   *)
(* peer it is called with is not the one that disconnected.                *)
PlayersArePresent == \A p \in Players : peerOf[p] \in Connected \union {Local}
=============================================================================
