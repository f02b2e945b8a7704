------------------------------ MODULE Lockstep ------------------------------
(***************************************************************************)
(* The inputs of a match: each client plays its own field at once, sends   *)
(* what it did to the server, and replays the fields of the others from    *)
(* what the server relays (processPktInput and processPktGarbageState of   *)
(* server.cpp and client.cpp).                                             *)
(*                                                                         *)
(* Field::step is deterministic, so that copies of a field agree just when *)
(* the same things happened to them in the same order: a copy of a field   *)
(* is the log of the inputs it was stepped with and of the garbages        *)
(* dropped on it.  Of what a garbage goes through, only what follows the   *)
(* decision to drop it is modelled here.  The server's match is that of    *)
(* Match.                                                                  *)
(***************************************************************************)
EXTENDS Match, SequencesExt

CONSTANTS
  GbMax,     \* bound on the garbages dropped
  Accepted   \* the order in which the peers of the clients were accepted

ASSUME GbAssumption == GbMax \in Nat
ASSUME AcceptedAssumption ==
  Accepted \in [Fields -> Nat] /\ \A c, d \in Fields : Accepted[c] = Accepted[d] => c = d

VARIABLES
  remote,    \* the fields played by clients, one each; the server plays the others
  loseAt,    \* what Field::step makes of each field: the tick at which it loses
  log,       \* the server's copy of each field
  wait,      \* and the garbages waiting to be dropped on it (Field::gbs_wait_)
  gbTo,      \* the target of each garbage, in the order of their IDs
  copy,      \* for each client, its copy of the match
  up,        \* what it has sent and the server has not read
  down,      \* what the server has sent and it has not read
  refusal    \* why one of the two has given the other up, or "", or "closed"

matchVars == vars
lockVars == <<log, wait, gbTo, copy, up, down, refusal>>
allVars == <<vars, remote, loseAt, lockVars>>

\* An entry of a log: the input made at a tick, or the drop of a garbage.
Key(t) == [type |-> "KEY", n |-> t]
Drop(g) == [type |-> "DROP", n |-> g]
Entry == [type : {"KEY"}, n : Nat] \union [type : {"DROP"}, n : Nat]

ServerRefusals ==
  {"server: past", "server: lag", "server: lost", "server: not running", "server: not found"}
ClientRefusals ==
  {"client: past", "client: lag", "client: lost", "client: not running", "client: not found"}
Refusals == ServerRefusals \union ClientRefusals \union {"", "closed"}

Copy ==
  [on : BOOLEAN,                  \* in state GAME
   ticks : [Fields -> Nat],       \* Field::tick_
   log : [Fields -> Seq(Entry)],
   wait : [Fields -> Seq(Nat)],
   gone : SUBSET Fields,          \* the players that have quit
   tick : Nat]                    \* match_.tick_

\* History: an input is hasty if it was let through by a match tick above that
\* of a living field.
UpMessage ==
  [type : {"INPUT"}, tick : Nat, hasty : BOOLEAN] \union [type : {"DROP"}, gb : Nat]
DownMessage ==
  [type : {"INPUT"}, fld : Fields, tick : Nat, hasty : BOOLEAN]
    \union [type : {"WAIT", "DROP"}, gb : Nat]
    \union [type : {"QUIT"}, fld : Fields] \union [type : {"GAME", "LOBBY"}]

\* The inputs of a log are those of the ticks before t: each once, in order.
Dated(l, t) ==
  LET keys == {i \in DOMAIN l : l[i].type = "KEY"}
  IN  /\ {l[i].n : i \in keys} = 0..(t - 1)
      /\ \A i, j \in keys : i < j => l[i].n < l[j].n

LockstepTypeOK ==
  /\ TypeOK
  /\ remote \subseteq Fields /\ loseAt \in [Fields -> Nat]
  /\ log \in [Fields -> Seq(Entry)]
  /\ wait \in [Fields -> Seq(Nat)]
  /\ gbTo \in Seq(Fields)
  /\ copy \in [Fields -> Copy]
  /\ \A f \in Fields : Dated(log[f], tick[f])
  /\ \A c, f \in Fields : Dated(copy[c].log[f], copy[c].ticks[f])
  /\ up \in [Fields -> Seq(UpMessage)] /\ down \in [Fields -> Seq(DownMessage)]
  /\ refusal \in [Fields -> Refusals]

-----------------------------------------------------------------------------
(* The server has just told everybody that the match starts.               *)
LockstepInit ==
  /\ Init
  /\ remote \in {1..n : n \in Fields}    \* which ones does not matter, only how many
  /\ loseAt \in [Fields -> Countdown + 1..MaxTick + 1]    \* the last: never
  /\ log = [f \in Fields |-> <<>>] /\ wait = log /\ gbTo = <<>>
  /\ copy = [c \in Fields |->
               [on |-> FALSE, ticks |-> tick, log |-> log, wait |-> wait, gone |-> {}, tick |-> 0]]
  /\ up = [c \in Fields |-> <<>>]
  /\ down = [c \in Fields |-> <<[type |-> "GAME"]>>]
  /\ refusal = [c \in Fields |-> ""]

Following == {c \in remote \intersect players : refusal[c] = ""}

(* broadcastEvent, of messages that depend on the client they are sent to. *)
Tell(messages) ==
  down' = [c \in Fields |-> IF c \in Following THEN down[c] \o messages[c] ELSE down[c]]

\* stopMatch, in the step that ends the match.
IfOver == IF phase' = "LOBBY" THEN <<[type |-> "LOBBY"]>> ELSE <<>>

\* The match tick t is above that of a living field.
Above(t, ticks, dead) == \E f \in Fields : ~dead[f] /\ ticks[f] < t

Refuse(c, why) == refusal' = [refusal EXCEPT ![c] = why]

-----------------------------------------------------------------------------
(* onGarbageDrop, called by updateGarbages for the field just stepped (at  *)
(* most one garbage per step).  A remote player drops the garbage when it  *)
(* is told to; for a local one the server does at once, and by then        *)
(* dropNextGarbage has cleared the ID that DROP gives.                     *)
NextDrop(f) ==
  {<<>>} \union (IF Len(gbTo) < GbMax THEN {<<Len(gbTo) + 1>>} ELSE {})

\* Mutant: the garbage of a remote player is dropped when it is decided.
DropAtOnce(f, gbs) ==
  /\ gbTo' = gbTo \o [i \in DOMAIN gbs |-> f]
  /\ log' = [log EXCEPT ![f] = Append(@, Key(tick[f])) \o [i \in DOMAIN gbs |-> Drop(gbs[i])]]
  /\ wait' = [wait EXCEPT ![f] = @ \o gbs]

\* Mutant: a garbage is dropped in a step of its own.
DropStepping(f, gbs) ==
  /\ gbTo' = gbTo \o [i \in DOMAIN gbs |-> f]
  /\ log' = [log EXCEPT ![f] = Append(@, Key(tick[f])) \o [i \in DOMAIN gbs |-> Key(tick[f])]]
  /\ wait' = [wait EXCEPT ![f] = @ \o gbs]

DropOrWait(f, gbs) ==
  /\ gbTo' = gbTo \o [i \in DOMAIN gbs |-> f]
  /\ IF f \in remote
     THEN /\ log' = [log EXCEPT ![f] = Append(@, Key(tick[f]))]
          /\ wait' = [wait EXCEPT ![f] = @ \o gbs]
     ELSE /\ log' = [log EXCEPT ![f] = Append(@, Key(tick[f])) \o [i \in DOMAIN gbs |-> Drop(gbs[i])]]
          /\ UNCHANGED wait

(* ServerInstance::doStepPlayer: the step, its input relayed to all but    *)
(* the player, the garbage to drop, the end of the match.                  *)
ServerStep(f) ==
  /\ StepField(f)
  /\ lost' = [lost EXCEPT ![f] = tick'[f] >= loseAt[f]]
  /\ \E gbs \in NextDrop(f) :
       LET hasty == Above(matchTick, tick, lost)
           input(c) == IF c = f THEN <<>>
                       ELSE <<[type |-> "INPUT", fld |-> f, tick |-> tick[f], hasty |-> hasty]>>
           waits == [i \in DOMAIN gbs |-> [type |-> "WAIT", gb |-> gbs[i]]]
           drops == IF f \in remote THEN <<>> ELSE [i \in DOMAIN gbs |-> [type |-> "DROP", gb |-> 0]]
           told == [c \in Fields |-> input(c) \o waits \o drops \o IfOver]
       IN  DropOrWait(f, gbs) /\ Tell(told)

(* playerStep, for the players of the server's own process.                *)
LocalStep(f) ==
  /\ f \notin remote
  /\ ServerStep(f)
  /\ UNCHANGED <<copy, up, refusal>>

(* A client that has refused may still be read.                            *)
Served ==
  {c \in remote \intersect players : refusal[c] \notin ServerRefusals \union {"closed"}}

(* Why an input made at tick t for the field of c is refused.              *)
InputRefusal(c, t) ==
  CASE t < tick[c] -> "server: past"
    [] t >= tick[c] /\ lost[c] -> "server: lost"
    [] t >= tick[c] /\ ~lost[c] -> "server: lag"

(* processPktInput.  No frame is ever skipped: the copies hold every tick  *)
(* once, and NothingMissing says that what is read next is the next entry  *)
(* of the copy.                                                            *)
ReadInput(c) ==
  LET m == Head(up[c])
  IN  /\ m.type = "INPUT"
      /\ \/ /\ phase = "LOBBY"     \* "ignore remains of the previous match"
            /\ UNCHANGED <<matchVars, log, wait, gbTo, down, refusal>>
         \/ /\ phase = "GAME" /\ m.tick >= tick[c] /\ MayStep(c)
            /\ ServerStep(c) /\ UNCHANGED refusal
         \/ /\ phase = "GAME" /\ (m.tick < tick[c] \/ ~MayStep(c))
            /\ Refuse(c, InputRefusal(c, m.tick))
            /\ UNCHANGED <<matchVars, log, wait, gbTo, down>>
      /\ UNCHANGED copy

\* Mutant: the others are not told.
ReadDropUntold(c) ==
  LET m == Head(up[c])
  IN  /\ m.type = "DROP" /\ phase = "GAME"
      /\ log' = [log EXCEPT ![c] = Append(@, Drop(m.gb))]
      /\ wait' = [wait EXCEPT ![c] = Tail(@)]
      /\ UNCHANGED <<matchVars, gbTo, copy, down, refusal>>

(* processPktGarbageState.                                                 *)
ReadDrop(c) ==
  LET m == Head(up[c])
      told == [d \in Fields |-> <<m>>]
      fits == wait[c] # <<>> /\ Head(wait[c]) = m.gb
  IN  /\ m.type = "DROP"
      /\ \/ /\ phase = "GAME" /\ fits
            /\ Tell(told)
            /\ log' = [log EXCEPT ![c] = Append(@, Drop(m.gb))]
            /\ wait' = [wait EXCEPT ![c] = Tail(@)]
            /\ UNCHANGED refusal
         \/ /\ phase # "GAME" \/ ~fits
            /\ Refuse(c, IF phase # "GAME" THEN "server: not running" ELSE "server: not found")
            /\ UNCHANGED <<log, wait, down>>
      /\ UNCHANGED <<matchVars, gbTo, copy>>

ServerReads(c) ==
  /\ c \in Served /\ up[c] # <<>>
  /\ up' = [up EXCEPT ![c] = Tail(@)]
  /\ ReadInput(c) \/ ReadDrop(c)

(* The peer that PeerSocket::close reports: erasing makes the iterator     *)
(* designate the one accepted next, and for the last what is left of it.   *)
Reported(c) ==
  LET later == {d \in remote : refusal[d] # "closed" /\ Accepted[d] > Accepted[c]}
  IN  IF later = {} THEN {c}
      ELSE {d \in later : \A e \in later : Accepted[d] <= Accepted[e]}

(* The clients who have nothing more to read or to send.                   *)
Silenced(queues, who) == [d \in Fields |-> IF d \in who THEN <<>> ELSE queues[d]]

(* removePlayer tells the end of the match, if it is one, and QUIT.        *)
QuitTold(f) ==
  LET quit == IfOver \o <<[type |-> "QUIT", fld |-> f]>>
  IN  [d \in Fields |-> IF d \in Following THEN down[d] \o quit ELSE down[d]]

(* The connection of a client ends, because it has been refused or not:    *)
(* the player of the peer that is reported leaves, if it has not yet.  The *)
(* client of a player that was removed by mistake has no more part in the  *)
(* match: whatever it sends ends its connection, by another Disconnect.    *)
Disconnect(c) ==
  /\ phase = "GAME" /\ c \in remote /\ refusal[c] # "closed"
  /\ Refuse(c, "closed")
  /\ \E f \in Reported(c) :
       IF f \in players
       THEN /\ Leave(f)
            /\ down' = Silenced(QuitTold(f), {c, f}) /\ up' = Silenced(up, {c, f})
       ELSE /\ UNCHANGED matchVars
            /\ down' = Silenced(down, {c}) /\ up' = Silenced(up, {c})
  /\ UNCHANGED <<log, wait, gbTo, copy>>

-----------------------------------------------------------------------------
(* A client's copy of the match.                                           *)
LostIn(v) == [f \in Fields |-> f \in v.gone \/ v.ticks[f] >= loseAt[f]]

InWindowWide(v, f) == v.ticks[f] < v.tick + LagMax    \* mutant
InWindow(v, f) == v.ticks[f] + 1 < v.tick + LagMax

(* Match::updateTick on the copy.                                          *)
Rescanned(v) == [v EXCEPT !.tick = ScanTick(v.ticks, LostIn(v))]

\* Mutant: the match tick is compared with the tick reached.
SteppedLate(v, f, t) ==
  LET w == [v EXCEPT !.log[f] = Append(@, Key(t)), !.ticks[f] = @ + 1]
  IN  IF w.ticks[f] = v.tick THEN Rescanned(w) ELSE w

(* GameInstance::doStepPlayer on the copy, for the input made at tick t.   *)
Stepped(v, f, t) ==
  LET w == [v EXCEPT !.log[f] = Append(@, Key(t)), !.ticks[f] = @ + 1]
  IN  IF v.ticks[f] = v.tick THEN Rescanned(w) ELSE w

(* ClientInstance::playerStep, called by the scheduler inside the window.  *)
ClientStep(c) ==
  LET v == copy[c]
      t == v.ticks[c]
      hasty == Above(v.tick, v.ticks, LostIn(v))
  IN  /\ c \in Following
      /\ v.on /\ ~LostIn(v)[c] /\ InWindow(v, c) /\ t < MaxTick
      /\ copy' = [copy EXCEPT ![c] = Stepped(v, c, t)]
      /\ up' = [up EXCEPT ![c] = Append(@, [type |-> "INPUT", tick |-> t, hasty |-> hasty])]
      /\ UNCHANGED <<matchVars, log, wait, gbTo, down, refusal>>

(* The player of a field quits: "field lost, tick must be updated".        *)
OnQuit(v, f) ==
  LET w == [v EXCEPT !.gone = @ \union {f}]
  IN  IF v.on THEN Rescanned(w) ELSE w

(* The new copy of client c once it has read a message: the server's state,*)
(* processPktInput, processPktGarbageState and processPktPlayerState.      *)
Move(v, m, c) ==
  CASE m.type = "GAME" -> [v EXCEPT !.on = TRUE]
    [] m.type = "LOBBY" -> [v EXCEPT !.on = FALSE]
    [] m.type = "INPUT" -> Stepped(v, m.fld, m.tick)
    [] m.type = "WAIT" -> IF gbTo[m.gb] = c THEN [v EXCEPT !.log[c] = Append(@, Drop(m.gb))]
                          ELSE [v EXCEPT !.wait[gbTo[m.gb]] = Append(@, m.gb)]
    [] m.type = "DROP" -> IF gbTo[m.gb] = c THEN v      \* "already dropped"
                          ELSE [v EXCEPT !.wait[gbTo[m.gb]] = Tail(@),
                                         !.log[gbTo[m.gb]] = Append(@, Drop(m.gb))]
    [] m.type = "QUIT" -> OnQuit(v, m.fld)

(* What makes a client refuse a message.                                   *)
InputObjection(v, m) ==
  CASE m.tick < v.ticks[m.fld] -> "client: past"
    [] m.tick >= v.ticks[m.fld] /\ LostIn(v)[m.fld] -> "client: lost"
    [] m.tick >= v.ticks[m.fld] /\ ~LostIn(v)[m.fld] /\ ~InWindow(v, m.fld) -> "client: lag"
    [] OTHER -> ""

Found(v, m, c) ==
  m.gb # 0 /\ (gbTo[m.gb] = c \/ IsPrefix(<<m.gb>>, v.wait[gbTo[m.gb]]))

Objection(v, m, c) ==
  CASE m.type \in {"INPUT", "WAIT", "DROP"} /\ ~v.on -> "client: not running"
    [] m.type = "INPUT" /\ v.on -> InputObjection(v, m)
    [] m.type = "DROP" /\ v.on /\ ~Found(v, m, c) -> "client: not found"
    [] OTHER -> ""

ClientReads(c) ==
  LET m == Head(down[c])
      why == Objection(copy[c], m, c)
  IN  /\ c \in Following /\ down[c] # <<>>
      /\ IF why = ""
         THEN /\ down' = [down EXCEPT ![c] = Tail(@)]
              /\ copy' = [copy EXCEPT ![c] = Move(@, m, c)]
              /\ up' = IF m.type = "WAIT" /\ gbTo[m.gb] = c
                       THEN [up EXCEPT ![c] = Append(@, [type |-> "DROP", gb |-> m.gb])] ELSE up
              /\ UNCHANGED refusal
         ELSE /\ Refuse(c, why)
              /\ down' = [down EXCEPT ![c] = <<>>]
              /\ UNCHANGED <<copy, up>>
      /\ UNCHANGED <<matchVars, log, wait, gbTo>>

-----------------------------------------------------------------------------
Do(action) == UNCHANGED <<remote, loseAt>> /\ action

\* Where the exploration of a match that goes on is cut.
AtBound == \A f \in Alive : tick[f] = MaxTick

\* The server waits for the input of a client whose connection has ended.
Abandoned == \E c \in Alive \intersect remote : refusal[c] = "closed"

LockstepNext ==
  \/ \E c \in Fields : Do(LocalStep(c)) \/ Do(ServerReads(c)) \/ Do(ClientStep(c))
                       \/ Do(ClientReads(c)) \/ Do(Disconnect(c))
  \/ (Over \/ AtBound \/ Abandoned) /\ UNCHANGED allVars

LockstepSpec == LockstepInit /\ [][LockstepNext]_allVars

(* What is sent is delivered and read, and the timers of the schedulers    *)
(* fire: as long as one of them can, one of them does, which is enough     *)
(* since each brings the match nearer to its end or to the bound.  Nothing *)
(* obliges a client to leave, not even a refusal: the peer of a write that *)
(* failed is never closed (onWrite, processError).                         *)
Goes(c) == LocalStep(c) \/ ServerReads(c) \/ ClientStep(c) \/ ClientReads(c)

Fairness == WF_allVars(\E c \in Fields : Do(Goes(c)))

FairSpec == LockstepSpec /\ Fairness

-----------------------------------------------------------------------------
(* Copies never diverge: what the server has applied to a field is what    *)
(* its player did first, and what a client has applied to the field of     *)
(* another is what the server applied first, inputs and drops of garbages  *)
(* in the same order.  It is why a player drops its garbages itself.       *)
CopiesAgree ==
  \A c \in remote \intersect players, f \in Fields :
    IF c = f THEN phase = "GAME" => IsPrefix(log[f], copy[c].log[f])
             ELSE IsPrefix(copy[c].log[f], log[f])

(* News, some of the messages of a queue, are in their order what takes a  *)
(* log from n entries to m.                                                *)
Bring(news, n, m, l) ==
  \E place \in [DOMAIN news -> (n + 1)..m] :
    /\ \A i \in DOMAIN news : l[place[i]] = news[i]
    /\ \A i, j \in DOMAIN news : i < j => place[i] < place[j]
    /\ \A p \in (n + 1)..m : \E i \in DOMAIN news : place[i] = p

(* Nothing is lost on the way: what is missing in a copy is on its way to  *)
(* it, in the order in which it will be applied.                           *)
UpEntry(m) == IF m.type = "INPUT" THEN Key(m.tick) ELSE Drop(m.gb)

About(m, f) ==
  \/ m.type = "INPUT" /\ m.fld = f
  \/ m.type = "DROP" /\ m.gb \in DOMAIN gbTo /\ gbTo[m.gb] = f

NewsOf(q, f) == [i \in {j \in DOMAIN q : About(q[j], f)} |-> UpEntry(q[i])]

NothingMissing ==
  \A c \in Following, f \in Fields :
    IF c = f
    THEN phase = "GAME" => copy[c].log[f] = log[f] \o [i \in DOMAIN up[c] |-> UpEntry(up[c][i])]
    ELSE f \in remote \/ gbTo = <<>> =>
           /\ IsPrefix(copy[c].log[f], log[f])
           /\ Bring(NewsOf(down[c], f), Len(copy[c].log[f]), Len(log[f]), log[f])

(* A client that keeps to its own window is inside the server's, and what  *)
(* the server accepts is inside the window of every client, although each  *)
(* has a match tick of its own: an input is refused for its lag only if it *)
(* was hasty.                                                              *)
OnlyHastyRefused ==
  [][\A c \in remote :
       /\ refusal'[c] = "server: lag" /\ refusal[c] = "" => Head(up[c]).hasty
       /\ refusal'[c] = "client: lag" /\ refusal[c] = "" => Head(down[c]).hasty]_allVars

(* A match is played to its end, or here to the last tick explored: the    *)
(* players, their copies and the server wait for each other by turns, and  *)
(* none waits for ever even if some leave, unless it is for the field of a *)
(* client given up whose peer was never closed, or was reported as another *)
(* (PeerSocket::close): that field lives on and nobody steps it.           *)
MatchGoesOn ==
  \/ <>(phase # "GAME" \/ AtBound)
  \/ <>[](\E c \in Alive \intersect remote : refusal[c] # "")

=============================================================================
