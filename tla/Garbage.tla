------------------------------ MODULE Garbage -------------------------------
(***************************************************************************)
(* Garbages, from the combo or chain that makes them to their drop: the    *)
(* GarbageDistributor of the server (game.cpp), the queues of each field,  *)
(* and the copy of these queues that one client keeps (client.cpp).        *)
(*                                                                         *)
(* A garbage hangs above its target for some ticks, is then announced as   *)
(* waiting, and dropped when the client that plays the target confirms it. *)
(* Fields are stepped as in Match, with the combo and chain of the step.   *)
(***************************************************************************)
EXTENDS Match, SequencesExt

CONSTANTS
  Me,         \* the field of the client that is followed; others play the rest
  HangTk,     \* FieldConf::gb_hang_tk
  Combos,     \* the sizes of combos explored
  ChainMax,   \* bound on the length of chains
  GbMax       \* bound on the number of garbages

ASSUME MeAssumption == Me \in Fields
\* instance.h: tk_lag_max "must be lower than the gb_hang_tk".
ASSUME HangAssumption == HangTk \in Nat /\ LagMax < HangTk
ASSUME ComboAssumption == Combos \subseteq Nat \ 0..2
ASSUME GbBoundsAssumption == ChainMax \in Nat /\ GbMax \in Nat

Width == 6      \* FIELD_WIDTH

VARIABLES
  chain,      \* Field::chain_
  gbs,        \* the garbages made so far, in the order of their IDs
  hang,       \* Field::gbs_hang_: the garbages above each field
  wait,       \* Field::gbs_wait_: those its player has been told to drop
  active,     \* gbs_chain_: the garbage of the active chain of each field, or 0
  due,        \* drop_ticks_
  down,       \* what the server has sent and the client has not read
  view,       \* the client: its queues, its garbages, the drops it has confirmed and
              \* the server has not read (up), the players it has seen quit (gone),
              \* the message it refused (error)
  failed      \* the assertion of the server that failed, or ""

gbVars == <<chain, gbs, hang, wait, active, due, down, view, failed>>
allVars == <<vars, gbVars>>

GbIds == 1..GbMax
Types == {"CHAIN", "COMBO"}

GarbageRecord == [from : Fields, to : Fields, type : Types, size : Nat \ {0}]

\* What is sent about the garbages of these IDs.
Message(ids) ==
  [type : {"NEW"}, gb : ids, from : Fields, to : Fields, pos : Nat, size : Nat \ {0}]
    \union [type : {"SIZE"}, gb : ids, pos : {0}, size : Nat \ {0}]
    \union [type : {"WAIT", "DROP"}, gb : ids]
    \union [type : {"QUIT"}, player : Fields]

GarbageTypeOK ==
  /\ TypeOK
  /\ chain \in [Fields -> Nat \ {0}]
  /\ gbs \in Seq(GarbageRecord)
  /\ hang \in [Fields -> Seq(GbIds)] /\ wait \in [Fields -> Seq(GbIds)]
  /\ active \in [Fields -> GbIds \union {0}]
  /\ due \in [DOMAIN gbs -> Nat]
  /\ down \in Seq(Message(GbIds))
  /\ view.hang \in [Fields -> Seq(GbIds)] /\ view.wait \in [Fields -> Seq(GbIds)]
  /\ DOMAIN view.gbs \subseteq GbIds
  /\ view.gbs \in [DOMAIN view.gbs -> [to : Fields, size : Nat \ {0}]]
  /\ view.up \in Seq(GbIds) /\ view.gone \subseteq Fields
  /\ view.error \in {"", "garbage not found", "invalid garbage position",
                     "invalid garbage target", "invalid garbage origin",
                     "invalid player", "assertion", "invalid dropped garbage"}
  /\ failed \in {"", "no target", "no chain garbage"}
  \* A garbage is in one place, and above its target.
  /\ \A f \in Fields :
       /\ IsInjective(hang[f] \o wait[f])
       /\ \A g \in Range(hang[f] \o wait[f]) : gbs[g].to = f
       /\ \A g \in Range(hang[f]) : gbs[g].type = "COMBO" => gbs[g].size <= Width

GarbageInit ==
  /\ Init
  /\ chain = [f \in Fields |-> 1]
  /\ gbs = <<>> /\ due = <<>>
  /\ hang = [f \in Fields |-> <<>>] /\ wait = hang
  /\ active = [f \in Fields |-> 0]
  /\ down = <<>>
  /\ view = [hang |-> hang, wait |-> wait, gbs |-> <<>>, up |-> <<>>, gone |-> {},
              error |-> ""]
  /\ failed = ""

-----------------------------------------------------------------------------
(* The garbages above the fields, on the server and on the client.         *)
InsertHangingGarbage(s, f, g, pos) == [s EXCEPT !.hang[f] = InsertAt(@, pos + 1, g)]
RemoveHangingGarbage(s, f, g) == [s EXCEPT !.hang[f] = RemoveFirst(@, g)]
AddGarbage(s, to, g, pos) == InsertHangingGarbage(s, to, g, pos)
WaitGarbageDrop(s, f, g) == [RemoveHangingGarbage(s, f, g) EXCEPT !.wait[f] = Append(@, g)]

(* updateGarbages, as a chain of changes to the state of the distributor.  *)
Now ==
  [gbs |-> gbs, hang |-> hang, wait |-> wait, active |-> active, due |-> due,
   sent |-> <<>>, failed |-> ""]

\* A chain garbage goes before the other ones, if there are any.
Position(s, to, type) ==
  LET chains == {i \in DOMAIN s.hang[to] : s.gbs[s.hang[to][i]].type = "CHAIN"}
  IN  IF type = "CHAIN" /\ chains # {} THEN Min(chains) - 1 ELSE Len(s.hang[to])

\* IDs are not used again: the counter does not come round (bound GbMax).
NextGarbageId(s) == Len(s.gbs) + 1

\* newGarbage, Match::addGarbage and onGarbageAdd.
NewGarbage(s, from, to, type, size) ==
  LET id == NextGarbageId(s)
      pos == Position(s, to, type)
  IN  [AddGarbage(s, to, id, pos) EXCEPT
                !.gbs = Append(@, [from |-> from, to |-> to, type |-> type, size |-> size]),
                !.due = Append(@, tick'[to] + HangTk),
                !.active[from] = IF type = "CHAIN" THEN id ELSE @,
                !.sent = Append(@, [type |-> "NEW", gb |-> id, from |-> from, to |-> to,
                                    pos |-> pos, size |-> size])]

CancelChain(s, f) == IF chain'[f] < 2 THEN [s EXCEPT !.active[f] = 0] ELSE s

\* Mutants: an active chain does not hold its garbages; the waiting ones are
\* stacked; a garbage that waits hangs still.
DropDueAnyway(s, f) ==
  IF s.hang[f] # <<>> /\ s.due[Head(s.hang[f])] <= tick'[f]
  THEN [WaitGarbageDrop(s, f, Head(s.hang[f])) EXCEPT
          !.sent = Append(@, [type |-> "WAIT", gb |-> Head(s.hang[f])])]
  ELSE s
DropDueFirst(s, f) ==
  IF s.hang[f] # <<>> /\ s.active[s.gbs[Head(s.hang[f])].from] = 0
       /\ s.due[Head(s.hang[f])] <= tick'[f]
  THEN [s EXCEPT !.hang[f] = Tail(@), !.wait[f] = <<Head(s.hang[f])>> \o @,
                 !.sent = Append(@, [type |-> "WAIT", gb |-> Head(s.hang[f])])]
  ELSE s

DropDueHanging(s, f) ==
  IF s.hang[f] # <<>> /\ s.active[s.gbs[Head(s.hang[f])].from] = 0
       /\ s.due[Head(s.hang[f])] <= tick'[f]
  THEN [s EXCEPT !.wait[f] = Append(@, Head(s.hang[f])),
                 !.sent = Append(@, [type |-> "WAIT", gb |-> Head(s.hang[f])])]
  ELSE s

(* The first garbage above the field is dropped when it is due, unless its *)
(* maker has an active chain (onGarbageDrop, Match::waitGarbageDrop).  The *)
(* comparison through the end of gbs_chain_ always differs.                *)
DropDue(s, f) ==
  IF s.hang[f] # <<>> /\ s.active[s.gbs[Head(s.hang[f])].from] = 0
       /\ s.due[Head(s.hang[f])] <= tick'[f]
  THEN [WaitGarbageDrop(s, f, Head(s.hang[f])) EXCEPT
          !.sent = Append(@, [type |-> "WAIT", gb |-> Head(s.hang[f])])]
  ELSE s

(* A chain that goes on adds a line to its garbage, and puts its drop off. *)
Grow(s, f) ==
  LET g == s.active[f]
  IN  IF g = 0 THEN [s EXCEPT !.failed = "no chain garbage"]
      ELSE [s EXCEPT !.gbs[g].size = @ + 1,
                     !.due[g] = tick'[f] + HangTk,
                     !.sent = Append(@, [type |-> "SIZE", gb |-> g, pos |-> 0,
                                         size |-> s.gbs[g].size + 1])]

\* The blocks a combo is split into.
ComboWidths(combo) ==
  LET halves(n) == <<n \div 2, (n + 1) \div 2>>
      lines(n) == [i \in 1..n |-> Width]
  IN  CASE combo <= 3 -> <<>>
        [] combo > 3 /\ combo - 1 <= Width -> <<combo - 1>>
        [] combo - 1 > Width /\ combo <= 2 * Width ->
             halves(IF combo > (Width * 3) \div 2 THEN combo ELSE combo - 1)
        [] combo = 2 * Width + 1 -> lines(3)
        [] combo > 2 * Width + 1 /\ combo <= 3 * Width + 1 -> lines(4)
        [] combo > 3 * Width + 1 /\ combo <= 4 * Width + 2 -> lines(6)
        [] OTHER -> lines(8)

NewBlocks(s, from, to, combo) ==
  FoldLeft(LAMBDA s1, w : NewGarbage(s1, from, to, "COMBO", w), s, ComboWidths(combo))

\* The second match of a chain makes its garbage, the next ones let it grow.
NewChain(s, f, to, info) ==
  CASE info = 1 -> s
    [] info = 2 -> NewGarbage(s, f, to, "CHAIN", 1)
    [] info > 2 -> Grow(s, f)

Opponents(f) == {g \in Fields \ {f} : ~lost'[g]}

(* The new garbages of a step: info is its chain, the default being 1.     *)
(* The targets of each field are never filled in, so that only a single    *)
(* opponent can be sent anything.                                          *)
Distribute(s, f, combo, info) ==
  LET opponents == Opponents(f)
      to == CHOOSE g \in opponents : TRUE
      chained == NewChain(s, f, to, info)
  IN  CASE combo = 0 \/ opponents = {} -> s
        [] combo # 0 /\ Cardinality(opponents) > 1 ->
             IF info = 2 \/ combo > 3 THEN [s EXCEPT !.failed = "no target"]
             ELSE IF info > 2 THEN Grow(s, f) ELSE s
        [] OTHER -> IF chained.failed = "" THEN NewBlocks(chained, f, to, combo)
                     ELSE chained

UpdateGarbages(f, combo, info) ==
  Distribute(DropDue(CancelChain(Now, f), f), f, combo, info)

Become(s) ==
  /\ gbs' = s.gbs /\ hang' = s.hang /\ wait' = s.wait
  /\ active' = s.active /\ due' = s.due
  /\ down' = down \o s.sent /\ failed' = s.failed

(* doStepPlayer.  A match may chain or not (that some match must come      *)
(* before the first that chains is left out, as the grid is); the chain    *)
(* ends some step without a match, or with the field.                      *)
Step(f) ==
  /\ StepField(f)
  /\ \E combo \in Combos \union {0}, chained \in BOOLEAN :
       /\ combo > 0 => tick[f] >= Countdown /\ ~lost'[f]
       /\ chained => combo > 0
       /\ \/ combo > 0 /\ chain' = [chain EXCEPT ![f] = IF chained THEN @ + 1 ELSE @]
          \/ combo = 0 /\ ~lost'[f] /\ UNCHANGED chain
          \/ combo = 0 /\ chain' = [chain EXCEPT ![f] = 1]
       /\ chain'[f] <= ChainMax
       /\ LET s == UpdateGarbages(f, combo, IF chained THEN chain'[f] ELSE 1)
          IN  Len(s.gbs) <= GbMax /\ Become(s)
  /\ UNCHANGED view

\* removePlayer: the client followed stays, and is told of the others.
Abandon(f) ==
  /\ f # Me /\ Leave(f)
  /\ down' = Append(down, [type |-> "QUIT", player |-> f])
  /\ UNCHANGED <<chain, gbs, hang, wait, active, due, view, failed>>

(* processPktGarbageState.  The client that plays another field confirms   *)
(* each drop when it likes; the one followed has them in view.up.          *)
ReadDrop(f, g) ==
  /\ phase = "GAME" /\ f \in players
  /\ wait[f] # <<>> /\ Head(wait[f]) = g
  /\ wait' = [wait EXCEPT ![f] = Tail(@)]
  /\ down' = Append(down, [type |-> "DROP", gb |-> g])
  /\ UNCHANGED <<vars, chain, gbs, hang, active, due, failed>>

OthersDrop == \E f \in Fields \ {Me} : ReadDrop(f, Head(wait[f])) /\ UNCHANGED view
MineDrops ==
  /\ view.up # <<>>
  /\ ReadDrop(Me, Head(view.up))
  /\ view' = [view EXCEPT !.up = Tail(@)]

-----------------------------------------------------------------------------
(* The client: processPktNewGarbage, processPktUpdateGarbage, and          *)
(* processPktGarbageState, which drops its own garbages at once.           *)
Refuse(v, why) == [v EXCEPT !.error = why]

OnNew(v, m) ==
  IF m.to \in v.gone THEN Refuse(v, "invalid garbage target")
  ELSE IF m.from \in v.gone THEN Refuse(v, "invalid garbage origin")
  ELSE IF m.pos > Len(v.hang[m.to]) THEN Refuse(v, "invalid garbage position")
  ELSE [AddGarbage(v, m.to, m.gb, m.pos) EXCEPT
          !.gbs = [g \in DOMAIN @ \union {m.gb} |->
                     IF g = m.gb THEN [to |-> m.to, size |-> m.size] ELSE @[g]]]

\* The garbage is found among those that hang.
Hangs(v, g) == g \in DOMAIN v.gbs /\ Contains(v.hang[v.gbs[g].to], g)

MoveHangingGarbage(v, to, g, pos) ==
  InsertHangingGarbage(RemoveHangingGarbage(v, to, g), to, g, pos)

\* Mutant: the size is not updated.
OnSizeMoved(v, m) ==
  IF ~Hangs(v, m.gb) THEN Refuse(v, "garbage not found")
  ELSE MoveHangingGarbage(v, v.gbs[m.gb].to, m.gb, m.pos)

\* The target is left as it is, and pos is never set: the garbage goes first.
OnSize(v, m) ==
  IF ~Hangs(v, m.gb) THEN Refuse(v, "garbage not found")
  ELSE IF v.gbs[m.gb].to \in v.gone THEN Refuse(v, "assertion")
  ELSE [MoveHangingGarbage(v, v.gbs[m.gb].to, m.gb, m.pos) EXCEPT
          !.gbs[m.gb].size = m.size]

OnWait(v, m) ==
  LET to == v.gbs[m.gb].to
  IN  IF ~Hangs(v, m.gb) THEN Refuse(v, "garbage not found")
      ELSE IF to \in v.gone THEN Refuse(v, "assertion")
      ELSE IF to = Me THEN [RemoveHangingGarbage(v, to, m.gb) EXCEPT !.up = Append(@, m.gb)]
      ELSE WaitGarbageDrop(v, to, m.gb)

OnDrop(v, m) ==
  LET to == v.gbs[m.gb].to
  IN  IF m.gb \notin DOMAIN v.gbs THEN Refuse(v, "garbage not found")
      ELSE IF to \in v.gone THEN Refuse(v, "invalid player")
      ELSE IF to = Me THEN v      \* "already dropped"
      ELSE IF v.wait[to] = <<>> \/ Head(v.wait[to]) # m.gb
           THEN Refuse(v, "invalid dropped garbage")
           ELSE [v EXCEPT !.wait[to] = Tail(@)]

\* processPktPlayerState: the queues of the field stay as they are.
OnQuit(v, m) == [v EXCEPT !.gone = @ \union {m.player}]

On(v, m) ==
  CASE v.error # "" -> v
    [] v.error = "" /\ m.type = "NEW" -> OnNew(v, m)
    [] v.error = "" /\ m.type = "SIZE" -> OnSize(v, m)
    [] v.error = "" /\ m.type = "WAIT" -> OnWait(v, m)
    [] v.error = "" /\ m.type = "DROP" -> OnDrop(v, m)
    [] v.error = "" /\ m.type = "QUIT" -> OnQuit(v, m)

ClientReads ==
  /\ down # <<>>
  /\ view' = On(view, Head(down))
  /\ down' = Tail(down)
  /\ UNCHANGED <<vars, chain, gbs, hang, wait, active, due, failed>>

-----------------------------------------------------------------------------
AtBound == \A f \in Alive : tick[f] = MaxTick

GarbageNext ==
  \/ failed = "" /\ (\/ \E f \in Fields : Step(f) \/ Abandon(f)
                     \/ OthersDrop \/ MineDrops \/ ClientReads)
  \/ (failed # "" \/ phase # "GAME" \/ AtBound) /\ UNCHANGED allVars

GarbageSpec == GarbageInit /\ [][GarbageNext]_allVars

-----------------------------------------------------------------------------
(* The garbage of an active chain is still above its target: a chain that  *)
(* goes on never adds a line to a garbage being dropped, nor finds its     *)
(* garbage gone, although the two fields are at different ticks and the    *)
(* target drops garbages in its own steps (updateGarbages).                *)
ActiveChainHangs ==
  /\ \A f \in Fields :
       active[f] # 0 =>
         LET gb == gbs[active[f]]
         IN  gb.from = f /\ gb.type = "CHAIN" /\ active[f] \in Range(hang[gb.to])
  /\ failed # "no chain garbage"

\* What the client will be once it has read everything sent to it.
Ahead == FoldLeft(On, view, down)

(* A drop confirmed is the one the server waits for: the garbages a field  *)
(* waits to drop are those its client has confirmed, then those it has yet *)
(* to be told, in this order (processPktGarbageState of both sides).       *)
ConfirmedInOrder == wait[Me] = Ahead.up

(* Once it has read everything sent to it, the client has the garbages of  *)
(* the server, as large, hanging over the same fields, and those of others *)
(* wait in the same order; it refuses no message on the way, and finds the *)
(* players of each, whoever quits meanwhile.  Only the order of those that *)
(* hang may differ.                                                        *)
ViewFollows ==
  LET v == Ahead
  IN  /\ v.error = "" /\ v.gone = Fields \ players
      /\ \A f \in Fields :
           /\ Range(v.hang[f]) = Range(hang[f])
           /\ f # Me => v.wait[f] = wait[f]
           /\ \A g \in Range(hang[f]) : v.gbs[g] = [to |-> f, size |-> gbs[g].size]

(* game.cpp: assert( targets_it != targets_chain_.end() ), and the same of *)
(* targets_combo_.  Nothing ever fills these maps in, so that the server   *)
(* ends with the first garbage that has several possible targets.          *)
EverybodyIsServed == failed # "no target"
=============================================================================
