------------------------------- MODULE Match -------------------------------
(***************************************************************************)
(* One running match: the fields of Match (game.cpp) stepped and abandoned *)
(* through the server (server.cpp).                                        *)
(*                                                                         *)
(* A field is stepped by its player one tick at a time; players advance    *)
(* independently, up to LagMax ticks ahead of the match tick.  The match   *)
(* tick decides when a dead field can be ranked and when a step is         *)
(* refused, so its upkeep (Match::updateTick) is what the ranking and the  *)
(* progress of everybody rest on.                                          *)
(*                                                                         *)
(* What happens inside a field is abstracted to one bit: whether the step  *)
(* makes it lose.                                                          *)
(***************************************************************************)
EXTENDS Integers, FiniteSets, FiniteSetsExt

CONSTANTS
  N,          \* number of fields of the match
  LagMax,     \* ServerConf::tk_lag_max
  Countdown,  \* ServerConf::tk_start_countdown: no raise, hence no loss, before
  MaxTick     \* bound on the ticks explored (the code's Tick has 32 bits)

ASSUME FieldsAssumption == N \in Nat \ {0}
\* With a smaller window no field could ever make its first step.
ASSUME LagAssumption == LagMax \in Nat \ {0, 1}
ASSUME BoundsAssumption == Countdown \in Nat /\ MaxTick \in Nat

Fields == 1..N    \* fields_, in the order of the vector

VARIABLES
  tick,       \* Field::tick_
  lost,       \* Field::lost_
  rank,       \* Field::rank_, 0 until ranked
  players,    \* the fields that still belong to a player: player(fld) # NULL
  matchTick,  \* Match::tick_
  phase       \* "GAME" until stopMatch ("LOBBY") or a failed assert ("ABORTED")

vars == <<tick, lost, rank, players, matchTick, phase>>

Phases == {"GAME", "LOBBY", "ABORTED"}

TypeOK ==
  /\ tick \in [Fields -> Nat]
  /\ lost \in [Fields -> BOOLEAN]
  /\ rank \in [Fields -> 0..N]
  /\ players \subseteq Fields
  /\ matchTick \in Nat
  /\ phase \in Phases

Alive == {f \in Fields : ~lost[f]}

-----------------------------------------------------------------------------
(* Match::start: every field of the match is initialised.                  *)
Init ==
  /\ tick = [f \in Fields |-> 0]
  /\ lost = [f \in Fields |-> FALSE]
  /\ rank = [f \in Fields |-> 0]
  /\ players = Fields
  /\ matchTick = 0
  /\ phase = "GAME"

\* Mutant: the dead fields are not skipped.
ScanTickWithDead(t, l) == Min({t[f] : f \in Fields})

(* Match::updateTick.  The scan takes the value 0 both for "none yet" and  *)
(* for the tick of a field, so that a living field still at tick 0 makes   *)
(* it forget the fields scanned before; when nothing is left the match     *)
(* tick is the highest tick of all the fields.                             *)
ScanTick(t, l) ==
  LET alive == {f \in Fields : ~l[f]}
      seen  == {f \in alive : \A g \in alive : g >= f => t[g] # 0}
  IN  IF seen = {} THEN Max({t[f] : f \in Fields})
                   ELSE Min({t[f] : f \in seen})

(* Match::updateRanks on fields t, l and match tick m: the dead fields     *)
(* within the match tick are ranked below those still unranked...          *)
ToRankLate(t, l, m) == {f \in Fields : rank[f] = 0 /\ l[f] /\ t[f] < m}  \* mutant
ToRank(t, l, m) == {f \in Fields : rank[f] = 0 /\ l[f] /\ t[f] <= m}

Unranked(t, l, m) == {f \in Fields : rank[f] = 0} \ ToRank(t, l, m)

(* ... those of equal tick sharing their rank, and the last field left     *)
(* unranked, if it is alone, is first.                                     *)
RankingFrom(base, t, l, m) ==
  LET dead == ToRank(t, l, m)
      left == Unranked(t, l, m)
  IN  [f \in Fields |->
         IF f \in dead THEN base + Cardinality({g \in dead : t[g] < t[f]})
         ELSE IF left = {f} THEN 1 ELSE rank[f]]

\* Mutants: the ranks taken up by a tie are not skipped, and a wrong base.
RankingDense(t, l, m) ==
  LET dead == ToRank(t, l, m)
      left == Unranked(t, l, m)
  IN  [f \in Fields |->
         IF f \in dead
         THEN Cardinality(left) + 1 + Cardinality({t[g] : g \in {d \in dead : t[d] < t[f]}})
         ELSE IF left = {f} THEN 1 ELSE rank[f]]
RankingFromBottom(t, l, m) ==
  RankingFrom(Cardinality({f \in Fields : rank[f] = 0}) + 1, t, l, m)

Ranking(t, l, m) ==
  RankingFrom(Cardinality(Unranked(t, l, m)) + 1, t, l, m)

(* ServerInstance::updateRanks: assert(pl) for every field just ranked,    *)
(* then stopMatch when fewer than two fields are left.                     *)
UpdateRanks(t, l, m) ==
  LET left == Unranked(t, l, m)
      over == Cardinality(left) < 2
      told == ToRank(t, l, m) \union (IF over THEN left ELSE {})
  IN  /\ rank' = Ranking(t, l, m)
      /\ phase' = CASE ~(told \subseteq players) -> "ABORTED"
                    [] told \subseteq players /\ over -> "LOBBY"
                    [] OTHER -> "GAME"

(* The window in which a field may be stepped: GameInputScheduler breaks   *)
(* for a local player, stepRemotePlayer throws for a remote one.           *)
MayStep(f) ==
  /\ f \in players
  /\ ~lost[f]
  /\ tick[f] + 1 < matchTick + LagMax

(* "don't update tick_ when it will obviously not be modified"             *)
AtMatchTick(f) == tick[f] = matchTick

(* ServerInstance::doStepPlayer: the field is stepped, and may lose once   *)
(* the countdown has enabled the raise; the match tick is updated only     *)
(* when the field was at it; then ranks are.                               *)
StepField(f) ==
  /\ phase = "GAME"
  /\ MayStep(f)
  /\ tick[f] < MaxTick
  /\ tick' = [tick EXCEPT ![f] = @ + 1]
  /\ \/ UNCHANGED lost
     \/ /\ tick[f] >= Countdown
        /\ lost' = [lost EXCEPT ![f] = TRUE]
  /\ matchTick' = IF AtMatchTick(f) THEN ScanTick(tick', lost') ELSE matchTick
  /\ UpdateRanks(tick', lost', matchTick')
  /\ UNCHANGED players

(* ServerInstance::removePlayer of a player who has a field: it quits, or  *)
(* its connection fails, or the server refused one of its inputs.          *)
Leave(f) ==
  /\ phase = "GAME"
  /\ f \in players
  /\ lost' = [lost EXCEPT ![f] = TRUE]
  /\ matchTick' = ScanTick(tick, lost')
  /\ UpdateRanks(tick, lost', matchTick')
  /\ players' = players \ {f}
  /\ UNCHANGED tick

(* The match is over, or the process is.                                   *)
Over == phase # "GAME" /\ UNCHANGED vars

Next ==
  \/ \E f \in Fields : StepField(f) \/ Leave(f)
  \/ Over

Spec == Init /\ [][Next]_vars

-----------------------------------------------------------------------------
(* Ranks form a competition ranking, at the end and at any time before:    *)
(* the rank of a field is one more than the number of fields ranked better *)
(* or still to be ranked, so that equal ticks share a rank, the ranks they *)
(* take up are skipped, and an announced rank never has to be revised      *)
(* (Match::updateRanks called after every step and every departure).       *)
CompetitionRanking ==
  \A f \in Fields :
    rank[f] # 0 => rank[f] = 1 + Cardinality({g \in Fields : rank[g] < rank[f]})

(* A running match is never stuck: some player still in the match is       *)
(* inside the sliding window, although the match tick is updated only by   *)
(* the field that stands at it and may be ahead of others.                 *)
SomeoneMayStep == phase = "GAME" => \E f \in Fields : MayStep(f)

(* What keeps the match tick moving: either a living field stands at it,   *)
(* and will update it with its next step, or no field is ahead of it.      *)
ClockAnchored ==
  phase = "GAME" =>
    \/ \E f \in Alive : tick[f] = matchTick
    \/ \A f \in Fields : tick[f] <= matchTick

(* Once a handler is done, no dead field that the match tick has reached   *)
(* is left without a rank.                                                 *)
RanksCurrent ==
  phase = "GAME" => \A f \in Fields : lost[f] /\ rank[f] = 0 => tick[f] > matchTick

(* A field alive when the match stops is its only winner.                  *)
SurvivorWins ==
  phase = "LOBBY" =>
    \A f \in Alive : rank[f] = 1 /\ \A g \in Fields \ {f} : rank[g] > 1

(* The clock only delays the ranking of the dead: a match is an instance   *)
(* of Elimination, in which some of them are ranked at each step and all   *)
(* of them once nobody is alive (the tick is then the highest one).        *)
Ranked == {f \in Fields : rank[f] # 0}

E == INSTANCE Elimination WITH alive <- Alive, ranked <- Ranked

ImplementsElimination == E!Spec

=============================================================================
