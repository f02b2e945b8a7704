---------------------------- MODULE Elimination ----------------------------
(***************************************************************************)
(* What a match promises, without its clock: fields die, dead fields are   *)
(* ranked sooner or later, and the match is over when fewer than two are   *)
(* left to rank.  Match implements it; Server uses it as its idea of a     *)
(* match (Server!Rankable).                                                *)
(***************************************************************************)
CONSTANT Fields

VARIABLES
  alive,     \* the fields that have not lost
  ranked,    \* the fields that have a rank, and keep it
  players,   \* the fields that still belong to a player
  phase      \* "GAME", "LOBBY" after the match, "ABORTED" after a failed assert

vars == <<alive, ranked, players, phase>>

Init ==
  /\ alive = Fields
  /\ ranked = {}
  /\ players = Fields
  /\ phase = "GAME"

(* Some of the dead are ranked, all of them when nobody is alive; the last *)
(* field left is ranked with them and ends the match.  Every field ranked  *)
(* must still have a player.                                               *)
Judge(live, present) ==
  \E dead \in SUBSET ((Fields \ live) \ ranked) :
    LET left == (Fields \ ranked) \ dead
        over == \A f, g \in left : f = g    \* fewer than two are left
        told == dead \union (IF over THEN left ELSE {})
    IN  /\ live = {} => left = {}
        /\ ranked' = ranked \union told
        /\ phase' = CASE ~(told \subseteq present) -> "ABORTED"
                      [] told \subseteq present /\ over -> "LOBBY"
                      [] OTHER -> "GAME"

Step(f) ==
  /\ phase = "GAME"
  /\ f \in alive \intersect players
  /\ \/ UNCHANGED alive
     \/ alive' = alive \ {f}
  /\ Judge(alive', players)
  /\ UNCHANGED players

Leave(f) ==
  /\ phase = "GAME"
  /\ f \in players
  /\ alive' = alive \ {f}
  /\ Judge(alive', players)
  /\ players' = players \ {f}

Next == \E f \in Fields : Step(f) \/ Leave(f)

Spec == Init /\ [][Next]_vars
=============================================================================
