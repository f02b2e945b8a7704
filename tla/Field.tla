-------------------------------- MODULE Field --------------------------------
(***************************************************************************)
(* One field: a frame of Field::step (game.cpp) on a grid of blocks, with  *)
(* everything it calls.  Blocks fall, match, flash, pop and chain;         *)
(* garbages drop, fall, and are transformed line by line; the player moves *)
(* the cursor, swaps and raises; the field is lost once full for too long. *)
(*                                                                         *)
(* A timer is the number of frames left (Block::ntick - tick_), which is   *)
(* all the code compares.  The progress and speeds of the raise only       *)
(* decide which of the frames that may raise the field do: any may.  A     *)
(* draw of rand() is any color its loop accepts.                           *)
(***************************************************************************)
EXTENDS Integers, Sequences, FiniteSetsExt

CONSTANTS
  W, H,          \* FIELD_WIDTH, FIELD_HEIGHT
  Colors,        \* the colors drawn, 1..color_nb
  Conf,          \* the timers of FieldConf, by name
  KeyRepeat,     \* frames after which a move that is held repeats
  Starts,        \* the colors fillRandom may have drawn, by cell
  StartCursor,   \* where initMatch puts the cursor
  KeySets,       \* the sets of keys a player presses
  Garbages,      \* the garbages other fields send
  Rows,          \* bound: the lines drawn by a raise
  MaxEvents,     \* bound: frames with keys and garbages, together
  MaxRaises      \* bound: lines raised

Xs == 0..W-1
Ys == 1..H                \* the line 0 is the next one to be raised
Cells == Xs \X (0..H)
Keys == {"UP", "DOWN", "LEFT", "RIGHT", "SWAP", "RAISE"}
Moves == {"UP", "DOWN", "LEFT", "RIGHT"}

\* FieldConf::isValid, but for what the state has no use of: gb_hang_tk (Garbage), the
\* speeds of the raise and when they change, and color_nb < 16 (colors fit in 4 bits).
ValidConf ==
  /\ \A t \in {"swap_tk", "flash_tk", "levitate_tk", "pop_tk", "pop0_tk", "transform_tk"} :
        Conf[t] \in Nat \ {0}
  /\ {Conf.lost_tk, Conf.stop_combo_0, Conf.stop_combo_k} \subseteq Nat
  /\ {Conf.stop_chain_0, Conf.stop_chain_k} \subseteq Nat
  /\ Conf.stop_combo_0 + Conf.stop_combo_k > 0 /\ Conf.stop_chain_0 + Conf.stop_chain_k > 0
  /\ Conf.raise_adjacent \in {"NEVER", "ALWAYS", "ALTERNATE"}
  /\ Cardinality(Colors) > 3
ASSUME ConfAssumption == ValidConf
ASSUME ColorAssumption == Colors \subseteq Nat
ASSUME InputAssumption == KeySets \subseteq SUBSET Keys \ {{}} /\ Rows \subseteq [Xs -> Colors]
ASSUME GarbageAssumption ==
  \A g \in Garbages : \/ g.type = "COMBO" /\ g.w \in 1..W /\ g.h = 1
                      \/ g.type = "CHAIN" /\ g.w = W /\ g.h \in Nat \ {0}
\* fillRandom and setRaiseColor: a color differs from the one above, and from
\* the one on its left (on the line 0, the one raise_adjacent tells).
RaiseDx(raised) ==
  IF Conf.raise_adjacent = "ALWAYS" \/ (Conf.raise_adjacent = "ALTERNATE" /\ raised % 2 = 0)
  THEN 2 ELSE 1
FilledAtRandom(s) ==
  \E n \in 1..H-1 :
    /\ DOMAIN s = Xs \X (0..n)
    /\ \A p \in DOMAIN s :
         LET dx == IF p[2] = 0 THEN RaiseDx(0) ELSE 1
         IN /\ s[p] \in Colors
            /\ p[1] >= dx => s[p] # s[<<p[1] - dx, p[2]>>]
            /\ p[2] < n => s[p] # s[<<p[1], p[2] + 1>>]
ASSUME StartAssumption == \A s \in Starts : FilledAtRandom(s)

VARIABLES
  field,     \* the field, see FieldTypeOK
  odd,       \* tick_, of which only the passing matters
  left       \* what is left of MaxEvents

vars == <<field, odd, left>>

-----------------------------------------------------------------------------
(* Blocks *)

ColorStates ==
  {"REST", "FALL", "LAID", "LEVITATE", "FLASH", "MUTATE", "CLEARED", "TRANSFORMED"}
GarbageStates == {"G_REST", "G_FALL", "G_FLASH", "G_MUTATE", "G_TRANSFORMED"}

Block == [st : {"NONE"} \union ColorStates \union GarbageStates,
          col : Nat, gb : Nat, swapped : BOOLEAN, chaining : BOOLEAN,
          tk : Nat, pos : Nat, end : Nat]
Empty == [st |-> "NONE", col |-> 0, gb |-> 0, swapped |-> FALSE, chaining |-> FALSE,
          tk |-> 0, pos |-> 0, end |-> 0]
Resting(c) == [Empty EXCEPT !.st = "REST", !.col = c]
Levitating(b, chaining, tk) == [b EXCEPT !.st = "LEVITATE", !.chaining = chaining, !.tk = tk]
IsNone(b) == b.st = "NONE"
IsColor(b) == b.st \in ColorStates
IsGarbage(b) == b.st \in GarbageStates

Beside(p) == <<p[1] + 1, p[2]>>
Below(p) == <<p[1], p[2] - 1>>
Above(p) == <<p[1], p[2] + 1>>
Adjacent(p, q) == \/ p[2] = q[2] /\ p[1] - q[1] \in {-1, 1}
                  \/ p[1] = q[1] /\ p[2] - q[2] \in {-1, 1}

\* The cells of a garbage that are in the grid.
Span(g) == g.x .. g.x + g.w - 1
Lines(g) == {y \in Ys : y >= g.y /\ y < g.y + g.h}
Rect(g) == Span(g) \X Lines(g)

Put(f, p, b) == [f EXCEPT !.grid[p] = b]

-----------------------------------------------------------------------------
(* Evolution of the blocks *)

EvolveColor(f, p) ==
  LET b == f.grid[p]
      u == f.grid[Below(p)]
      floats == Levitating(b, b.chaining, Conf.levitate_tk)
      lay == Put(f, p, [b EXCEPT !.st = "LAID", !.tk = 0])
      column == {y \in p[2]+1 .. H-1 : \A yy \in p[2]+1 .. y :
                   f.grid[<<p[1], yy>>].st \in {"REST", "LAID"}}
  IN CASE b.st = "REST" /\ ~u.swapped ->
            Put(f, p, IF IsNone(u) THEN [floats EXCEPT !.chaining = FALSE]
                      ELSE IF u.st = "LEVITATE" THEN Levitating(b, u.chaining, u.tk)
                      ELSE [b EXCEPT !.chaining = FALSE])
       [] b.st = "LEVITATE" /\ b.tk = 0 ->
            IF ~IsNone(u) THEN lay
            ELSE Put(Put(f, p, Empty), Below(p), [u EXCEPT !.st = "FALL", !.col = b.col,
                                                           !.chaining = b.chaining])
       [] b.st = "LEVITATE" /\ b.tk > 0 /\ u.st = "LEVITATE" ->
            Put(f, p, Levitating(b, b.chaining \/ u.chaining, u.tk))
       [] b.st = "FALL" ->
            IF IsNone(u) THEN Put(Put(f, p, Empty), Below(p), b)
            ELSE IF u.st = "LEVITATE" THEN Put(f, p, Levitating(b, b.chaining, u.tk))
            ELSE lay
       [] b.st = "LAID" ->
            Put(f, p, IF IsNone(u) THEN floats
                      ELSE IF u.st = "LEVITATE" THEN Levitating(b, u.chaining, u.tk)
                      ELSE [b EXCEPT !.st = "REST"])
       [] b.st = "FLASH" /\ b.tk = 0 ->
            Put(f, p, [b EXCEPT !.st = "MUTATE", !.tk = Conf.pop0_tk + b.pos * Conf.pop_tk])
       [] b.st = "MUTATE" /\ b.tk = 0 ->
            Put(f, p, [b EXCEPT !.st = "CLEARED", !.pos = 0, !.end = 0,
                                !.tk = (b.end - b.pos - 1) * Conf.pop_tk + 1])
       [] b.st = "CLEARED" /\ b.tk = 0 ->
            [f EXCEPT !.grid = [q \in Cells |->
               IF q = p THEN Empty
               ELSE IF q[1] = p[1] /\ q[2] \in column
                 THEN Levitating(@[q], TRUE, Conf.levitate_tk)
               ELSE @[q]]]
       [] b.st = "TRANSFORMED" /\ b.tk = 0 ->
            Put(f, p, Levitating(b, TRUE, Conf.transform_tk))
       [] OTHER -> f

\* Field::setGarbageState.
SetGarbageState(f, id, st) ==
  [f EXCEPT !.grid = [q \in Cells |->
     IF q \in Rect(f.gbs[id]) THEN [@[q] EXCEPT !.st = st] ELSE @[q]]]

\* Field::fallGarbage.  A line above the grid comes into it.
FallGarbage(f, id) ==
  LET g == f.gbs[id]
      top == g.y + g.h - 1
  IN [f EXCEPT
       !.grid = [q \in Cells |->
          IF q[1] \in Span(g) /\ q[2] = g.y - 1 THEN f.grid[Above(q)]
          ELSE IF q[1] \in Span(g) /\ top > H /\ q[2] = H THEN f.grid[<<g.x, g.y>>]
          ELSE IF q[1] \in Span(g) /\ top <= H /\ q[2] = top THEN Empty
          ELSE @[q]],
       !.gbs[id].y = @ - 1]

\* The blocks of garbages that this frame turns into color blocks.
DueTransforms(f) ==
  {p \in Xs \X Ys : LET b == f.grid[p]
                    IN b.st = "G_MUTATE" /\ b.tk <= 1 /\ p[2] < f.gbs[b.gb].y}

\* Field::transformGarbage.  Every W-1 blocks, the color is the one found below.
Transform(f, p, draw) ==
  LET b == f.grid[p]
      g == f.gbs[b.gb]
      forced == f.transformed + 1 = W - 1
      below == {y \in 0..p[2]-1 : LET u == f.grid[<<p[1], y>>]
                                  IN IsColor(u) /\ u.st \notin {"MUTATE", "FLASH"}}
      copied == forced /\ below # {}
      color == IF copied THEN f.grid[<<p[1], Max(below)>>].col ELSE draw
      near == {f.grid[q] : q \in {Below(p)} \union {r \in {Beside(p)} : r \in Cells}}
  IN [f EXCEPT
       !.transformed = IF forced THEN 0 ELSE @ + 1,
       !.drawn = @ /\ (copied \/ \A n \in near : IsColor(n) => n.col # draw),
       !.gbs = IF g.h = 0 /\ p[1] = g.x THEN [id \in DOMAIN @ \ {b.gb} |-> @[id]] ELSE @,
       !.grid[p] = [Empty EXCEPT !.st = "TRANSFORMED", !.col = color, !.chaining = b.chaining,
                                 !.tk = (b.end - b.pos - 1) * Conf.pop_tk + 2]]

\* A garbage that is matched evolves block by block.
EvolveMatchedGarbage(f, p, draws) ==
  LET b == f.grid[p]
  IN CASE b.st = "G_FLASH" ->
            Put(f, p, [b EXCEPT !.st = "G_MUTATE", !.tk = Conf.pop0_tk + b.pos * Conf.pop_tk])
       [] b.st = "G_MUTATE" ->
            IF p[2] < f.gbs[b.gb].y THEN Transform(f, p, draws[p])
            ELSE Put(f, p, [b EXCEPT !.st = "G_TRANSFORMED", !.pos = 0, !.end = 0,
                                     !.tk = (b.end - b.pos - 1) * Conf.pop_tk + 1])
       [] b.st = "G_TRANSFORMED" -> Put(f, p, [b EXCEPT !.st = "G_REST"])

\* Any other one moves as a whole, at its first block.
EvolveGarbage(f, p) ==
  LET b == f.grid[p]
      g == f.gbs[b.gb]
      under == {f.grid[<<x, p[2] - 1>>] : x \in Span(g)}
      st == f.grid[Below(p)].st
  IN IF b.st = "G_FALL"
     THEN IF \A u \in under : IsNone(u) THEN FallGarbage(f, b.gb)
                                        ELSE SetGarbageState(f, b.gb, "G_REST")
     ELSE IF st \in {"NONE", "G_FALL"} /\ \A u \in under : u.st = st
          THEN SetGarbageState(f, b.gb, "G_FALL")
          ELSE f

\* The scan of the grid, from the bottom left, at <<s.x, s.y>>: s.f is the
\* field, s.raise and s.stop (stop_dec) are what the blocks met so far allow.
\* It skips what is left of a garbage, and the lines up to its last one.
ScanBlock(s, draws) ==
  LET p == <<s.x, s.y>>
      b == s.f.grid[p]
      next(f) == [s EXCEPT !.f = f, !.x = @ + 1,
                           !.raise = @ /\ b.st \in {"REST", "G_REST"},
                           !.stop = @ /\ b.st \notin {"FLASH", "G_FLASH"}]
      after(f) == [next(f) EXCEPT !.x = f.gbs[b.gb].x + f.gbs[b.gb].w,
                                  !.y = f.gbs[b.gb].y + f.gbs[b.gb].h - 1]
  IN CASE s.x = W -> [s EXCEPT !.x = 0, !.y = @ + 1]
       [] s.x < W /\ IsNone(b) -> [s EXCEPT !.x = @ + 1]
       [] s.x < W /\ IsColor(b) -> next(IF b.swapped THEN s.f ELSE EvolveColor(s.f, p))
       [] s.x < W /\ b.st \in {"G_REST", "G_FALL"} -> after(EvolveGarbage(s.f, p))
       [] s.x < W /\ b.st \in GarbageStates \ {"G_REST", "G_FALL"} ->
            next(IF b.tk > 0 THEN s.f ELSE EvolveMatchedGarbage(s.f, p, draws))

RECURSIVE ScanFrom(_, _)
ScanFrom(s, draws) ==
  IF s.y > H THEN s ELSE CHOOSE r \in {ScanFrom(t, draws) : t \in {ScanBlock(s, draws)}} : TRUE

Scan(f, draws) ==
  ScanFrom([f |-> f, raise |-> f.swapDt = 0, stop |-> TRUE, x |-> 0, y |-> 1], draws)

-----------------------------------------------------------------------------
(* Matches *)

\* Three blocks at rest in a row, of one color, are matched.
Matched(grid) ==
  LET still == {p \in Xs \X Ys : grid[p].st = "REST" /\ ~grid[p].swapped}
      runs == {{p, Beside(p), Beside(Beside(p))} : p \in still}
                \union {{p, Above(p), Above(Above(p))} : p \in still}
  IN UNION {r \in runs : r \subseteq still /\ \A p, q \in r : grid[p].col = grid[q].col}

\* Field::matchGarbage, from all the blocks matched: the garbages at rest that
\* touch cs, those that touch them, and so on.
RECURSIVE MatchedGarbages(_, _, _)
MatchedGarbages(f, cs, ids) ==
  LET more == {id \in DOMAIN f.gbs \ ids :
                 \E q \in Rect(f.gbs[id]) : f.grid[q].st = "G_REST" /\ \E p \in cs : Adjacent(p, q)}
  IN IF more = {} THEN ids
     ELSE MatchedGarbages(f, UNION {Rect(f.gbs[id]) : id \in more}, ids \union more)

\* The blocks of a combo flash: colors from the top left, garbages from the
\* bottom right.  A garbage loses its lowest line.
Match(f) ==
  LET matched == Matched(f.grid)
      combo == Cardinality(matched)
      chained == \E p \in matched : f.grid[p].chaining
      chain == IF chained THEN f.chain + 1 ELSE 1
      ids == MatchedGarbages(f, matched, {})
      garbage == UNION {Rect(f.gbs[id]) : id \in ids}
      end == combo + MapThenSumSet(LAMBDA id : f.gbs[id].w * f.gbs[id].h, ids)
      before(p, q) == p[2] > q[2] \/ (p[2] = q[2] /\ p[1] < q[1])
      flash(b, garb, n, last) ==
        [b EXCEPT !.st = IF garb THEN "G_FLASH" ELSE "FLASH", !.chaining = chained,
                  !.tk = Conf.flash_tk, !.pos = n, !.end = last]
  IN IF combo = 0 THEN [f EXCEPT !.combo = 0, !.link = 1]
     ELSE [f EXCEPT
       !.combo = combo, !.link = chain,
       !.chain = IF chained THEN chain ELSE @,
       !.grid = [p \in Cells |->
          IF p \in matched
            THEN flash(@[p], FALSE, Cardinality({q \in matched : before(q, p)}), combo)
          ELSE IF p \in garbage
            THEN flash([Empty EXCEPT !.gb = f.grid[p].gb], TRUE, Cardinality({q \in garbage : before(p, q)}), end)
          ELSE @[p]],
       !.gbs = [id \in DOMAIN @ |->
          IF id \in ids THEN [@[id] EXCEPT !.h = @ - 1, !.y = @ + 1] ELSE @[id]]]

-----------------------------------------------------------------------------
(* Garbages, swaps, keys *)

\* May a garbage come in?
Drops(f, full, raise) == f.drop # <<>> /\ ~full /\ raise

\* The first garbage to drop comes in on the top line.  gb_drop_pos_ moves
\* the next one of its width aside.
DropGarbage(f) ==
  LET g == Head(f.drop)
      id == CHOOSE i \in 1..MaxEvents : i \notin DOMAIN f.gbs
      x == IF g.type = "CHAIN" THEN 0 ELSE f.dropPos[g.w]
      moved == IF 2 * g.w > W THEN x + 1 ELSE x + g.w
      new == [type |-> g.type, x |-> x, y |-> H, w |-> g.w, h |-> g.h]
  IN [f EXCEPT
       !.drop = Tail(@),
       !.gbs = [i \in DOMAIN @ \union {id} |-> IF i = id THEN new ELSE @[i]],
       !.grid = [p \in Cells |->
          IF p \in Rect(new) THEN [Empty EXCEPT !.st = "G_REST", !.gb = id] ELSE @[p]],
       !.dropPos = IF g.type = "COMBO"
                   THEN [@ EXCEPT ![g.w] = IF moved + g.w > W THEN 0 ELSE moved]
                   ELSE @]

SwapCells(f) == IF f.swapDt = 0 THEN {} ELSE {f.swap, Beside(f.swap)}

\* The blocks being swapped are free to evolve again.
EndSwap(f) ==
  [f EXCEPT !.swap = <<0, 0>>, !.swapDt = 0,
            !.grid = [p \in Cells |->
               IF p \in SwapCells(f) THEN [@[p] EXCEPT !.swapped = FALSE] ELSE @[p]]]

CountSwap(f) ==
  CASE f.swapDt = 0 -> f
    [] f.swapDt = 1 -> EndSwap(f)
    [] OTHER -> [f EXCEPT !.swapDt = @ - 1]

Swappable(f) ==
  LET pair == {f.cursor, Beside(f.cursor)}
  IN /\ \A p \in pair : f.grid[p].st \in {"NONE", "REST", "FALL"}
     /\ \E p \in pair : ~IsNone(f.grid[p])
     /\ \A p \in pair : p[2] < H => f.grid[Above(p)].st # "LEVITATE"

\* Mutants: a block is copied over the other; the previous swap is not cancelled.
StartSwapCopying(f) ==
  LET p == f.cursor
      q == Beside(p)
      g == EndSwap(f)
  IN [g EXCEPT !.swap = p, !.swapDt = Conf.swap_tk,
               !.grid[p] = [g.grid[q] EXCEPT !.swapped = TRUE],
               !.grid[q] = [g.grid[q] EXCEPT !.swapped = TRUE]]
StartSwapOver(f) ==
  LET p == f.cursor
      q == Beside(p)
  IN [f EXCEPT !.swap = p, !.swapDt = Conf.swap_tk,
               !.grid[p] = [f.grid[q] EXCEPT !.swapped = TRUE],
               !.grid[q] = [f.grid[p] EXCEPT !.swapped = TRUE]]
StartSwap(f) ==
  LET p == f.cursor
      q == Beside(p)
      g == EndSwap(f)
  IN [g EXCEPT !.swap = p, !.swapDt = Conf.swap_tk,
               !.grid[p] = [g.grid[q] EXCEPT !.swapped = TRUE],
               !.grid[q] = [g.grid[p] EXCEPT !.swapped = TRUE]]

MoveCursorUp(f, keys) ==      \* mutant: off by one
  [f EXCEPT !.cursor = IF "UP" \in keys /\ @[2] < H THEN Above(@) ELSE @]
MoveCursor(f, keys) ==
  LET x == f.cursor[1]
      y == f.cursor[2]
  IN [f EXCEPT !.cursor =
       CASE "UP" \in keys -> <<x, IF y + 1 < H THEN y + 1 ELSE y>>
         [] "UP" \notin keys /\ "DOWN" \in keys -> <<x, IF y > 1 THEN y - 1 ELSE y>>
         [] keys \intersect Moves = {"LEFT", "RIGHT"} \/ keys \intersect Moves = {"LEFT"} ->
              <<IF x > 0 THEN x - 1 ELSE x, y>>
         [] keys \intersect Moves = {"RIGHT"} -> <<IF x + 1 < W - 1 THEN x + 1 ELSE x, y>>]

\* One action per frame, of the keys just pushed; a move repeats when held.
\* Held without a key, nothing reads the number of repetitions.
PressKeys(f, keys) ==
  LET held == keys = f.keyState
      count == IF held /\ keys # {} THEN Min({f.keyRepeat + 1, KeyRepeat}) ELSE 0
      pushed == IF held THEN keys ELSE keys \ f.keyState
      g == [f EXCEPT !.keyState = keys, !.keyRepeat = count]
  IN CASE pushed \intersect Moves # {} /\ count \in {0, KeyRepeat} -> MoveCursor(g, pushed)
       [] /\ ~(pushed \intersect Moves # {} /\ count \in {0, KeyRepeat})
          /\ "SWAP" \in pushed /\ ~held ->
            IF Swappable(g) THEN StartSwap(g) ELSE g
       [] /\ ~(pushed \intersect Moves # {} /\ count \in {0, KeyRepeat})
          /\ ~("SWAP" \in pushed /\ ~held) /\ "RAISE" \in keys ->
            [g EXCEPT !.stopDt = 0]
       [] OTHER -> g

-----------------------------------------------------------------------------
(* End of the frame *)

EndChain(f) ==
  IF f.combo = 0 /\ ~\E p \in Xs \X Ys : f.grid[p].chaining THEN [f EXCEPT !.chain = 1] ELSE f

\* A match stops the raise for a while.
StopTicks(f) ==
  Max({f.stopDt}
    \union {Conf.stop_combo_0 + Conf.stop_combo_k * (n - 4) : n \in {f.combo} \ 0..3}
    \union {Conf.stop_chain_0 + Conf.stop_chain_k * (n - 2) : n \in {f.link} \ 0..1})

\* A full field is lost once the respite is over.
CountRespite(f) ==
  LET dt == IF f.lostDt = 0 THEN Conf.lost_tk ELSE f.lostDt - 1
  IN [f EXCEPT !.lostDt = dt, !.lost = dt = 0, !.chain = IF dt = 0 THEN 1 ELSE @]

\* The colors setRaiseColor may draw for the next line.
RaisedLine(f, row) ==
  LET dx == RaiseDx(f.raised)
  IN \A x \in Xs : /\ row[x] # f.grid[<<x, 0>>].col
                   /\ x >= dx => row[x] # row[x - dx]

\* Mutants: the garbages, or the swap, do not rise with the grid.
RaiseBlocks(f, row) ==
  [f EXCEPT
    !.grid = [p \in Cells |-> IF p[2] = 0 THEN Resting(row[p[1]]) ELSE @[Below(p)]],
    !.cursor = IF @[2] + 1 < H THEN Above(@) ELSE @,
    !.swap = IF f.swapDt = 0 THEN <<0, 0>> ELSE Above(@),
    !.raised = @ + 1]
\* Field::raise.  What is on the top line goes out of the grid.
Raise(f, row) ==
  [f EXCEPT
    !.grid = [p \in Cells |-> IF p[2] = 0 THEN Resting(row[p[1]]) ELSE @[Below(p)]],
    !.cursor = IF @[2] + 1 < H THEN Above(@) ELSE @,
    !.swap = IF f.swapDt = 0 \/ @[2] = H THEN <<0, 0>> ELSE Above(@),
    !.swapDt = IF f.swap[2] = H THEN 0 ELSE @,
    !.gbs = [id \in DOMAIN @ |-> [@[id] EXCEPT !.y = @ + 1]],
    !.raised = @ + 1]

\* A frame passes for the timers.
Aged(f) ==
  [f EXCEPT !.drawn = TRUE,
            !.grid = [p \in Cells |-> [@[p] EXCEPT !.tk = IF @ > 0 THEN @ - 1 ELSE 0]]]

Full(f) == \E x \in Xs : ~IsNone(f.grid[<<x, H>>])

\* May the field rise in this frame?
RisesAnyway(f, full, raise) == f.combo = 0 /\ f.stopDt = 0 /\ ~full    \* mutant
Rising(f, full, raise) == f.combo = 0 /\ f.stopDt = 0 /\ ~full /\ raise

Ended(f, full, raise, stop) ==
  CASE f.combo > 0 -> [f EXCEPT !.stopDt = StopTicks(f)]
    [] f.combo = 0 /\ stop /\ f.stopDt > 0 -> [f EXCEPT !.stopDt = @ - 1]
    [] f.combo = 0 /\ stop /\ f.stopDt = 0 /\ full /\ raise -> CountRespite(f)
    [] Rising(f, full, raise) -> [f EXCEPT !.lostDt = 0]
    [] OTHER -> f

\* Field::step.  `full' is what the field was before anything fell.
Step ==
  /\ ~field.lost
  /\ \E keys \in {{}} \union (IF left > 0 THEN KeySets ELSE {}),
        draws \in [DueTransforms(field) -> Colors],
        full \in {Full(field)} :
     \E scan \in {Scan(Aged(field), draws)} :
     \E matched \in {Match(scan.f)} :
     \E dropped \in {IF Drops(matched, full, scan.raise) THEN DropGarbage(matched) ELSE matched},
        raise \in {scan.raise /\ ~Drops(matched, full, scan.raise)} :
     \E pressed \in {PressKeys(CountSwap(dropped), keys)} :
     \E ended \in {Ended(EndChain(pressed), full, raise, scan.stop)} :
       /\ scan.f.drawn
       /\ left' = IF keys = {} THEN left ELSE left - 1
       /\ \/ field' = ended
          \/ /\ Rising(pressed, full, raise) /\ ended.raised < MaxRaises
             /\ \E row \in Rows : RaisedLine(ended, row) /\ field' = Raise(ended, row)
  /\ odd' = ~odd

\* Field::dropNextGarbage, of a garbage another field has made.
DropNext ==
  /\ left > 0
  /\ \E g \in Garbages : field' = [field EXCEPT !.drop = Append(@, g)]
  /\ left' = left - 1
  /\ UNCHANGED odd

Garbage == [type : {"COMBO", "CHAIN"}, x : Xs, y : Nat, w : 1..W, h : Nat]

\* The members of Field but for seed_, raise_progress_ and raise_speed_index_:
\* gbs is gbs_field_ and drop gbs_drop_.  The matches of the last frame, combo
\* and link (step_info_), and drawn, the guard of Step, are kept with them.
FieldState(f) ==
  /\ f.grid \in [Cells -> Block]
  /\ DOMAIN f.gbs \subseteq 1..MaxEvents /\ \A id \in DOMAIN f.gbs : f.gbs[id] \in Garbage
  /\ f.drop \in Seq(Garbages) /\ f.dropPos \in [1..W -> Nat] /\ f.transformed \in Nat
  /\ f.cursor \in (0..W-2) \X (1..H-1) /\ f.swap \in (0..W-2) \X (0..H) /\ f.swapDt \in Nat
  /\ f.keyState \subseteq Keys /\ f.keyRepeat \in Nat
  /\ f.chain \in Nat \ {0} /\ f.combo \in Nat /\ f.link \in Nat \ {0}
  /\ {f.stopDt, f.lostDt, f.raised} \subseteq Nat /\ {f.lost, f.drawn} \subseteq BOOLEAN

\* The constructor, fillRandom and initMatch.
NewField(s) ==
  [grid |-> [p \in Cells |-> IF p \in DOMAIN s THEN Resting(s[p]) ELSE Empty],
   gbs |-> << >>, drop |-> << >>, dropPos |-> [w \in 1..W |-> 0], transformed |-> 0,
   cursor |-> StartCursor, swap |-> <<0, 0>>, swapDt |-> 0, keyState |-> {}, keyRepeat |-> 0,
   chain |-> 1, combo |-> 0, link |-> 1, stopDt |-> 0, lostDt |-> 0, lost |-> FALSE,
   raised |-> 0, drawn |-> TRUE]

Init ==
  /\ \E s \in Starts : field = NewField(s)
  /\ odd = FALSE /\ left = MaxEvents

Next == Step \/ DropNext

\* Frames keep passing until the field is lost.  This is Step seen on the clock,
\* enabled exactly when Step is, and far quicker to evaluate.
Frame == ~field.lost /\ odd' = ~odd

Spec == Init /\ [][Next]_vars /\ WF_odd(Frame)

-----------------------------------------------------------------------------
(* Properties *)

FieldTypeOK == FieldState(field) /\ odd \in BOOLEAN /\ left \in 0..MaxEvents

\* The list of garbages and the grid agree: a garbage fills its rectangle, and
\* its only blocks out of it are those of the line it has just lost.  Falls,
\* raises, drops and matches each update the two (game.cpp:877, 804, 903).
GarbageIntact ==
  /\ \A id \in DOMAIN field.gbs : \A p \in Rect(field.gbs[id]) :
        IsGarbage(field.grid[p]) /\ field.grid[p].gb = id
  /\ \A p \in Cells :
        LET b == field.grid[p]
        IN IsGarbage(b) =>
             /\ b.gb \in DOMAIN field.gbs
             /\ LET g == field.gbs[b.gb]
                IN \/ p \in Rect(g)
                   \/ p[1] \in Span(g) /\ p[2] = g.y - 1 /\ b.st \in {"G_FLASH", "G_MUTATE"}

\* game.h:362, on the lines of a garbage: "Block is removed if it has only one
\* line".  A garbage that has lines left has blocks, in the grid or to come.
LinesAreKept ==
  \A id \in DOMAIN field.gbs :
    field.gbs[id].h > 0 => \E p \in Cells : IsGarbage(field.grid[p]) /\ field.grid[p].gb = id

Count(f) == Cardinality({p \in Cells : IsColor(f.grid[p])})
Popped(f) == {p \in Cells : f.grid[p].st = "CLEARED" /\ f.grid[p].tk <= 1}

\* A color block only comes from a raise or a garbage and only goes once
\* cleared: no fall, swap, drop or raise ever overwrites or loses one.
BlocksAreKept ==
  [][odd' # odd =>
       Count(field') = Count(field) - Cardinality(Popped(field))
                         + Cardinality(DueTransforms(field))
                         + W * (field'.raised - field.raised)]_vars

\* A block that has been matched stays where it is until it vanishes or turns
\* into another: nothing raises or moves it while it flashes.
MatchedStayPut ==
  [][\A p \in Xs \X Ys :
       LET b == field.grid[p]
           c == field'.grid[p]
       IN /\ b.st \in {"FLASH", "MUTATE"} => c.st \in {"FLASH", "MUTATE", "CLEARED"} /\ c.col = b.col
          /\ b.st \in {"G_FLASH", "G_MUTATE"} =>
               c.st \in {"G_FLASH", "G_MUTATE", "G_TRANSFORMED", "TRANSFORMED"}]_vars

AtRest(f) ==
  \A p \in Xs \X Ys :
    LET b == f.grid[p]
    IN /\ b.st \in {"NONE", "REST", "G_REST"} /\ ~b.swapped
       /\ b.st = "REST" => ~IsNone(f.grid[Below(p)])

\* Left alone, a field comes to rest: no block levitates, flashes or hangs in
\* the air for ever, which would keep the field from rising.
ComesToRest == <>[](field.lost \/ AtRest(field))
=============================================================================
