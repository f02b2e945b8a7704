------------------------------- MODULE MCField -------------------------------
EXTENDS Field

MCConf ==
  [swap_tk |-> 3, flash_tk |-> 1, levitate_tk |-> 1, pop_tk |-> 1, pop0_tk |-> 1,
   transform_tk |-> 1, lost_tk |-> 2, stop_combo_0 |-> 1, stop_combo_k |-> 1,
   stop_chain_0 |-> 1, stop_chain_k |-> 1, raise_adjacent |-> "ALWAYS"]

\* Columns from the line 0 up.
Grid(cols) == [p \in Xs \X (0..Len(cols[1])-1) |-> cols[p[1] + 1][p[2] + 1]]

\* A swap of the first two blocks of the line 3 matches the first column up to
\* a garbage above it; one of the blocks this garbage turns into falls in line
\* with the two below it, and the chain reaches the garbage again.
Chaining == Grid(<<<<2, 1,2,3,2>>, <<1, 2,1,2,3>>, <<3, 1,4,1,4>>>>)

MCStarts == {Chaining}
MCCursor == <<0, 3>>
MCKeySets == {{"SWAP"}, {"UP"}, {"RAISE"}}
MCRows == {r \in [Xs -> Colors] : r[2] = 4}
MCGarbages == {[type |-> "COMBO", w |-> 2, h |-> 1], [type |-> "CHAIN", w |-> 3, h |-> 2]}
=============================================================================
