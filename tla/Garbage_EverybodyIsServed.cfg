CONSTANTS
  N = 3
  LagMax = 2
  Countdown = 1
  MaxTick = 5
  Me = 1
  HangTk = 3
  Combos = {3, 4}
  ChainMax = 4
  GbMax = 2
SPECIFICATION GarbageSpec
INVARIANT EverybodyIsServed
