CONSTANTS
  N = 3
  LagMax = 2
  Countdown = 1
  MaxTick = 5
  Me = 1
  HangTk = 3
  Combos = {3, 4, 8}
  ChainMax = 4
  GbMax = 2
SPECIFICATION GarbageSpec
CONSTRAINT ThirdIsShort
INVARIANTS GarbageTypeOK ActiveChainHangs ConfirmedInOrder ViewFollows
