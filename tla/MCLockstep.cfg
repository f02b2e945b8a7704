CONSTANTS
  N = 2
  LagMax = 2
  Countdown = 1
  MaxTick = 3
  GbMax = 1
  Accepted <- MCAccepted
SPECIFICATION FairSpec
INVARIANTS LockstepTypeOK CopiesAgree NothingMissing
PROPERTIES OnlyHastyRefused MatchGoesOn
