CONSTANTS
  N = 3
  LagMax = 3
  Countdown = 1
  MaxTick = 4
SPECIFICATION Spec
INVARIANTS TypeOK CompetitionRanking SomeoneMayStep
PROPERTY ImplementsElimination
