CONSTANTS
  Peers = {a,b}
  Local = local
  LocalMax = 0
  PlNbMax = 2
  IdMax = 4
SPECIFICATION Spec
INVARIANT PlayersArePresent
