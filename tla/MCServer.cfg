CONSTANTS
  Peers = {a,b}
  Local = local
  LocalMax = 1
  PlNbMax = 2
  IdMax = 4
SPECIFICATION Spec
SYMMETRY PeerSymmetry
INVARIANTS TypeOK LobbyWaits PreparationWaits MatchFollowsState
