CONSTANTS
  Peers = {a, b}
  ReadMax = 2
  TellMax = 1
SPECIFICATION Spec
INVARIANTS PeersTypeOK OneWriteAtATime NothingLost ToldBeforeClosed
PROPERTY ErrorsClose
