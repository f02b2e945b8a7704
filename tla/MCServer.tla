------------------------------ MODULE MCServer ------------------------------
EXTENDS Server
PeerSymmetry == Permutations(Peers)
=============================================================================
