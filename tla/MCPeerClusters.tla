--------------------------- MODULE MCPeerClusters ---------------------------
(* Symmetry for PeerClusters.                                               *)
EXTENDS PeerClusters, TLC

Symmetry == Permutations(Broker) \cup Permutations(Controller)
=============================================================================
