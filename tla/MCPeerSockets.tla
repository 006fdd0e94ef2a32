--------------------------- MODULE MCPeerSockets ---------------------------
(* Instances of PeerSockets for TLC: two peers, two socket numbers.        *)
EXTENDS PeerSockets, TLC

CONSTANTS p1, p2

MCPeers == {p1, p2}
Symmetry == Permutations(Handles)
=============================================================================
