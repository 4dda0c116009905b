--------------------------- MODULE MCPeerSession ----------------------------
EXTENDS PeerSession, TLC

Alike == Permutations(Client) \cup Permutations(States)
=============================================================================
