--------------------------- MODULE MCPeerSession ---------------------------
(* Two daemons that talk both ways, or three of which two call the third.  In *)
(* the run of the safety properties daemons and connections are symmetric.    *)
EXTENDS PeerSession, TLC

CONSTANTS a, b, c, c1, c2, c3

Two == {a, b}
Three == {a, b, c}
BothWays == {<<a, b>>, <<b, a>>}
OneWay == {<<a, b>>}
Callers == {<<a, b>>, <<c, b>>}
MCConns == {c1, c2, c3}
MCFewConns == {c1, c2}
Alike == Permutations(Two) \cup Permutations(MCConns)
=============================================================================
