--------------------------- MODULE MCPeerLifecycle ---------------------------
\* Model values for the run of PeerLifecycle.
EXTENDS PeerLifecycle

CONSTANTS p1, p2

TwoCalls == {p1, p2}
OnePeer  == {p1}
=============================================================================
