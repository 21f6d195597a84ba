------------------------------- MODULE MCPeer -------------------------------
EXTENDS PeerProof
=============================================================================
