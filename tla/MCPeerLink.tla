----------------------------- MODULE MCPeerLink -----------------------------
(***************************************************************************)
(* PeerLink for TLC: two users, one of whom also asks for a connection     *)
(* with itself.                                                            *)
(***************************************************************************)
EXTENDS PeerLink

CONSTANTS
  User1,  \* the user that also asks itself
  User2

MCPeers == {User1, User2}
MCSelf == {<<User1, "p2p">>}
=============================================================================
