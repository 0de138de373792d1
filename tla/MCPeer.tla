------------------------------- MODULE MCPeer -------------------------------
(* The instance of Peer that TLC checks. *)
EXTENDS Peer
=============================================================================
