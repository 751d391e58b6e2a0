----------------------------- MODULE MCPeerServer ------------------------------
(* Both peers, stopped by two signals. *)
EXTENDS PeerServer
================================================================================
