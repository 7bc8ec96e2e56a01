----------------------------- MODULE MCPeerLink -----------------------------
(* For TLC: two ends, either of which may have opened the attempt. *)
EXTENDS PeerLink
CONSTANTS low, high
=============================================================================
