-------------------------- MODULE MCPeerConnection --------------------------
(* One call, or a call and the next one in the same process. *)
EXTENDS PeerConnection

OneCall == {1}
TwoCalls == {1, 2}
=============================================================================
