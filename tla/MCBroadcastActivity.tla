------------------------ MODULE MCBroadcastActivity ------------------------
(* BroadcastActivity on small instances. The screen may stop at any moment. *)
EXTENDS BroadcastActivity

=============================================================================
