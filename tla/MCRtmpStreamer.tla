--------------------------- MODULE MCRtmpStreamer ---------------------------
(* Model checking of RtmpStreamer, one broadcast and several.              *)
EXTENDS RtmpStreamer
=============================================================================
