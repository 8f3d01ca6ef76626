-------------------------- MODULE MCVideoEncoding --------------------------
(* Model checking of VideoEncoding: one broadcast with a pause of the view *)
(* or with a bitrate change.                                               *)
EXTENDS VideoEncoding
============================================================================
