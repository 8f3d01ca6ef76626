------------------------------ MODULE MCCamera ------------------------------
(* Four proxies: one in the field, one lost or being released, one a caller still waits for, one new. *)
EXTENDS Camera

MCProxies == 1..4
=============================================================================
