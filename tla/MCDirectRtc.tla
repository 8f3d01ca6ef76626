----------------------------- MODULE MCDirectRtc -----------------------------
\* Model values for TLC: one ICE message of the offering phone, or none.
EXTENDS DirectRtc
OneOffered == [p \in Peers |-> IF p = "server" THEN 1 ELSE 0]
NoChange == [p \in Peers |-> 0]
=============================================================================
