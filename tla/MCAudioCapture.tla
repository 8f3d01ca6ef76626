--------------------------- MODULE MCAudioCapture ---------------------------
\* The first recorder goes round its ring of two arrays (its third read is into the
\* first one), the second has read no sample yet when it is stopped; the other
\* bounds are in the configuration.
EXTENDS AudioCapture

FirstWraps == <<2, 0>>
=============================================================================
