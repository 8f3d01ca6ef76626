--------------------------- MODULE MCWebSocketRtc ---------------------------
\* The model values are in the configuration.
EXTENDS WebSocketRtc
=============================================================================
