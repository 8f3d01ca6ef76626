--------------------------- MODULE MCFrameBuffers ---------------------------
\* Model values for TLC: frame sizes.
EXTENDS FrameBuffers
TwoSizes == {2, 3}
=============================================================================
