---------------------------- MODULE MCAudioTimes ----------------------------
\* Model values for TLC: frame sizes.
EXTENDS AudioTimes
TwoSizes == {2, 3}
=============================================================================
