--------------------------- MODULE MCAudioDevices ---------------------------
\* All constants of AudioDevices are numbers, given in the configuration.
EXTENDS AudioDevices
=============================================================================
