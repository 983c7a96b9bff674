--------------------------- MODULE MCSignalAgent ---------------------------
EXTENDS SignalAgent

MCFrames == <<2, 1>>
=============================================================================
