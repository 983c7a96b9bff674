--------------------------- MODULE MCOrderEngine ---------------------------
EXTENDS OrderEngine, TLC
=============================================================================
