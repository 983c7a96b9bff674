---------------------------- MODULE MCEESEngine ----------------------------
EXTENDS EESEngine

MCVol == [i \in 1 .. MaxOrders |-> IF i = 1 THEN 2 ELSE 1]
=============================================================================
