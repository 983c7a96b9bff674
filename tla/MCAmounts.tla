----------------------------- MODULE MCAmounts -----------------------------
EXTENDS Amounts, TLC

CONSTANTS a, b, pd

MCPrdOf == [i \in Instrs |-> pd]
Perms == Permutations(Instrs)
=============================================================================
