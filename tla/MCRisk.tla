------------------------------- MODULE MCRisk -------------------------------
EXTENDS Risk, TLC

CONSTANTS a, b, m

MCPrdOf == [i \in Instrs |-> m]
MCOrderSize == [x \in {"default"} |-> 2]
MCLong == [x \in {"default", m} |-> IF x = m THEN 1 ELSE 9]
MCShort == [x \in {"default"} |-> 1]
MCNet == [x \in {"default"} |-> 1]
MCPrdLong == [x \in {m} |-> 2]
MCPrdNet == [x \in {m} |-> 1]
Perms == Permutations(Instrs)
(* Bound: the engine dies on its first day, and no time passes then. *)
FewCrashes == crashes = 1 => day = 1 /\ now = Start0
=============================================================================
