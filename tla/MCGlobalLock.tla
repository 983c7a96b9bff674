---------------------------- MODULE MCGlobalLock ----------------------------
(* Two processes, the first with two threads. *)
EXTENDS GlobalLock, TLC
CONSTANTS p1, p2, t1, t2, t3

MCProcOf == (t1 :> p1) @@ (t2 :> p1) @@ (t3 :> p2)
=============================================================================
