---------------------------- MODULE MCSharedPages ----------------------------
(* Two processes, the first with two threads. *)
EXTENDS SharedPages, TLC
CONSTANTS p1, p2, t1, t2, t3

MCProcs == (t1 :> p1) @@ (t2 :> p1) @@ (t3 :> p2)
=============================================================================
