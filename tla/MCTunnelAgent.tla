--------------------------- MODULE MCTunnelAgent ---------------------------
(***************************************************************************)
(* Two clients for TLC: c1 is given one command of any kind but an order   *)
(* to exit, c2 starts the strategy without a working directory or asks it  *)
(* to exit.                                                                *)
(***************************************************************************)
EXTENDS TunnelAgent, TLC

Cmd(op, what, dir) == [op |-> op, name |-> "n", dir |-> dir, what |-> what]

Files == {Cmd(op, "other", FALSE) : op \in {"SHELL", "SAVE", "MKDIR"}}

Some ==
  "c1" :> ({Cmd("EXEC", "other", TRUE), Cmd("STG", "status", FALSE)} \cup Files) @@
  "c2" :> {Cmd("EXEC", "other", FALSE), Cmd("STG", "exit", FALSE)}

Counts == "c1" :> 1 @@ "c2" :> 1
=============================================================================
