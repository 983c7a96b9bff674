------------------------------ MODULE MCPageIO ------------------------------
(* PageIO on small page groups; the readers are model values. *)
EXTENDS PageIO
CONSTANTS r1
=============================================================================
