------------------------------- MODULE MCBars -------------------------------
(* Bars of five minutes to two hours, of a span and of a day *)
EXTENDS Bars

MCConfigs ==
  {[class |-> p, cycle |-> c, czce |-> FALSE] :
     p \in Classes, c \in {300, 600, 900, 1800, 2700, 3600, 7200}}
  \cup [class : {"index", "night2330"}, cycle : {Daily, Session}, czce : BOOLEAN]
=============================================================================
