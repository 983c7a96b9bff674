---------------------------- MODULE MCMarketData ----------------------------
EXTENDS MarketData, TLC

CONSTANTS h1, h2, a, b

(* One instrument expires, the other is listed on the second day; the second *)
(* strategy does not subscribe to it by itself.                              *)
MCListed == [d \in 1 .. 2 |-> IF d = 1 THEN {a} ELSE {b}]
MCWant == [h \in Helpers |-> IF h = h1 THEN {a, b} ELSE {a}]
=============================================================================
