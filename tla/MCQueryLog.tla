------------------------------ MODULE MCQueryLog ------------------------------
(* A query seen from outside and again locally, and one of the watchdog.     *)
EXTENDS QueryLog

CONSTANTS x, y, w, p, q

MCName == [l \in Lines |-> IF l = w THEN "watchdog" ELSE "domain"]
MCType == [l \in Lines |-> "A"]
=============================================================================
