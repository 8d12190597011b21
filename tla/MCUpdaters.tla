------------------------------ MODULE MCUpdaters ------------------------------
(* Updaters for TLC. *)
EXTENDS Updaters
===============================================================================
