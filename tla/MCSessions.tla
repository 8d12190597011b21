----------------------------- MODULE MCSessions -----------------------------
(* Sessions for TLC: one cookie (nothing relates the sessions of two cookies but  *)
(* the loops over all of them), used by two requests at once.                     *)
EXTENDS Sessions
=============================================================================
