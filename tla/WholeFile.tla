------------------------------ MODULE WholeFile ------------------------------
(***************************************************************************)
(* What readers are promised of a file: it always has the contents it had  *)
(* at first or those some write gave it, never anything in between.        *)
(***************************************************************************)
CONSTANTS Old, Values
VARIABLE contents

Replace(v) == contents' = v

Spec == contents = Old /\ [][\E v \in Values : Replace(v)]_contents
=============================================================================
