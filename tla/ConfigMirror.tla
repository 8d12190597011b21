---------------------------- MODULE ConfigMirror ----------------------------
(***************************************************************************)
(* What configuration replication promises: a source publishes successive  *)
(* versions, a mirror adopts versions that exist and never an older one,   *)
(* and while the two stay linked it does not stay behind.                  *)
(***************************************************************************)
EXTENDS Naturals

CONSTANT MaxVersion

VARIABLES published, adopted, linked

vars == <<published, adopted, linked>>

Init ==
  /\ published = 0
  /\ adopted = 0
  /\ linked = TRUE

Publish ==
  /\ published < MaxVersion
  /\ published' = published + 1
  /\ UNCHANGED <<adopted, linked>>

Adopt(v) ==
  /\ adopted' = v
  /\ UNCHANGED <<published, linked>>

Unlink == linked' = FALSE /\ UNCHANGED <<published, adopted>>

Next == Publish \/ Unlink \/ \E v \in adopted .. published : Adopt(v)

CatchUp == linked /\ adopted < published /\ Adopt(published)

Safety == Init /\ [][Next]_vars

Spec == Safety /\ WF_vars(CatchUp)
=============================================================================
