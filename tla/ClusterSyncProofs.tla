-------------------------- MODULE ClusterSyncProofs --------------------------
(***************************************************************************)
(* Proofs about ClusterSync for any primaries, callers, options and number *)
(* of configuration changes.                                               *)
(***************************************************************************)
EXTENDS ClusterSync, TLAPS

\* Applying an export yields a node that points at the primary it came from.
LEMMA AppliedType ==
  ASSUME NEW n \in Node, NEW r \in Request
  PROVE  /\ Applied(n, r) \in Node
         /\ Applied(n, r).url = r.url
         /\ Applied(n, r).from = r.url
         /\ Applied(n, r).ver = r.ver
BY DEF Applied, AppliedOpt, Node, Request, Roles

\* The request of a caller that read the settings of a replica.
LEMMA QueuedType ==
  ASSUME NEW n \in Node, IsReplica(n)
  PROVE  /\ Queued(n) \in Request
         /\ Queued(n).stage = "queued"
         /\ Queued(n).url = n.url
         /\ Queued(n).url # None
BY ClusterAssumption DEF Queued, Idle, IsReplica, Node, Request, Stages

\* No request, the state every caller starts and ends in.
LEMMA IdleType ==
  /\ Idle \in Request
  /\ Idle.stage = "idle"
  /\ Idle.url = None
<1>1. FALSE \in Options
  BY Zenon, ClusterAssumption
<1>2. /\ "idle" \in Stages /\ None \in Primaries \cup {None}
      /\ 0 \in 0 .. MaxEdits /\ {} \in SUBSET Items
  BY ClusterAssumption DEF Stages
<1>3. Idle \in Request
  BY Zenon, <1>1, <1>2 DEF Idle, Request
<1> QED
  BY <1>3 DEF Idle

\* The states a node can boot in, whether joined before or not.
LEMMA InitWithIInv ==
  ASSUME NEW n \in Node, n.url # None => n.from = n.url, InitWith(n)
  PROVE  IInv
<1>1. /\ pub \in [Primaries -> Published]
      /\ registered \subseteq Primaries
  BY ClusterAssumption DEF InitWith, Published, Node
<1>2. /\ mem \in Node /\ disk \in Node /\ join \in Request
      /\ join.stage = "idle" <=> join.url = None
  BY IdleType DEF InitWith
<1>3. /\ pull \in [Callers -> Request]
      /\ \A c \in Callers : pull[c] = Idle
  BY IdleType DEF InitWith
<1>4. syncMu \in Callers \cup {None} /\ loop \in LoopStates
  BY DEF InitWith, LoopStates
<1>5. lost \in BOOLEAN
  BY Zenon DEF InitWith
<1>6. TypeOK
  BY <1>1, <1>2, <1>3, <1>4, <1>5, IdleType DEF TypeOK
<1>7. SyncSerialised
  BY <1>3, IdleType, ClusterAssumption DEF InitWith, SyncSerialised
<1>8. UrlMatches
  BY DEF InitWith, UrlMatches
<1>9. LoopCallsAfterBoot
  BY <1>3, IdleType, ClusterAssumption DEF LoopCallsAfterBoot
<1> QED
  BY <1>6, <1>7, <1>8, <1>9 DEF IInv

LEMMA BootNodes ==
  /\ Fresh \in Node
  /\ Fresh.url = None
  /\ \A p \in Primaries : /\ ReplicaOf(p, FALSE) \in Node
                          /\ ReplicaOf(p, FALSE).url = p
                          /\ ReplicaOf(p, FALSE).from = p
                          /\ ReplicaOf(p, FALSE).ver = 0
                          /\ ReplicaOf(p, FALSE).role = "replica"
<1>1. FALSE \in Options
  BY Zenon, ClusterAssumption
<1>2. /\ "standalone" \in Roles /\ None \in Primaries \cup {None}
      /\ 0 \in 0 .. MaxEdits /\ {} \in SUBSET Items
  BY ClusterAssumption DEF Roles
<1>3. Fresh \in Node /\ Fresh.url = None /\ Fresh.ver = 0
  BY Zenon, <1>1, <1>2 DEF Fresh, Node
<1>4. ASSUME NEW p \in Primaries
      PROVE  /\ ReplicaOf(p, FALSE) \in Node
             /\ ReplicaOf(p, FALSE).url = p
             /\ ReplicaOf(p, FALSE).from = p
             /\ ReplicaOf(p, FALSE).ver = 0
             /\ ReplicaOf(p, FALSE).role = "replica"
  BY <1>1, <1>3 DEF ReplicaOf, Node, Roles
<1> QED
  BY <1>3, <1>4

LEMMA InitIInv == Init => IInv
BY InitWithIInv, BootNodes DEF Init

-----------------------------------------------------------------------------
(* Spec: every interleaving of pulls, joins, handlers and restarts         *)

LEMMA StepIInv == IInv /\ [Next]_vars => IInv'
<1> SUFFICES ASSUME IInv, [Next]_vars PROVE IInv'
  OBVIOUS
<1> USE ClusterAssumption
    DEF IInv, TypeOK, SyncSerialised, UrlMatches, LoopStates,
        LoopCallsAfterBoot
<1>1. ASSUME NEW p \in Primaries, Edit(p) PROVE IInv'
  BY <1>1 DEF Edit, Published
<1>2. ASSUME NEW p \in Primaries, Revoke(p) PROVE IInv'
  BY <1>2 DEF Revoke
<1>3. ASSUME NEW c \in Callers, Send(c) PROVE IInv'
  BY <1>3 DEF Send, MutexFree, Request, Stages
<1>4. ASSUME NEW c \in Callers, Answer(c) PROVE IInv'
  BY <1>4 DEF Answer, Request, Stages, Published
<1>5. ASSUME NEW c \in Callers, PullFails(c) PROVE IInv'
  BY <1>5 DEF PullFails, Request, Stages
<1>6. ASSUME NEW c \in Callers, Apply(c) PROVE IInv'
  <2>1. /\ Applied(mem, pull[c]) \in Node
        /\ Applied(mem, pull[c]).url = Applied(mem, pull[c]).from
    BY AppliedType
  <2>2. /\ mem' \in Node /\ disk' \in Node
        /\ mem'.url = mem'.from /\ (disk' = disk \/ disk' = mem')
    BY <1>6, <2>1 DEF Apply
  <2>3. /\ pull[c].stage = "answered" /\ syncMu = c /\ syncMu' = None
        /\ UNCHANGED <<pub, registered, join, lost, loop>>
    BY <1>6 DEF Apply
  <2>4. \/ pull' = [pull EXCEPT ![c].stage = "done"]
        \/ pull' = [pull EXCEPT ![c].stage = "failed"]
    BY <1>6 DEF Apply
  <2>5. /\ pull' \in [Callers -> Request]
        /\ pull'[c].url = pull[c].url /\ pull'[c].stage \in {"done", "failed"}
        /\ \A d \in Callers \ {c} : pull'[d] = pull[d]
    BY <2>4 DEF Request, Stages
  <2> QED
    BY <2>2, <2>3, <2>5
<1>7. ASSUME NEW c \in Callers, Finish(c) PROVE IInv'
  <2>1. lost' \in BOOLEAN
    BY <1>7 DEF Finish, LostAfter
  <2> QED
    BY <1>7, <2>1, IdleType DEF Finish
<1>8. CASE LoopStarts
  <2>1. pull["loop"].stage = "idle" /\ "loop" \in Callers
    BY <1>8, IdleType DEF LoopStarts
  <2> QED
    BY <1>8, <2>1, QueuedType DEF LoopStarts
<1>9. CASE LoopTick
  BY <1>9, IdleType, QueuedType DEF LoopTick, LoopGoesOn
<1>10. CASE ManualSync
  BY <1>10, IdleType, QueuedType DEF ManualSync
<1>11. ASSUME NEW r \in Roles, NEW f \in Options, UpdateSettings(r, f)
       PROVE  IInv'
  <2>1. /\ mem' \in Node /\ disk' \in Node
        /\ mem'.url = mem.url /\ mem'.from = mem.from
        /\ disk' = disk \/ disk' = mem'
    BY <1>11 DEF UpdateSettings, SavedOrNot, Node
  <2>2. /\ "settings" \in Callers /\ pull["settings"].stage = "idle"
        /\ UNCHANGED <<pub, registered, syncMu, join, lost, loop>>
    BY <1>11, IdleType DEF UpdateSettings
  <2>3. CASE UNCHANGED pull
    BY <2>1, <2>2, <2>3
  <2>4. CASE /\ IsReplica(mem') /\ disk' = mem'
             /\ pull' = [pull EXCEPT !["settings"] = Queued(mem')]
    BY <2>1, <2>2, <2>4, QueuedType
  <2> QED
    BY <1>11, <2>3, <2>4 DEF UpdateSettings, SavedOrNot
<1>20. ASSUME NEW r \in Roles, NEW f \in Options, SettingsByTool(r, f)
       PROVE  IInv'
  <2>1. /\ mem' \in Node /\ disk' \in Node
        /\ mem'.url = mem.url /\ mem'.from = mem.from
        /\ disk' = disk \/ disk' = mem'
    BY <1>20 DEF SettingsByTool, SavedOrNot, Node
  <2>2. UNCHANGED <<pub, registered, pull, syncMu, join, lost, loop>>
    BY <1>20 DEF SettingsByTool, SavedOrNot
  <2> QED
    BY <2>1, <2>2
<1>12. CASE AcceptReplica
  BY <1>12 DEF AcceptReplica, SavedOrNot, Node, Roles
<1>13. CASE Leave
  <2>1. FALSE \in Options /\ lost' \in BOOLEAN
    BY Zenon, <1>13 DEF Leave
  <2>2. mem' \in Node /\ mem'.url = None
    BY <1>13, <2>1 DEF Leave, Node, Roles
  <2> QED
    BY <1>13, <2>1, <2>2 DEF Leave
<1>14. ASSUME NEW p \in Primaries, NEW f \in Options, JoinSends(p, f)
       PROVE  IInv'
  <2>1. join' \in Request
    BY <1>14, IdleType DEF JoinSends, Request, Stages
  <2> QED
    BY <1>14, <2>1 DEF JoinSends
<1>15. CASE JoinRegisters
  <2>1. join.url \in Primaries
    BY <1>15 DEF JoinRegisters, Request
  <2>2. /\ pub[join.url].ver \in 0 .. MaxEdits
        /\ pub[join.url].opt \in SUBSET Items
    BY <2>1 DEF Published
  <2>3. join' \in Request /\ (join'.stage = "idle" <=> join'.url = None)
    BY <1>15, <2>1, <2>2, IdleType DEF JoinRegisters, Request, Stages
  <2> QED
    BY <1>15, <2>1, <2>3 DEF JoinRegisters
<1>16. CASE JoinFails
  BY <1>16, IdleType DEF JoinFails
<1>17. CASE JoinApplies
  <2>1. lost' \in BOOLEAN
    BY Zenon, <1>17 DEF JoinApplies
  <2>2. mem' \in Node /\ mem'.from = mem'.url
    BY <1>17, AppliedType DEF JoinApplies
  <2> QED
    BY <1>17, <2>1, <2>2, IdleType DEF JoinApplies
<1>18. CASE Restart
  BY <1>18, IdleType DEF Restart
<1>19. CASE UNCHANGED vars
  BY <1>19 DEF vars
<1> QED
  BY <1>1, <1>2, <1>3, <1>4, <1>5, <1>6, <1>7, <1>8, <1>9, <1>10, <1>11,
     <1>12, <1>13, <1>14, <1>15, <1>16, <1>17, <1>18, <1>19, <1>20
  DEF Next, Sources, Pulling, Joining, Administration

LEMMA AlwaysIInv == Spec => []IInv
BY InitIInv, StepIInv, PTL DEF Spec

\* Every variable keeps its type; a request in flight has an address and the
\* idle ones have none (the checks before performReplicaSync, main.go:75,99).
THEOREM TypeCorrect == Spec => []TypeOK
<1>1. IInv => TypeOK
  BY DEF IInv
<1> QED
  BY <1>1, AlwaysIInv, PTL

\* clusterSyncMu serialises the exchanges of all callers, over restarts too
\* (api_cluster_sync.go:18).
THEOREM Serialised == Spec => []SyncSerialised
<1>1. IInv => SyncSerialised
  BY DEF IInv
<1> QED
  BY <1>1, AlwaysIInv, PTL

\* No interleaving of pulls, joins, leaves, saves that fail and restarts makes
\* a replica run one primary's configuration under another one's address
\* (applyClusterExport writes both under configLock, api_cluster_sync.go:96).
THEOREM OnePrimarysConfig == Spec => []ConfigFromPrimary
<1>1. IInv => ConfigFromPrimary
  BY DEF IInv, UrlMatches, ConfigFromPrimary, IsReplica
<1> QED
  BY <1>1, AlwaysIInv, PTL

-----------------------------------------------------------------------------
(* SteadySpec: a replica between joining and leaving                       *)

LEMMA SteadyInitIInv == SteadyInit => SteadyIInv
<1> SUFFICES ASSUME NEW p \in Primaries, InitWith(ReplicaOf(p, FALSE))
             PROVE  SteadyIInv
  BY DEF SteadyInit
<1>1. IInv
  BY InitWithIInv, BootNodes
<1>2. mem.url = p /\ mem.url # None /\ mem.role = "replica" /\ mem.ver = 0
  <2>1. mem = ReplicaOf(p, FALSE)
    BY DEF InitWith
  <2>2. /\ ReplicaOf(p, FALSE).url = p
        /\ ReplicaOf(p, FALSE).ver = 0
        /\ ReplicaOf(p, FALSE).role = "replica"
    BY BootNodes, Zenon
  <2> QED
    BY <2>1, <2>2, ClusterAssumption
<1>3. \A c \in Callers : pull[c].stage = "idle"
  BY IdleType DEF InitWith
<1>4. pub[p].ver = 0
  BY DEF InitWith
<1> QED
  BY <1>1, <1>2, <1>3, <1>4
  DEF SteadyIInv, IInv, IsReplica, AnswersCurrent

\* A step of the replica's life is a step of Spec, so IInv is preserved; the
\* rest follows from the one exchange at a time of SyncSerialised.
LEMMA SteadyStepIInv == SteadyIInv /\ [SteadyNext]_vars => SteadyIInv'
<1> SUFFICES ASSUME SteadyIInv, [SteadyNext]_vars PROVE SteadyIInv'
  OBVIOUS
<1>1. IInv'
  <2>1. [Next]_vars
    BY DEF SteadyNext, Next, Administration, Roles
  <2> QED
    BY <2>1, StepIInv DEF SteadyIInv
<1> DEFINE Rest ==
      /\ IsReplica(mem)
      /\ \A c \in Callers : pull[c].stage # "idle" => pull[c].url = mem.url
      /\ AnswersCurrent
      /\ mem.ver <= pub[mem.url].ver
<1> SUFFICES Rest'
  BY <1>1 DEF SteadyIInv
<1>14. CASE UNCHANGED vars
  BY <1>14 DEF SteadyIInv, vars, IsReplica, AnswersCurrent
<1> USE DEF SteadyIInv, IInv, TypeOK, SyncSerialised, IsReplica, AnswersCurrent
<1>2. /\ mem.url \in Primaries /\ mem.ver \in 0 .. MaxEdits
      /\ \A q \in Primaries : pub[q].ver \in 0 .. MaxEdits
      /\ \A c \in Callers : /\ pull[c].ver \in 0 .. MaxEdits
                            /\ pull[c].url \in Primaries \cup {None}
  BY DEF Node, Published, Request
<1>3. ASSUME NEW q \in Primaries, Edit(q) PROVE Rest'
  <2>1. \A r \in Primaries : pub'[r].ver \in Nat /\ pub'[r].ver >= pub[r].ver
    BY <1>2, <1>3, ClusterAssumption DEF Edit
  <2> QED
    BY <1>2, <1>3, <2>1, ClusterAssumption DEF Edit
<1>4. ASSUME NEW q \in Primaries, Revoke(q) PROVE Rest'
  BY <1>4 DEF Revoke
<1>5. ASSUME NEW c \in Callers, Send(c) PROVE Rest'
  BY <1>5 DEF Send, Request
<1>6. ASSUME NEW c \in Callers, Answer(c) PROVE Rest'
  BY <1>2, <1>6, ClusterAssumption DEF Answer, Request
<1>7. ASSUME NEW c \in Callers, PullFails(c) PROVE Rest'
  BY <1>7 DEF PullFails, Request
<1>8. ASSUME NEW c \in Callers, Apply(c) PROVE Rest'
  <2>1. /\ mem'.role = "replica" /\ mem'.url = mem.url
        /\ mem'.ver = pull[c].ver
    BY <1>8, AppliedType DEF Apply, Applied
  <2>2. \A d \in Callers \ {c} : pull[d].stage # "answered"
    BY <1>8, ClusterAssumption DEF Apply
  <2>3. /\ pull'[c].stage \in {"done", "failed"} /\ pull'[c].url = pull[c].url
        /\ \A d \in Callers \ {c} : pull'[d] = pull[d]
        /\ UNCHANGED pub
    BY <1>8 DEF Apply, Request
  <2> QED
    BY <1>2, <1>8, <2>1, <2>2, <2>3 DEF Apply
<1>9. ASSUME NEW c \in Callers, Finish(c) PROVE Rest'
  BY <1>9, IdleType DEF Finish
<1>10. ASSUME NEW c \in Callers, pull' = [pull EXCEPT ![c] = Queued(mem)],
              UNCHANGED <<pub, mem>>
       PROVE  Rest'
  <2>1. Queued(mem).stage = "queued" /\ Queued(mem).url = mem.url
    BY QueuedType
  <2> QED
    BY <1>10, <2>1
<1> HIDE DEF Rest
<1>11. CASE LoopStarts \/ LoopTick
  <2>1. /\ pull' = [pull EXCEPT !["loop"] = Queued(mem)]
        /\ UNCHANGED <<pub, mem>>
    BY <1>11 DEF LoopStarts, LoopTick, LoopGoesOn
  <2>2. "loop" \in Callers
    BY ClusterAssumption
  <2> QED
    BY <1>10, <2>1, <2>2
<1>12. CASE ManualSync
  BY <1>10, <1>12 DEF ManualSync
<1>13. ASSUME NEW f \in Options, UpdateSettings("replica", f) PROVE Rest'
  <2> USE DEF Rest
  <2>1. /\ mem'.role = "replica" /\ mem'.url = mem.url /\ mem'.ver = mem.ver
        /\ mem' \in Node /\ UNCHANGED pub
    BY <1>1, <1>13 DEF UpdateSettings, Node
  <2>2. \/ UNCHANGED pull
        \/ pull' = [pull EXCEPT !["settings"] = Queued(mem')]
    BY <1>13 DEF UpdateSettings, SavedOrNot
  <2>3. Queued(mem').stage = "queued" /\ Queued(mem').url = mem.url
    BY <2>1, QueuedType
  <2> QED
    BY <2>1, <2>2, <2>3
<1>15. ASSUME NEW f \in Options, SettingsByTool("replica", f) PROVE Rest'
  <2> USE DEF Rest
  <2>1. /\ mem'.role = "replica" /\ mem'.url = mem.url /\ mem'.ver = mem.ver
        /\ UNCHANGED <<pub, pull>>
    BY <1>1, <1>15 DEF SettingsByTool, SavedOrNot, Node
  <2> QED
    BY <2>1
<1> QED
  BY <1>3, <1>4, <1>5, <1>6, <1>7, <1>8, <1>9, <1>11, <1>12, <1>13, <1>14, <1>15
  DEF SteadyNext, Sources, Pulling

LEMMA AlwaysSteadyIInv == SteadySpec => []SteadyIInv
BY SteadyInitIInv, SteadyStepIInv, PTL DEF SteadySpec

\* However many callers of performReplicaSync overlap, none of them takes the
\* replica back to a configuration older than the one in use (the answer is
\* applied before clusterSyncMu is released, api_cluster_sync.go:82).
THEOREM PullsNeverGoBack == SteadySpec => NeverBackwards
<1>1. SteadyIInv /\ [SteadyNext]_vars => [mem'.ver >= mem.ver]_vars
  <2> SUFFICES ASSUME SteadyIInv, SteadyNext PROVE mem'.ver >= mem.ver
    OBVIOUS
  <2>1. ASSUME NEW c \in Callers, Apply(c) PROVE mem'.ver >= mem.ver
    BY <2>1, AppliedType DEF SteadyIInv, AnswersCurrent, IInv, TypeOK, Apply
  <2>2. ASSUME NEW f \in Options,
               UpdateSettings("replica", f) \/ SettingsByTool("replica", f)
        PROVE  mem'.ver = mem.ver
    BY <2>2 DEF UpdateSettings, SettingsByTool, SteadyIInv, IInv, TypeOK, Node
  <2>3. mem.ver \in Nat
    BY ClusterAssumption DEF SteadyIInv, IInv, TypeOK, Node
  <2>4. (\E c \in Callers : Apply(c)) \/ UNCHANGED mem
        \/ \E f \in Options :
             UpdateSettings("replica", f) \/ SettingsByTool("replica", f)
    BY DEF SteadyNext, Sources, Pulling, Edit, Revoke, Send, Answer, PullFails,
           Finish, LoopStarts, LoopTick, ManualSync
  <2> QED
    BY <2>1, <2>2, <2>3, <2>4
<1> QED
  BY <1>1, AlwaysSteadyIInv, PTL DEF SteadySpec, NeverBackwards

\* The steady life of a replica implements the abstract mirror: every version
\* it adopts is one its primary published, between the one in use and the
\* current one; fairness aside, which the runs check.
THEOREM ReplicaMirrors == SteadySpec => MirrorSafety
<1>1. SteadyInit => Mirror!Init
  <2> SUFFICES ASSUME NEW p \in Primaries, InitWith(ReplicaOf(p, FALSE))
               PROVE  Mirror!Init
    BY DEF SteadyInit
  <2>1. /\ ReplicaOf(p, FALSE).url = p
        /\ ReplicaOf(p, FALSE).ver = 0
    BY BootNodes, Zenon
  <2>2. mem.url = p /\ mem.ver = 0 /\ p # None /\ registered = {p}
    BY <2>1, ClusterAssumption DEF InitWith
  <2>3. pub[p].ver = 0
    BY DEF InitWith
  <2> QED
    BY <2>2, <2>3 DEF Mirror!Init
<1>2. SteadyIInv /\ [SteadyNext]_vars => [Mirror!Next]_(Mirror!vars)
  <2> SUFFICES ASSUME SteadyIInv, SteadyNext
               PROVE  [Mirror!Next]_(Mirror!vars)
    BY DEF vars, Mirror!vars
  <2> USE DEF Mirror!Next, Mirror!vars
  <2>1. /\ mem.url \in Primaries /\ mem.ver \in 0 .. MaxEdits
        /\ \A q \in Primaries : pub[q].ver \in 0 .. MaxEdits
    BY DEF SteadyIInv, IInv, TypeOK, Node, Published, IsReplica
  <2>2. ASSUME NEW q \in Primaries, Edit(q)
        PROVE  Mirror!Publish \/ UNCHANGED Mirror!vars
    BY <2>1, <2>2 DEF Edit, Mirror!Publish, SteadyIInv, IInv, TypeOK, Published
  <2>3. ASSUME NEW q \in Primaries, Revoke(q)
        PROVE  Mirror!Unlink \/ UNCHANGED Mirror!vars
    BY <2>3 DEF Revoke, Mirror!Unlink
  <2>4. ASSUME NEW c \in Callers, Apply(c)
        PROVE  \E v \in mem.ver .. pub[mem.url].ver : Mirror!Adopt(v)
    <3>1. /\ mem'.url = mem.url /\ mem'.ver = pull[c].ver
          /\ UNCHANGED <<pub, registered>>
      BY <2>4, AppliedType DEF SteadyIInv, IInv, TypeOK, Apply
    <3>2. /\ pull[c].ver >= mem.ver /\ pull[c].ver <= pub[mem.url].ver
          /\ pull[c].ver \in Nat
      BY <2>4, ClusterAssumption
      DEF SteadyIInv, IInv, TypeOK, AnswersCurrent, Apply, Request
    <3> QED
      BY <2>1, <3>1, <3>2, ClusterAssumption DEF Mirror!Adopt
  <2>5. ASSUME NEW f \in Options,
               UpdateSettings("replica", f) \/ SettingsByTool("replica", f)
        PROVE  UNCHANGED Mirror!vars
    BY <2>5 DEF UpdateSettings, SettingsByTool, SteadyIInv, IInv, TypeOK, Node
  <2>6. \/ \E c \in Callers : Send(c) \/ Answer(c) \/ PullFails(c) \/ Finish(c)
        \/ LoopStarts \/ LoopTick \/ ManualSync
        => UNCHANGED Mirror!vars
    BY DEF Send, Answer, PullFails, Finish, LoopStarts, LoopTick, ManualSync
  <2> QED
    BY <2>2, <2>3, <2>4, <2>5, <2>6 DEF SteadyNext, Sources, Pulling
<1> QED
  BY <1>1, <1>2, AlwaysSteadyIInv, PTL
  DEF SteadySpec, MirrorSafety, Mirror!Safety
=============================================================================
