----------------------------- MODULE ClusterSync -----------------------------
(***************************************************************************)
(* One cluster node and the primaries it may be joined to: pulling the     *)
(* primary's configuration (performReplicaSync, applyClusterExport in      *)
(* admin/api_cluster_sync.go), joining, leaving, changing the cluster      *)
(* settings (admin/api_cluster.go), the periodic loop that main.go starts  *)
(* three seconds after boot, and the restart of the node.                  *)
(*                                                                         *)
(* A pull captures role, URL and failover mode under configLock, releases  *)
(* it, waits for clusterSyncMu, asks the primary over the network and then *)
(* applies the answer with the values it captured.                         *)
(*                                                                         *)
(* A configuration is abstracted to a version, which stands for the fields *)
(* that applyClusterExport always overwrites, and the set opt, which       *)
(* stands for the fields with an omitempty tag and a nil check             *)
(* (routing rules, blocked clients, client rules, aliases, API keys).      *)
(***************************************************************************)
EXTENDS Naturals

CONSTANTS
  Primaries,  \* nodes that can act as primary for this one
  Items,      \* what the omitempty fields may contain
  Callers,    \* who calls performReplicaSync: the loop of main.go ("loop"),
              \* handleClusterSync ("manual"), the goroutine of
              \* handleClusterUpdateSettings ("settings"), one at a time each
  Options,    \* values of the failover mode, which stands for the settings
              \* that a pull captures beside the URL
  MaxEdits,   \* bound on the configuration changes of each primary
  None        \* the empty ClusterPrimaryURL

ASSUME ClusterAssumption ==
  /\ None \notin Primaries
  /\ Callers \subseteq {"loop", "manual", "settings"}
  /\ "loop" \in Callers
  /\ None \notin Callers
  /\ FALSE \in Options
  /\ Options \subseteq BOOLEAN
  /\ MaxEdits \in Nat

Roles == {"standalone", "replica", "primary"}

Published == [ver : 0 .. MaxEdits, opt : SUBSET Items]

Node == [role : Roles, url : Primaries \cup {None}, failover : Options,
         from : Primaries \cup {None}, ver : 0 .. MaxEdits, opt : SUBSET Items]

\* A pull, or the join request: where it stands and what it captured.
Stages  == {"idle", "queued", "sent", "answered", "done", "failed"}
Request == [stage : Stages, url : Primaries \cup {None}, failover : Options,
            ver : 0 .. MaxEdits, opt : SUBSET Items]
Idle == [stage |-> "idle", url |-> None, failover |-> FALSE,
         ver |-> 0, opt |-> {}]

VARIABLES
  pub,        \* configuration of each primary
  registered, \* primaries in whose ClusterReplicas this node is
  mem,        \* cluster part of the in-memory configuration
  disk,       \* what config.json holds of it
  pull,       \* the request of each caller of performReplicaSync
  syncMu,     \* holder of clusterSyncMu
  join,       \* the request of handleClusterJoin
  lost,       \* clusterConnLost
  loop        \* the goroutine of main.go

vars == <<pub, registered, mem, disk, pull, syncMu, join, lost, loop>>

LoopStates == {"booting", "running", "absent"}

TypeOK ==
  /\ pub \in [Primaries -> Published]
  /\ registered \subseteq Primaries
  /\ mem \in Node
  /\ disk \in Node
  /\ pull \in [Callers -> Request]
  /\ \A c \in Callers : pull[c].stage = "idle" <=> pull[c].url = None
  /\ syncMu \in Callers \cup {None}
  /\ join \in Request
  /\ join.stage = "idle" <=> join.url = None
  /\ lost \in BOOLEAN
  /\ loop \in LoopStates

Fresh == [role |-> "standalone", url |-> None, failover |-> FALSE,
          from |-> None, ver |-> 0, opt |-> {}]

ReplicaOf(p, f) == [Fresh EXCEPT !.role = "replica", !.url = p, !.from = p,
                                 !.failover = f]

InitWith(node) ==
  /\ pub = [p \in Primaries |-> [ver |-> 0, opt |-> {}]]
  /\ registered = {node.url} \ {None}
  /\ mem = node
  /\ disk = node
  /\ pull = [c \in Callers |-> Idle]
  /\ syncMu = None
  /\ join = Idle
  /\ lost = FALSE
  /\ loop = "booting"

\* A freshly installed node, or one that was joined before this boot.
Init == InitWith(Fresh) \/ \E p \in Primaries : InitWith(ReplicaOf(p, FALSE))

-----------------------------------------------------------------------------
(* The primaries                                                           *)

\* An administrator changes a primary's configuration.
Edit(p) ==
  /\ pub[p].ver < MaxEdits
  /\ \E o \in SUBSET Items :
       pub' = [pub EXCEPT ![p] = [ver |-> @.ver + 1, opt |-> o]]
  /\ UNCHANGED <<registered, mem, disk, pull, syncMu, join, lost, loop>>

\* handleClusterRevokeReplica on a primary.
Revoke(p) ==
  /\ p \in registered
  /\ registered' = registered \ {p}
  /\ UNCHANGED <<pub, mem, disk, pull, syncMu, join, lost, loop>>

-----------------------------------------------------------------------------
(* performReplicaSync                                                      *)

IsReplica(n) == n.role = "replica" /\ n.url # None

\* The caller read the cluster settings of node n and calls performReplicaSync.
Queued(n) == [stage |-> "queued", url |-> n.url, failover |-> n.failover,
              ver |-> 0, opt |-> {}]

MutexFreeAlways == TRUE               \* mutant: no clusterSyncMu
MutexFree       == syncMu = None

\* clusterSyncMu.Lock, then the GET goes out.
Send(c) ==
  /\ pull[c].stage = "queued"
  /\ MutexFree
  /\ syncMu' = c
  /\ pull' = [pull EXCEPT ![c].stage = "sent"]
  /\ UNCHANGED <<pub, registered, mem, disk, join, lost, loop>>

\* handleClusterGetReplicaConfig on the primary knows the token and exports.
Answer(c) ==
  LET p == pull[c].url IN
  /\ pull[c].stage = "sent"
  /\ p \in registered
  /\ pull' = [pull EXCEPT ![c].stage = "answered", ![c].ver = pub[p].ver,
                          ![c].opt = pub[p].opt]
  /\ UNCHANGED <<pub, registered, mem, disk, syncMu, join, lost, loop>>

\* Refused (revoked), unreachable, timed out or undecodable: nothing applied.
PullFails(c) ==
  /\ pull[c].stage \in {"sent", "answered"}
  /\ pull' = [pull EXCEPT ![c].stage = "failed"]
  /\ syncMu' = None
  /\ UNCHANGED <<pub, registered, mem, disk, join, lost, loop>>

\* "if exp.X != nil" on fields the exporter omits when they are empty.
AppliedOpt(n, o) == IF o = {} THEN n.opt ELSE o

\* applyClusterExport: role and cluster settings are the captured ones.
AppliedKeepsUrl(n, r) ==                             \* mutant
  [n EXCEPT !.role = "replica", !.from = r.url, !.ver = r.ver]
Applied(n, r) ==
  [role |-> "replica", url |-> r.url, failover |-> r.failover,
   from |-> r.url, ver |-> r.ver, opt |-> AppliedOpt(n, r.opt)]

\* The answer is applied under configLock and saved; when saving fails the
\* call reports an error and memory keeps what was applied.
Apply(c) ==
  /\ pull[c].stage = "answered"
  /\ mem' = Applied(mem, pull[c])
  /\ \/ /\ disk' = mem'
        /\ pull' = [pull EXCEPT ![c].stage = "done"]
     \/ /\ UNCHANGED disk
        /\ pull' = [pull EXCEPT ![c].stage = "failed"]
  /\ syncMu' = None
  /\ UNCHANGED <<pub, registered, join, lost, loop>>

\* The caller records the outcome in clusterConnLost, after clusterSyncMu is
\* released; the goroutine of the settings handler ignores it.
LostSticky(c)  == lost \/ pull[c].stage = "failed"   \* mutant
LostIgnored(c) == lost /\ pull[c].stage = "failed"   \* mutant
LostAfter(c)   == IF c = "settings" THEN lost ELSE pull[c].stage = "failed"

Finish(c) ==
  /\ pull[c].stage \in {"done", "failed"}
  /\ pull' = [pull EXCEPT ![c] = Idle]
  /\ lost' = LostAfter(c)
  /\ UNCHANGED <<pub, registered, mem, disk, syncMu, join, loop>>

-----------------------------------------------------------------------------
(* Who pulls                                                               *)

\* Three seconds after boot: the goroutine pulls and enters its ticker loop
\* if the node is a replica by then, and ends otherwise.
LoopStarts ==
  /\ loop = "booting"
  /\ IF IsReplica(mem)
     THEN /\ loop' = "running"
          /\ pull' = [pull EXCEPT !["loop"] = Queued(mem)]
     ELSE loop' = "absent" /\ UNCHANGED pull
  /\ UNCHANGED <<pub, registered, mem, disk, syncMu, join, lost>>

\* A tick: pull again, or leave the loop for good.
LoopEndsOnError == IsReplica(mem) /\ ~lost           \* mutant
LoopGoesOn      == IsReplica(mem)

LoopTick ==
  /\ loop = "running"
  /\ pull["loop"] = Idle
  /\ IF LoopGoesOn
     THEN pull' = [pull EXCEPT !["loop"] = Queued(mem)] /\ UNCHANGED loop
     ELSE loop' = "absent" /\ UNCHANGED pull
  /\ UNCHANGED <<pub, registered, mem, disk, syncMu, join, lost>>

\* handleClusterSync
ManualSync ==
  /\ "manual" \in Callers
  /\ pull["manual"] = Idle
  /\ IsReplica(mem)
  /\ pull' = [pull EXCEPT !["manual"] = Queued(mem)]
  /\ UNCHANGED <<pub, registered, mem, disk, syncMu, join, lost, loop>>

-----------------------------------------------------------------------------
(* The cluster handlers of the node                                        *)

\* config.json is written and the handler goes on, or the write fails and it
\* answers 500; memory was changed either way.
SavedOrNot(thenPull) ==
  \/ disk' = mem' /\ pull' = thenPull
  \/ UNCHANGED <<disk, pull>>

\* handleClusterUpdateSettings: role and failover mode, then a background pull.
\* The handler reads the settings again under a second lock for that pull; a
\* change that slips in between gives the same pull as a ManualSync after it.
UpdateSettings(role, failover) ==
  /\ "settings" \in Callers
  /\ pull["settings"] = Idle
  /\ mem' = [mem EXCEPT !.role = role, !.failover = failover]
  /\ SavedOrNot(IF IsReplica(mem')
                THEN [pull EXCEPT !["settings"] = Queued(mem')] ELSE pull)
  /\ UNCHANGED <<pub, registered, syncMu, join, lost, loop>>

\* The MCP tool update_cluster_settings: the same settings, and no pull.
SettingsByTool(role, failover) ==
  /\ mem' = [mem EXCEPT !.role = role, !.failover = failover]
  /\ SavedOrNot(pull)
  /\ UNCHANGED <<pub, registered, syncMu, join, lost, loop>>

\* handleClusterRegisterReplica on this node: "Auto-promote to primary".
AcceptReplica ==
  /\ mem' = [mem EXCEPT !.role = "primary"]
  /\ SavedOrNot(pull)
  /\ UNCHANGED <<pub, registered, syncMu, join, lost, loop>>

\* handleClusterLeave; clusterConnLost is cleared only when the save succeeded.
Leave ==
  /\ mem' = [mem EXCEPT !.role = "standalone", !.url = None,
                        !.failover = FALSE]
  /\ \/ disk' = mem' /\ lost' = FALSE
     \/ UNCHANGED <<disk, lost>>
  /\ UNCHANGED <<pub, registered, pull, syncMu, join, loop>>

\* handleClusterJoin: the request goes out without any lock held ...
JoinSends(p, failover) ==
  /\ join = Idle
  /\ join' = [Idle EXCEPT !.stage = "sent", !.url = p, !.failover = failover]
  /\ UNCHANGED <<pub, registered, mem, disk, pull, syncMu, lost, loop>>

\* ... the primary registers the replica and exports its configuration; the
\* answer is lost or says 500 when the primary could not save ...
JoinRegisters ==
  /\ join.stage = "sent"
  /\ registered' = registered \cup {join.url}
  /\ join' \in {[join EXCEPT !.stage = "answered", !.ver = pub[join.url].ver,
                             !.opt = pub[join.url].opt], Idle}
  /\ UNCHANGED <<pub, mem, disk, pull, syncMu, lost, loop>>

JoinFails ==
  /\ join.stage = "sent"
  /\ join' = Idle
  /\ UNCHANGED <<pub, registered, mem, disk, pull, syncMu, lost, loop>>

\* ... and the answer is applied without clusterSyncMu.
JoinApplies ==
  /\ join.stage = "answered"
  /\ mem' = Applied(mem, join)
  /\ \/ disk' = mem' /\ lost' = FALSE
     \/ UNCHANGED <<disk, lost>>
  /\ join' = Idle
  /\ UNCHANGED <<pub, registered, pull, syncMu, loop>>

\* The process ends at any point and starts again from config.json.
Restart ==
  /\ mem' = disk
  /\ pull' = [c \in Callers |-> Idle]
  /\ syncMu' = None
  /\ join' = Idle
  /\ lost' = FALSE
  /\ loop' = "booting"
  /\ UNCHANGED <<pub, registered, disk>>

-----------------------------------------------------------------------------
Pulling ==
  \/ \E c \in Callers : Send(c) \/ Answer(c) \/ PullFails(c) \/ Apply(c)
                                  \/ Finish(c)
  \/ LoopStarts
  \/ LoopTick
  \/ ManualSync

Sources == \E p \in Primaries : Edit(p) \/ Revoke(p)

Joining ==
  \/ \E p \in Primaries, f \in Options : JoinSends(p, f)
  \/ JoinRegisters
  \/ JoinFails
  \/ JoinApplies

Administration ==
  \/ \E r \in Roles, f \in Options : UpdateSettings(r, f) \/ SettingsByTool(r, f)
  \/ AcceptReplica
  \/ Leave

Next == Sources \/ Pulling \/ Joining \/ Administration \/ Restart

Spec == Init /\ [][Next]_vars

\* The life of a replica between joining and leaving, without a restart.
SteadyInit == \E p \in Primaries : InitWith(ReplicaOf(p, FALSE))

SteadyNext ==
  \/ Sources
  \/ Pulling
  \/ \E f \in Options :
       UpdateSettings("replica", f) \/ SettingsByTool("replica", f)

\* Tickers fire and HTTP calls end; a primary that goes on accepting the
\* replica does not time out for ever, and config.json can be written.
ApplySaves(c) == Apply(c) /\ pull'[c].stage = "done"

Fairness ==
  /\ WF_vars(LoopStarts)
  /\ WF_vars(LoopTick)
  /\ \A c \in Callers :
       /\ SF_vars(Send(c))        \* waiters of a sync.Mutex are not starved
       /\ WF_vars(PullFails(c))
       /\ WF_vars(Finish(c))
       /\ SF_vars(Answer(c))
       /\ SF_vars(ApplySaves(c))

SteadySpec == SteadyInit /\ [][SteadyNext]_vars /\ Fairness

-----------------------------------------------------------------------------
(* Safety                                                                  *)

\* clusterSyncMu keeps one exchange with a primary in flight, and it is the
\* holder's (api_cluster_sync.go:18).
SyncSerialised ==
  \A c \in Callers : pull[c].stage \in {"sent", "answered"} <=> syncMu = c

\* Whatever joins, leaves and in-flight pulls do to each other, a replica
\* runs the configuration of the primary it points at, in memory and after a
\* restart (api_cluster_sync.go:99-104).
ConfigFromPrimary ==
  \A n \in {mem, disk} : IsReplica(n) => n.from = n.url

\* A pull never takes a replica back to an older configuration, however many
\* callers of performReplicaSync overlap.
NeverBackwards == [][mem'.ver >= mem.ver]_vars

\* A pull's answer is the state of a primary at some moment of the pull: never
\* one the primary had not reached, never one older than what is in use.
AnswersCurrent ==
  \A c \in Callers : pull[c].stage = "answered" =>
    /\ pull[c].ver >= mem.ver
    /\ pull[c].ver <= pub[pull[c].url].ver

\* Inductive for Spec: also a node that is no replica at the moment keeps a URL
\* only together with the configuration that came from there.
UrlMatches == \A n \in {mem, disk} : n.url # None => n.from = n.url

\* The goroutine of main.go has made no call before its first one.
LoopCallsAfterBoot == loop = "booting" => pull["loop"].stage = "idle"

IInv == TypeOK /\ SyncSerialised /\ UrlMatches /\ LoopCallsAfterBoot

\* Inductive for SteadySpec: every pull is addressed to the one primary.
SteadyIInv ==
  /\ IInv
  /\ IsReplica(mem)
  /\ \A c \in Callers : pull[c].stage # "idle" => pull[c].url = mem.url
  /\ AnswersCurrent
  /\ mem.ver <= pub[mem.url].ver

-----------------------------------------------------------------------------
(* Liveness, under SteadySpec                                              *)

\* A replica that stays registered catches up with its primary (main.go:96).
Converges == []<>(mem.url \notin registered \/ mem.ver = pub[mem.url].ver)

\* A revoked replica ends up reporting the lost connection for good, whatever
\* older calls still had to report (main.go:107-108).
RevocationShows == <>[](mem.url \notin registered) => <>[]lost

\* A reported loss is withdrawn once pulls succeed again (main.go:117-118).
LossClears == lost ~> (~lost \/ mem.url \notin registered)

\* The versions a replica adopts are those of an abstract mirror.
Mirror == INSTANCE ConfigMirror
            WITH published <- pub[mem.url].ver, adopted <- mem.ver,
                 linked <- mem.url \in registered, MaxVersion <- MaxEdits
MirrorSpec == Mirror!Spec

\* The part of it that needs no fairness.
MirrorSafety == Mirror!Safety

-----------------------------------------------------------------------------
(* What a comment says and the code does not do                            *)

\* api_cluster.go:516: leaving turns the node back into a standalone
\* instance; only an administrator's join or role change ends that.
LeaveSticks == [][mem.role = "standalone" => \A c \in Callers : ~Apply(c)]_vars
=============================================================================
