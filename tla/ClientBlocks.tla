---------------------------- MODULE ClientBlocks ----------------------------
(***************************************************************************)
(* Blocking clients: the abuse engine's blockClientAuto (admin/abuse.go),  *)
(* handleClientBlock (admin/api_client_handlers.go), unblock_all_clients   *)
(* (admin/api_mcp_tools_admin.go) and the settings page, which posts the   *)
(* whole configuration it once loaded (handleConfig, admin/api_system.go), *)
(* all change BlockedClients and BlockedClientsInfo under configLock and   *)
(* then let updateCorefile (admin/dns_corefile.go) run, which clones the   *)
(* configuration and writes the ACL later, under no lock.                  *)
(*                                                                         *)
(* A list of clients is a count of occurrences; the entries of             *)
(* BlockedClientsInfo are told apart by their field Auto.  Of the Corefile *)
(* the model keeps the clients its ACL names, and a write replaces it at   *)
(* once: what concurrent writes do to the file is the business of          *)
(* AtomicFile.                                                             *)
(***************************************************************************)
EXTENDS Naturals, FiniteSets

CONSTANTS
  Clients,    \* client addresses
  Exempt,     \* those IsCriticalIP knows: block page, whitelist (loopback
              \* addresses are never blocked and not in Clients)
  Analyzers,  \* concurrent goroutines running blockClientAuto
  Updates,    \* concurrent calls of updateCorefile
  MaxChanges, \* bound on changes by administrators and the abuse engine
  MaxStops,   \* bound on restarts and crashes of the process
  MayFail     \* may saving config.json fail?

ASSUME BlocksAssumption ==
  /\ IsFiniteSet(Clients) /\ Exempt \subseteq Clients
  /\ MaxChanges \in Nat /\ MaxStops \in Nat /\ MayFail \in BOOLEAN

VARIABLES
  mem,      \* the blocked clients of the configuration in memory
  disk,     \* ... and in config.json
  page,     \* ... and in the settings page an administrator has open
  blocking, \* for each analyzer: the clients it is about to block (at most one)
  update,   \* the running calls of updateCorefile
  corefile, \* the clients in the ACL of the Corefile
  served,   \* the clients CoreDNS refuses
  acked,    \* ghost: clients whose manual block was acknowledged
  outdated, \* ghost: a page was posted that was not up to date
  changes, stops \* counters for the bounds

config == <<mem, disk, page, acked, outdated, changes>>
vars   == <<config, blocking, update, corefile, served, stops>>

Blocks == [count : [Clients -> Nat],
           auto : SUBSET Clients, manual : SUBSET Clients]

Listed(b) == {c \in Clients : b.count[c] > 0}

Off == [pc |-> "off", acl |-> {}]

TypeOK ==
  /\ mem \in Blocks /\ disk \in Blocks /\ page \in Blocks
  /\ \A b \in {mem, disk, page} : b.auto \cap b.manual = {}
  /\ blocking \in [Analyzers -> {{}} \cup {{c} : c \in Clients}]
  /\ update \in [Updates -> [pc : {"off", "called", "cloned"}, acl : SUBSET Clients]]
  /\ corefile \subseteq Clients /\ served \subseteq Clients
  /\ acked \subseteq Clients /\ outdated \in BOOLEAN
  /\ changes \in 0 .. MaxChanges /\ stops \in 0 .. MaxStops

NoBlocks == [count |-> [c \in Clients |-> 0], auto |-> {}, manual |-> {}]

\* A new installation, or one from before there was a BlockedClientsInfo.
Init ==
  /\ \E c \in Clients :
       mem \in {NoBlocks, [NoBlocks EXCEPT !.count[c] = 1]}
  /\ disk = mem
  /\ page = mem
  /\ blocking = [a \in Analyzers |-> {}]
  /\ update = [u \in Updates |-> Off]
  /\ corefile = Listed(mem)
  /\ served = corefile
  /\ acked = {}
  /\ outdated = FALSE
  /\ changes = 0
  /\ stops = 0

-----------------------------------------------------------------------------
(* updateCorefile                                                          *)

\* A call of updateCorefile; the process can always make one more, the model
\* as long as there is a free element of Updates.
Called(u) == update' = [update EXCEPT ![u] = [Off EXCEPT !.pc = "called"]]
Free      == {u \in Updates : update[u] = Off}

CallUpdate == \E u \in Free : Called(u)

\* The configuration is cloned under configLock ...
UpdateClones(u) ==
  /\ update[u].pc = "called"
  /\ update' = [update EXCEPT ![u] = [pc |-> "cloned", acl |-> Listed(mem)]]
  /\ UNCHANGED <<config, blocking, corefile, served, stops>>

\* ... and written when country zones are read and upstreams resolved.
NotWritten(u) == corefile                             \* mutant
Written(u) == update[u].acl

UpdateWrites(u) ==
  /\ update[u].pc = "cloned"
  /\ corefile' = Written(u)
  /\ update' = [update EXCEPT ![u] = Off]
  /\ UNCHANGED <<config, blocking, served, stops>>

\* The updater of the malicious-address feed, and whoever else regenerates the
\* Corefile without a change of the blocked clients.
Regenerate ==
  /\ CallUpdate
  /\ UNCHANGED <<config, blocking, corefile, served, stops>>

\* CoreDNS looks at the Corefile every 300 seconds and when it is restarted.
Reload ==
  /\ served' = corefile
  /\ UNCHANGED <<config, blocking, update, corefile, stops>>

-----------------------------------------------------------------------------
(* Changing the blocked clients                                            *)

Change ==
  /\ changes < MaxChanges
  /\ changes' = changes + 1

\* saveConfigNoLock; a handler that cannot save answers 500, leaves memory
\* changed and does not call updateCorefile.
SavedOrNot(okAcked, failedAcked) ==
  \/ disk' = mem' /\ acked' = okAcked /\ CallUpdate
  \/ MayFail /\ acked' = failedAcked /\ UNCHANGED <<disk, update>>

\* analyzeQuery found a pattern of abuse in the queries of a client that was
\* not blocked then, and blockClientAuto no reason to spare it.
Suspect(a, c) ==
  /\ blocking[a] = {}
  /\ c \notin Listed(mem) \cup Exempt
  /\ blocking' = [blocking EXCEPT ![a] = {c}]
  /\ UNCHANGED <<config, update, corefile, served, stops>>

AlreadyBlockedUnchecked(c) == FALSE                   \* mutant
AlreadyBlocked(c) == c \in Listed(mem)

\* The rest of blockClientAuto, under configLock; a failed save is logged.
BlockClientAuto(a, c) ==
  /\ blocking[a] = {c}
  /\ blocking' = [blocking EXCEPT ![a] = {}]
  /\ \/ /\ AlreadyBlocked(c)
        /\ UNCHANGED <<config, update>>
     \/ /\ ~AlreadyBlocked(c)
        /\ Change
        /\ mem' = [count |-> [mem.count EXCEPT ![c] = @ + 1],
                   auto |-> mem.auto \cup {c}, manual |-> mem.manual \ {c}]
        /\ disk' = mem' \/ (MayFail /\ UNCHANGED disk)
        /\ CallUpdate
        /\ UNCHANGED <<page, acked, outdated>>
  /\ UNCHANGED <<corefile, served, stops>>

BlockByHand(c) ==
  /\ Change
  /\ mem' = [count |-> [mem.count EXCEPT ![c] = IF @ = 0 THEN 1 ELSE @],
             auto |-> mem.auto \ {c}, manual |-> mem.manual \cup {c}]
  /\ SavedOrNot(acked \cup {c}, acked)
  /\ UNCHANGED <<page, outdated, blocking, corefile, served, stops>>

\* handleClientBlock, POST with action "block", on a node that is no replica.
BlockClient(c) == c \notin Exempt /\ BlockByHand(c)

WithInfo(b, c) == [b EXCEPT !.count[c] = 0]           \* mutant
Without(b, c) ==
  [count |-> [b.count EXCEPT ![c] = 0],
   auto |-> b.auto \ {c}, manual |-> b.manual \ {c}]

\* handleClientBlock, POST with any other action.
UnblockClient(c) ==
  /\ Change
  /\ mem' = Without(mem, c)
  /\ SavedOrNot(acked \ {c}, acked \ {c})
  /\ UNCHANGED <<page, outdated, blocking, corefile, served, stops>>

\* The MCP tool block_client_ip (api_mcp_tools_rules.go), which asks neither
\* IsCriticalIP nor for the role of the node.
BlockClientIp(c) == BlockByHand(c) \/ UnblockClient(c)

\* unblock_all_clients with only_auto: manual blocks are kept, and clients that
\* have no entry.  Only the first occurrence of a client goes, and its entry.
UnblockAuto ==
  /\ Change
  /\ mem' = [mem EXCEPT !.count = [c \in Clients |->
                                     IF c \in mem.auto \cap Listed(mem)
                                     THEN mem.count[c] - 1 ELSE mem.count[c]],
                        !.auto = mem.auto \ Listed(mem)]
  /\ SavedOrNot(acked, acked)
  /\ UNCHANGED <<page, outdated, blocking, corefile, served, stops>>

UnblockAll ==
  /\ Change
  /\ mem' = NoBlocks
  /\ SavedOrNot({}, {})
  /\ UNCHANGED <<page, outdated, blocking, corefile, served, stops>>

\* Whoever saves the configuration for a reason of its own: a country code that was
\* looked up (api_utils_geo.go:102-112), a rule, a list.
SaveOther ==
  /\ disk' = mem
  /\ UNCHANGED <<mem, page, acked, outdated, changes,
                 blocking, update, corefile, served, stops>>

-----------------------------------------------------------------------------
(* The settings page                                                       *)

\* Clients without an entry get one, as if blocked by hand.
Retrofitted(b) == [b EXCEPT !.manual = @ \cup (Listed(b) \ b.auto)]

\* handleConfig, GET: a retrofit that cannot be saved is logged.
LoadPage ==
  /\ mem' = Retrofitted(mem)
  /\ page' = mem'
  /\ IF mem' = mem THEN UNCHANGED disk
                   ELSE disk' = mem' \/ (MayFail /\ UNCHANGED disk)
  /\ UNCHANGED <<acked, outdated, changes,
                 blocking, update, corefile, served, stops>>

\* An empty list is taken for a field that was not sent.
Posted ==
  [page EXCEPT !.count = IF Listed(page) = {} THEN mem.count ELSE page.count]

\* handleConfig, POST: all or nothing, then updateCorefile and a restart of
\* CoreDNS.
PostPage ==
  /\ Change
  /\ \/ /\ mem' = Posted
        /\ disk' = mem'
        /\ outdated' = (outdated \/ mem' # mem)
        /\ CallUpdate
     \/ /\ MayFail
        /\ UNCHANGED <<mem, disk, outdated, update>>
  /\ UNCHANGED <<page, acked, blocking, corefile, served, stops>>

-----------------------------------------------------------------------------
(* The process                                                             *)

\* The process ends and starts again: main calls updateCorefile.
Stop(saved) ==
  /\ stops < MaxStops
  /\ stops' = stops + 1
  /\ mem' = saved
  /\ disk' = saved
  /\ blocking' = [a \in Analyzers |-> {}]
  /\ \E u \in Updates :
       update' = [v \in Updates |->
                    IF v = u THEN [Off EXCEPT !.pc = "called"] ELSE Off]
  /\ UNCHANGED <<page, acked, outdated, changes, corefile, served>>

Restart == Stop(disk)

\* handleClientBlock, GET: when the retrofit cannot be saved, configLock is
\* unlocked twice and the Go runtime ends the process.
ShowBlocked ==
  /\ mem # Retrofitted(mem)
  /\ \/ /\ mem' = Retrofitted(mem)
        /\ disk' = mem'
        /\ UNCHANGED <<page, acked, outdated, changes,
                       blocking, update, corefile, served, stops>>
     \/ MayFail /\ Stop(disk)

-----------------------------------------------------------------------------
Next ==
  \/ \E u \in Updates : UpdateClones(u) \/ UpdateWrites(u)
  \/ Regenerate \/ Reload
  \/ \E a \in Analyzers, c \in Clients : Suspect(a, c) \/ BlockClientAuto(a, c)
  \/ \E c \in Clients : BlockClient(c) \/ UnblockClient(c) \/ BlockClientIp(c)
  \/ UnblockAuto \/ UnblockAll \/ SaveOther
  \/ LoadPage \/ PostPage
  \/ Restart \/ ShowBlocked

Spec == Init /\ [][Next]_vars

\* Goroutines are scheduled, the malicious-address feed, which is on by default,
\* keeps being updated and CoreDNS keeps looking at its Corefile.
Fairness ==
  /\ \A u \in Updates : WF_vars(UpdateClones(u)) /\ WF_vars(UpdateWrites(u))
  /\ SF_vars(Regenerate)
  /\ WF_vars(Reload)

FairSpec == Spec /\ Fairness
-----------------------------------------------------------------------------
(* Properties                                                              *)

\* However many analyzers decide about a client at a time, it is listed once
\* (abuse.go:239; an unblock and the page's counter rely on it).
BlockedOnce == \A b \in {mem, disk, page}, c \in Clients : b.count[c] <= 1

\* No entry is left behind for a client that is not blocked: it would lend a
\* later block the reason of an earlier one (api_client_handlers.go:223-232).
InfoOfBlocked == \A b \in {mem, disk, page} : b.auto \cup b.manual \subseteq Listed(b)

\* An acknowledged manual block is kept, in memory and through restarts, by
\* whatever the abuse engine, the removal of automatic blocks and failed saves do
\* at the same time, as long as no outdated page is posted (README.md:296).
ManualBlockStays ==
  ~outdated => \A b \in {mem, disk} : acked \subseteq Listed(b) \ b.auto

\* Inductive as it stands.
IInv == TypeOK /\ BlockedOnce /\ InfoOfBlocked /\ ManualBlockStays

\* Again and again CoreDNS refuses the clients that are blocked, whatever the
\* order in which updates of the Corefile overtook each other.
EventuallyServed == []<>(served = Listed(mem))

\* README.md:293: a block takes effect instantly via a Corefile update; when
\* nothing is in progress the Corefile has the clients that are blocked.
AclCurrent == Free = Updates => corefile = Listed(mem)
=============================================================================
