----------------------------- MODULE FilterRules -----------------------------
(***************************************************************************)
(* From the filter lists and the custom rules to the hosts file CoreDNS    *)
(* serves (admin/config_blocklist.go, admin/api_rules.go).  Two paths lead *)
(* there: updateBlocklist, which downloads every list under                *)
(* blocklistUpdateLock and works on a clone of the configuration, and      *)
(* reloadRulesFastNoLock, which a rule handler calls while it holds        *)
(* configLock and which starts from the attribution of the previous run.   *)
(* Both end in applyCurrentRules: filter, replace blockAttribution, write  *)
(* the hosts file.  No lock covers that end for both paths.  The MCP tools *)
(* (admin/api_mcp_tools_filtering.go) change the same rules, but reload    *)
(* them only after a rule for one client, and then without the lock.       *)
(*                                                                         *)
(* A name is a domain or its wildcard.  The built-in test domain, custom   *)
(* mappings, per-client rules and allowAttribution (shown in the UI, never *)
(* read back) do not influence which names are blocked and are left out.   *)
(***************************************************************************)
EXTENDS Naturals

CONSTANTS
  Domains,    \* domain names
  Above,      \* Above[d]: the parent domains of d
  RuleNames,  \* names an administrator writes rules about
  Sources,    \* what the lists may contain: records [block, allow]
  MaxEdits,   \* bound on rule changes
  MaxRemote,  \* bound on changes of the lists at their origin
  MayFail     \* may a download or a save fail?

Names == [dom : Domains, wild : BOOLEAN]
Rules == [block : SUBSET Names, allow : SUBSET Names]

ASSUME RulesAssumption ==
  /\ Above \in [Domains -> SUBSET Domains]
  /\ \A q \in Domains : \A c, d \in Above[q] :
       c = d \/ c \in Above[d] \/ d \in Above[c]
  /\ RuleNames \subseteq Names
  /\ Sources \subseteq Rules
  /\ MaxEdits \in Nat /\ MaxRemote \in Nat
  /\ MayFail \in BOOLEAN

NoRules == [block |-> {}, allow |-> {}]

VARIABLES
  custom, \* CustomBlocked and CustomAllowed of the configuration
  acked,  \* ghost: the rules whose handler answered OK and that no change
          \* without a reload has touched since
  lists,  \* what the lists contain at their origin
  attr,   \* blockAttribution: pairs of a name and "list" or "custom"
  hosts,  \* the names in the combined hosts file
  full,   \* the running updateBlocklist; ghost fresh: no rule changed meanwhile
  fast,   \* the running reloadRulesFastNoLock
  loose,  \* ... and the one a tool runs without configLock
  raced,  \* ghost: a rule changed during an update or a reload without the
          \* lock, whose result may be in use
  edits, remotes  \* counters for the bounds

vars == <<custom, acked, lists, attr, hosts, full, fast, loose, raced, edits, remotes>>

Attribution == SUBSET (Names \X {"list", "custom"})

Full == [pc : {"off", "download", "meta", "set", "write"}, custom : Rules,
         attr : Attribution, allow : SUBSET Names, fresh : BOOLEAN]
Fast == [pc : {"off", "clone", "set", "write"}, attr : Attribution]

TypeOK ==
  /\ custom \in Rules /\ acked \in Rules
  /\ lists \in Sources
  /\ attr \in Attribution
  /\ hosts \subseteq Names
  /\ full \in Full
  /\ fast \in Fast /\ loose \in Fast
  /\ raced \in BOOLEAN
  /\ edits \in 0 .. MaxEdits /\ remotes \in 0 .. MaxRemote

FullOff == [pc |-> "off", custom |-> NoRules, attr |-> {}, allow |-> {},
            fresh |-> TRUE]
FastOff == [pc |-> "off", attr |-> {}]

-----------------------------------------------------------------------------
(* The rules as sets of names                                              *)

Wildcard(d) == [dom |-> d, wild |-> TRUE]
Plain(d)    == [dom |-> d, wild |-> FALSE]

\* A rule about a plain name also stands for its wildcard.
WithWildcards(S) == S \cup {Wildcard(n.dom) : n \in S}

\* What strings.Split(ad, ".") leaves of a name after its first labels.
ParentNames(n) ==
  {Plain(d) : d \in Above[n.dom] \cup (IF n.wild THEN {n.dom} ELSE {})}

\* Allowlisted exactly or through a parent.
ExceptedExactly(n, allow) == n \in allow              \* mutant
Excepted(n, allow) == n \in allow \/ ParentNames(n) \cap allow # {}

\* A wildcard above an allowlisted name would mask it in the hosts plugin.
Masks(n, allow) == \E a \in allow : n.wild /\ n.dom \in Above[a.dom]

\* The first part of applyCurrentRules.
Filtered(attribution, allow) ==
  {e \in attribution : ~Excepted(e[1], allow) /\ ~Masks(e[1], allow)}

Blocked(attribution) == {e[1] : e \in attribution}

Tagged(S, tag) == S \X {tag}

\* What the hosts file does to a query for q.
Blocks(names, q) ==
  Plain(q) \in names \/ \E d \in Above[q] : Wildcard(d) \in names

\* The result of a full update of rules r with lists l.
Expected(r, l) ==
  Blocked(Filtered(Tagged(l.block, "list")
                     \cup Tagged(WithWildcards(r.block), "custom"),
                   l.allow \cup WithWildcards(r.allow)))

\* A fresh installation, or the hosts file of an earlier run.
Init ==
  /\ custom = NoRules
  /\ acked = NoRules
  /\ lists \in Sources
  /\ attr = {}
  /\ hosts \in {{}, Expected(NoRules, lists)}
  /\ full = FullOff
  /\ fast = FastOff
  /\ loose = FastOff
  /\ raced = FALSE
  /\ edits = 0
  /\ remotes = 0

-----------------------------------------------------------------------------
(* updateBlocklist                                                         *)

ConfigLockFree == fast.pc = "off"

\* A tool's reload has its clone of the rules and goes on with it.
LooseCloned == loose.pc \in {"set", "write"}

\* The ticker, the boot, a refresh, a full reload or a sync: the configuration
\* is cloned once blocklistUpdateLock is held.
FullStart ==
  /\ full.pc = "off"
  /\ ConfigLockFree
  /\ full' = [FullOff EXCEPT !.pc = "download", !.custom = custom]
  /\ UNCHANGED <<custom, acked, lists, attr, hosts, fast, loose, raced, edits, remotes>>

\* Every enabled list is fetched; one that cannot be contributes nothing.
Download(got) ==
  /\ full.pc = "download"
  /\ full' = [full EXCEPT
       !.pc = "meta",
       !.attr = Tagged(got.block, "list")
                  \cup Tagged(WithWildcards(full.custom.block), "custom"),
       !.allow = got.allow \cup WithWildcards(full.custom.allow)]
  /\ UNCHANGED <<custom, acked, lists, attr, hosts, fast, loose, raced, edits, remotes>>

DownloadOk == Download(lists)

DownloadPartly ==
  /\ MayFail
  /\ \E b \in {{}, lists.block}, a \in {{}, lists.allow} :
       Download([block |-> b, allow |-> a])

\* The list metadata goes into the configuration, under configLock.
FullMeta ==
  /\ full.pc = "meta"
  /\ ConfigLockFree
  /\ full' = [full EXCEPT !.pc = "set"]
  /\ UNCHANGED <<custom, acked, lists, attr, hosts, fast, loose, raced, edits, remotes>>

\* applyCurrentRules replaces blockAttribution ...
FullSet ==
  /\ full.pc = "set"
  /\ LET new == Filtered(full.attr, full.allow) IN
       attr' = new /\ full' = [full EXCEPT !.pc = "write", !.attr = new]
  /\ UNCHANGED <<custom, acked, lists, hosts, fast, loose, raced, edits, remotes>>

\* ... and writes the hosts file; blocklistUpdateLock is released.
NotReleased == full                                   \* mutant
Released    == FullOff

FullWrite ==
  /\ full.pc = "write"
  /\ hosts' = Blocked(full.attr)
  /\ full' = Released
  /\ raced' = (raced /\ (~full.fresh \/ LooseCloned))
  /\ UNCHANGED <<custom, acked, lists, attr, fast, loose, edits, remotes>>

-----------------------------------------------------------------------------
(* handleRuleAdd, handleRuleRemove and reloadRulesFastNoLock               *)

Removed(r, n) == [block |-> r.block \ {n}, allow |-> r.allow \ {n}]

Added(r, kind, n) ==
  [block |-> IF kind = "block" THEN r.block \cup {n} ELSE r.block \ {n},
   allow |-> IF kind = "allow" THEN r.allow \cup {n} ELSE r.allow \ {n}]

\* The attribution without its custom entries, plus the current ones.
ListEntries(old) == {e \in old : e[2] = "list"}

ReloadedWithoutCustom(old, r) ==                      \* mutant
  Filtered(ListEntries(old), WithWildcards(r.allow))
Reloaded(old, r) ==
  Filtered(ListEntries(old) \cup Tagged(WithWildcards(r.block), "custom"),
           WithWildcards(r.allow))

\* A rule change does not wait for a running updateBlocklist, nor for a reload
\* without the lock.
Overlaps ==
  /\ full' = [full EXCEPT !.fresh = (full.pc = "off")]
  /\ raced' = (raced \/ full.pc # "off" \/ LooseCloned)

Change(new) ==
  /\ edits < MaxEdits
  /\ ConfigLockFree
  /\ custom' = new
  /\ edits' = edits + 1
  /\ Overlaps

\* Memory is changed and saved; the blockAttribution is read; all under
\* configLock.  (blockAttribution is made in models.go and never nil, so the
\* branch for nil is not taken.)
EditRule(new) ==
  /\ Change(new)
  /\ acked' = new
  /\ fast' = [pc |-> "set", attr |-> Reloaded(attr, new)]
  /\ UNCHANGED <<lists, attr, hosts, loose, remotes>>

\* Nothing is reloaded: of the acknowledged rules, only allow rules are known
\* to be in force.
ChangeUnloaded(new) ==
  /\ Change(new)
  /\ acked' = [block |-> {}, allow |-> acked.allow \cap new.allow]
  /\ UNCHANGED <<lists, attr, hosts, fast, loose, remotes>>

\* The save fails: the handler answers 500 and memory stays changed.
EditRuleUnsaved(new) == MayFail /\ ChangeUnloaded(new)

\* A rule of one client changes nothing here, but is followed by the same reload
\* (kind "block" for a name that is listed); a mapping removes the name.
AddRule(kind, n) ==
  LET new == Added(custom, kind, n) IN EditRule(new) \/ EditRuleUnsaved(new)

RemoveRule(n) ==
  LET new == Removed(custom, n) IN EditRule(new) \/ EditRuleUnsaved(new)

FastSet ==
  /\ fast.pc = "set"
  /\ attr' = fast.attr
  /\ fast' = [fast EXCEPT !.pc = "write"]
  /\ UNCHANGED <<custom, acked, lists, hosts, full, loose, raced, edits, remotes>>

\* The hosts file is written and configLock released.
FastWrite ==
  /\ fast.pc = "write"
  /\ hosts' = Blocked(fast.attr)
  /\ fast' = FastOff
  /\ UNCHANGED <<custom, acked, lists, attr, full, loose, raced, edits, remotes>>

-----------------------------------------------------------------------------
(* The MCP tools                                                           *)

ToolAdded(r, kind, n) ==
  [block |-> IF kind = "block" THEN r.block \cup {n} ELSE r.block,
   allow |-> IF kind = "allow" THEN r.allow \cup {n} ELSE r.allow]

ToolRemoved(r, kind, n) ==
  [block |-> IF kind = "block" THEN r.block \ {n} ELSE r.block,
   allow |-> IF kind = "allow" THEN r.allow \ {n} ELSE r.allow]

\* add_custom_rule for everybody: the name stays in the other list, and whether or
\* not the save succeeds only the Corefile is regenerated, which holds no rule.
AddByTool(kind, n) ==
  LET new == ToolAdded(custom, kind, n) IN new # custom /\ ChangeUnloaded(new)

\* remove_custom_rule for everybody.
RemoveByTool(kind, n) == ChangeUnloaded(ToolRemoved(custom, kind, n))

\* Either tool for one client, saved: configLock is released before the reload ...
ClientRuleByTool ==
  /\ edits < MaxEdits
  /\ ConfigLockFree
  /\ loose.pc = "off"
  /\ loose' = [loose EXCEPT !.pc = "clone"]
  /\ edits' = edits + 1
  /\ UNCHANGED <<custom, acked, lists, attr, hosts, full, fast, raced, remotes>>

\* ... which clones the rules of that moment and reads blockAttribution.
LooseClone ==
  /\ loose.pc = "clone"
  /\ loose' = [pc |-> "set", attr |-> Reloaded(attr, custom)]
  /\ UNCHANGED <<custom, acked, lists, attr, hosts, full, fast, raced, edits, remotes>>

LooseSet ==
  /\ loose.pc = "set"
  /\ attr' = loose.attr
  /\ loose' = [loose EXCEPT !.pc = "write"]
  /\ UNCHANGED <<custom, acked, lists, hosts, full, fast, raced, edits, remotes>>

LooseWrite ==
  /\ loose.pc = "write"
  /\ hosts' = Blocked(loose.attr)
  /\ loose' = FastOff
  /\ UNCHANGED <<custom, acked, lists, attr, full, fast, raced, edits, remotes>>

\* A list changes at its origin.
RemoteChange ==
  /\ remotes < MaxRemote
  /\ lists' \in Sources \ {lists}
  /\ remotes' = remotes + 1
  /\ UNCHANGED <<custom, acked, attr, hosts, full, fast, loose, raced, edits>>

-----------------------------------------------------------------------------
FullStep ==
  \/ FullStart
  \/ DownloadOk \/ DownloadPartly \/ FullMeta \/ FullSet \/ FullWrite

RuleStep ==
  \/ \E n \in RuleNames :
       \/ \E kind \in {"block", "allow"} : AddRule(kind, n)
       \/ RemoveRule(n)
  \/ FastSet
  \/ FastWrite

ToolStep ==
  \/ \E kind \in {"block", "allow"}, n \in RuleNames :
       AddByTool(kind, n) \/ RemoveByTool(kind, n)
  \/ ClientRuleByTool \/ LooseClone \/ LooseSet \/ LooseWrite

Next == FullStep \/ RuleStep \/ ToolStep \/ RemoteChange

Spec == Init /\ [][Next]_vars

\* The 24-hour ticker keeps calling updateBlocklist, mutexes are not starved,
\* and downloads succeed again and again.
Fairness ==
  /\ SF_vars(FullStart)
  /\ SF_vars(DownloadOk)
  /\ SF_vars(FullMeta)
  /\ WF_vars(FullSet)
  /\ WF_vars(FullWrite)
  /\ WF_vars(FastSet)
  /\ WF_vars(FastWrite)
  /\ WF_vars(LooseClone)
  /\ WF_vars(LooseSet)
  /\ WF_vars(LooseWrite)

FairSpec == Spec /\ Fairness
-----------------------------------------------------------------------------
(* Properties                                                              *)

\* q or a parent of it is on the allowlist.
AllowedBy(allow, q) == Plain(q) \in allow \/ \E d \in Above[q] : Plain(d) \in allow

\* README.md:321: the custom allowlist ensures that domains are never blocked,
\* once its handler has answered.
AllowedNotBlocked ==
  fast.pc = "off" =>
    \A q \in Domains : AllowedBy(acked.allow, q) => ~Blocks(hosts, q)

\* No entry of an attribution blocks what is allowed.
Clean(attribution, allow) ==
  \A q \in Domains : AllowedBy(allow, q) => ~Blocks(Blocked(attribution), q)

\* ... unless it raced with a full update (config_blocklist.go:24-29, 110-216) or
\* with a tool's reload (api_mcp_tools_filtering.go:131).
AllowedUnlessRaced == ~raced => AllowedNotBlocked

\* The inductive invariant of the proof: an update no rule change has overlapped
\* knows the acknowledged rules, and is alone.
FreshInv ==
  full.pc # "off" /\ full.fresh =>
    /\ fast.pc = "off"
    /\ acked.allow \subseteq full.custom.allow
    /\ full.pc \in {"meta", "set"} => acked.allow \subseteq full.allow
    /\ full.pc = "write" => Clean(full.attr, acked.allow)

StaleIsRaced == full.pc # "off" /\ ~full.fresh => raced

IInv ==
  /\ TypeOK
  /\ StaleIsRaced
  /\ acked.allow \subseteq custom.allow
  /\ FreshInv
  /\ fast.pc # "off" /\ ~raced => full.pc = "off" /\ Clean(fast.attr, acked.allow)
  /\ LooseCloned /\ ~raced => Clean(loose.attr, acked.allow)
  /\ AllowedUnlessRaced

Quiet == full.pc = "off" /\ fast.pc = "off" /\ loose.pc = "off"

\* A custom rule that blocks is in force when nothing is in progress and nothing
\* raced, unless an allowlist covers the name; the lists have not changed at their
\* origin since (config_blocklist.go:89-94, 253-259).
BlockedTakesEffect ==
  Quiet /\ ~raced /\ remotes = 0 =>
    \A n \in acked.block :
      ~n.wild /\ ~Excepted(n, WithWildcards(custom.allow) \cup lists.allow)
        => n \in hosts

\* Whatever races the two paths run, whatever failed: again and again the hosts
\* file is the one a full update computes (config_blocklist.go:506-519).
Repaired == []<>(hosts = Expected(custom, lists))
=============================================================================
