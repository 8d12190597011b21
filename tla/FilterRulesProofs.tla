-------------------------- MODULE FilterRulesProofs --------------------------
(***************************************************************************)
(* Proofs about FilterRules for any domains, lists and rules.              *)
(***************************************************************************)
EXTENDS FilterRules, TLAPS

\* The names the definitions talk about.
LEMMA NameTypes ==
  /\ \A c \in Domains : /\ Plain(c) \in Names /\ Wildcard(c) \in Names
                        /\ Plain(c).dom = c /\ ~Plain(c).wild
                        /\ Wildcard(c).dom = c /\ Wildcard(c).wild
  /\ \A n \in Names : n.dom \in Domains /\ Above[n.dom] \subseteq Domains
  /\ \A S \in SUBSET Names : WithWildcards(S) \in SUBSET Names
                             /\ S \subseteq WithWildcards(S)
<1>1. \A c \in Domains : Plain(c) \in Names /\ Wildcard(c) \in Names
  BY DEF Plain, Wildcard, Names
<1>2. \A c \in Domains : /\ Plain(c).dom = c /\ ~Plain(c).wild
                         /\ Wildcard(c).dom = c /\ Wildcard(c).wild
  BY DEF Plain, Wildcard
<1>3. \A n \in Names : n.dom \in Domains /\ Above[n.dom] \subseteq Domains
  BY RulesAssumption DEF Names
<1>4. \A S \in SUBSET Names : WithWildcards(S) \in SUBSET Names
                              /\ S \subseteq WithWildcards(S)
  BY <1>1, <1>3 DEF WithWildcards
<1> QED
  BY <1>1, <1>2, <1>3, <1>4

\* Whatever the lists and the rules contain, filtering leaves nothing that
\* blocks an allowlisted domain or a subdomain of one: neither the name, nor
\* its wildcard, nor a wildcard above it (config_blocklist.go:112-146).
THEOREM AllowWins ==
  ASSUME NEW A \in Attribution, NEW allow \in SUBSET Names
  PROVE  Clean(Filtered(A, allow), allow)
<1> SUFFICES ASSUME NEW q \in Domains, AllowedBy(allow, q),
                    Blocks(Blocked(Filtered(A, allow)), q)
             PROVE  FALSE
  BY DEF Clean
<1>1. PICK p \in Domains : Plain(p) \in allow /\ (p = q \/ p \in Above[q])
  BY RulesAssumption DEF AllowedBy
<1>2. PICK e \in A : /\ ~Excepted(e[1], allow) /\ ~Masks(e[1], allow)
                     /\ \/ e[1] = Plain(q)
                        \/ \E c \in Above[q] : e[1] = Wildcard(c)
  BY DEF Blocks, Blocked, Filtered
<1>3. CASE e[1] = Plain(q)
  BY <1>1, <1>2, <1>3, NameTypes DEF Excepted, ParentNames
<1>4. ASSUME NEW c \in Above[q], e[1] = Wildcard(c) PROVE FALSE
  <2>1. c \in Domains
    BY RulesAssumption
  <2>2. c = p \/ c \in Above[p] \/ p \in Above[c]
    BY <1>1, RulesAssumption
  <2>3. CASE c = p \/ p \in Above[c]
    BY <1>1, <1>2, <1>4, <2>1, <2>3, NameTypes DEF Excepted, ParentNames
  <2>4. CASE c \in Above[p]
    BY <1>1, <1>2, <1>4, <2>1, <2>4, NameTypes DEF Masks
  <2> QED
    BY <2>2, <2>3, <2>4
<1> QED
  BY <1>2, <1>3, <1>4

\* Fewer allowed names leave less to be unblocked.
LEMMA CleanMonotone ==
  ASSUME NEW A, NEW S, NEW T, S \subseteq T, Clean(A, T)
  PROVE  Clean(A, S)
BY DEF Clean, AllowedBy

\* The operators that build an attribution build a well-typed one.
LEMMA AttributionTypes ==
  /\ \A A \in Attribution, S \in SUBSET Names :
       Filtered(A, S) \in Attribution /\ Blocked(A) \in SUBSET Names
  /\ \A S \in SUBSET Names : /\ Tagged(S, "list") \in Attribution
                             /\ Tagged(S, "custom") \in Attribution
  /\ \A A \in Attribution : ListEntries(A) \in Attribution
  /\ \A A \in Attribution, B \in Attribution : A \cup B \in Attribution
<1>1. \A A \in Attribution, S \in SUBSET Names : Filtered(A, S) \in Attribution
  BY DEF Filtered, Attribution
<1>2. \A A \in Attribution : Blocked(A) \in SUBSET Names
  BY DEF Blocked, Attribution
<1>3. \A S \in SUBSET Names : /\ Tagged(S, "list") \in Attribution
                              /\ Tagged(S, "custom") \in Attribution
  BY DEF Tagged, Attribution
<1>4. \A A \in Attribution : ListEntries(A) \in Attribution
  BY DEF ListEntries, Attribution
<1>5. \A A \in Attribution, B \in Attribution : A \cup B \in Attribution
  BY DEF Attribution
<1> QED
  BY <1>1, <1>2, <1>3, <1>4, <1>5

\* A fast reload yields a well-typed attribution that respects the custom
\* allow rules.
LEMMA ReloadedClean ==
  ASSUME NEW A \in Attribution, NEW r \in Rules
  PROVE  Reloaded(A, r) \in Attribution /\ Clean(Reloaded(A, r), r.allow)
<1>1. /\ r.block \in SUBSET Names /\ r.allow \in SUBSET Names
      /\ WithWildcards(r.block) \in SUBSET Names
      /\ WithWildcards(r.allow) \in SUBSET Names
      /\ r.allow \subseteq WithWildcards(r.allow)
  BY NameTypes DEF Rules
<1>2. ListEntries(A) \cup Tagged(WithWildcards(r.block), "custom")
        \in Attribution
  BY <1>1, AttributionTypes
<1>3. Reloaded(A, r) \in Attribution
  BY <1>1, <1>2, AttributionTypes DEF Reloaded
<1>4. Clean(Reloaded(A, r), WithWildcards(r.allow))
  BY <1>1, <1>2, AllowWins DEF Reloaded
<1> QED
  BY <1>1, <1>3, <1>4, CleanMonotone

LEMMA RuleTypes ==
  /\ NoRules \in Rules
  /\ FullOff \in Full /\ FullOff.pc = "off"
  /\ FastOff \in Fast /\ FastOff.pc = "off"
  /\ \A r \in Rules, n \in Names, kind \in {"block", "allow"} :
       /\ Added(r, kind, n) \in Rules /\ ToolAdded(r, kind, n) \in Rules
       /\ Removed(r, n) \in Rules /\ ToolRemoved(r, kind, n) \in Rules
<1>1. NoRules \in Rules
  BY DEF NoRules, Rules
<1>2. FullOff \in Full /\ FullOff.pc = "off"
  BY <1>1 DEF FullOff, Full, Attribution
<1>3. FastOff \in Fast /\ FastOff.pc = "off"
  BY DEF FastOff, Fast, Attribution
<1>4. ASSUME NEW r \in Rules, NEW n \in Names, NEW kind \in {"block", "allow"}
      PROVE  /\ Added(r, kind, n) \in Rules /\ ToolAdded(r, kind, n) \in Rules
             /\ Removed(r, n) \in Rules /\ ToolRemoved(r, kind, n) \in Rules
  <2>1. Added(r, kind, n) \in Rules /\ Removed(r, n) \in Rules
    BY DEF Added, Removed, Rules
  <2>2. ToolAdded(r, kind, n) \in Rules /\ ToolRemoved(r, kind, n) \in Rules
    BY DEF ToolAdded, ToolRemoved, Rules
  <2> QED
    BY <2>1, <2>2
<1> QED
  BY <1>1, <1>2, <1>3, <1>4

LEMMA InitIInv == Init => IInv
<1> SUFFICES ASSUME Init PROVE IInv
  OBVIOUS
<1>1. lists \in Rules /\ WithWildcards({}) \in SUBSET Names
  BY RulesAssumption, NameTypes DEF Init
<1>2. Expected(NoRules, lists) \in SUBSET Names
  BY <1>1, AttributionTypes DEF Expected, NoRules, Rules
<1>3. hosts \subseteq Names /\ attr \in Attribution
  BY <1>2 DEF Init, Attribution
<1>4. raced \in BOOLEAN
  BY Zenon DEF Init
<1>5. TypeOK
  BY <1>3, <1>4, RuleTypes, RulesAssumption DEF Init, TypeOK
<1>6. acked.allow = {} /\ custom.allow = {}
  BY DEF Init, NoRules
<1> QED
  BY <1>5, <1>6, RuleTypes
  DEF Init, IInv, FreshInv, StaleIsRaced, AllowedUnlessRaced, AllowedNotBlocked, AllowedBy,
      LooseCloned

\* Every step of updateBlocklist, the rule handlers, the tools, the reloads and
\* the lists' publishers.
LEMMA StepIInv == IInv /\ [Next]_vars => IInv'
<1> SUFFICES ASSUME IInv, [Next]_vars PROVE IInv'
  OBVIOUS
<1> USE RulesAssumption, RuleTypes
    DEF IInv, TypeOK, FreshInv, StaleIsRaced, AllowedUnlessRaced, LooseCloned
<1>1. CASE FullStart
  <2>1. /\ full' \in Full /\ full'.pc = "download" /\ full'.custom = custom
        /\ full'.fresh
    BY <1>1 DEF FullStart, Full, FullOff
  <2> QED
    BY <1>1, <2>1 DEF FullStart, ConfigLockFree, AllowedNotBlocked
<1>2. ASSUME NEW got \in Rules, Download(got) PROVE IInv'
  <2>1. full.custom \in Rules
    BY DEF Full
  <2> DEFINE S == WithWildcards(full.custom.block)
             T == WithWildcards(full.custom.allow)
             new == Tagged(got.block, "list") \cup Tagged(S, "custom")
  <2>2. /\ S \in SUBSET Names /\ T \in SUBSET Names
        /\ full.custom.allow \subseteq T
        /\ got.block \in SUBSET Names /\ got.allow \in SUBSET Names
    BY <2>1, NameTypes DEF Rules
  <2>3. new \in Attribution
    BY <2>2, AttributionTypes
  <2>4. full' = [full EXCEPT !.pc = "meta", !.attr = new,
                             !.allow = got.allow \cup T]
    BY <1>2 DEF Download
  <2> HIDE DEF S, T, new
  <2>5. /\ full' \in Full /\ full'.pc = "meta" /\ full'.custom = full.custom
        /\ full'.allow = got.allow \cup T /\ full'.fresh = full.fresh
    BY <2>2, <2>3, <2>4 DEF Full
  <2>6. /\ full.pc = "download"
        /\ UNCHANGED <<custom, acked, lists, attr, hosts, fast, loose, raced,
                       edits, remotes>>
    BY <1>2 DEF Download
  <2> QED
    BY <2>2, <2>5, <2>6 DEF AllowedNotBlocked
<1>3. CASE FullMeta
  <2>1. /\ full' \in Full /\ full'.pc = "set" /\ full'.custom = full.custom
        /\ full'.allow = full.allow /\ full'.fresh = full.fresh
    BY <1>3 DEF FullMeta, Full
  <2> QED
    BY <1>3, <2>1 DEF FullMeta, AllowedNotBlocked
<1>4. CASE FullSet
  <2> DEFINE new == Filtered(full.attr, full.allow)
  <2>1. full.attr \in Attribution /\ full.allow \in SUBSET Names
    BY DEF Full
  <2>2. new \in Attribution
    BY <2>1, AttributionTypes
  <2>3. full.fresh => Clean(new, acked.allow)
    BY <1>4, <2>1, AllowWins, CleanMonotone DEF FullSet
  <2> HIDE DEF new
  <2>4. /\ full.pc = "set" /\ attr' = new
        /\ full' = [full EXCEPT !.pc = "write", !.attr = new]
        /\ UNCHANGED <<custom, acked, lists, hosts, fast, loose, raced, edits,
                       remotes>>
    BY <1>4 DEF FullSet, new
  <2>5. /\ full' \in Full /\ full'.pc = "write" /\ full'.custom = full.custom
        /\ full'.attr = new /\ full'.fresh = full.fresh
    BY <2>2, <2>4 DEF Full
  <2> QED
    BY <2>2, <2>3, <2>4, <2>5 DEF AllowedNotBlocked, Clean, AllowedBy, Blocks
<1>5. CASE FullWrite
  <2>1. hosts' \subseteq Names
    BY <1>5, AttributionTypes DEF FullWrite, Full
  <2>2. raced' \in BOOLEAN
    BY <1>5, Zenon DEF FullWrite
  <2>3. raced' = (raced /\ (~full.fresh \/ LooseCloned)) /\ full.pc = "write"
    BY <1>5, Zenon DEF FullWrite
  <2>4. CASE full.fresh
    <3>1. AllowedNotBlocked'
      BY <1>5, <2>4 DEF FullWrite, AllowedNotBlocked, Clean, AllowedBy, Blocks
    <3> QED
      BY <1>5, <2>1, <2>2, <2>4, <3>1 DEF FullWrite, Released
  <2>5. CASE ~full.fresh /\ raced
    BY <1>5, <2>1, <2>2, <2>3, <2>5 DEF FullWrite, Released
  <2>6. CASE ~full.fresh /\ ~raced
    BY <1>5, <2>1, <2>2, <2>3, <2>6 DEF FullWrite, Released
  <2> QED
    BY <2>4, <2>5, <2>6
<1>6. ASSUME NEW new \in Rules, Change(new)
      PROVE  /\ full' \in Full /\ full'.pc = full.pc
             /\ full'.custom = full.custom /\ full'.allow = full.allow
             /\ full'.attr = full.attr
             /\ full.pc # "off" => ~full'.fresh /\ raced'
             /\ LooseCloned => raced'
             /\ ~raced' => ~raced
             /\ raced' \in BOOLEAN
             /\ custom' = new /\ fast.pc = "off" /\ edits' \in 0 .. MaxEdits
  <2>1. PICK b \in BOOLEAN : b <=> full.pc = "off"
    BY Zenon
  <2>2. (full.pc = "off") = b
    BY <2>1
  <2>3. full' = [full EXCEPT !.fresh = b] /\ raced' = (raced \/ ~b \/ LooseCloned)
    BY <1>6, <2>2 DEF Change, Overlaps
  <2>4. custom' = new /\ fast.pc = "off" /\ edits' \in 0 .. MaxEdits
    BY <1>6 DEF Change, ConfigLockFree
  <2>5. raced' \in BOOLEAN
    BY <2>3, Zenon
  <2> QED
    BY <2>1, <2>3, <2>4, <2>5 DEF Full
<1>7. ASSUME NEW new \in Rules, EditRule(new) PROVE IInv'
  <2>1. /\ Change(new) /\ acked' = new
        /\ UNCHANGED <<lists, attr, hosts, loose, remotes>>
    BY <1>7 DEF EditRule
  <2> DEFINE reloaded == Reloaded(attr, new)
  <2>2. reloaded \in Attribution /\ Clean(reloaded, new.allow)
    BY ReloadedClean
  <2>3. fast' = [pc |-> "set", attr |-> reloaded]
    BY <1>7 DEF EditRule
  <2> HIDE DEF reloaded
  <2>4. fast' \in Fast /\ fast'.pc = "set" /\ fast'.attr = reloaded
    BY <2>2, <2>3 DEF Fast
  <2> QED
    BY <1>6, <2>1, <2>2, <2>4 DEF AllowedNotBlocked
<1>8. ASSUME NEW new \in Rules, ChangeUnloaded(new) PROVE IInv'
  <2>1. /\ Change(new)
        /\ UNCHANGED <<lists, attr, hosts, fast, loose, remotes>>
    BY <1>8 DEF ChangeUnloaded
  <2>2. /\ acked' \in Rules
        /\ acked'.allow \subseteq acked.allow
        /\ acked'.allow \subseteq new.allow
    BY <1>8 DEF ChangeUnloaded, Rules
  <2>3. AllowedNotBlocked => AllowedNotBlocked'
    BY <2>1, <2>2 DEF AllowedNotBlocked, AllowedBy, Blocks
  <2>4. Clean(loose.attr, acked.allow) => Clean(loose'.attr, acked'.allow)
    BY <2>1, <2>2, CleanMonotone
  <2> QED
    BY <1>6, <2>1, <2>2, <2>3, <2>4
<1>9. CASE FastSet
  <2>1. /\ fast.pc = "set" /\ attr' = fast.attr /\ fast.attr \in Attribution
        /\ fast' \in Fast /\ fast'.pc = "write" /\ fast'.attr = fast.attr
        /\ UNCHANGED <<custom, acked, lists, hosts, full, loose, raced, edits, remotes>>
    BY <1>9 DEF FastSet, Fast
  <2> QED
    BY <2>1 DEF AllowedNotBlocked, Clean, AllowedBy, Blocks
<1>10. CASE FastWrite
  <2>1. hosts' \subseteq Names
    BY <1>10, AttributionTypes DEF FastWrite, Fast
  <2>2. ~raced => AllowedNotBlocked'
    BY <1>10 DEF FastWrite, AllowedNotBlocked, Clean, AllowedBy, Blocks
  <2> QED
    BY <1>10, <2>1, <2>2 DEF FastWrite
<1>11. CASE RemoteChange
  BY <1>11 DEF RemoteChange, AllowedNotBlocked, Clean, AllowedBy, Blocks
<1>12. CASE UNCHANGED vars
  BY <1>12 DEF vars, AllowedNotBlocked, Clean, AllowedBy, Blocks
<1>13. CASE DownloadOk \/ DownloadPartly
  <2>1. \A b \in {{}, lists.block}, a \in {{}, lists.allow} :
          [block |-> b, allow |-> a] \in Rules
    BY DEF Rules
  <2> QED
    BY <1>2, <1>13, <2>1 DEF DownloadOk, DownloadPartly
<1>14. ASSUME NEW n \in RuleNames, NEW kind \in {"block", "allow"},
              \/ AddRule(kind, n) \/ RemoveRule(n)
              \/ AddByTool(kind, n) \/ RemoveByTool(kind, n)
       PROVE  IInv'
  <2>1. n \in Names
    OBVIOUS
  <2> QED
    BY <1>7, <1>8, <1>14, <2>1
    DEF AddRule, RemoveRule, AddByTool, RemoveByTool, EditRuleUnsaved
<1>15. CASE ClientRuleByTool
  <2>1. loose' \in Fast /\ loose'.pc = "clone" /\ edits' \in 0 .. MaxEdits
    BY <1>15 DEF ClientRuleByTool, Fast
  <2> QED
    BY <1>15, <2>1 DEF ClientRuleByTool, AllowedNotBlocked
<1>16. CASE LooseClone
  <2> DEFINE reloaded == Reloaded(attr, custom)
  <2>1. reloaded \in Attribution /\ Clean(reloaded, acked.allow)
    BY ReloadedClean, CleanMonotone
  <2>2. /\ loose' = [pc |-> "set", attr |-> reloaded]
        /\ UNCHANGED <<custom, acked, lists, attr, hosts, full, fast, raced, edits,
                       remotes>>
    BY <1>16 DEF LooseClone
  <2> HIDE DEF reloaded
  <2>3. loose' \in Fast /\ loose'.attr = reloaded
    BY <2>1, <2>2 DEF Fast
  <2> QED
    BY <2>1, <2>2, <2>3 DEF AllowedNotBlocked
<1>17. CASE LooseSet
  <2>1. /\ loose.pc = "set" /\ attr' = loose.attr /\ loose.attr \in Attribution
        /\ loose' \in Fast /\ loose'.pc = "write" /\ loose'.attr = loose.attr
        /\ UNCHANGED <<custom, acked, lists, hosts, full, fast, raced, edits, remotes>>
    BY <1>17 DEF LooseSet, Fast
  <2> QED
    BY <2>1 DEF AllowedNotBlocked, Clean, AllowedBy, Blocks
<1>18. CASE LooseWrite
  <2>1. hosts' \subseteq Names
    BY <1>18, AttributionTypes DEF LooseWrite, Fast
  <2>2. ~raced => AllowedNotBlocked'
    BY <1>18 DEF LooseWrite, AllowedNotBlocked, Clean, AllowedBy, Blocks
  <2> QED
    BY <1>18, <2>1, <2>2 DEF LooseWrite
<1> QED
  BY <1>1, <1>3, <1>4, <1>5, <1>9, <1>10, <1>11, <1>12, <1>13, <1>14, <1>15,
     <1>16, <1>17, <1>18
  DEF Next, FullStep, RuleStep, ToolStep

\* Type correctness for any domains, lists and rules.
THEOREM TypeCorrect == Spec => []TypeOK
<1>1. IInv => TypeOK
  BY DEF IInv
<1> QED
  BY <1>1, InitIInv, StepIInv, PTL DEF Spec

\* A domain on the custom allowlist, or below one, is never blocked: by no list,
\* no rule, no partial download and no failed save, unless a rule change has
\* raced with a full update or with a reload that a tool runs without the lock.
THEOREM AllowlistHolds == Spec => []AllowedUnlessRaced
<1>1. IInv => AllowedUnlessRaced
  BY DEF IInv
<1> QED
  BY <1>1, InitIInv, StepIInv, PTL DEF Spec

-----------------------------------------------------------------------------
(* Block rules                                                             *)

\* Blocked names that no allowlist covers, those of them that were acknowledged,
\* and what holds them all.
Uncovered(block, allow) == {n \in block : ~n.wild /\ ~Excepted(n, allow)}
Demanded == Uncovered(acked.block, WithWildcards(custom.allow) \cup lists.allow)
InForce(names) == Demanded \subseteq names

\* An update that no rule change has overlapped has the rules of now and no
\* allowlist that is not there; what has not raced contains what is demanded, as
\* has the hosts file but while a handler holds configLock.
BlockInv ==
  /\ acked.block \subseteq custom.block
  /\ remotes = 0 /\ full.pc # "off" /\ full.fresh =>
       /\ full.custom = custom
       /\ full.pc \in {"meta", "set"} =>
            /\ Tagged(custom.block, "custom") \subseteq full.attr
            /\ full.allow \subseteq WithWildcards(custom.allow) \cup lists.allow
       /\ full.pc = "write" => InForce(Blocked(full.attr))
  /\ remotes = 0 /\ ~raced =>
       /\ fast.pc # "off" => InForce(Blocked(fast.attr))
       /\ LooseCloned => InForce(Blocked(loose.attr))
       /\ fast.pc = "off" => InForce(hosts)

\* Filtering with no more than the allowlists there are keeps what is demanded:
\* a plain name masks nothing (config_blocklist.go:112-146).
LEMMA FilterKeeps ==
  ASSUME NEW A, NEW block, NEW known, NEW allow \in SUBSET known,
         Tagged(block, "custom") \subseteq A
  PROVE  Uncovered(block, known) \subseteq Blocked(Filtered(A, allow))
<1> SUFFICES ASSUME NEW n \in Uncovered(block, known) PROVE n \in Blocked(Filtered(A, allow))
  OBVIOUS
<1> DEFINE e == <<n, "custom">>
<1>1. n \in block /\ ~n.wild /\ ~Excepted(n, known)
  BY DEF Uncovered
<1>2. e \in A /\ e[1] = n
  BY <1>1 DEF Tagged
<1>3. ~Excepted(n, allow) /\ ~Masks(n, allow)
  BY <1>1 DEF Excepted, Masks
<1>4. e \in Filtered(A, allow)
  BY <1>2, <1>3 DEF Filtered
<1> QED
  BY <1>2, <1>4 DEF Blocked

\* So does a reload (config_blocklist.go:253-259).
LEMMA ReloadKeeps ==
  ASSUME NEW A \in Attribution, NEW r \in Rules, NEW block \in SUBSET r.block, NEW others
  PROVE  Uncovered(block, WithWildcards(r.allow) \cup others) \subseteq Blocked(Reloaded(A, r))
<1> DEFINE S == WithWildcards(r.block)
           B == ListEntries(A) \cup Tagged(S, "custom")
<1>1. r.block \subseteq S
  BY NameTypes DEF Rules
<1>2. Tagged(block, "custom") \subseteq B
  BY <1>1 DEF Tagged
<1> HIDE DEF S, B
<1>3. Uncovered(block, WithWildcards(r.allow) \cup others)
        \subseteq Blocked(Filtered(B, WithWildcards(r.allow)))
  BY <1>2, FilterKeeps
<1> QED
  BY <1>3 DEF Reloaded, B, S

\* Steps that leave the rules and the lists alone leave the demands alone.
LEMMA DemandsStay ==
  ASSUME UNCHANGED <<acked, custom, lists>>
  PROVE  Demanded' = Demanded /\ \A S : InForce(S)' <=> InForce(S)
BY DEF Demanded, InForce

LEMMA InitBlockInv == Init => BlockInv
BY RuleTypes DEF Init, BlockInv, NoRules, Uncovered, Demanded, InForce, LooseCloned

\* Every step keeps it, given that the other invariant holds.
LEMMA StepBlockInv == IInv /\ BlockInv /\ [Next]_vars => BlockInv'
<1> SUFFICES ASSUME IInv, BlockInv, [Next]_vars PROVE BlockInv'
  OBVIOUS
<1> USE RulesAssumption, RuleTypes
<1>0. /\ custom \in Rules /\ full \in Full /\ fast \in Fast /\ loose \in Fast
      /\ attr \in Attribution /\ lists \in Rules /\ remotes \in Nat
      /\ full.pc # "off" /\ full.fresh => fast.pc = "off"
      /\ full.pc # "off" /\ ~full.fresh => raced
      /\ fast.pc # "off" /\ ~raced => full.pc = "off"
  BY DEF IInv, TypeOK, FreshInv, StaleIsRaced
<1>1. CASE FullStart
  <2>1. /\ full' = [FullOff EXCEPT !.pc = "download", !.custom = custom]
        /\ UNCHANGED <<custom, acked, lists, attr, hosts, fast, loose, raced, edits, remotes>>
    BY <1>1 DEF FullStart
  <2>2. full'.pc = "download" /\ full'.custom = custom
    BY <2>1 DEF FullOff
  <2> QED
    BY <2>1, <2>2, DemandsStay DEF BlockInv, LooseCloned
<1>2. ASSUME NEW got \in Rules, Download(got), remotes = 0 => got.allow \subseteq lists.allow
      PROVE  BlockInv'
  <2> DEFINE S == WithWildcards(full.custom.block)
             T == WithWildcards(full.custom.allow)
             new == Tagged(got.block, "list") \cup Tagged(S, "custom")
  <2>1. Tagged(full.custom.block, "custom") \subseteq new
    BY <1>0, NameTypes DEF Tagged, Full, Rules
  <2> HIDE DEF S, new
  <2>2. /\ full.pc = "download"
        /\ full' = [full EXCEPT !.pc = "meta", !.attr = new, !.allow = got.allow \cup T]
        /\ UNCHANGED <<custom, acked, lists, attr, hosts, fast, loose, raced, edits, remotes>>
    BY <1>2 DEF Download, S, new
  <2> HIDE DEF T
  <2>3. /\ full'.pc = "meta" /\ full'.custom = full.custom /\ full'.fresh = full.fresh
        /\ full'.attr = new /\ full'.allow = got.allow \cup T
    BY <1>0, <2>2 DEF Full
  <2>4. full.custom = custom => T = WithWildcards(custom.allow)
    BY DEF T
  <2> QED
    BY <1>2, <2>1, <2>2, <2>3, <2>4, DemandsStay DEF BlockInv, LooseCloned
<1>3. CASE FullMeta
  <2>1. /\ full' = [full EXCEPT !.pc = "set"] /\ full.pc = "meta"
        /\ UNCHANGED <<custom, acked, lists, attr, hosts, fast, loose, raced, edits, remotes>>
    BY <1>3 DEF FullMeta
  <2>2. /\ full'.pc = "set" /\ full'.custom = full.custom /\ full'.fresh = full.fresh
        /\ full'.attr = full.attr /\ full'.allow = full.allow
    BY <1>0, <2>1 DEF Full
  <2> QED
    BY <2>1, <2>2, DemandsStay DEF BlockInv, LooseCloned
<1>4. CASE FullSet
  <2> DEFINE new == Filtered(full.attr, full.allow)
  <2>1. remotes = 0 /\ full.fresh => InForce(Blocked(new))
    <3> SUFFICES ASSUME remotes = 0, full.fresh PROVE InForce(Blocked(new))
      OBVIOUS
    <3>1. /\ Tagged(custom.block, "custom") \subseteq full.attr
          /\ full.allow \subseteq WithWildcards(custom.allow) \cup lists.allow
          /\ acked.block \subseteq custom.block
      BY <1>4 DEF FullSet, BlockInv
    <3>2. Tagged(acked.block, "custom") \subseteq full.attr
      BY <3>1 DEF Tagged
    <3> QED
      BY <3>1, <3>2, FilterKeeps DEF InForce, Demanded
  <2> HIDE DEF new
  <2>2. /\ full.pc = "set" /\ full' = [full EXCEPT !.pc = "write", !.attr = new]
        /\ UNCHANGED <<custom, acked, lists, hosts, fast, loose, raced, edits, remotes>>
    BY <1>4 DEF FullSet, new
  <2>3. /\ full'.pc = "write" /\ full'.custom = full.custom /\ full'.fresh = full.fresh
        /\ full'.attr = new
    BY <1>0, <2>2 DEF Full
  <2> QED
    BY <2>1, <2>2, <2>3, DemandsStay DEF BlockInv, LooseCloned
<1>5. CASE FullWrite
  <2>1. /\ full.pc = "write" /\ hosts' = Blocked(full.attr) /\ full' = FullOff
        /\ UNCHANGED <<custom, acked, lists, attr, fast, loose, edits, remotes>>
    BY <1>5 DEF FullWrite, Released
  <2>2. raced' = (raced /\ (~full.fresh \/ LooseCloned))
    BY <1>5, Zenon DEF FullWrite
  <2>3. LooseCloned' <=> LooseCloned
    BY <2>1 DEF LooseCloned
  <2>4. CASE full.fresh
    <3>1. fast.pc = "off" /\ (remotes = 0 => InForce(hosts'))
      BY <1>0, <2>1, <2>4 DEF BlockInv
    <3>2. LooseCloned /\ ~raced' => ~raced
      BY <2>2
    <3> QED
      BY <2>1, <2>3, <3>1, <3>2, DemandsStay DEF BlockInv
  <2>5. CASE ~full.fresh
    <3>1. raced'
      BY <1>0, <2>1, <2>2, <2>5
    <3> QED
      BY <2>1, <3>1, DemandsStay DEF BlockInv
  <2> QED
    BY <2>4, <2>5
<1>6. ASSUME NEW new \in Rules, Change(new)
      PROVE  /\ custom' = new /\ fast.pc = "off"
             /\ full'.pc = full.pc /\ (full.pc # "off" => ~full'.fresh /\ raced')
             /\ LooseCloned => raced'
             /\ ~raced' => ~raced
  <2>1. custom' = new /\ fast.pc = "off"
    BY <1>6 DEF Change, ConfigLockFree
  <2>2. PICK b \in BOOLEAN : b <=> full.pc = "off"
    BY Zenon
  <2>3. (full.pc = "off") = b
    BY <2>2
  <2>4. full' = [full EXCEPT !.fresh = b] /\ raced' = (raced \/ ~b \/ LooseCloned)
    BY <1>6, <2>3 DEF Change, Overlaps
  <2>5. full'.pc = full.pc /\ full'.fresh = b
    BY <1>0, <2>4 DEF Full
  <2> QED
    BY <2>1, <2>2, <2>4, <2>5
<1>7. ASSUME NEW new \in Rules, EditRule(new) PROVE BlockInv'
  <2>1. /\ Change(new) /\ acked' = new
        /\ UNCHANGED <<lists, attr, hosts, loose, remotes>>
        /\ fast' = [pc |-> "set", attr |-> Reloaded(attr, new)]
    BY <1>7 DEF EditRule
  <2>2. custom' = new
    BY <1>6, <2>1
  <2>3. Uncovered(new.block, WithWildcards(new.allow) \cup lists'.allow)
          \subseteq Blocked(Reloaded(attr, new))
    BY <1>0, ReloadKeeps
  <2>4. InForce(Blocked(fast.attr))' /\ fast'.pc = "set"
    BY <2>1, <2>2, <2>3 DEF InForce, Demanded
  <2> QED
    BY <1>6, <2>1, <2>2, <2>4 DEF BlockInv, LooseCloned
<1>8. ASSUME NEW new \in Rules, ChangeUnloaded(new) PROVE BlockInv'
  <2>1. /\ Change(new) /\ acked'.block = {}
        /\ UNCHANGED <<lists, attr, hosts, fast, loose, remotes>>
    BY <1>8 DEF ChangeUnloaded
  <2>2. \A S : InForce(S)'
    BY <2>1 DEF InForce, Demanded, Uncovered
  <2> QED
    BY <1>6, <2>1, <2>2 DEF BlockInv
<1>9. CASE FastSet
  <2>1. /\ fast.pc = "set" /\ fast' = [fast EXCEPT !.pc = "write"]
        /\ UNCHANGED <<custom, acked, lists, hosts, full, loose, raced, edits, remotes>>
    BY <1>9 DEF FastSet
  <2>2. fast'.pc = "write" /\ fast'.attr = fast.attr
    BY <1>0, <2>1 DEF Fast
  <2> QED
    BY <2>1, <2>2, DemandsStay DEF BlockInv, LooseCloned
<1>10. CASE FastWrite
  <2>1. /\ fast.pc = "write" /\ hosts' = Blocked(fast.attr) /\ fast' = FastOff
        /\ UNCHANGED <<custom, acked, lists, attr, full, loose, raced, edits, remotes>>
    BY <1>10 DEF FastWrite
  <2> QED
    BY <2>1, DemandsStay DEF BlockInv, LooseCloned
<1>11. CASE RemoteChange
  <2>1. remotes' # 0 /\ UNCHANGED <<custom, acked>>
    BY <1>0, <1>11 DEF RemoteChange
  <2> QED
    BY <2>1 DEF BlockInv
<1>12. CASE UNCHANGED vars
  BY <1>12, DemandsStay DEF vars, BlockInv, LooseCloned
<1>13. CASE DownloadOk \/ DownloadPartly
  <2>1. \A b \in {{}, lists.block}, a \in {{}, lists.allow} :
          [block |-> b, allow |-> a] \in Rules
    BY <1>0 DEF Rules
  <2> QED
    BY <1>0, <1>2, <1>13, <2>1 DEF DownloadOk, DownloadPartly
<1>14. ASSUME NEW n \in RuleNames, NEW kind \in {"block", "allow"},
              \/ AddRule(kind, n) \/ RemoveRule(n)
              \/ AddByTool(kind, n) \/ RemoveByTool(kind, n)
       PROVE  BlockInv'
  <2>1. n \in Names
    OBVIOUS
  <2> QED
    BY <1>0, <1>7, <1>8, <1>14, <2>1
    DEF AddRule, RemoveRule, AddByTool, RemoveByTool, EditRuleUnsaved
<1>15. CASE ClientRuleByTool
  <2>1. /\ loose' = [loose EXCEPT !.pc = "clone"]
        /\ UNCHANGED <<custom, acked, lists, attr, hosts, full, fast, raced, remotes>>
    BY <1>15 DEF ClientRuleByTool
  <2>2. loose'.pc = "clone"
    BY <1>0, <2>1 DEF Fast
  <2> QED
    BY <2>1, <2>2, DemandsStay DEF BlockInv, LooseCloned
<1>16. CASE LooseClone
  <2>1. InForce(Blocked(Reloaded(attr, custom)))
    BY <1>0, ReloadKeeps DEF BlockInv, InForce, Demanded
  <2>2. /\ loose' = [pc |-> "set", attr |-> Reloaded(attr, custom)]
        /\ UNCHANGED <<custom, acked, lists, attr, hosts, full, fast, raced, edits, remotes>>
    BY <1>16 DEF LooseClone
  <2> QED
    BY <2>1, <2>2, DemandsStay DEF BlockInv
<1>17. CASE LooseSet
  <2>1. /\ loose.pc = "set" /\ loose' = [loose EXCEPT !.pc = "write"]
        /\ UNCHANGED <<custom, acked, lists, hosts, full, fast, raced, edits, remotes>>
    BY <1>17 DEF LooseSet
  <2>2. loose'.pc = "write" /\ loose'.attr = loose.attr
    BY <1>0, <2>1 DEF Fast
  <2> QED
    BY <2>1, <2>2, DemandsStay DEF BlockInv, LooseCloned
<1>18. CASE LooseWrite
  <2>1. /\ loose.pc = "write" /\ hosts' = Blocked(loose.attr) /\ loose' = FastOff
        /\ UNCHANGED <<custom, acked, lists, attr, full, fast, raced, edits, remotes>>
    BY <1>18 DEF LooseWrite
  <2> QED
    BY <2>1, DemandsStay DEF BlockInv, LooseCloned
<1> QED
  BY <1>1, <1>3, <1>4, <1>5, <1>9, <1>10, <1>11, <1>12, <1>13, <1>14, <1>15,
     <1>16, <1>17, <1>18
  DEF Next, FullStep, RuleStep, ToolStep

\* A custom rule that blocks, once its handler has answered and nothing is in
\* progress, is in the hosts file whatever lists could not be downloaded and
\* whichever of the paths ran last, unless an allowlist covers its name, a rule
\* change raced with an update, or a list has changed (config_blocklist.go:89-94,
\* 253-259).
THEOREM BlocksTakeEffect == Spec => []BlockedTakesEffect
<1>1. BlockInv => BlockedTakesEffect
  BY DEF BlockInv, BlockedTakesEffect, Quiet, InForce, Demanded, Uncovered
<1> QED
  BY <1>1, InitIInv, StepIInv, InitBlockInv, StepBlockInv, PTL DEF Spec
=============================================================================
