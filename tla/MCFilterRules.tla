---------------------------- MODULE MCFilterRules ----------------------------
(* A domain d with two subdomains, and lists that disagree about them.       *)
EXTENDS FilterRules

CONSTANTS d, s, t

MCDomains == {d, s, t}
MCAbove   == [x \in MCDomains |-> IF x = d THEN {} ELSE {d}]
Both(x)   == {Plain(x), Wildcard(x)}

MCRuleNames == {Plain(d), Plain(s), Wildcard(d)}
MCFewNames  == {Plain(d), Plain(s)}

MCSources ==
  {[block |-> Both(d) \cup Both(s), allow |-> {}],
   [block |-> Both(d) \cup Both(t), allow |-> Both(s)],
   [block |-> Both(s), allow |-> Both(d)]}
MCFewSources ==
  {[block |-> Both(d), allow |-> {}], [block |-> {}, allow |-> Both(s)]}
=============================================================================
