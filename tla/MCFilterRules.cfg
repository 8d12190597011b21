SPECIFICATION FairSpec
CONSTANTS
  d = d
  s = s
  t = t
  Domains <- MCDomains
  Above <- MCAbove
  RuleNames <- MCRuleNames
  Sources <- MCSources
  MaxEdits = 2
  MaxRemote = 1
  MayFail = TRUE
INVARIANTS AllowedUnlessRaced BlockedTakesEffect
PROPERTY Repaired
CHECK_DEADLOCK FALSE
