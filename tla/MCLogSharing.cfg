SPECIFICATION SharingFairSpec
CONSTANTS
  Queries = 2
  NoName = noname
  Names = {a, b}
  OtherName = other
  Restorers = {r1, r2}
  MaxIncidents = 2
  Pushers = {p1, p2}
  Limit = 1
INVARIANTS HandleIsFile  NotResent
 
CHECK_DEADLOCK FALSE
