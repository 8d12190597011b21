SPECIFICATION FairSpec
CONSTANTS
  Clients = {c}
  Exempt = {}
  Analyzers = {a, b}
  Updates = {u, v}
  MaxChanges = 4
  MaxStops = 1
  MayFail = TRUE
INVARIANTS BlockedOnce  ManualBlockStays
PROPERTY EventuallyServed
