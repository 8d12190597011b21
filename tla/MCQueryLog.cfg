SPECIFICATION FairSpec
CONSTANTS
  x = x
  y = y
  w = w
  p = p
  q = q
  Name <- MCName
  Type <- MCType
  Lines = {x, y, w}
  Local = {y, w}
  Health = {w}
  Blocked = {x, y}
  Parsers = {p, q}
  QueueCap = 1
  BatchSize = 2
  DBFails = TRUE
  Shutdown = TRUE
INVARIANTS TypeOK NoneLostOrDoubled  CountersDrift
PROPERTY QueuedIsStored
CHECK_DEADLOCK FALSE
