SPECIFICATION FairSpec
CONSTANTS
  Sup = {s1, s2}
  Proc = {p1, p2}
  Handlers = {h1}
  MaxFailures = 3
  NoProc = NoProc
INVARIANTS
  SingleProcess
  Supervised
  StoppedOnRequest
PROPERTIES
  
  Recovers
  ShutsDown
CHECK_DEADLOCK FALSE
