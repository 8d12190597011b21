SPECIFICATION FairSpec
CONSTANTS
  Requests = {r1, r2}
  Tokens = {cookie}
  NoSession = none
  FailureLimit = 2
  MaxChanges = 2
INVARIANTS FailuresBounded 
PROPERTY SessionsEnd
CHECK_DEADLOCK FALSE
