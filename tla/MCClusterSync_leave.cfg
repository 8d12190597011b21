SPECIFICATION Spec
CONSTANTS
  p1 = p1
  p2 = p2
  i1 = i1
  none = none
  None = none
  Primaries <- MCOnePrimary
  Items <- MCNoItems
  Callers = {"loop"}
  Options = {FALSE, TRUE}
  MaxEdits = 1
PROPERTY LeaveSticks
CHECK_DEADLOCK FALSE
