SPECIFICATION SteadySpec
CONSTANTS
  p1 = p1
  p2 = p2
  i1 = i1
  none = none
  None = none
  Primaries <- MCOnePrimary
  Items <- MCItems
  MaxEdits = 1
  Callers = {"loop", "manual", "settings"}
  Options = {FALSE}
PROPERTIES NeverBackwards Converges RevocationShows LossClears MirrorSpec
CHECK_DEADLOCK FALSE
