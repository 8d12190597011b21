SPECIFICATION Spec
CONSTANTS
  Writers = {a, b, c}
  Old = Old
  Missing = Missing
  Empty = Empty
  Torn = Torn
  RenameReplaces = TRUE
  MayFail = TRUE
INVARIANT WholeAtRest
PROPERTY WholeFileSpec
CHECK_DEADLOCK FALSE
