SPECIFICATION SpecRep
CONSTANTS
  Writer = {w}
  Reader = {r}
  NoWriter = NoWriter
  Key <- FiveKeys
  Capacity = 2
  MaxHeight = 2
  MaxTries = 1
  MayThrow = FALSE
  User <- UserOf
  Operand <- Operands
  Rtti = TRUE
  UserComparator = "bytewise"
  Hint <- BytewiseHint
  HintOrdering = TRUE
  Preload <- PreloadTwo
INVARIANT GetsAgree
