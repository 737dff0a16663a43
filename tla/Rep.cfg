SPECIFICATION FairRep
CONSTANTS
  Writer = {w}
  Reader = {r}
  NoWriter = NoWriter
  Key <- FiveKeys
  Capacity = 2
  MaxHeight = 2
  MaxTries = 1
  MayThrow = FALSE
  User <- UserOf
  Operand <- Operands
  Rtti = TRUE
  UserComparator = "reverse"
  Hint <- ReverseHint
  HintOrdering = FALSE
  Preload <- PreloadTwo
INVARIANTS ScansAreGapless GetsAreExact
PROPERTIES ScansFinish
