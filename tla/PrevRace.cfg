SPECIFICATION SpecReader
CONSTANTS
  Writer = {w}
  Reader = {r}
  NoWriter = NoWriter
  Key <- SixKeys
  Capacity = 3
  MaxHeight = 2
  MaxTries = 1
  MayThrow = FALSE
  Hint <- PairHint
  HintOrdering = TRUE
  Preload <- PreloadThree
INVARIANT PrevSkipsNothing
