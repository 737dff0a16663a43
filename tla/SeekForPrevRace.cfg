SPECIFICATION SpecReader
CONSTANTS
  Writer = {w}
  Reader = {r}
  NoWriter = NoWriter
  Key <- GapKeys
  Capacity = 3
  MaxHeight = 2
  MaxTries = 1
  MayThrow = FALSE
  Hint <- PairHint
  HintOrdering = TRUE
  Preload <- PreloadGap
INVARIANT SeekForPrevLandsAtOrBelow
