SPECIFICATION FairReader
CONSTANTS
  Writer = {w1, w2}
  Reader = {r}
  NoWriter = NoWriter
  Key <- FourKeys
  Capacity = 2
  MaxHeight = 2
  MaxTries = 1
  MayThrow = FALSE
  Hint <- PairHint
  HintOrdering = TRUE
  Preload <- PreloadTwo
INVARIANTS NoPhantoms ExactWhenQuiet ForwardSkipsNothing StepsAreMonotone
PROPERTIES RestingKeyIsStable ReadersFinish
