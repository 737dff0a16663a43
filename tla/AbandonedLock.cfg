SPECIFICATION FairSpec
CONSTANTS
  Writer = {w1, w2}
  NoWriter = NoWriter
  Key <- SevenKeys
  Capacity = 3
  MaxHeight = 2
  MaxTries = 1
  MayThrow = TRUE
  Hint <- PairHint
  HintOrdering = TRUE
  Preload <- PreloadThree
PROPERTY HolderFinishes
