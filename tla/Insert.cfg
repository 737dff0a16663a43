SPECIFICATION FairSpec
CONSTANTS
  Writer = {w1, w2}
  NoWriter = NoWriter
  Key <- SevenKeys
  Capacity = 3
  MaxHeight = 3
  MaxTries = 2
  MayThrow = TRUE
  Hint <- PairHint
  HintOrdering = TRUE
  Preload <- PreloadThree
INVARIANTS TypeOK LevelZeroOrdered OwnsPayload HintSound IndexSound
  TowerSound QuiescedChecksOut NotItsOwnPredecessor DescentFinds
PROPERTIES InsertCompletes FirstKeyFixed SlotsFrozen LevelsOnlyGrow ImplementsOrderedSet
