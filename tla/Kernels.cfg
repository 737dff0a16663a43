SPECIFICATION SpecKernels
CONSTANTS
  RankBits = 2
  LaneBits = 3
  LaneValue <- SixLanes
  MaxNodes = 2
INVARIANTS WordIsPermutation KernelsAgree PermuteTransparent BuiltAsAppended ProbesAreHonest
PROPERTIES WordFollowsSequence AnswersStable
CHECK_DEADLOCK FALSE
