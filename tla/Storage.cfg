SPECIFICATION SpecStorage
CONSTANTS
  Request <- Requests
  ChunkSize = 16
  MaxChunks = 3
  MaxBlocks = 5
  RawRequest <- RawRequests
  Pointer = 2
  MaxAddress = 30
  MaxRaws = 3
  Entry = {e1, e2, e3, e4, e5}
  MaxTarget = 3
INVARIANTS BlocksInChunk BlocksDisjoint BlocksAligned BlocksInRaw RawsDisjoint SampleIsExact
CHECK_DEADLOCK FALSE
