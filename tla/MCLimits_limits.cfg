SPECIFICATION QuickChunkSpec
CONSTANTS
  InputList <- RingAndFile
  OutputList <- TwoOutputs
  Kind <- MCKind
  Routes <- FileToBoth
  Threaded = {}
  Pauses = {"file"}
  MemLimit <- MCMemLimit
  TotalLimit <- O1Limit
  Retries = {"o1"}
  MaxChunksUp = 2
  ChunkMax = 1
  Page = 1
  Ids <- MCIds
  Burst = 1
  Backlog = "sb"
  Old <- TwoOld
  Writer <- FileWrote
  Bad = {5}
  BacklogLimit = 1
INVARIANTS
  DiskUseExact
  MemoryBounded
PROPERTIES
  FlushKeepsChunk
  PausedIsResumed
CHECK_DEADLOCK FALSE
