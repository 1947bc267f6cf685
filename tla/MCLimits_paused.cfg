SPECIFICATION FairChunkSpec
CONSTANTS
  InputList <- MemAndFile
  OutputList <- OneOutput
  Kind <- MCKind
  Routes <- ToO1
  Threaded = {}
  Pauses = {"file"}
  MemLimit <- MCMemLimit
  TotalLimit <- O1Limit
  Retries = {"o1"}
  MaxChunksUp = 2
  ChunkMax = 2
  Page = 2
  Ids <- MCIds
  Burst = 2
  Backlog = "sb"
  Old <- NoOld
  Writer <- NoOld
  Bad = {}
  BacklogLimit = 1
PROPERTIES
  PausedIsResumed
CHECK_DEADLOCK FALSE
