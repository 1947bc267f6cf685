SPECIFICATION FairSpec
CONSTANTS
  InputList <- MCInputs
  OutputList <- MCOutputs
  Kind <- MCKind
  Routes <- MCRoutes
  Threaded = {"thr"}
  Pauses = {}
  MemLimit <- MCMemLimit
  TotalLimit <- NoLimit
  Retries = {"o1"}
  MaxChunksUp = 2
  ChunkMax = 2
  Page = 2
  Ids <- MCIds
  Burst = 2
  Backlog = "sb"
  Old <- NoOld
  Writer <- NoOld
  Bad = {}
  BacklogLimit = 1
  EntryBytes = 2
  Entries = 2
  DataWindow = 2
  RetryLimit = 2
  MaxRecords = 3
INVARIANTS
  TypeOK
  PauseAgreed
  NeverRefused
  MemoryBounded
PROPERTIES
  RingIsQueue
  RecordsReachEngine
CHECK_DEADLOCK FALSE
