CONSTANTS
  c1 = c1
  c2 = c2
  Files = {c1, c2}
  MaxRecords = 3
  MaxBuffer = 2
  MaxStops = 2
  Page = 2
  ChunkMax = 2
  MinOffset = 1
SPECIFICATION FairSpec
CHECK_DEADLOCK FALSE
INVARIANTS TypeOK SyncedReadable AckedKept DeliveredOnce
PROPERTIES AckedDelivered
