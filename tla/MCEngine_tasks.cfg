SPECIFICATION Spec
CONSTANTS
    c1 = c1  c2 = c2  i1 = i1  o1 = o1  o2 = o2
    Chunks = {c1, c2}  Inputs = {i1}  Outputs = {o1, o2}
    In <- OneInput  RetryLimit <- OneRetry  Masks <- AllRoutes
    MaxTasks = 1  PipeSize = 4  Grace = 2
    Sync = {}  NoMux = {}  Threaded = {o2}
    Fs = {c1}  Limited = {}  Backlog = {}  Direct = {}
    Failures = {}
    MaxAttempts = 2  MaxCopies = 1  MaxStops = 0
INVARIANTS TypeOK TaskIdsExact RetryOwned NoStrandedTask ChunkUpWhileFlushed NoSilentLoss CountedOnce SelfPipeBounded
