SPECIFICATION LiveSpec
CONSTANTS
    c1 = c1  c2 = c2  i1 = i1  o1 = o1  o2 = o2
    Chunks = {c1, c2}  Inputs = {i1}  Outputs = {o1}
    In <- OneInput  RetryLimit <- OneRetry  Masks <- AllRoutes
    MaxTasks = 1  PipeSize = 4  Grace = 2
    Sync = {}  NoMux = {}  Threaded = {o1}
    Fs = {c1}  Limited = {}  Backlog = {}  Direct = {}
    Failures = {}
    MaxAttempts = 2  MaxCopies = 2  MaxStops = 1
INVARIANTS AllFlushedAtStop CountedOnce
PROPERTIES ChunksFinish StopsOnExit
