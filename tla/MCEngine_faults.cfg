SPECIFICATION Spec
CONSTANTS
    c1 = c1  c2 = c2  i1 = i1  o1 = o1  o2 = o2
    Chunks = {c1}  Inputs = {i1}  Outputs = {o1}
    In <- OneInput  RetryLimit <- TwoRetries  Masks <- AllRoutes
    MaxTasks = 2  PipeSize = 1  Grace = 2
    Sync = {o1}  NoMux = {}  Threaded = {}
    Fs = {c1}  Limited = {o1}  Backlog = {i1}  Direct = {i1}
    Failures = {"up", "read", "alloc", "evc", "coro", "pipe", "queue", "sched"}
    MaxAttempts = 2  MaxCopies = 3  MaxStops = 2
INVARIANTS UsersCoverFlushes RetriesBounded EngineInv
