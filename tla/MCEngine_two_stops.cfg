SPECIFICATION Spec
CONSTANTS
    c1 = c1  c2 = c2  i1 = i1  o1 = o1  o2 = o2
    Chunks = {c1}  Inputs = {i1}  Outputs = {o1}
    In <- OneInput  RetryLimit <- ThreeRetries  Masks <- AllRoutes
    MaxTasks = 2  PipeSize = 4  Grace = 2
    Sync = {}  NoMux = {}  Threaded = {}
    Fs = {c1}  Limited = {}  Backlog = {}  Direct = {}
    Failures = {}
    MaxAttempts = 2  MaxCopies = 3  MaxStops = 2
INVARIANTS NoUseAfterFree
