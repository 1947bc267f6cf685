SPECIFICATION Spec
CONSTANTS
    c1 = c1  c2 = c2  i1 = i1  o1 = o1  o2 = o2
    Chunks = {c1, c2}  Inputs = {i1}  Outputs = {o1, o2}
    In <- OneInput  RetryLimit <- RetryFirst  Masks <- AllRoutes
    MaxTasks = 2  PipeSize = 4  Grace = 2
    Sync = {o1}  NoMux = {o2}  Threaded = {o1}
    Fs = {c1}  Limited = {o1}  Backlog = {i1}  Direct = {}
    Failures = {"queue"}
    MaxAttempts = 2  MaxCopies = 1  MaxStops = 0
INVARIANTS OneTaskAtATime QueueServed NoUseAfterFree
