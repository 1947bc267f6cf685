------------------------------ MODULE FlbEngine ------------------------------
(***************************************************************************)
(* The flush engine of Fluent Bit 3.2.2: flb_engine.c,                     *)
(* flb_engine_dispatch.c, flb_task.c, the task side of flb_scheduler.c and *)
(* the flush side of flb_output.c and flb_output_thread.c.                 *)
(*                                                                         *)
(* An input leaves chunks in its list.  The flush timer turns each ready   *)
(* chunk into a task with one route per output, and every route into a     *)
(* flush: a coroutine in the engine thread or in a worker thread of the    *)
(* output.  The flush returns OK, RETRY or ERROR through a pipe; the       *)
(* engine then settles it.  A RETRY becomes a retry context with a request *)
(* to the scheduler, whose timer dispatches it again.  A task is destroyed *)
(* with its chunk when it has neither users nor retries.                   *)
(*                                                                         *)
(* A task lives exactly as long as its chunk is busy, so a task is named   *)
(* by its chunk.  The engine thread is one process: a handler whose calls  *)
(* a worker can interleave with, or that loops over tasks and routes, is   *)
(* cut into steps by pc.  The workers of Threaded outputs step at any time.*)
(***************************************************************************)
EXTENDS Integers, Sequences, FiniteSets

CONSTANTS
    Chunks,      \* the chunks the inputs ever create
    Inputs,      \* input instances
    Outputs,     \* output instances
    In,          \* the input instance that owns a chunk
    MaxTasks,    \* size of config->tasks_map (2048 in the build)
    PipeSize,    \* values the engine's own event pipe holds before a write blocks
    Sync,        \* outputs with FLB_OUTPUT_SYNCHRONOUS
    NoMux,       \* outputs with FLB_OUTPUT_NO_MULTIPLEX
    Threaded,    \* outputs with worker threads
    Fs,          \* chunks kept by filesystem storage: only these can go down
    Limited,     \* outputs with storage.total_limit_size
    Backlog,     \* the inputs that are storage_backlog (release scope GLOBAL)
    Direct,      \* inputs with direct routes (flb_router_connect_direct)
    RetryLimit,  \* ins->retry_limit: -1 unlimited, 0 no retries
    Grace,       \* config->grace: -1 waits for ever
    Failures,    \* the calls that may fail, see FailureKinds
    Masks,       \* the routes masks a chunk may be created with
    MaxAttempts, \* bound: attempts of a retry without a limit
    MaxCopies,   \* bound: flushes, and requests, of one route at a time
    MaxStops     \* bound: calls of flb_engine_exit by plugins and the API

\* Calls whose failure the code handles:
\*   up, read    bringing a chunk up, reading its content
\*   alloc       the allocations of flb_task_create; of flb_task_retry_create
\*   evc         flb_event_chunk_create in flb_task_create
\*   coro        flb_output_flush_create
\*   pipe        a write on the engine's or a worker's pipe
\*   queue       the allocation of a singleplex queue entry
\*   sched       creating the timer of a retry
FailureKinds == {"up", "read", "alloc", "evc", "coro", "pipe", "queue", "sched"}

Free     == "free"       \* tasks_map[i].task == NULL
Dangling == "dangling"   \* tasks_map[i].task points to freed memory

ASSUME InstanceAssumption ==
    /\ IsFiniteSet(Chunks) /\ IsFiniteSet(Outputs)
    /\ In \in [Chunks -> Inputs]
    /\ Chunks \cap {Free, Dangling} = {}
    /\ Fs \subseteq Chunks
    /\ Masks \subseteq SUBSET Outputs

ASSUME BoundAssumption ==
    /\ MaxTasks \in Nat /\ PipeSize \in Nat /\ MaxAttempts \in Nat
    /\ MaxCopies \in Nat /\ MaxStops \in Nat
    /\ RetryLimit \in [Outputs -> Int] /\ Grace \in Int

TaskIds == 0 .. (MaxTasks - 1)
Copies  == 1 .. MaxCopies
Slots   == Chunks \X Outputs \X Copies

Returns  == {"OK", "RETRY", "ERROR"}
InFlight == {"wire", "active"} \cup Returns

VARIABLES
    chunk,      \* absent, ready (in the input's list), busy (has a task), gone
    up,         \* the content of the chunk is mapped in memory
    mask,       \* ic->routes_mask
    tasks_map,  \* config->tasks_map
    task,       \* task->status, "none" without a task
    users,      \* task->users
    route,      \* task->routes: status of each route
    attempts,   \* task->retries: attempts of the retry of each route, 0: no retry
    flush,      \* what each flush of a route is doing
    carries,    \* queued_task->retry of a pending flush: none, live or stale
    pending,    \* singleplex_queue->pending
    in_progress,\* singleplex_queue->in_progress is not empty
    req         \* scheduler requests: none, wait, now (a timer is armed), stale

taskVars  == <<chunk, up, mask, tasks_map, task, users, route, attempts>>
flushVars == <<flush, carries, pending, in_progress, req>>

VARIABLES
    engine,     \* running, stopped; undefined: freed memory is used; blocked: on its own pipe
    pc,         \* where the engine thread is
    inputs,     \* flb_engine_flush: the inputs still to dispatch
    in,         \* the input being dispatched
    walk,       \* the chunks or tasks its loop has still to visit
    cur,        \* tasks_start: the task whose routes are being started
    left,       \* its routes still to visit
    hits,       \* hits > 0
    seen,       \* retry > 0
    back,       \* handle_output_event: the flush being settled
    stopping,   \* flb_engine_manager read FLB_ENGINE_STOP: it follows the flush
    manager,    \* FLB_ENGINE_STOP values in the manager pipe
    posted,     \* calls of flb_engine_exit from outside the engine loop
    ingestion,  \* config->is_ingestion_active
    timer,      \* the one second timer on event_shutdown is armed
    grace_count,
    counted     \* the output metrics a chunk's records were added to, in order: proc, dropped

loopVars == <<inputs, in, walk, cur, left, hits, seen, back, stopping>>
stopVars == <<manager, posted, ingestion, timer, grace_count>>
vars     == <<taskVars, flushVars, engine, pc, loopVars, stopVars, counted>>

None    == "none"
NoFlush == <<>>

Init ==
    /\ chunk = [c \in Chunks |-> "absent"]
    /\ up = [c \in Chunks |-> FALSE]
    /\ mask = [c \in Chunks |-> {}]
    /\ tasks_map = [i \in TaskIds |-> Free]
    /\ task = [c \in Chunks |-> "none"]
    /\ users = [c \in Chunks |-> 0]
    /\ route = [c \in Chunks |-> [o \in Outputs |-> "none"]]
    /\ attempts = [c \in Chunks |-> [o \in Outputs |-> 0]]
    /\ flush = [s \in Slots |-> "none"]
    /\ carries = [s \in Slots |-> "none"]
    /\ pending = [o \in Outputs |-> <<>>]
    /\ in_progress = [o \in Outputs |-> FALSE]
    /\ req = [s \in Slots |-> "none"]
    /\ engine = "running" /\ pc = "loop"
    /\ inputs = {} /\ in = None /\ walk = {} /\ cur = None /\ left = {}
    /\ hits = FALSE /\ seen = FALSE /\ back = NoFlush /\ stopping = FALSE
    /\ manager = 0 /\ posted = 0 /\ ingestion = TRUE /\ timer = FALSE
    /\ grace_count = 0
    /\ counted = [c \in Chunks |-> [o \in Outputs |-> <<>>]]

At(p) == engine = "running" /\ pc = p

Routes(c)   == {o \in Outputs : route[c][o] # "none"}
HasRetry(c) == \E o \in Outputs : attempts[c][o] > 0

------------------------------------------------------------------------------
(* Tasks and retries. *)

\* Mutant of FreeIds: ids in use are not skipped.
AnyIds == TaskIds

FreeIds == {i \in TaskIds : tasks_map[i] = Free}

\* The lowest free id.
map_get_task_id == CHOOSE i \in FreeIds : \A j \in FreeIds : i <= j

\* Mutant of flb_task_destroy: the id is not freed.
DestroyKeepsId(D) ==
    /\ chunk' = [c \in Chunks |-> IF c \in D THEN "gone" ELSE chunk[c]]
    /\ task' = [c \in Chunks |-> IF c \in D THEN "none" ELSE task[c]]
    /\ route' = [c \in Chunks |-> IF c \in D THEN [o \in Outputs |-> "none"] ELSE route[c]]
    /\ UNCHANGED tasks_map

\* flb_task_destroy, and the chunk with it, for every task of D.
flb_task_destroy(D) ==
    /\ chunk' = [c \in Chunks |-> IF c \in D THEN "gone" ELSE chunk[c]]
    /\ task' = [c \in Chunks |-> IF c \in D THEN "none" ELSE task[c]]
    /\ tasks_map' = [i \in TaskIds |-> IF tasks_map[i] \in D THEN Free ELSE tasks_map[i]]
    /\ route' = [c \in Chunks |-> IF c \in D THEN [o \in Outputs |-> "none"] ELSE route[c]]

\* Mutants of flb_task_users_release: users, or retries, are not looked at; nothing is released.
ReleaseIgnoresUsers(c, o, n)   == IF \A x \in Outputs \ {o} : attempts[c][x] = 0 THEN {c} ELSE {}
ReleaseIgnoresRetries(c, o, n) == IF users[c] = n THEN {c} ELSE {}
ReleaseNever(c, o, n)          == {}

\* flb_task_users_release(task) once the retry of o is gone: the task is destroyed
\* when it has no other retry and n is the number of its users.
flb_task_users_release(c, o, n) ==
    IF users[c] = n /\ \A x \in Outputs \ {o} : attempts[c][x] = 0 THEN {c} ELSE {}

\* The request that flb_sched_request_invalidate finds first for the retry of
\* c on o: the armed requests are searched before the waiting ones.
FirstRequest(c, o) ==
    LET armed == {k \in Copies : req[<<c, o, k>>] = "now"}
        wait  == {k \in Copies : req[<<c, o, k>>] = "wait"}
        first(K) == CHOOSE k \in K : \A j \in K : k <= j
    IN  IF armed # {} THEN first(armed) ELSE IF wait # {} THEN first(wait) ELSE 0

\* Mutant of flb_sched_request_destroy: the request stays.
RequestKept(r) == req

\* The timer of the request r was handled.
flb_sched_request_destroy(r) == [req EXCEPT ![r] = "none"]

\* Mutant of flb_sched_request_invalidate: no request is invalidated.
InvalidateNone(R) == req

\* flb_sched_request_invalidate for the retries of R, a set of <<chunk, output>>.
flb_sched_request_invalidate(R) ==
    [s \in Slots |-> IF <<s[1], s[2]>> \in R /\ s[3] = FirstRequest(s[1], s[2])
                     THEN "none" ELSE req[s]]

\* The requests once the retries of R are freed by flb_task_retry_destroy: it
\* invalidates one request of each, any other still points to the freed retry.
flb_task_retry_destroy(R) ==
    LET kept == flb_sched_request_invalidate(R)
    IN  [s \in Slots |-> IF <<s[1], s[2]>> \in R /\ kept[s] \in {"now", "wait"}
                         THEN "stale" ELSE kept[s]]

\* The queue entries that carried one of them.
Orphaned(R) ==
    [s \in Slots |-> IF <<s[1], s[2]>> \in R /\ carries[s] = "live"
                     THEN "stale" ELSE carries[s]]

Retries(c) == {<<c, o>> : o \in {x \in Outputs : attempts[c][x] > 0}}

------------------------------------------------------------------------------
(* Handing a flush to the thread that runs it. *)

\* flb_output_flush values in the engine's own pipe.
SelfEvents == {s \in Slots : flush[s] = "wire" /\ s[2] \notin Threaded}

\* flb_output_task_flush: what its calls can do.  The engine thread is the only
\* reader of its own pipe, so a write on the full pipe blocks it for ever.
flb_output_task_flush(o) ==
    IF o \in Threaded
    THEN {"sent"} \cup ({"pipe"} \cap Failures)
    ELSE {IF Cardinality(SelfEvents) < PipeSize THEN "sent" ELSE "blocked"}
         \cup ({"coro", "pipe"} \cap Failures)

\* Mutant of Submissions: a task in progress is not waited for.
EnqueueNeverWaits(o) == flb_output_task_flush(o)

\* flb_output_task_singleplex_enqueue for a synchronous output: the flush
\* waits while another one is in progress, and its entry may not be allocated.
Submissions(o) ==
    IF o \in Sync /\ in_progress[o]
    THEN {"queued"} \cup ({"queue"} \cap Failures)
    ELSE flb_output_task_flush(o) \cup (IF o \in Sync THEN {"queue"} \cap Failures ELSE {})

\* The call returned -1.  A full pipe of a worker is reported as a success.
Refused(o, res) == res = "queue" \/ (res \in {"coro", "pipe"} /\ o \notin Threaded)

\* The flush s is submitted with result res.  When the write on the engine's
\* pipe fails, flush_next frees the singleplex entry before flush_one reads it.
Submit(s, res) ==
    LET c == s[1]
        o == s[2]
    IN  /\ users' = IF res \in {"sent", "queued", "queue"}
                    THEN [users EXCEPT ![c] = @ + 1] ELSE users
        /\ flush' = CASE res = "sent"   -> [flush EXCEPT ![s] = "wire"]
                      [] res = "queued" -> [flush EXCEPT ![s] = "pending"]
                      [] OTHER          -> flush
        /\ pending' = IF res = "queued"
                      THEN [pending EXCEPT ![o] = Append(@, s)] ELSE pending
        /\ in_progress' = IF res = "sent" /\ o \in Sync
                          THEN [in_progress EXCEPT ![o] = TRUE] ELSE in_progress
        /\ engine' = CASE res = "blocked" -> "blocked"
                       [] res = "pipe" /\ o \in Sync \ Threaded -> "undefined"
                       [] OTHER -> engine

FreeFlush(s) == /\ flush[s] = "none"
                /\ \A k \in Copies : k < s[3] => flush[<<s[1], s[2], k>>] # "none"
FreeReq(s)   == /\ req[s] = "none"
                /\ \A k \in Copies : k < s[3] => req[<<s[1], s[2], k>>] # "none"

------------------------------------------------------------------------------
(* flb_engine_flush: dispatch every input. *)

\* The flush timer, or the STOP event of the manager pipe, calls it.
flb_engine_flush(stop) ==
    /\ pc' = "input" /\ inputs' = Inputs /\ stopping' = stop
    /\ UNCHANGED <<in, walk, cur, left, hits, seen, back>>

FlushTimer ==
    /\ At("loop")
    /\ flb_engine_flush(FALSE)
    /\ UNCHANGED <<taskVars, flushVars, engine, stopVars, counted>>

NextInput ==
    /\ At("input")
    /\ \/ \E i \in inputs :
            /\ in' = i /\ inputs' = inputs \ {i}
            /\ walk' = {c \in Chunks : In[c] = i /\ chunk[c] = "ready"}
            /\ pc' = "create"
       \/ /\ inputs = {}
          /\ pc' = IF stopping THEN "stop" ELSE "loop"
          /\ UNCHANGED <<in, inputs, walk>>
    /\ UNCHANGED <<taskVars, flushVars, engine, stopVars, counted,
                   cur, left, hits, seen, back, stopping>>

\* flb_task_create gives c a task with the routes R.  A route that cannot be
\* allocated is skipped; the status of a direct route is never set.
flb_task_create(c, R) ==
    /\ IF "alloc" \in Failures THEN R \subseteq mask[c] ELSE R = mask[c]
    /\ \E status \in [R -> IF In[c] \in Direct
                           THEN {"inactive", "active", "dropped"} ELSE {"inactive"}] :
         route' = [route EXCEPT ![c] = [o \in Outputs |->
                     IF o \in R THEN status[o] ELSE "none"]]
    /\ chunk' = [chunk EXCEPT ![c] = IF R = {} THEN "gone" ELSE "busy"]
    /\ task' = [task EXCEPT ![c] = IF R = {} THEN "none" ELSE "new"]
    /\ tasks_map' = [tasks_map EXCEPT ![map_get_task_id] = IF R = {} THEN Free ELSE c]
    /\ users' = [users EXCEPT ![c] = 0]
    /\ attempts' = [attempts EXCEPT ![c] = [o \in Outputs |-> 0]]

\* The loop body of flb_engine_dispatch.
DispatchChunk(c) ==
    /\ At("create") /\ c \in walk
    /\ \/ /\ FreeIds = {} /\ walk' = {}
          /\ UNCHANGED taskVars
       \/ /\ FreeIds # {} /\ walk' = walk \ {c}
          /\ UNCHANGED mask
          /\ \/ /\ \/ "up" \in Failures /\ ~up[c] /\ up' = up
                   \/ "read" \in Failures /\ up' = [up EXCEPT ![c] = TRUE]
                /\ UNCHANGED <<chunk, tasks_map, task, users, route, attempts>>
             \/ /\ {"alloc", "evc"} \cap Failures # {}
                /\ up' = [up EXCEPT ![c] = c \notin Fs]
                /\ tasks_map' \in (IF "alloc" \in Failures THEN {tasks_map} ELSE {})
                     \cup (IF "evc" \in Failures
                           THEN {[tasks_map EXCEPT ![map_get_task_id] = Dangling]} ELSE {})
                /\ UNCHANGED <<chunk, task, users, route, attempts>>
             \/ /\ up' = [up EXCEPT ![c] = TRUE]
                /\ \E R \in SUBSET Outputs : flb_task_create(c, R)
    /\ UNCHANGED <<flushVars, engine, pc, stopVars, counted,
                   inputs, in, cur, left, hits, seen, back, stopping>>

EndCreate ==
    /\ At("create") /\ walk = {}
    /\ pc' = "start" /\ seen' = FALSE
    /\ walk' = {c \in Chunks : In[c] = in /\ task[c] # "none"}
    /\ UNCHANGED <<taskVars, flushVars, engine, stopVars, counted,
                   inputs, in, cur, left, hits, back, stopping>>

\* Mutant of StartTask: tasks that were started before are started again.
StartAnyTask(c) ==
    /\ At("start") /\ c \in walk
    /\ walk' = walk \ {c}
    /\ seen' = (seen \/ HasRetry(c))
    /\ task' = [task EXCEPT ![c] = "running"]
    /\ pc' = "route" /\ cur' = c /\ left' = Routes(c) /\ hits' = FALSE
    /\ UNCHANGED <<chunk, up, mask, tasks_map, users, route, attempts, flushVars,
                   engine, stopVars, counted, inputs, in, back, stopping>>

\* tasks_start: visit the next task of the input.
StartTask(c) ==
    /\ At("start") /\ c \in walk
    /\ walk' = walk \ {c}
    /\ seen' = (seen \/ HasRetry(c))
    /\ IF task[c] = "new"
       THEN /\ task' = [task EXCEPT ![c] = "running"]
            /\ pc' = "route" /\ cur' = c /\ left' = Routes(c) /\ hits' = FALSE
       ELSE UNCHANGED <<task, pc, cur, left, hits>>
    /\ UNCHANGED <<chunk, up, mask, tasks_map, users, route, attempts, flushVars,
                   engine, stopVars, counted, inputs, in, back, stopping>>

\* flb_output_coros_size(o) > 0: a task still in a worker's pipe is not counted.
Flushing(o) == \E s \in Slots : s[2] = o /\ flush[s] \in
                  (IF o \in Threaded THEN {"active"} ELSE {"wire", "active"})

SkipRoute(o) ==
    /\ At("route") /\ o \in left
    /\ o \in NoMux /\ (Flushing(o) \/ seen)
    /\ left' = left \ {o}
    /\ UNCHANGED <<taskVars, flushVars, engine, pc, stopVars, counted,
                   inputs, in, walk, cur, hits, seen, back, stopping>>

\* tasks_start ignores what the submission returns.
StartRoute(s) ==
    LET o == s[2]
    IN  /\ At("route") /\ s[1] = cur /\ o \in left /\ FreeFlush(s)
        /\ ~(o \in NoMux /\ (Flushing(o) \/ seen))
        /\ \E res \in Submissions(o) : Submit(s, res)
        /\ left' = left \ {o} /\ hits' = TRUE
        /\ UNCHANGED <<chunk, up, mask, tasks_map, task, route, attempts, carries, req,
                       pc, stopVars, counted, inputs, in, walk, cur, seen, back, stopping>>

EndRoutes ==
    /\ At("route") /\ left = {}
    /\ task' = IF hits THEN task ELSE [task EXCEPT ![cur] = "new"]
    /\ pc' = "start" /\ cur' = None /\ hits' = FALSE
    /\ UNCHANGED <<chunk, up, mask, tasks_map, users, route, attempts, flushVars,
                   engine, stopVars, counted, inputs, in, walk, left, seen, back, stopping>>

\* The clean-up of tasks without routes that ends flb_engine_dispatch.
EndInput ==
    /\ At("start") /\ walk = {}
    /\ flb_task_destroy({c \in Chunks : /\ In[c] = in /\ task[c] # "none" /\ users[c] = 0
                                        /\ ~HasRetry(c) /\ Routes(c) = {}})
    /\ pc' = "input" /\ in' = None /\ seen' = FALSE
    /\ UNCHANGED <<up, mask, users, attempts, flushVars, engine, stopVars, counted,
                   inputs, walk, cur, left, hits, back, stopping>>

------------------------------------------------------------------------------
(* A flush: started by the thread that reads its pipe, ended by the plugin. *)

\* The thread of a flush can step: a worker at any time, the engine in its loop.
Runs(s) == engine = "running" /\ (s[2] \in Threaded \/ pc = "loop")

\* output_pre_cb_flush, under the task lock.
StartFlush(s) ==
    /\ Runs(s) /\ flush[s] = "wire"
    /\ IF route[s[1]][s[2]] = "dropped"
       THEN /\ flush' = [flush EXCEPT ![s] = "ERROR"]
            /\ route' = [route EXCEPT ![s[1]][s[2]] = "inactive"]
       ELSE /\ flush' = [flush EXCEPT ![s] = "active"]
            /\ route' = [route EXCEPT ![s[1]][s[2]] = "active"]
    /\ UNCHANGED <<chunk, up, mask, tasks_map, task, users, attempts, carries, pending,
                   in_progress, req, engine, pc, loopVars, stopVars, counted>>

\* flb_output_return: the route is inactive again and the value is posted.  A
\* chunk without records returns OK before it is looked at.
flb_output_return(s, ret) ==
    /\ Runs(s)
    /\ \/ flush[s] = "active"
       \/ flush[s] = "wire" /\ ret = "OK"
    /\ ret = "RETRY" /\ RetryLimit[s[2]] < 0 => attempts[s[1]][s[2]] < MaxAttempts
    /\ route' = [route EXCEPT ![s[1]][s[2]] = "inactive"]
    /\ flush' = [flush EXCEPT ![s] = ret]
    /\ UNCHANGED <<chunk, up, mask, tasks_map, task, users, attempts, carries, pending,
                   in_progress, req, engine, pc, loopVars, stopVars, counted>>

\* The value cannot be posted, or the worker cannot create the coroutine: the
\* engine never hears of the flush.
LoseFlush(s) ==
    /\ Runs(s)
    /\ \/ "pipe" \in Failures /\ flush[s] = "active"
       \/ "coro" \in Failures /\ flush[s] = "wire" /\ s[2] \in Threaded
    /\ route' = IF flush[s] = "active"
                THEN [route EXCEPT ![s[1]][s[2]] = "inactive"] ELSE route
    /\ flush' = [flush EXCEPT ![s] = "none"]
    /\ UNCHANGED <<chunk, up, mask, tasks_map, task, users, attempts, carries, pending,
                   in_progress, req, engine, pc, loopVars, stopVars, counted>>

------------------------------------------------------------------------------
(* handle_output_event: settle a returned flush. *)

\* Mutant of handle_output_event: flush_next is not called.
SkipQueue(s) ==
    /\ At("loop") /\ flush[s] \in Returns
    /\ back' = s /\ pc' = "settle"
    /\ in_progress' = [in_progress EXCEPT ![s[2]] = FALSE]
    /\ UNCHANGED <<taskVars, flush, carries, pending, req, engine, stopVars, counted,
                   inputs, in, walk, cur, left, hits, seen, stopping>>

\* A synchronous output first flushes the next task of its queue.
handle_output_event(s) ==
    LET o == s[2]
    IN  /\ At("loop") /\ flush[s] \in Returns
        /\ back' = s
        /\ in_progress' = [in_progress EXCEPT ![o] = FALSE]
        /\ pc' = IF o \in Sync /\ pending[o] # <<>> THEN "queue" ELSE "settle"
        /\ UNCHANGED <<taskVars, flush, carries, pending, req, engine, stopVars, counted,
                       inputs, in, walk, cur, left, hits, seen, stopping>>

\* flb_output_task_queue_flush_one; a failure goes on with the next entry.
flush_one ==
    LET o == back[2]
        s == Head(pending[o])
        c == s[1]
    IN  /\ At("queue") /\ pending[o] # <<>>
        /\ pending' = [pending EXCEPT ![o] = Tail(@)]
        /\ \E res \in flb_output_task_flush(o) :
             LET freed == IF Refused(o, res) /\ carries[s] = "live" THEN {<<c, o>>} ELSE {}
             IN  /\ users' = IF res = "sent" THEN users ELSE [users EXCEPT ![c] = @ - 1]
                 /\ flush' = [flush EXCEPT ![s] = IF res = "sent" THEN "wire" ELSE "none"]
                 /\ in_progress' = [in_progress EXCEPT ![o] = (res = "sent")]
                 /\ attempts' = IF freed = {} THEN attempts ELSE [attempts EXCEPT ![c][o] = 0]
                 /\ req' = flb_task_retry_destroy(freed)
                 /\ carries' = [Orphaned(freed) EXCEPT ![s] = "none"]
                 /\ pc' = IF res = "sent" \/ Tail(pending[o]) = <<>> THEN "settle" ELSE "queue"
                 /\ engine' = CASE res = "blocked" -> "blocked"
                                [] Refused(o, res) /\ (res = "pipe" \/ carries[s] = "stale")
                                     -> "undefined"
                                [] OTHER -> engine
        /\ UNCHANGED <<chunk, up, mask, tasks_map, task, route, stopVars, counted,
                       inputs, in, walk, cur, left, hits, seen, back, stopping>>

\* The route of the flush is finished: its retry, if any, is cleaned, the user
\* is gone, and the task with the last of them.
Finish(c, o, metric) ==
    LET freed == IF attempts[c][o] > 0 THEN {<<c, o>>} ELSE {}
    IN  /\ attempts' = [attempts EXCEPT ![c][o] = 0]
        /\ req' = flb_task_retry_destroy(freed)
        /\ carries' = Orphaned(freed)
        /\ users' = [users EXCEPT ![c] = @ - 1]
        /\ flb_task_destroy(flb_task_users_release(c, o, 1))
        /\ counted' = [counted EXCEPT ![c][o] = Append(@, metric)]
        /\ UNCHANGED up

\* Mutant of RetryDown: other users do not keep the chunk up.
DownWithUsers(c) == IF c \in Fs THEN {up[c], FALSE} ELSE {up[c]}

\* What flb_task_retry_create does to the content of the chunk: it may go down
\* under memory pressure when no other user is left, and always does when the
\* task has a single route.
RetryDown(c) ==
    CASE c \notin Fs                  -> {up[c]}
      [] Cardinality(Routes(c)) = 1   -> {FALSE}
      [] OTHER                        -> {up[c]} \cup (IF users[c] <= 1 THEN {FALSE} ELSE {})

NewRequest == IF ingestion THEN {"wait", "now"} ELSE {"now"}

\* Mutant of Exhausted: one attempt too many.
ExhaustedLate(c, o) == RetryLimit[o] >= 0 /\ attempts[c][o] > RetryLimit[o]

\* flb_task_retry_create found the limit reached.
Exhausted(c, o) == RetryLimit[o] >= 0 /\ attempts[c][o] >= RetryLimit[o]

\* The retry is created or reused, its user released and a request scheduled; a
\* retry that cannot be scheduled is destroyed, and an idle task with it.
Retry(c, o) ==
    /\ up' \in {[up EXCEPT ![c] = b] : b \in RetryDown(c)}
    /\ users' = [users EXCEPT ![c] = @ - 1]
    /\ \/ /\ \E r \in Slots : /\ r[1] = c /\ r[2] = o /\ FreeReq(r)
                              /\ req' \in {[req EXCEPT ![r] = t] : t \in NewRequest}
          /\ attempts' = [attempts EXCEPT ![c][o] = @ + 1]
          /\ flb_task_destroy({})
          /\ UNCHANGED carries
       \/ /\ "sched" \in Failures
          /\ req' = flb_task_retry_destroy({<<c, o>>})
          /\ carries' = Orphaned({<<c, o>>})
          /\ attempts' = [attempts EXCEPT ![c][o] = 0]
          /\ flb_task_destroy(flb_task_users_release(c, o, 1))
    /\ UNCHANGED counted

Settle ==
    LET s == back
        c == s[1]
        o == s[2]
    IN  /\ At("settle")
        /\ CASE flush[s] = "OK"    -> Finish(c, o, "proc")
             [] flush[s] = "ERROR" -> Finish(c, o, "dropped")
             [] flush[s] = "RETRY" /\ Exhausted(c, o) -> Finish(c, o, "dropped")
             [] OTHER -> \/ Retry(c, o)
                         \/ /\ "alloc" \in Failures /\ attempts[c][o] = 0
                            /\ Finish(c, o, "dropped")
        /\ flush' = [flush EXCEPT ![s] = "none"]
        /\ pc' = "loop" /\ back' = NoFlush
        /\ UNCHANGED <<mask, pending, in_progress, engine, stopVars,
                       inputs, in, walk, cur, left, hits, seen, stopping>>

------------------------------------------------------------------------------
(* The scheduler dispatches retries. *)

\* The frame timer: schedule_request_promote arms the requests whose time comes.
Promote(P) ==
    /\ At("loop") /\ P # {} /\ \A s \in P : req[s] = "wait"
    /\ req' = [s \in Slots |-> IF s \in P THEN "now" ELSE req[s]]
    /\ UNCHANGED <<taskVars, flush, carries, pending, in_progress, engine, pc, loopVars,
                   stopVars, counted>>

\* flb_engine_dispatch_retry cannot bring the chunk up: flb_task_retry_reschedule.
Reschedule(r) ==
    LET c == r[1]
        o == r[2]
    IN  /\ "up" \in Failures /\ ~up[c]
        /\ \/ /\ req' \in {[req EXCEPT ![r] = t] : t \in NewRequest}
              /\ flb_task_destroy({})
              /\ UNCHANGED <<attempts, carries>>
           \/ /\ "sched" \in Failures
              /\ req' = flb_task_retry_destroy({<<c, o>>})
              /\ carries' = Orphaned({<<c, o>>})
              /\ attempts' = [attempts EXCEPT ![c][o] = 0]
              /\ flb_task_destroy(flb_task_users_release(c, o, 0))
        /\ UNCHANGED <<up, users, flush, pending, in_progress, engine>>

\* flb_engine_dispatch_retry flushes the retry of r again as the flush s, or
\* destroys it.  The request is destroyed after a success only.
Redispatch(r, s) ==
    LET c == r[1]
        o == r[2]
        fail == /\ req' = flb_task_retry_destroy({<<c, o>>})
                /\ attempts' = [attempts EXCEPT ![c][o] = 0]
                /\ carries' = Orphaned({<<c, o>>})
    IN  /\ s[1] = c /\ s[2] = o /\ FreeFlush(s)
        /\ up' = [up EXCEPT ![c] = TRUE]
        /\ \/ /\ "read" \in Failures
              /\ fail
              /\ UNCHANGED <<users, flush, pending, in_progress, engine>>
           \/ \E res \in Submissions(o) :
                /\ Submit(s, res)
                /\ IF Refused(o, res)
                   THEN fail
                   ELSE /\ req' = flb_sched_request_destroy(r)
                        /\ carries' = IF res = "queued" THEN [carries EXCEPT ![s] = "live"]
                                      ELSE carries
                        /\ UNCHANGED attempts
        /\ UNCHANGED <<chunk, tasks_map, task, route>>

flb_engine_dispatch_retry(r) ==
    /\ At("loop") /\ req[r] = "now"
    /\ \/ Reschedule(r)
       \/ \E s \in Slots : Redispatch(r, s)
    /\ UNCHANGED <<mask, pc, loopVars, stopVars, counted>>

\* The timer of a request whose retry was freed.
FireStale(r) ==
    /\ At("loop") /\ req[r] = "stale"
    /\ engine' = "undefined"
    /\ UNCHANGED <<taskVars, flushVars, pc, loopVars, stopVars, counted>>

------------------------------------------------------------------------------
(* The stop sequence. *)

\* flb_engine_exit, called by a plugin or the API.
flb_engine_exit ==
    /\ engine = "running" /\ posted < MaxStops
    /\ posted' = posted + 1 /\ manager' = manager + 1
    /\ UNCHANGED <<taskVars, flushVars, engine, pc, loopVars, counted,
                   ingestion, timer, grace_count>>

\* Mutant of flb_engine_manager: it does not wait for a value.
ManagerUnguarded ==
    /\ At("loop")
    /\ manager' = manager - 1
    /\ flb_engine_flush(TRUE)
    /\ UNCHANGED <<taskVars, flushVars, engine, counted, posted, ingestion, timer, grace_count>>

\* flb_engine_manager reads FLB_ENGINE_STOP and flushes before the loop sees it.
flb_engine_manager ==
    /\ At("loop") /\ manager > 0
    /\ manager' = manager - 1
    /\ flb_engine_flush(TRUE)
    /\ UNCHANGED <<taskVars, flushVars, engine, counted, posted, ingestion, timer, grace_count>>

\* flb_engine_reschedule_retries: one request of every retry is replaced by an
\* immediate one, whether or not the retry is being flushed.
flb_engine_reschedule_retries ==
    LET all  == UNION {Retries(c) : c \in Chunks}
        kept == flb_sched_request_invalidate(all)
        slot(p) == CHOOSE k \in Copies :
                     /\ kept[<<p[1], p[2], k>>] = "none"
                     /\ \A j \in Copies : kept[<<p[1], p[2], j>>] = "none" => k <= j
    IN  \E armed \in (IF "sched" \in Failures THEN SUBSET all ELSE {all}) :
          /\ \A p \in armed : \E k \in Copies : kept[<<p[1], p[2], k>>] = "none"
          /\ req' = [s \in Slots |-> IF <<s[1], s[2]>> \in armed /\ s[3] = slot(<<s[1], s[2]>>)
                                     THEN "now" ELSE kept[s]]

\* The loop handles FLB_ENGINE_STOP: retries are brought forward the first time,
\* inputs are paused and the shutdown timer is armed.
EngineStop ==
    /\ At("stop")
    /\ IF grace_count = 0 THEN flb_engine_reschedule_retries ELSE UNCHANGED req
    /\ ingestion' = FALSE /\ timer' = TRUE
    /\ pc' = "loop" /\ stopping' = FALSE
    /\ UNCHANGED <<taskVars, flush, carries, pending, in_progress, engine, counted,
                   manager, posted, grace_count, inputs, in, walk, cur, left, hits, seen, back>>

\* Mutant of flb_task_running_count: tasks that only wait for a retry are not counted.
RunningUsersOnly == Cardinality({c \in Chunks : task[c] # "none" /\ users[c] > 0})

flb_task_running_count ==
    Cardinality({c \in Chunks : task[c] # "none" /\ (users[c] > 0 \/ HasRetry(c))})

\* Mutant of EngineShutdown: the grace is not looked at.
ShutdownWithoutGrace ==
    /\ At("loop") /\ timer
    /\ timer' = FALSE
    /\ grace_count' = 1
    /\ IF flb_task_running_count > 0
       THEN manager' = manager + 1 /\ UNCHANGED engine
       ELSE engine' = "stopped" /\ UNCHANGED manager
    /\ UNCHANGED <<taskVars, flushVars, pc, loopVars, counted, posted, ingestion>>

\* FLB_ENGINE_SHUTDOWN: wait another second for running tasks, within the grace.
\* Without a limit only grace_count > 0 matters, so the count stays at 1.
EngineShutdown ==
    /\ At("loop") /\ timer
    /\ timer' = FALSE
    /\ grace_count' = IF Grace = -1 THEN 1 ELSE grace_count + 1
    /\ IF flb_task_running_count > 0 /\ (Grace = -1 \/ grace_count + 1 < Grace)
       THEN manager' = manager + 1 /\ UNCHANGED engine
       ELSE engine' = "stopped" /\ UNCHANGED manager
    /\ UNCHANGED <<taskVars, flushVars, pc, loopVars, counted, posted, ingestion>>

------------------------------------------------------------------------------
(* Inputs. *)

\* A collector leaves a new chunk with the routes of its tag.
Ingest(c) ==
    /\ At("loop") /\ ingestion /\ chunk[c] = "absent"
    /\ chunk' = [chunk EXCEPT ![c] = "ready"]
    /\ mask' \in {[mask EXCEPT ![c] = R] : R \in Masks}
    /\ up' \in {[up EXCEPT ![c] = b] : b \in IF c \in Fs THEN BOOLEAN ELSE {TRUE}}
    /\ UNCHANGED <<tasks_map, task, users, route, attempts, flushVars, engine, pc,
                   loopVars, stopVars, counted>>

\* flb_input_chunk_release_space for one old chunk of the limited output o, called
\* while a new chunk is placed.  A chunk in use only loses the route, and only
\* an inactive one (flb_input_chunk_drop_task_route: a route the task does not
\* have counts as inactive); an idle chunk may go.
ReleaseSpace(c, o, scope) ==
    LET kept == IF scope = "local" THEN mask[c] \ {o} ELSE mask[c]
        dead == IF scope = "global" \/ kept = {} THEN {c} ELSE {}
    IN  /\ At("loop") /\ ingestion /\ o \in Limited
        /\ scope = "global" => In[c] \in Backlog
        /\ chunk[c] \in {"ready", "busy"} /\ o \in mask[c]
        /\ mask' = [mask EXCEPT ![c] = kept]
        /\ \/ /\ users[c] # 0 /\ route[c][o] \in {"none", "inactive"}
              /\ route' = IF route[c][o] = "none" THEN route
                          ELSE [route EXCEPT ![c][o] = "dropped"]
              /\ UNCHANGED <<chunk, task, tasks_map, attempts, req, carries, counted>>
           \/ /\ users[c] = 0
              /\ flb_task_destroy(dead)
              /\ attempts' = [x \in Chunks |-> IF x \in dead THEN [y \in Outputs |-> 0]
                                              ELSE attempts[x]]
              /\ req' = flb_task_retry_destroy(UNION {Retries(x) : x \in dead})
              /\ carries' = Orphaned(UNION {Retries(x) : x \in dead})
              /\ counted' = [counted EXCEPT ![c][o] = Append(@, "dropped")]
        /\ UNCHANGED <<up, users, flush, pending, in_progress, engine, pc, loopVars, stopVars>>

------------------------------------------------------------------------------
\* The engine stopped, blocked, or its behaviour is undefined.
Halted == engine # "running" /\ UNCHANGED vars

EngineStep ==
    \/ FlushTimer \/ NextInput \/ EndCreate \/ EndRoutes \/ EndInput
    \/ \E c \in Chunks : DispatchChunk(c) \/ StartTask(c)
    \/ \E o \in Outputs : SkipRoute(o)
    \/ \E s \in Slots : StartRoute(s) \/ handle_output_event(s)
    \/ flush_one \/ Settle
    \/ \E P \in SUBSET {s \in Slots : req[s] = "wait"} : Promote(P)
    \/ \E r \in Slots : flb_engine_dispatch_retry(r) \/ FireStale(r)
    \/ flb_engine_manager \/ EngineStop \/ EngineShutdown

FlushStep ==
    \E s \in Slots : \/ StartFlush(s) \/ LoseFlush(s)
                    \/ \E ret \in Returns : flb_output_return(s, ret)

InputStep ==
    \/ \E c \in Chunks : \/ Ingest(c)
                       \/ \E o \in Outputs, scope \in {"local", "global"} :
                            ReleaseSpace(c, o, scope)
    \/ flb_engine_exit

Next == EngineStep \/ FlushStep \/ InputStep \/ Halted

Spec == Init /\ [][Next]_vars

------------------------------------------------------------------------------
(* Properties. *)

TaskType ==
    /\ chunk \in [Chunks -> {"absent", "ready", "busy", "gone"}]
    /\ up \in [Chunks -> BOOLEAN]
    /\ mask \in [Chunks -> SUBSET Outputs]
    /\ tasks_map \in [TaskIds -> Chunks \cup {Free, Dangling}]
    /\ task \in [Chunks -> {"none", "new", "running"}]
    /\ users \in [Chunks -> Int]
    /\ route \in [Chunks -> [Outputs -> {"none", "inactive", "active", "dropped"}]]
    /\ attempts \in [Chunks -> [Outputs -> Nat]]
    /\ counted \in [Chunks -> [Outputs -> Seq({"proc", "dropped"})]]

FlushType ==
    /\ flush \in [Slots -> {"none", "pending"} \cup InFlight]
    /\ carries \in [Slots -> {"none", "live", "stale"}]
    /\ pending \in [Outputs -> Seq(Slots)]
    /\ in_progress \in [Outputs -> BOOLEAN]
    /\ req \in [Slots -> {"none", "wait", "now", "stale"}]

LoopType ==
    /\ engine \in {"running", "stopped", "undefined", "blocked"}
    /\ pc \in {"loop", "input", "create", "start", "route", "queue", "settle", "stop"}
    /\ inputs \subseteq Inputs /\ in \in Inputs \cup {None}
    /\ walk \subseteq Chunks /\ cur \in Chunks \cup {None} /\ left \subseteq Outputs
    /\ back \in Slots \cup {NoFlush}
    /\ manager \in Nat /\ posted \in 0 .. MaxStops /\ grace_count \in Nat

FlagType ==
    /\ hits \in BOOLEAN /\ seen \in BOOLEAN /\ stopping \in BOOLEAN
    /\ ingestion \in BOOLEAN /\ timer \in BOOLEAN

\* The state of the engine is well formed: statuses of chunks, routes, flushes and
\* requests are those of the code, queues hold flushes, counters are numbers.
TypeOK == TaskType /\ FlushType /\ LoopType /\ FlagType

\* The flushes of a task that the engine has not settled yet.
Flushes(c) == {s \in Slots : s[1] = c /\ flush[s] # "none"}

\* Every unsettled flush is a user of its task and the task is still in
\* tasks_map: the value a flush returns (FLB_TASK_ID) never names a task that
\* flb_task_users_release destroyed, whatever fails, is retried or is stopped.
UsersCoverFlushes ==
    \A c \in Chunks :
      /\ Cardinality(Flushes(c)) <= users[c]
      /\ Flushes(c) # {} => task[c] # "none" /\ \E i \in TaskIds : tasks_map[i] = c

\* Each task has exactly one id, and an id names a live task or nothing: ids are
\* never shared and flb_task_destroy frees them (flb_task_map_*).
TaskIdsExact ==
    /\ \A i \in TaskIds : tasks_map[i] \in Chunks => task[tasks_map[i]] # "none"
    /\ \A c \in Chunks : task[c] # "none" =>
         \E i \in TaskIds : \A j \in TaskIds : tasks_map[j] = c <=> j = i

\* A retry never has more attempts than the retry_limit of its output allows.
RetriesBounded ==
    \A c \in Chunks, o \in Outputs : RetryLimit[o] >= 0 => attempts[c][o] <= RetryLimit[o]

Owners(c, o) == Cardinality({s \in Slots : s[1] = c /\ s[2] = o /\ flush[s] # "none"})
              + Cardinality({s \in Slots : s[1] = c /\ s[2] = o /\ req[s] # "none"})

\* A retry context is either waiting in the scheduler or being flushed, never
\* both and never neither: no retry is forgotten and none is flushed twice.
RetryOwned ==
    \A c \in Chunks, o \in Outputs :
      /\ attempts[c][o] > 0 => Owners(c, o) = 1
      /\ attempts[c][o] = 0 => \A k \in Copies : req[<<c, o, k>>] = "none"

\* Between two events of the loop, a task that was started is kept by a user or
\* by a retry: no chunk stays busy with nobody left to finish it.
NoStrandedTask ==
    pc = "loop" => \A c \in Chunks : task[c] = "running" => users[c] > 0 \/ HasRetry(c)

\* The content of a chunk stays mapped while a flush of it is handed over or
\* running (the corruption flb_task_retry_create guards against).
ChunkUpWhileFlushed ==
    \A s \in Slots : flush[s] \in {"wire", "active"} => up[s[1]]

\* FLB_OUTPUT_SYNCHRONOUS: an output runs one task at a time.
OneTaskAtATime ==
    \A o \in Sync : \A s, t \in Slots :
      s[2] = o /\ t[2] = o /\ {flush[s], flush[t]} \subseteq {"wire", "active"} => s = t

\* A task waits in a singleplex queue only behind one in progress, whose return
\* will flush it: the queue never stalls.
QueueServed ==
    pc # "queue" => \A o \in Sync : pending[o] # <<>> =>
      in_progress[o] /\ \E s \in Slots : s[2] = o /\ flush[s] \in InFlight

\* No freed retry or queue entry is ever used.
NoUseAfterFree == engine # "undefined"

\* The task ids bound what is in the pipe that only the engine reads
\* (ch_self_events): until a stop, one value per id and output of the engine
\* thread.  The 2048 ids of the build and a pipe of 64 KiB, or 8192 values, leave
\* room for four such outputs; with more of them a write can block for ever.
SelfPipeBounded ==
    ingestion => Cardinality(SelfEvents) <= MaxTasks * Cardinality(Outputs \ Threaded)

\* A chunk only disappears once the metrics of every output it was routed to
\* count its records as processed or dropped.
NoSilentLoss ==
    \A c \in Chunks : chunk[c] = "gone" =>
      \E R \in Masks : mask[c] \subseteq R /\ \A o \in R : counted[c][o] # <<>>

\* tasks_start has not come to the route o of c yet.
NotStarted(c, o) ==
    \/ chunk[c] \in {"absent", "ready"} \/ task[c] = "new"
    \/ pc = "route" /\ cur = c /\ o \in left

\* Until the engine is stopped, each route of a chunk is in one place: a flush, a
\* request of the scheduler, or one addition to the metrics of its output.  So no
\* record is delivered twice or counted twice.  From the stop on, which flushes a
\* retry in flight a second time, it is in one place at least: counted twice then,
\* possibly once as processed and once as dropped, but never forgotten.  Outputs
\* with a storage limit, whose routes are dropped for space whether they were
\* delivered or not, and NO_MULTIPLEX outputs, which are skipped, are left out.
CountedOnce ==
    \A c \in Chunks : \A o \in mask[c] \ (Limited \cup NoMux) : ~NotStarted(c, o) =>
      LET places == Owners(c, o) + Len(counted[c][o])
      IN  places >= 1 /\ (ingestion => places = 1)

UsersCount       == \A c \in Chunks : Cardinality(Flushes(c)) <= users[c]
FlushHasTask     == \A s \in Slots : flush[s] # "none" => task[s[1]] # "none"
RetryHasTask     == \A c \in Chunks, o \in Outputs : attempts[c][o] > 0 => task[c] # "none"
RequestHasRetry  == \A s \in Slots : req[s] \in {"wait", "now"} => attempts[s[1]][s[2]] > 0
TaskHasChunk     == \A c \in Chunks : task[c] # "none" => chunk[c] = "busy"

\* The queue of an output holds each of its pending flushes once.
QueueInv ==
    \A o \in Outputs :
      /\ \A i \in DOMAIN pending[o] : pending[o][i][2] = o /\ flush[pending[o][i]] = "pending"
      /\ \A i, j \in DOMAIN pending[o] : pending[o][i] = pending[o][j] => i = j

\* What the variables of the engine thread's loops still hold on to.
ThreadInv ==
    /\ pc \in {"queue", "settle"} => back \in Slots /\ flush[back] \in Returns
    /\ pc = "route" => cur \in Chunks /\ task[cur] # "none"
    /\ pc = "create" => \A c \in walk : chunk[c] = "ready"

\* The inductive invariant behind UsersCoverFlushes and TaskIdsExact: users cover
\* flushes, flushes and retries keep their task, live requests their retry, tasks
\* their chunk, and the loops of the engine thread only hold what still exists.
EngineInv ==
    /\ UsersCount /\ FlushHasTask /\ RetryHasTask /\ RequestHasRetry /\ TaskHasChunk
    /\ QueueInv /\ TaskIdsExact /\ ThreadInv

\* Before its grace runs out the engine only stops once every task is flushed:
\* neither a running flush nor a retry that waits is cut short.
AllFlushedAtStop ==
    engine = "stopped" /\ (Grace = -1 \/ grace_count < Grace) =>
      \A c \in Chunks : task[c] = "none"

------------------------------------------------------------------------------
(* Liveness. *)

\* A handler of the engine thread runs to its end, its loop comes round to every
\* kind of event that stays ready (strong fairness, as the handlers alternate),
\* and the threads of the outputs read their pipes.
EngineFairness ==
    /\ WF_vars(pc # "loop" /\ EngineStep)
    /\ SF_vars(FlushTimer) /\ SF_vars(flb_engine_manager) /\ SF_vars(EngineShutdown)
    /\ SF_vars(\E s \in Slots : handle_output_event(s))
    /\ SF_vars(\E s \in Slots : StartFlush(s))
    /\ SF_vars(\E s \in Slots : flb_engine_dispatch_retry(s))
    /\ SF_vars(\E P \in SUBSET {s \in Slots : req[s] = "wait"} : Promote(P))

\* The flush callback of a plugin ends.
PluginFairness ==
    SF_vars(\E s \in Slots : flush[s] = "active" /\ \E ret \in Returns : flb_output_return(s, ret))

LiveSpec == Spec /\ EngineFairness

\* When the callbacks of the plugins end, every chunk is eventually delivered or
\* dropped, unless the engine stops.
ChunksFinish ==
    PluginFairness =>
      \A c \in Chunks : chunk[c] = "ready" ~> chunk[c] = "gone" \/ engine # "running"

\* flb_engine_exit stops the engine, even when a plugin never returns.
StopsOnExit == posted > 0 ~> engine # "running"
==============================================================================
