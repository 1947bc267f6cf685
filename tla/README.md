# A verification of Fluent Bit and of the Vault secrets operator

TLA+ specifications of the two programs of this repository, Fluent Bit 3.2.2
(`src/fluent-bit@3.2.2`) and vault-secrets-operator 1.26.0 (`src/vso-v1.26.0`),
model-checked with TLC and proved with TLAPS. Of Fluent Bit they cover the way of a
record: from a plugin, through the ring buffer of a threaded input, into a chunk
that limits may drop or a kill may tear, to a task that is flushed, retried and
released, and how the engine stops. Of the operator they cover the reconcile loop.
File names below are relative to the program they belong to.

## The systems

| Part | Source | Here |
|---|---|---|
| Engine loop, stop sequence | `src/flb_engine.c` | `FlbEngine` |
| Dispatch of chunks, tasks and retries | `src/flb_engine_dispatch.c` | `FlbEngine` |
| Tasks, ids, routes, retries | `src/flb_task.c`, `flb_task.h` | `FlbEngine` |
| Flush coroutines, singleplex queue | `src/flb_output.c`, `flb_output.h` | `FlbEngine` |
| Output workers | `src/flb_output_thread.c` | `FlbEngine` (one pipe per output) |
| Retry scheduler | `src/flb_scheduler.c` | `FlbEngine` (without durations) |
| Input chunks, memory and disk limits | `src/flb_input_chunk.c` | `InputChunks` |
| Storage backlog | `plugins/in_storage_backlog/sb.c` | `InputChunks`, `ChunkStorage` |
| Threaded inputs, ring buffer, pause and resume | `src/flb_input*.c`, `src/flb_ring_buffer.c`, `lib/lwrb` | `InputPipeline`, over `InputChunks` |
| What a threaded input is promised | the same | `RecordQueue` (abstract) |
| Chunk files, kills and restarts | `lib/chunkio` | `ChunkStorage` |
| Vault secrets operator | `controllers/vaultsecret_controller.go`, `vault/client.go` | `VaultOperator` |

How the parts of Fluent Bit interact. A plugin appends records to a chunk of its
input, directly or, in a thread of its own, through a ring buffer that the engine
empties. The append pauses the input at its limits and drops the oldest chunks of a
limited output. Chunks in files outlive the process and come back through the
backlog. The flush timer calls `flb_engine_flush`, which visits every input: each
ready chunk gets a task with a free id of `tasks_map` and one route per output of its
mask, and `tasks_start` starts a flush for every route. A flush is a coroutine.
Without workers the engine thread runs it: its address goes through the pipe
`ch_self_events`, which the engine both writes and reads. With workers the task goes
through the pipe of a worker thread. The plugin returns OK, RETRY or ERROR through
another pipe and `handle_output_event` settles it. RETRY makes a retry context and a
request to the scheduler, whose timer calls `flb_engine_dispatch_retry`. A task
counts its users (flushes, and entries of a synchronous output's queue); the one who
removes the last user of a task without retries destroys it, its id and its chunk,
and the limits of the input are looked at again. `flb_engine_exit` writes STOP to the
manager pipe: the engine flushes once more, brings every retry forward, pauses the
inputs, and checks every second whether it may stop.

The operator watches VaultSecret objects. Reconcile reads one from the informer's
cache, points the shared Vault client (or one made for its `vaultRole`) at its
namespace, reads Vault, writes the Secret, reports in the status, and keeps a
finalizer to remove its metrics. A token renewal runs beside it and uses the shared
client.

`PROJECT.json` maps each definition to the lines it models.

## FlbEngine.tla

A task is named by its chunk: a chunk is busy exactly while it has a task.

| Variable | Code |
|---|---|
| `chunk`, `up`, `mask` | membership of `in->chunks` and `ic->busy`; content mapped; `ic->routes_mask` |
| `tasks_map`, `task`, `users`, `route` | `config->tasks_map`, `task->status`, `task->users`, status of `task->routes` |
| `attempts` | `task->retries`, 0 when a route has no retry |
| `flush` | one value per flush of a route: `pending` in the singleplex queue, `wire` handed over but not started, `active` in the callback, then the returned value |
| `pending`, `in_progress`, `carries` | the two lists of the singleplex queue, the retry a queue entry points to |
| `req` | the requests of a retry: `wait` in `requests_wait`, `now` with a timer, `stale` when the retry it points to was freed |
| `pc`, `inputs`, `in`, `walk`, `cur`, `left`, `hits`, `seen`, `back`, `stopping` | where the engine thread is in the loops of `flb_engine_flush`, `flb_engine_dispatch`, `tasks_start` and `handle_output_event` |
| `manager`, `timer`, `ingestion`, `grace_count` | manager pipe, shutdown timer, `is_ingestion_active`, `grace_count` |
| `engine` | `running`, `stopped`; `undefined` once freed memory is used; `blocked` on its own pipe |
| `counted` | the metrics, processed or dropped, that the records of a route were added to, in order |

Actions carry the names of the functions they model where there is one function.
A handler whose calls a worker can interleave with is cut into steps by `pc`; the
rest are single steps. Choices of the abstraction:

- Failing calls are named by `Failures`; a run without them explores the code
  when allocation, pipes, timers and storage work.
- Durations are left out: a request in `wait` is promoted and an armed one fires
  at any later time. The event loop serves events that are ready together by
  priority; the model allows every order, so it has all behaviours of the code
  and some that the priorities exclude.
- The status of a direct route is never initialised; it is any of the statuses.
- The lists of tasks and chunks are visited in any order.
- Of flushes with several workers only the interleaving with the engine counts:
  each flush of a threaded output steps by itself.
- Sizes are left out: which chunks are dropped for space is a choice here, and
  `InputChunks` has the arithmetic.
- The formatter test mode, the tear-down after the loop and the reload are left out.

## InputChunks.tla

Everything here runs in the engine thread one call at a time, so the state is one
record `st` and each C function is an operator from a state to a state; an action is
one callback of a plugin (`Ingest`, a `Burst` of appends), one pass of
`cb_queue_chunks`, one dispatch, or one answer of an output.

| Field of `st` | Code |
|---|---|
| `chunk`, `list` | the chunks (input, size of the content, size of the file, `fs_size` last synced, `up`, `locked`, `busy`, mask, routes flushed and waiting for a retry) and `in->chunks` in order |
| `mem`, `mem_paused`, `storage_paused` | `mem_chunks_size`, `mem_buf_status`, `storage_buf_status` |
| `running`, `events` | the collectors run; messages in the pipe of a threaded input |
| `fs`, `fs_backlog`, `queue` | `fs_chunks_size`, `fs_backlog_chunks_size` and the backlog queue of each output |
| `ingestion` | `is_ingestion_active` |

Sizes are small integers that keep what the code tells apart: content and file size,
whole pages, the size a file had when it was last synced. A record has size one. The
task is reduced to the routes being flushed and those waiting for a retry. When
`cb_queue_chunks` drops a damaged chunk it reads its size after freeing it; the model
takes both outcomes, the size and zero. A filter may keep nothing of an append. What
an input holds in memory is what is up in its stream; a chunk of the backlog stays in
the stream of the input that wrote it (`Writer`) and never counts for the backlog.

## InputPipeline.tla and RecordQueue.tla

`InputPipeline` extends `InputChunks` with the thread of an input. The ring has bytes
(`buff`) and two indices (`w`, `r`), `flush_pending` and the signal pipe; every access
to one of these is a step. An entry is written and read byte by byte and may wrap
anywhere. `pc`, `cr`, `retries`, `av` are the locals of the append in the input's
thread; `epc`, `at`, `got` those of the collector in the engine thread, which runs on
a signal and on a timer. `handed` and `refused` record what reached
`input_chunk_append_raw`. Loads and stores of the indices are seen in program order,
which the library relies on.

`RecordQueue` is the promise: a record that is accepted is handed over once, whole, in
order, and at most `Capacity` wait. `Ring` instantiates it with the entries between
the two indices as its queue; `RingIsQueue` says that `InputPipeline` implements it.

## ChunkStorage.tla

The life of a chunk file step by step. Files are mapped with `MAP_SHARED`, so a kill
keeps what was stored; it may come between any two steps. `disk` has the header
(content length, checksum, metadata) and the body of each file, a sequence of cells: a
record, a torn record, or zero. `chunk` has the process's view (`data_size`, `synced`,
`crc_cur`, up, locked) and the stage of the chunk, `job` the append under way. A
checksum is what it was computed over and whether it was finalized. A chunk in a task
has flushes running and retries due; a stop (`flb_engine_reschedule_retries`) gives a
retry that is being flushed a second flush, and `cio_destroy` ends the process while
work may be left. `exposed` names the files a kill leaves without a valid checksum,
`repeated` the records that may be delivered again: their file was to be deleted when
the process ended, or a stop flushed their retry twice.

Simplifications: one input and one tag; the creation of a file and its header is one
step; so is the content length, which the source stores in four bytes one by one (a
kill between these could leave a length that is neither the old nor the new one); a
torn record never parses as a record; refusals at `max_chunks_up` are in
`InputChunks` instead, but a new chunk that is put down at once and brought up for its
first append is here; nothing is appended once the engine stops; system calls do not fail, and a power cut, which loses pages, is
not modelled.

## VaultOperator.tla

One VaultSecret, which may be deleted and created again, and the Secret of its name.
Reconcile is cut at its calls (`pc`): `ReconcileStart`, `RemoveFinalizer`,
`SetNamespace`, `GetSecret`, `CreateSecret` or `UpdateSecret`, `updateConditions`,
`AddFinalizer`. Each call may fail. `cr` and `secret` are the objects in the API
server, `cache` and `scache` the informer's copies, which lag, `me` and `want` the
copies of Reconcile. External, from how the controller uses them: the API server (an
update needs the latest version), the informer, the work queue with one worker, the
garbage collector, Vault. `RenewToken` switches the namespace of the shared client at
any time, between `SetNamespace` and `GetSecret` too, and a Reconcile then reads and
writes data of another namespace, unless its client is one of its own (`config.role`).
`Crash` kills the operator and loses its queue and copies.

`mishaps` records three races, which the properties name as their exceptions:

- `skipped`: the update was skipped because an outdated cached copy of the Secret was
  right. Without a period nothing corrects it, as updates of a Secret, which has no
  generation, never pass the event filter.
- `unfinalized`: the VaultSecret was deleted before it had the finalizer.
- `unknown`: a Reconcile with a copy of a deleted VaultSecret ended in
  `updateConditions`, which sets its metrics again.

## Runs

| Run | Instance | States | Shows |
|---|---|---|---|
| `tasks` | 2 chunks, 1 id, outputs with and without workers, 1 retry | 18,541 | types, ids, retries owned by exactly one flush or request, no stranded task, no record lost, each route in one place (a flush, a request, or counted once), no chunk put down under a flush, what the engine's own pipe has to hold |
| `faults` | 1 chunk, a synchronous output of the engine thread, every failure, limits, direct routes, 2 stops, up to 3 copies of a flush | 154,187 | a returned flush names a live task, retries stay within the limit, the inductive invariant `EngineInv` |
| `modes` | 2 chunks, a synchronous output with workers and a storage limit, a NO_MULTIPLEX output without retries | 1,796,306 | one task at a time on the synchronous output, a queue that never stalls, no request outlives its retry when space is released |
| `live` | 2 chunks, 1 id, an output with workers, 1 stop | 27,652 | every chunk finishes when plugins return; the engine stops even when they do not, and not before its grace while a task is left; a retry that the stop flushes twice may be counted twice, and is counted once at least |
| `limits` | a memrb input, a file input paused at `max_chunks_up`, a backlog with a damaged chunk, one limited output of two | 309,210 | disk counters are exact, memory is bounded, no chunk is taken from a flush, pauses end |
| `thread` | a threaded input with a memory limit, a ring of two entries of two bytes, 3 records | 114,685 | the ring implements the queue, threads agree on pauses, before and after the stop; no record is refused, all arrive, and the memory limit holds |
| `storage` | 2 files, 3 records, appends of up to 2, 2 kills or stops, with and without checksum | 421,561 | synced files read back, acknowledged records survive and are delivered, repeats only when the process ends between delivery and deletion or a stop meets a retry in flight |
| `vault` | 2 paths, with a period, with a `vaultRole` and with neither, 2 outside events | 322,137 | copies, status and metrics are consistent; the operator converges to the current data of the right namespace, deletions complete, no Secret is orphaned |
| `retry_down`, `two_stops`, `paused`, `truncate` | see below | | disagreements with comments of the code |

Bounds. Two chunks and one id make ids run out. The pipe of the engine is larger than
what `tasks` writes to it: `SelfPipeBounded` says how large it has to be, one value per
id and output of the engine thread until a stop. With the 2048 ids of the build and a
pipe of 64 KiB that is room for four such outputs; with five the engine can block for
ever on its own write. `MaxCopies` bounds flushes
and requests of one route: without stops one suffices (`RetryOwned` shows it, and the
bound stays open in `faults` and `two_stops`, where a stop adds at most one copy each).
`MaxAttempts` bounds retries of an output without limit and is not reached otherwise.
`MaxStops` bounds `flb_engine_exit`. In `limits` the disk limit of three pages is less
than what the file input and the backlog can fill, and two chunks up are fewer than
the files, so every kind of release and pause happens. In `thread` the
ring has five bytes for entries of two, so entries wrap at every place, and three
records overfill it. In `storage` an append to a partly filled file of two cells
makes it grow, and two kills allow one in the recovery from another. In `vault`
two outside events (edits, deletions, faults, renewals, crashes) allow every race of
two of them. The theorems below hold for every value of the bounds of their modules.

Deadlock is not checked where the system may come to rest because ingestion has stopped
or the bounded inputs are used up (`limits`, `paused`, `thread`, `storage`, `truncate`,
`vault`).

Fairness.

- `EngineFairness`: the engine thread finishes a handler it started, and its loop
  returns to every event that stays or becomes ready again. This is strong fairness
  because another handler may run in between. The epoll loop, with finitely many
  level-triggered descriptors, justifies it as long as timers of higher priority do
  not expire faster than they are served. `PluginFairness`: a flush callback returns;
  only `ChunksFinish` assumes it.
- `InputChunks`: the engine comes back to the chunks of an input that may be paused;
  outputs answer and due retries go out. `InputPipeline` adds that both threads run
  and that the collector's timer keeps firing. The conditions under which these
  actions are enabled are written out.
- `ChunkStorage`: the process is started again, the engine works on every chunk, and
  an output that retries answers OK in the end (`retry_limit` is not a concern of that
  module).
- `VaultOperator`: informers catch up, the garbage collector and the queue's worker
  run. Faults are outside events and finitely many.

### Disagreements

- `retry_down`: `flb_task_retry_create` says that a chunk may only be put down
  without other users, "otherwise it can lead to a corruption", but the chunk of a
  task with a single route always is. A stop that reschedules a retry in flight
  makes two flushes of the route, and the first to return RETRY puts the chunk
  down under the other.
- `two_stops`: `flb_sched_request_invalidate` wants "all requests" of a retry
  destroyed and destroys the first. Two stops before the first shutdown tick can
  leave a retry with two requests, of which one survives it and fires. TLC prints
  a short trace in which an output event overtakes an expired timer. The priorities
  make that unlikely, but they do not exclude the failure: with a limit of three
  retries, the two stops make three flushes of the route, two return RETRY and get
  a delayed request each, the third returns OK, destroys the retry and
  invalidates one of the two.
- `paused`: `flb_input.h` says of a paused input that "When the buffer size goes down
  (because data was flushed), a resume() callback will be triggered".
  `flb_input_chunk_release_space` destroys a chunk that has no task without looking at
  the limits of its input. An input paused at `mem_buf_limit`, whose only chunk is
  dropped to make room on a limited output for another input's chunk, holds nothing
  and is never resumed. In `limits` the input that can pause is the only one
  that appends to the limited output, a paused input does not append, and pauses end.
- `truncate`: `flb_input_chunk_map` means to "truncate the chunk to recover valid
  records", but the cut stays in memory: the chunk is put down unsynced and the next
  flush reads the old length. A kill in the first append to a file leaves a length to
  be inferred, and the output is handed the torn record or the zeros behind it.

The operator's README says of a VaultSecret with a namespace that "The Vault Namespace,
which is used to get the secret in the above example will be `my/root/ns/team1`". A token
renewal between setting the namespace and reading makes it another one. This has no run
of its own: `Converges` (run `vault`) states what remains true, that a periodic Reconcile
puts the Secret right and that a client made for `vaultRole` is not affected.

Two more have no run, because they need an output with `FLB_OUTPUT_NO_MULTIPLEX`,
which no plugin of the tree sets: retries ignore the flag ("run one task at a time, one
task per flush"), and a task that waits for such an output is not counted when the engine
decides whether it may stop.

## Proofs

For any finite sets of chunks and outputs, any bounds, and with every failure allowed,
`EngineTypes.tla` proves `Spec => []TypeOK`, `EngineLemmas.tla` has the lemmas on
counting, ids and shared helpers, `EngineSteps.tla` shows that every action of
`FlbEngine` preserves the invariant, and `EngineProofs.tla` draws the theorems:

- `EngineInvariant`: `Spec => []EngineInv`;
- `FlushesKeepTask`: `Spec => []UsersCoverFlushes`. The value a flush returns
  never names a destroyed task, however workers, retries, failures, space
  release and stops interleave;
- `IdsExact`: `Spec => []TaskIdsExact`;
- `RetryLimitHolds`: `Spec => []RetriesBounded`.

The argument. That a flush keeps its task is not inductive: the task is destroyed
when its user count drops to zero, so the count must cover the flushes
(`UsersCount`); a settled flush must be one that is still counted
(`ThreadInv`: `back` has returned and is not settled), and a pending flush that
fails in the queue must not be counted twice (`QueueInv`). A task is also destroyed
when space is released, with users zero and possibly with retries, so retries and
requests must go with it (`RetryHasTask`, `RequestHasRetry`). A new task must not
have flushes or retries of an earlier life (`TaskHasChunk` and `ThreadInv` for the
chunks a loop still has to visit). `EngineInv` is the conjunction. Its proof has a
lemma per family of actions. The lemmas on cardinalities (`CountStep`,
`LastFlush`) connect `users` to the set of flushes; `FreeIdFound` shows that the
lowest free id exists. The finiteness of the sets is the assumption
`InstanceAssumption`, the numeric constants are in `BoundAssumption`; TLC
evaluates both.

`VaultProofs.tla` proves about `VaultOperator`, for any nonempty set of paths, any
configurations and any number of outside events (`OperatorAssumption`):

- `OperatorTypes`: `Spec => []TypeOK`;
- `MetricsHold`: `Spec => []MetricsRemoved`. Strengthened by the metrics being
  gone when Reconcile is about to remove the finalizer;
- `CopiesHold`: `Spec => []CopiesFollow`;
- `StatusHolds`: `Spec => []StatusHonest`. When the condition is True for the current
  generation, the Secret the VaultSecret owns was written from its current spec.

The argument for the last two. The status is written from a copy, after the Secret was
written from the same copy, and either write may hit an object that moved on. So the
Secret to be written must be for the copy (`Prepared`), the Secret must still be right
for the copy when the status is written (`Stored`), and the update of the status
succeeds only with the latest version, which has the copy's generation and path
(`CopiesFollow`). A later Reconcile may overwrite the Secret from an older copy; that
is excluded because a generation that was observed is the one every copy has (`Seen`).
`StatusInv` is the conjunction, with a lemma per family of actions.

Model-checked only: `NoUseAfterFree`, `RetryOwned`, `NoStrandedTask`, `NoSilentLoss` and
the others of `FlbEngine`, which depend on the configuration (which calls fail, how
often the engine is stopped); the properties of `InputChunks`, `InputPipeline` and
`ChunkStorage`, which rest on sums over chunks and on sequences built by folds, and so on
induction over data; the refinement `RingIsQueue`, whose mapping reads a sequence out of a
byte buffer; and all liveness, which rests on fairness and `ENABLED`.

## Not modelled

The tree has about 1.5 million lines, most of them in bundled libraries and about a
hundred plugins. The modules cover the core that has shared state and concurrency. What
is left out, and why:

- Router, parsers, encoders, filters, processors, multiline, stream processor: sequential
  transformations of strings and records inside one step of the engine.
- Plugins: independent of each other; the engine sees an output as a callback that returns
  OK, RETRY or ERROR at some time, and an input as a source of appends. Both are modelled
  as exactly that. `in_storage_backlog` is the exception, because it shares the accounting
  of the chunks.
- Upstream connections, HTTP, TLS, cloud signing: network I/O driven by events and timeouts
  of its own; a connection's fate reaches the engine as the result of a flush.
- Event loop and bucket queue: every order of ready events is allowed.
- Hot reload and the library API: only `flb_engine_exit`. A reload stops one engine and
  starts another in a new context. The tear-down after the loop (`flb_engine_shutdown`)
  is not modelled either.
- Durations: backoff and jitter of retries, the second of the shutdown tick, timeouts of
  plugins. All are "some time later".
- Chunk tracing, a chunk found corrupted when it is brought up for an append, chunks of
  several tags and event types of one input, inputs that are not routable (the streams of
  the stream processor), transactions of the storage layer, failing system calls of the
  storage layer, and power cuts. Two paths of the code are left out with the failing
  calls: an append whose write fails returns without putting the chunk down or looking at
  the limits (`flb_input_chunk.c`, `input_chunk_append_raw`); and `cb_queue_chunks` tries
  a chunk that cannot be brought up again at once, without end while that fails.
- Of the operator: the restricted namespace, the PKI engine (it requeues like a period),
  templates, the failure counter of the renewal behind the health probes, several
  VaultSecrets, leader election.
- `src/vso-experiment` and `src/helm-ns-hook-bug` are scripts, manifests and recorded
  output; there is no program to model.
- Bundled libraries other than `lwrb` and `chunkio`: third-party code used through its
  interfaces.
