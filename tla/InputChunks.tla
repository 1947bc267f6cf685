---------------------------- MODULE InputChunks ----------------------------
(***************************************************************************)
(* The chunks of the input instances and the limits that govern them       *)
(* (src/flb_input_chunk.c): the memory limit and the limit on chunks that  *)
(* are up pause and resume an input, the disk limit of an output drops the *)
(* oldest chunks, and the chunks a previous run left on disk come back     *)
(* through the queues of the storage_backlog input                         *)
(* (plugins/in_storage_backlog/sb.c).                                      *)
(*                                                                         *)
(* All of it runs in the engine thread, one call at a time, so the state   *)
(* is one record `st` and each C function is an operator from a state to a *)
(* state.  The task of a chunk is reduced to what this code reads of it:   *)
(* the routes being flushed and the routes waiting for a retry; a route is *)
(* active from its dispatch on (FlbEngine has the steps in between).       *)
(***************************************************************************)
EXTENDS Integers, Sequences, FiniteSets, SequencesExt, FiniteSetsExt

CONSTANTS
  InputList,      \* config->inputs, in order
  OutputList,     \* config->outputs, in order
  Kind,           \* storage.type of an input: "memory", "memrb", "filesystem"
  Routes,         \* the outputs an input's tag matches
  Threaded,       \* the inputs that run in a thread of their own
  Pauses,         \* the inputs with storage.pause_on_chunks_overlimit
  MemLimit,       \* mem_buf_limit of an input, 0 when there is none
  TotalLimit,     \* storage.total_limit_size of an output, -1 when there is none
  Retries,        \* the outputs that retry, once (retry_limit); the others never do
  MaxChunksUp,    \* storage.max_chunks_up
  ChunkMax,       \* FLB_INPUT_CHUNK_FS_MAX_SIZE
  Page,           \* the unit in which a chunk file grows
  Ids,            \* bound: the chunks of an input that can exist at a time
  Burst,          \* bound: appends in one callback of a plugin
  Backlog,        \* the storage_backlog input
  Old,            \* chunks of Backlog left by a previous run, with their content size
  Writer,         \* the input that wrote one of Old: its file is in that input's stream
  Bad,            \* those of Old that cannot be brought up or mapped
  BacklogLimit    \* storage.backlog.mem_limit

VARIABLE st

Inputs == ToSet(InputList)
Outputs == ToSet(OutputList)
Limited == {o \in Outputs : TotalLimit[o] # -1}
NoChunk == 0

ASSUME IdsAssumption ==
  /\ \A i \in Inputs : Ids[i] \subseteq Nat \ {NoChunk} /\ MemLimit[i] \in Nat
  /\ \A i, j \in Inputs : i # j => Ids[i] \cap Ids[j] = {}
ASSUME BacklogAssumption == Kind[Backlog] = "filesystem" /\ DOMAIN Old \subseteq Ids[Backlog]

InFile(k) == Kind[k.in] = "filesystem"
Users(k) == Cardinality(k.active)

(* The file of a chunk of n bytes: whole pages, at least one. *)
FileSize(n) == Max({1, (n + Page - 1) \div Page}) * Page

(* cio_chunk_get_real_size: the content of a memory chunk; of a file the   *)
(* size noted when it was last synced, or its size on disk when it never   *)
(* was.                                                                    *)
RealSize(k) == IF ~InFile(k) THEN k.size
               ELSE IF k.fs_size # 0 THEN k.fs_size ELSE k.file

(* A number added to the counter of each of some outputs. *)
AddTo(count, outs, n) == FoldSet(LAMBDA o, f : [f EXCEPT ![o] = @ + n], count, outs)

(* total_chunks_up. *)
TotalUp(s) == Cardinality({c \in DOMAIN s.chunk : InFile(s.chunk[c]) /\ s.chunk[c].up})

ChunkUp(k) == [k EXCEPT !.up = TRUE, !.fs_size = k.file]
ChunkDown(k) == IF InFile(k) /\ k.up
                THEN [k EXCEPT !.up = FALSE, !.fs_size = k.file] ELSE k

(* cio_chunk_lock syncs a file that is up. *)
ChunkLock(k) == IF k.locked THEN k
                ELSE [k EXCEPT !.locked = TRUE,
                               !.fs_size = IF InFile(k) /\ k.up THEN k.file ELSE @]

(* The chunkio stream a chunk is in: that of its input, but a chunk of the *)
(* backlog stays in the stream of the input that wrote it.                 *)
Stream(s, c) == IF c \in DOMAIN Old THEN Writer[c] ELSE s.chunk[c].in

(* What is up in the stream of the input, whoever has the chunks. *)
flb_input_chunk_total_size(s, i) ==
  MapThenSumSet(LAMBDA c : s.chunk[c].size,
                {c \in DOMAIN s.chunk : Stream(s, c) = i /\ s.chunk[c].up})

flb_input_buf_paused(s, i) == s.mem_paused[i] \/ s.storage_paused[i]

\* Mutant: the limit itself still counts as within the limit.
MemOverlimitPast(s, i) == MemLimit[i] > 0 /\ s.mem[i] > MemLimit[i]

MemOverlimit(s, i) == MemLimit[i] > 0 /\ s.mem[i] >= MemLimit[i]

StorageOverlimit(s, i) ==
  Kind[i] = "filesystem" /\ i \in Pauses /\ TotalUp(s) >= MaxChunksUp

(* An input in a thread of its own is told through its event pipe; for the *)
(* others the plugin's callback runs at once.  collector_resume starts     *)
(* nothing once ingestion is off, which set_limits has excluded already.   *)
flb_input_pause(s, i) ==
  IF flb_input_buf_paused(s, i) THEN s
  ELSE IF i \in Threaded THEN [s EXCEPT !.events[i] = Append(@, "pause")]
  ELSE [s EXCEPT !.running[i] = FALSE]

flb_input_resume(s, i) ==
  IF i \in Threaded THEN [s EXCEPT !.events[i] = Append(@, "resume")]
  ELSE [s EXCEPT !.running[i] = TRUE]

flb_input_chunk_set_limits(s, i) ==
  LET Memory(t) == IF ~MemOverlimit(t, i) /\ t.ingestion /\ t.mem_paused[i]
                   THEN flb_input_resume([t EXCEPT !.mem_paused[i] = FALSE], i) ELSE t
      Storage(t) == IF ~StorageOverlimit(t, i) /\ t.ingestion /\ t.storage_paused[i]
                    THEN flb_input_resume([t EXCEPT !.storage_paused[i] = FALSE], i) ELSE t
  IN Storage(Memory([s EXCEPT !.mem[i] = flb_input_chunk_total_size(s, i)]))

\* Mutant: the status is set first, and flb_input_pause then finds it set.
ProtectStatusFirst(s, i) ==
  IF StorageOverlimit(s, i)
  THEN flb_input_pause([s EXCEPT !.storage_paused[i] = TRUE], i)
  ELSE IF Kind[i] = "memory" /\ MemOverlimit(s, i)
  THEN flb_input_pause([s EXCEPT !.mem_paused[i] = TRUE], i)
  ELSE s

flb_input_chunk_protect(s, i) ==
  IF StorageOverlimit(s, i)
  THEN [flb_input_pause(s, i) EXCEPT !.storage_paused[i] = TRUE]
  ELSE IF Kind[i] = "memory" /\ MemOverlimit(s, i)
  THEN [flb_input_pause(s, i) EXCEPT !.mem_paused[i] = TRUE]
  ELSE s

flb_input_chunk_set_up_down(s, c) ==
  LET i == s.chunk[c].in
      counted == [s EXCEPT !.mem[i] = flb_input_chunk_total_size(s, i)]
      down == [counted EXCEPT !.chunk[c] = ChunkDown(@)]
  IN IF MemOverlimit(counted, i) /\ s.chunk[c].up
     THEN [down EXCEPT !.mem[i] = flb_input_chunk_total_size(down, i)]
     ELSE counted

flb_input_chunk_update_output_instances(s, c, diff) ==
  LET outs == s.chunk[c].mask \cap Limited
  IN [s EXCEPT !.fs = AddTo(@, outs, diff),
               !.chunk[c].fs_counted = @ \/ outs # {}]

Without(s, c) == [d \in DOMAIN s.chunk \ {c} |-> s.chunk[d]]

\* Mutant: a chunk that was never counted is given back too.
DestroyUncounted(s, c) ==
  LET k == s.chunk[c]
  IN [s EXCEPT !.fs = AddTo(@, k.mask \cap Limited, -RealSize(k)),
               !.chunk = Without(s, c),
               !.list[k.in] = Remove(@, c),
               !.last[k.in] = IF @ = c THEN NoChunk ELSE @]

(* The chunk leaves the instance and the disk; what it counted for the     *)
(* outputs it is still routed to is given back.                            *)
flb_input_chunk_destroy(s, c) ==
  LET k == s.chunk[c]
      outs == IF k.fs_counted THEN k.mask \cap Limited ELSE {}
  IN [s EXCEPT
        !.fs = AddTo(@, outs, -RealSize(k)),
        !.chunk = Without(s, c),
        !.list[k.in] = Remove(@, c),
        !.last[k.in] = IF @ = c THEN NoChunk ELSE @]

\* Mutant: the memory the chunk used is not looked at again.
TaskDestroyNoLimits(s, c) == flb_input_chunk_destroy(s, c)

flb_task_destroy(s, c) ==
  flb_input_chunk_set_limits(flb_input_chunk_destroy(s, c), s.chunk[c].in)

\* Mutant: the users of the task are not looked at.
AlwaysSafeDelete(k) == TRUE

(* A chunk can go when no output is using its task. *)
flb_input_chunk_is_task_safe_delete(k) == k.active = {}

(* A route is dropped unless it is being flushed right now. *)
flb_input_chunk_drop_task_route(k, o) == o \notin k.active

(* One input's chunks, oldest first, until the space is there: a "local"   *)
(* release takes the output off the chunk's routes and destroys the chunk  *)
(* when no route is left, a "global" one destroys the chunk.  A chunk      *)
(* whose task has users stays.                                             *)
flb_input_chunk_release_space(start, new, i, o, scope) ==
  LET Step(acc, c) ==
        LET k == acc.s.chunk[c]
            local == scope = "local"
            after == IF ~local THEN acc.s
                     ELSE [acc.s EXCEPT !.chunk[c].mask = @ \ {o}, !.fs[o] = @ - RealSize(k)]
            gone == /\ ~local \/ k.mask = {o}
                    /\ flb_input_chunk_is_task_safe_delete(k)
        IN IF acc.required <= 0 \/ c = new \/ o \notin k.mask
              \/ ~flb_input_chunk_drop_task_route(k, o)
           THEN acc
           ELSE [s |-> IF ~gone THEN after
                       ELSE IF k.busy THEN flb_task_destroy(after, c)
                       ELSE flb_input_chunk_destroy(after, c),
                 required |-> acc.required - (IF local \/ gone THEN RealSize(k) ELSE 0)]
  IN FoldLeft(Step, start, start.s.list[i])

(* The queues hold chunks that are not yet chunks of an input: one goes    *)
(* out of every queue it is in.                                            *)
sb_remove_chunk_from_segregated_backlogs(s, c) ==
  LET in == {o \in Outputs : Contains(s.queue[o], c)}
  IN [s EXCEPT
        !.queue = [o \in Outputs |-> Remove(s.queue[o], c)],
        !.fs_backlog = AddTo(@, in, -RealSize(s.chunk[c]))]

sb_drop(s, c) ==
  LET out == sb_remove_chunk_from_segregated_backlogs(s, c)
  IN [out EXCEPT !.chunk = Without(s, c)]

sb_release_output_queue_space(start, o) ==
  LET Step(acc, c) ==
        IF acc.required <= 0 THEN acc
        ELSE [s |-> sb_drop(acc.s, c), required |-> acc.required - RealSize(acc.s.chunk[c])]
  IN FoldLeft(Step, start, start.s.queue[o])

(* The chunks the backlog has queued already, those still in its queue,    *)
(* those of the input itself, then those of the other inputs.              *)
flb_input_chunk_release_space_compound(s, new, o) ==
  LET own == s.chunk[new].in
      Local(acc, i) == flb_input_chunk_release_space(acc, new, i, o, "local")
      start == [s |-> s, required |-> RealSize(s.chunk[new])]
  IN FoldLeft(Local,
              sb_release_output_queue_space(
                flb_input_chunk_release_space(start, new, Backlog, o, "global"), o),
              <<own>> \o Remove(InputList, own)).s

(* Only filesystem inputs make room; the routes to make room on are those  *)
(* that would be over their limit before anything is released.             *)
flb_input_chunk_place_new_chunk(s, c, size) ==
  LET Overlimit(o) == /\ o \in s.chunk[c].mask \cap Limited
                      /\ s.fs[o] + s.fs_backlog[o] + size > TotalLimit[o]
      Step(t, o) == flb_input_chunk_release_space_compound(t, c, o)
  IN IF InFile(s.chunk[c]) THEN FoldLeft(Step, s, SelectSeq(OutputList, Overlimit)) ELSE s

(* A new chunk; its file is down when max_chunks_up are up already. *)
flb_input_chunk_create(s, i, c) ==
  LET up == Kind[i] # "filesystem" \/ TotalUp(s) < MaxChunksUp
      new == [in |-> i, size |-> 0, file |-> Page,
              fs_size |-> IF up THEN 0 ELSE Page, up |-> up, locked |-> FALSE,
              busy |-> FALSE, routes |-> {}, active |-> {}, retry |-> {},
              tried |-> {}, mask |-> Routes[i], fs_counted |-> FALSE]
  IN [s EXCEPT !.chunk = [d \in DOMAIN s.chunk \cup {c} |->
                             IF d = c THEN new ELSE s.chunk[d]],
               !.list[i] = Append(@, c),
               !.last[i] = c]

FreeIds(s, i) == Ids[i] \ DOMAIN s.chunk

Writable(s, i) == /\ s.last[i] # NoChunk
                  /\ ~s.chunk[s.last[i]].busy
                  /\ ~s.chunk[s.last[i]].locked

(* memrb_input_chunk_release_space: the oldest chunks nobody flushes. *)
memrb_input_chunk_release_space(s, i, required) ==
  LET Step(acc, c) ==
        LET k == acc.s.chunk[c]
        IN IF acc.freed >= required \/ ~flb_input_chunk_is_task_safe_delete(k) THEN acc
           ELSE [s |-> IF k.busy THEN flb_task_destroy(acc.s, c)
                       ELSE flb_input_chunk_destroy(acc.s, c),
                 freed |-> acc.freed + RealSize(k)]
  IN FoldLeft(Step, [s |-> s, freed |-> 0], s.list[i])

(* The end of an append: a nearly full chunk over the memory limit goes    *)
(* down, and what the chunk grew by is counted.                            *)
SettleSize(s, i, c, pre) ==
  LET k == s.chunk[c]
      settled == IF MemOverlimit(s, i) /\ InFile(k) /\ k.size = ChunkMax
                 THEN [s EXCEPT !.chunk[c] = ChunkDown(@)] ELSE s
      diff == RealSize(settled.chunk[c]) - pre
  IN IF diff = 0 THEN settled
     ELSE flb_input_chunk_update_output_instances(settled, c, diff)

(* The records are written to the chunk, which is up for as long as that   *)
(* takes; one that stays empty is destroyed.                               *)
WriteRecords(s, i, c, kept, set_down) ==
  LET before == IF set_down THEN ChunkUp(s.chunk[c]) ELSE s.chunk[c]
      pre == IF before.size = 0 THEN 0 ELSE RealSize(before)
      content == before.size + kept
      written == [before EXCEPT !.size = content,
                    !.file = IF kept = 0 THEN @ ELSE Max({@, FileSize(content)})]
      full == IF content > ChunkMax THEN ChunkLock(written) ELSE written
      stored == [s EXCEPT !.chunk[c] = IF set_down THEN ChunkDown(full) ELSE full]
  IN IF content = 0
     THEN flb_input_chunk_set_limits(
            flb_input_chunk_destroy([s EXCEPT !.chunk[c] = before], c), i)
     ELSE flb_input_chunk_protect(
            SettleSize(flb_input_chunk_set_limits(stored, i), i, c, pre), i)

(* The part of input_chunk_append_raw after the early returns: `size`      *)
(* bytes come in, `kept` of them pass the filters.                         *)
AppendToChunk(s, i, size, kept) ==
  LET new == ~Writable(s, i)
      c == IF new THEN Min(FreeIds(s, i)) ELSE s.last[i]
      got == IF new THEN flb_input_chunk_create(s, i, c) ELSE s
      placed == flb_input_chunk_place_new_chunk(
                  [got EXCEPT !.chunk[c] = IF @.up \/ new THEN @ ELSE ChunkUp(@)], c, size)
  IN WriteRecords(placed, i, c, kept, ~got.chunk[c].up)

(* The whole call: the state after it, and whether the records were taken. *)
(* Writing to the chunk does not fail, and the input is routable (the      *)
(* streams of the stream processor are not): the two early returns for     *)
(* these, which settle no limits, are left out.                            *)
input_chunk_append_raw(s, i, size, kept) ==
  LET memrb == Kind[i] = "memrb" /\ MemOverlimit(s, i)
      Proceed(rel) ==
        IF (memrb /\ rel.freed < size) \/ flb_input_buf_paused(rel.s, i)
        THEN [s |-> rel.s, ok |-> FALSE]
        ELSE [s |-> AppendToChunk(rel.s, i, size, kept), ok |-> TRUE]
  IN Proceed(IF memrb THEN memrb_input_chunk_release_space(s, i, size)
             ELSE [s |-> s, freed |-> 0])

------------------------------------------------------------------------------
(***************************************************************************)
(* The steps of the engine thread.                                         *)
(***************************************************************************)

(* sb_segregate_chunks has run: every old chunk is in the queue of each    *)
(* output it is routed to, locked and down.                                *)
CoreInit ==
  LET old == [c \in DOMAIN Old |->
                [in |-> Backlog, size |-> Old[c], file |-> FileSize(Old[c]),
                 fs_size |-> FileSize(Old[c]), up |-> FALSE, locked |-> TRUE,
                 busy |-> FALSE, routes |-> {}, active |-> {}, retry |-> {},
                 tried |-> {}, mask |-> Routes[Backlog], fs_counted |-> FALSE]]
      queue == SetToSortSeq(DOMAIN Old, <)
  IN st = [chunk |-> old,
           list |-> [i \in Inputs |-> <<>>],
           last |-> [i \in Inputs |-> NoChunk],
           fs |-> [o \in Outputs |-> 0],
           queue |-> [o \in Outputs |-> IF o \in Routes[Backlog] THEN queue ELSE <<>>],
           fs_backlog |-> [o \in Outputs |->
              IF o \in Routes[Backlog]
              THEN MapThenSumSet(LAMBDA c : old[c].file, DOMAIN Old) ELSE 0],
           mem |-> [i \in Inputs |-> 0],
           mem_paused |-> [i \in Inputs |-> FALSE],
           storage_paused |-> [i \in Inputs |-> FALSE],
           running |-> [i \in Inputs |-> TRUE],
           events |-> [i \in Inputs |-> <<>>],
           ingestion |-> TRUE]

(* The collector of an input without a thread: a callback that appends a   *)
(* number of times, one byte at a time, each append filtered or not.  The  *)
(* plugin does not learn within its callback that it was paused.           *)
Ingest(i) ==
  /\ i \notin Threaded /\ i # Backlog
  /\ st.running[i]
  /\ Cardinality(FreeIds(st, i)) >= Burst
  /\ \E kept \in BoundedSeq({0, 1}, Burst) \ {<<>>} :
       st' = FoldLeft(LAMBDA s, n : input_chunk_append_raw(s, i, 1, n).s, st, kept)

(* cb_queue_chunks: rounds over the queues, the first chunk of each, until *)
(* the memory limit is used up or the queues are empty.  A chunk that is   *)
(* mapped leaves all queues.  A damaged chunk is closed before it leaves   *)
(* them, so that its size is read from freed memory: it is still there, or *)
(* it reads as zero (stale) and stays counted.  Bringing a chunk up does   *)
(* not fail in another way: the code would try the same chunk again at     *)
(* once, and for as long as that fails the callback would not return.      *)
cb_queue_chunks ==
  LET Take(acc, o, stale) ==
        IF acc.s.queue[o] = <<>> THEN acc
        ELSE LET c == Head(acc.s.queue[o])
                 k == acc.s.chunk[c]
                 mapped == flb_input_chunk_update_output_instances(
                             [acc.s EXCEPT !.list[Backlog] = Append(@, c)], c, k.file)
                 closed == sb_drop(acc.s, c)
             IN IF c \in Bad
                THEN [acc EXCEPT !.s = IF c \in stale
                        THEN [closed EXCEPT !.fs_backlog = acc.s.fs_backlog] ELSE closed]
                ELSE [s |-> sb_remove_chunk_from_segregated_backlogs(mapped, c),
                      total |-> acc.total + k.size]
      Round(acc, stale) ==
        IF acc.total >= BacklogLimit THEN acc
        ELSE FoldLeft(LAMBDA a, o : Take(a, o, stale), acc, OutputList)
      start == [s |-> st, total |-> flb_input_chunk_total_size(st, Backlog)]
  IN /\ st.running[Backlog]
     /\ \E o \in Outputs : st.queue[o] # <<>>
     /\ \E stale \in SUBSET Bad :
          st' = FoldLeft(LAMBDA acc, n : Round(acc, stale), start, SetToSeq(DOMAIN Old)).s

(* flb_engine_dispatch takes one chunk: flb_input_chunk_flush brings it up *)
(* if the limit allows, locks it and settles the size it counts for; the   *)
(* task flushes all its routes, or goes away when there are none.          *)
Dispatch(c) ==
  LET k == st.chunk[c]
      k1 == ChunkLock(IF k.up THEN k ELSE ChunkUp(k))
      k2 == [k1 EXCEPT !.busy = TRUE, !.routes = k.mask, !.active = k.mask]
      s1 == [st EXCEPT !.chunk[c] = k2]
      s2 == flb_input_chunk_update_output_instances(s1, c, RealSize(k2) - RealSize(k))
      s3 == IF RealSize(k2) = RealSize(k) THEN s1 ELSE s2
  IN /\ c \in ToSet(st.list[k.in])
     /\ ~k.busy
     /\ k.up \/ TotalUp(st) < MaxChunksUp
     /\ st' = IF k.mask = {} THEN flb_task_destroy(s3, c) ELSE s3

(* An output answers that it is done with a chunk, for good or ill. *)
Finish(c, o) ==
  LET k == st.chunk[c]
      s1 == [st EXCEPT !.chunk[c].active = @ \ {o}]
  IN /\ o \in k.active
     /\ st' = IF k.active = {o} /\ k.retry = {} THEN flb_task_destroy(s1, c) ELSE s1

(* An output asks for a retry, which it is given once (retry_limit is 1 by *)
(* default) or never (no_retries).  flb_task_retry_create may put the      *)
(* chunk down: over the memory limit when this is the last user, and       *)
(* always when the task has a single route.                                *)
Retry(c, o) ==
  LET k == st.chunk[c]
      s1 == IF Users(k) <= 1 THEN flb_input_chunk_set_up_down(st, c) ELSE st
      s2 == IF Cardinality(k.routes) = 1
            THEN [s1 EXCEPT !.chunk[c] = ChunkDown(@)] ELSE s1
  IN /\ o \in (k.active \cap Retries) \ k.tried
     /\ st' = [s2 EXCEPT !.chunk[c].active = @ \ {o}, !.chunk[c].retry = @ \cup {o},
                         !.chunk[c].tried = @ \cup {o}]

(* The retry is due; a chunk that cannot be brought up waits for another.  *)
DispatchRetry(c, o) ==
  LET k == st.chunk[c]
  IN /\ o \in k.retry
     /\ k.up \/ TotalUp(st) < MaxChunksUp
     /\ st' = [st EXCEPT !.chunk[c] =
                 [(IF k.up THEN k ELSE ChunkUp(k)) EXCEPT
                    !.active = @ \cup {o}, !.retry = @ \ {o}]]

(* The engine stops ingestion and pauses every input. *)
StopIngestion ==
  /\ st.ingestion
  /\ st' = FoldLeft(flb_input_pause, [st EXCEPT !.ingestion = FALSE], InputList)

Task(c) ==
  \/ Dispatch(c)
  \/ \E o \in st.chunk[c].active : Finish(c, o) \/ Retry(c, o)
  \/ \E o \in st.chunk[c].retry : DispatchRetry(c, o)

CoreNext ==
  \/ \E i \in Inputs : Ingest(i)
  \/ cb_queue_chunks
  \/ \E c \in DOMAIN st.chunk : Task(c)
  \/ StopIngestion

ChunkSpec == CoreInit /\ [][CoreNext]_st

------------------------------------------------------------------------------
(***************************************************************************)
(* Fairness: the engine comes back to the chunks of an input that may be   *)
(* paused.  It dispatches them, outputs answer, and due retries go out     *)
(* (strong fairness: other work may come first, and the room for chunks    *)
(* that are up comes and goes).                                            *)
(***************************************************************************)
AllChunks == UNION {Ids[i] : i \in Inputs}
MayPause == {i \in Inputs : Kind[i] = "memory" \/ i \in Pauses}

Work(i) == \E c \in Ids[i] \cap DOMAIN st.chunk : Task(c)

FairChunkSpec == ChunkSpec /\ \A i \in MayPause : SF_st(Work(i))

(* The same, spelled out, which TLC checks faster: when Work(i) is         *)
(* enabled, and that it changes a chunk.                                   *)
WorkCan(i) ==
  \E c \in Ids[i] \cap DOMAIN st.chunk :
    LET k == st.chunk[c]
    IN \/ k.active # {}
       \/ /\ k.up \/ TotalUp(st) < MaxChunksUp
          /\ k.retry # {} \/ (~k.busy /\ c \in ToSet(st.list[i]))

Worked(i) == \E c \in Ids[i] \cap DOMAIN st.chunk :
               (c \in DOMAIN st'.chunk => st'.chunk[c] # st.chunk[c]) /\ Task(c)

QuickChunkSpec == ChunkSpec /\ \A i \in MayPause : <>[]~WorkCan(i) \/ []<><<Worked(i)>>_st

------------------------------------------------------------------------------
(***************************************************************************)
(* Properties.                                                             *)
(***************************************************************************)

ChunkRecord ==
  [in : Inputs, size : Nat, file : Nat, fs_size : Nat, up : BOOLEAN, locked : BOOLEAN,
   busy : BOOLEAN, routes : SUBSET Outputs, active : SUBSET Outputs,
   retry : SUBSET Outputs, tried : SUBSET Outputs, mask : SUBSET Outputs,
   fs_counted : BOOLEAN]

(* The chunks of an input are within its pool, listed once, and the        *)
(* counters are numbers.                                                   *)
ChunkTypeOK ==
  /\ DOMAIN st.chunk \subseteq AllChunks
  /\ \A c \in DOMAIN st.chunk : st.chunk[c] \in ChunkRecord /\ c \in Ids[st.chunk[c].in]
  /\ \A i \in Inputs : /\ ToSet(st.list[i]) \subseteq DOMAIN st.chunk \cap Ids[i]
                       /\ IsInjective(st.list[i])
                       /\ st.last[i] \in ToSet(st.list[i]) \cup {NoChunk}
                       /\ st.mem[i] \in Nat
                       /\ ToSet(st.events[i]) \subseteq {"pause", "resume"}

(* What an output's disk limit is checked against is exact whenever the    *)
(* engine is between two calls: fs_chunks_size is the size of the chunks   *)
(* routed to the output, fs_backlog_chunks_size that of the chunks still   *)
(* in its backlog queue, and of damaged chunks that were dropped from it   *)
(* at most.  Neither drifts or wraps below zero, however appends, syncs,   *)
(* drops, retries and the backlog interleave.                              *)
DiskUseExact ==
  \A o \in Limited :
    /\ st.fs[o] = MapThenSumSet(LAMBDA c : RealSize(st.chunk[c]),
                     {c \in DOMAIN st.chunk : /\ o \in st.chunk[c].mask
                                              /\ c \in ToSet(st.list[st.chunk[c].in])})
    /\ \E dropped \in SUBSET (Bad \ DOMAIN st.chunk) :
         st.fs_backlog[o] =
           MapThenSumSet(LAMBDA c : RealSize(st.chunk[c]), ToSet(st.queue[o]))
             + MapThenSumSet(LAMBDA c : FileSize(Old[c]), dropped)

(* An input with a memory limit holds less than the limit plus one append, *)
(* both when it is paused at the limit (memory) and when it makes room by  *)
(* dropping its oldest chunks (memrb).                                     *)
MemoryBounded ==
  \A i \in Inputs : (MemLimit[i] > 0 /\ Kind[i] # "filesystem")
     => flb_input_chunk_total_size(st, i) < MemLimit[i] + 1

(* Making room never takes a chunk away from an output that is flushing    *)
(* it: a step in which such a chunk goes or loses a user is an answer of   *)
(* that output, and brings in no data.                                     *)
FlushKeepsChunk ==
  [][\A c \in DOMAIN st.chunk :
       (st.chunk[c].active # {}
          /\ (c \notin DOMAIN st'.chunk \/ st'.chunk[c].active # st.chunk[c].active))
         => \A d \in DOMAIN st'.chunk :
              d \in DOMAIN st.chunk /\ st'.chunk[d].size = st.chunk[d].size]_st

(* An input that is paused is resumed, unless the engine stops ingestion:  *)
(* "When the buffer size goes down (because data was flushed), a resume()  *)
(* callback will be triggered" (flb_input.h).                              *)
PausedIsResumed ==
  \A i \in MayPause : flb_input_buf_paused(st, i)
     ~> (~flb_input_buf_paused(st, i) \/ ~st.ingestion)

==============================================================================
