---------------------------- MODULE ChunkStorage ----------------------------
(***************************************************************************)
(* Chunk files across kills and restarts: lib/chunkio/src/cio_file.c,      *)
(* cio_chunk.c and cio_scan.c, with the parts of src/flb_input_chunk.c and *)
(* plugins/in_storage_backlog/sb.c that create, fill, hand out and reload  *)
(* them.                                                                   *)
(*                                                                         *)
(* A file is mapped with MAP_SHARED, so what the process stored in the map *)
(* is in the file when the process is killed; the process can be killed    *)
(* between any two of the steps below.  The content of a file is a         *)
(* sequence of cells: a record, the part of a record that was copied       *)
(* (Torn), or Zero.  A field of the header is stored in one step: the four *)
(* bytes of the content length, which the source stores one by one, change *)
(* together.                                                               *)
(***************************************************************************)
EXTENDS Integers, Sequences, FiniteSets, SequencesExt, FiniteSetsExt

CONSTANTS
  Files,        \* bound: chunk files
  MaxRecords,   \* bound: records the inputs append
  MaxBuffer,    \* bound: records in one append
  MaxStops,     \* bound: kills and regular stops
  Page,         \* cells a file is created with and grows by
  ChunkMax,     \* FLB_INPUT_CHUNK_FS_MAX_SIZE, in cells
  MinOffset     \* the 32 bytes flb_input_chunk_map wants before a bad record

ASSUME StorageAssumption == /\ Page \in Nat \ {0} /\ MaxBuffer \in Nat \ {0}
                            /\ MaxRecords \in Nat /\ MaxStops \in Nat

Records == 1 .. MaxRecords
Zero == 0
Torn == -1

VARIABLES
  checksum,   \* storage.checksum, fixed by the configuration
  disk,       \* the files: header (len, crc, meta: the tag is there) and body
  running,    \* the process runs
  stopping,   \* the engine handled FLB_ENGINE_STOP and drains its tasks
  todo,       \* at start: the files still to load
  chunk,      \* the chunks the process knows: struct cio_file, cio_chunk and their stage
  job,        \* the append under way, NoJob when there is none
  next,       \* the records the inputs have produced
  acked,      \* records whose append returned
  delivered,  \* how often an output answered FLB_OK for a record: 0, 1 or more (2)
  bad,        \* an output was handed something else than whole records
  stops,      \* kills and stops so far
  exposed,    \* files that were not synced when the process was killed
  repeated    \* records whose file was to be deleted when the process ended, or
              \* whose retry was being flushed when the engine was stopped

engineVars == <<checksum, running, stopping, todo, stops>>
history == <<acked, delivered, bad, exposed, repeated>>
vars == <<engineVars, disk, chunk, job, next, history>>

NoJob == <<>>

Put(f, x, v) == [g \in DOMAIN f \cup {x} |-> IF g = x THEN v ELSE f[g]]
Drop(f, x) == [g \in DOMAIN f \ {x} |-> f[g]]

Content(d, size) == SubSeq(d.body, 1, size)

------------------------------------------------------------------------------
(***************************************************************************)
(* cio_file.c.  A checksum is what it was computed over, and whether it    *)
(* was finalized.                                                          *)
(***************************************************************************)

(* A file is mapped: without a length in the header, content that starts   *)
(* with a non-zero byte is taken to fill the file, and the header is       *)
(* changed to say so.                                                      *)
cio_file_st_get_content_len(d) ==
  IF d.len = 0 /\ d.body[1] # Zero THEN [d EXCEPT !.len = Len(d.body)] ELSE d

Sum(d, fin) == [meta |-> d.meta, cells |-> Content(d, d.len), fin |-> fin]

cio_file_format_check(d) == checksum => d.crc = Sum(d, TRUE)

\* Mutant: the size of the file is taken for the size of its content.
MapFileSize(k, d) == [k EXCEPT !.up = TRUE, !.data_size = Len(d.body), !.synced = TRUE,
                               !.crc_cur = Sum(d, FALSE)]

(* mmap_file, for a file that passes the check. *)
mmap_file(k, d) == [k EXCEPT !.up = TRUE, !.data_size = d.len, !.synced = TRUE,
                             !.crc_cur = Sum(d, FALSE)]

\* Mutant: the checksum is left as the last write stored it.
SyncUnfinalized(k, d) == d

(* cio_file_sync of a mapped file: the checksum is finalized in the map. *)
cio_file_sync(k, d) ==
  IF k.synced \/ ~checksum THEN d ELSE [d EXCEPT !.crc = [k.crc_cur EXCEPT !.fin = TRUE]]

(* cio_chunk_lock and cio_file_down both sync; the file of a chunk that is *)
(* down was synced already.                                                *)
ChunkLock(k) == [k EXCEPT !.locked = TRUE, !.synced = @ \/ (k.up /\ ~k.locked)]
LockSync(k, d) == IF k.up /\ ~k.locked THEN cio_file_sync(k, d) ELSE d
ChunkDown(k) == [k EXCEPT !.up = FALSE, !.data_size = 0, !.synced = TRUE]

------------------------------------------------------------------------------
Init ==
  /\ checksum \in BOOLEAN
  /\ disk = <<>> /\ chunk = <<>> /\ job = NoJob
  /\ running = TRUE /\ stopping = FALSE /\ todo = {}
  /\ next = 0 /\ acked = {} /\ delivered = [r \in Records |-> 0] /\ bad = FALSE
  /\ stops = 0 /\ exposed = {} /\ repeated = {}

Idle == running /\ todo = {} /\ job = NoJob

(***************************************************************************)
(* input_chunk_append_raw.  The chunk is created, or brought up when it is *)
(* down; `down` notes that it has to go down again.                        *)
(***************************************************************************)
Buffers == {[n \in 1 .. b |-> next + n] : b \in 1 .. Min({MaxBuffer, MaxRecords - next})}

(* cio_file_open: an empty file is made, one page with a header. *)
flb_input_chunk_create(f) ==
  /\ Idle /\ ~stopping /\ f \in Files \ DOMAIN disk
  /\ \A g \in DOMAIN chunk : chunk[g].stage = "input" => chunk[g].locked
  /\ \E buf \in Buffers, limit \in BOOLEAN :
       job' = [file |-> f, buf |-> buf, at |-> "meta", copied |-> 0, down |-> limit]
  /\ next' = next + Len(job'.buf)
  /\ disk' = Put(disk, f, [len |-> 0, meta |-> FALSE, body |-> [n \in 1 .. Page |-> Zero],
                           crc |-> [meta |-> FALSE, cells |-> <<>>, fin |-> TRUE]])
  /\ chunk' = Put(chunk, f, [up |-> TRUE, data_size |-> 0, synced |-> FALSE,
                             crc_cur |-> [meta |-> FALSE, cells |-> <<>>, fin |-> FALSE],
                             locked |-> FALSE, stage |-> "input",
                             flushes |-> 0, due |-> 0, tried |-> FALSE])
  /\ UNCHANGED <<engineVars, history>>

F == job.file
Writing(f) == job # NoJob /\ F = f

(* cio_file_write_metadata: the tag. *)
WriteMeta ==
  /\ job # NoJob /\ job.at = "meta"
  /\ disk' = [disk EXCEPT ![F].meta = TRUE]
  /\ chunk' = [chunk EXCEPT ![F].crc_cur = Sum(disk'[F], FALSE), ![F].synced = FALSE]
  /\ job' = [job EXCEPT !.at = IF job.down THEN "park" ELSE "sum"]
  /\ UNCHANGED <<engineVars, history, next>>

(* With max_chunks_up chunks up the new chunk goes down, which syncs it,   *)
(* and is brought up again for the append.                                 *)
ParkNewChunk ==
  /\ job # NoJob /\ job.at = "park"
  /\ disk' = [disk EXCEPT ![F] = cio_file_sync(chunk[F], @)]
  /\ chunk' = [chunk EXCEPT ![F] = mmap_file(ChunkDown(@), disk'[F])]
  /\ job' = [job EXCEPT !.at = "sum"]
  /\ UNCHANGED <<engineVars, history, next>>

(* An append to the chunk the input is filling. *)
AppendToChunk(f) ==
  /\ Idle /\ ~stopping
  /\ f \in DOMAIN chunk /\ chunk[f].stage = "input" /\ ~chunk[f].locked
  /\ \E buf \in Buffers :
       job' = [file |-> f, buf |-> buf, at |-> "sum", copied |-> 0, down |-> ~chunk[f].up]
  /\ next' = next + Len(job'.buf)
  /\ chunk' = [chunk EXCEPT ![f] = IF @.up THEN @ ELSE mmap_file(@, disk[f])]
  /\ UNCHANGED <<engineVars, disk, history>>

(* cio_file_write: room first, then the checksum of what will be there. *)
WriteSum ==
  LET k == chunk[F]
      need == k.data_size + Len(job.buf)
      grown == disk[F].body \o [n \in 1 .. Page * ((need + Page - 1) \div Page) - Len(disk[F].body)
                                  |-> Zero]
      crc == [k.crc_cur EXCEPT !.cells = @ \o job.buf]
  IN /\ job # NoJob /\ job.at = "sum"
     /\ disk' = [disk EXCEPT ![F].body = IF Len(@) < need THEN grown ELSE @,
                             ![F].crc = IF checksum THEN crc ELSE @]
     /\ chunk' = [chunk EXCEPT ![F].crc_cur = IF checksum THEN crc ELSE @]
     /\ job' = [job EXCEPT !.at = "copy"]
     /\ UNCHANGED <<engineVars, history, next>>

(* memcpy, record by record; half of one may be there. *)
WriteCopy ==
  LET at == chunk[F].data_size + job.copied + 1
      half == disk[F].body[at] = Torn
  IN /\ job # NoJob /\ job.at = "copy"
     /\ disk' = [disk EXCEPT ![F].body[at] = IF half THEN job.buf[job.copied + 1] ELSE Torn]
     /\ job' = [job EXCEPT !.copied = IF half THEN @ + 1 ELSE @,
                           !.at = IF half /\ job.copied + 1 = Len(job.buf) THEN "len" ELSE @]
     /\ UNCHANGED <<engineVars, chunk, history, next>>

\* Mutant: the header is not updated.
WriteSizeOnly ==
  /\ job # NoJob /\ job.at = "len"
  /\ chunk' = [chunk EXCEPT ![F].data_size = @ + Len(job.buf), ![F].synced = FALSE]
  /\ job' = [job EXCEPT !.at = "end"]
  /\ UNCHANGED <<engineVars, disk, history, next>>

(* The length in the header makes the records part of the content. *)
WriteLen ==
  LET size == chunk[F].data_size + Len(job.buf)
  IN /\ job # NoJob /\ job.at = "len"
     /\ disk' = [disk EXCEPT ![F].len = size]
     /\ chunk' = [chunk EXCEPT ![F].data_size = size, ![F].synced = FALSE]
     /\ job' = [job EXCEPT !.at = "end"]
     /\ UNCHANGED <<engineVars, history, next>>

(* The rest of the append: a full chunk is locked, one that was down goes  *)
(* down again.                                                             *)
AppendEnd ==
  LET k == IF chunk[F].data_size > ChunkMax THEN ChunkLock(chunk[F]) ELSE chunk[F]
      d == IF chunk[F].data_size > ChunkMax THEN LockSync(chunk[F], disk[F]) ELSE disk[F]
  IN /\ job # NoJob /\ job.at = "end"
     /\ chunk' = [chunk EXCEPT ![F] = IF job.down THEN ChunkDown(k) ELSE k]
     /\ disk' = [disk EXCEPT ![F] = IF job.down THEN cio_file_sync(k, d) ELSE d]
     /\ acked' = acked \cup ToSet(job.buf)
     /\ job' = NoJob
     /\ UNCHANGED <<engineVars, delivered, bad, exposed, repeated, next>>

------------------------------------------------------------------------------
(***************************************************************************)
(* The engine hands a chunk to an output.                                  *)
(***************************************************************************)

(* The chunk is brought up and locked, and a flush gets its content. *)
HandOut(f, k) ==
  /\ chunk' = [chunk EXCEPT ![f] = [ChunkLock(k) EXCEPT !.stage = "task", !.flushes = @ + 1]]
  /\ disk' = [disk EXCEPT ![f] = LockSync(k, @)]
  /\ bad' = (bad \/ ~ToSet(Content(disk[f], k.data_size)) \subseteq Records)
  /\ UNCHANGED <<engineVars, job, acked, delivered, exposed, repeated, next>>

Up(f) == IF chunk[f].up THEN chunk[f] ELSE mmap_file(chunk[f], disk[f])

flb_input_chunk_flush(f) ==
  /\ Idle /\ f \in DOMAIN chunk /\ chunk[f].stage = "input"
  /\ HandOut(f, Up(f))

(* A retry is due, or was brought forward by a stop. *)
flb_engine_dispatch_retry(f) ==
  /\ Idle /\ f \in DOMAIN chunk /\ chunk[f].due > 0
  /\ HandOut(f, [Up(f) EXCEPT !.due = @ - 1])

\* Mutant: the chunk is closed instead of put down.
RetryCloses(f) ==
  /\ Idle /\ f \in DOMAIN chunk /\ chunk[f].flushes > 0
  /\ chunk' = Drop(chunk, f)
  /\ disk' = [disk EXCEPT ![f] = cio_file_sync(chunk[f], @)]
  /\ UNCHANGED <<engineVars, job, history, next>>

(* A retry: the chunk goes down until it is due. *)
Retry(f) ==
  /\ Idle /\ f \in DOMAIN chunk /\ chunk[f].flushes > 0
  /\ chunk' = [chunk EXCEPT ![f] = [ChunkDown(@) EXCEPT !.flushes = @ - 1, !.due = @ + 1,
                                                         !.tried = TRUE]]
  /\ disk' = [disk EXCEPT ![f] = cio_file_sync(chunk[f], @)]
  /\ UNCHANGED <<engineVars, job, history, next>>

(* FLB_OK: the records are delivered and the retry, with its request, is   *)
(* gone; the task is destroyed later, once no other flush of it runs.      *)
Deliver(f) ==
  /\ Idle /\ f \in DOMAIN chunk /\ chunk[f].flushes > 0
  /\ delivered' = [r \in Records |->
       IF r \in ToSet(Content(disk[f], disk[f].len)) THEN Min({delivered[r] + 1, 2})
                                                     ELSE delivered[r]]
  /\ chunk' = [chunk EXCEPT ![f] = [@ EXCEPT !.flushes = @ - 1, !.due = 0, !.tried = FALSE,
                                             !.stage = IF chunk[f].flushes = 1 THEN "done" ELSE @]]
  /\ UNCHANGED <<engineVars, disk, job, acked, bad, exposed, repeated, next>>

(* FLB_ENGINE_STOP: every retry is scheduled now.  One that waits is only  *)
(* brought forward; one that is being flushed has no request to replace    *)
(* and gets a second flush.                                                *)
flb_engine_reschedule_retries ==
  LET twice == {f \in DOMAIN chunk : chunk[f].flushes > 0 /\ chunk[f].tried}
  IN /\ Idle /\ ~stopping /\ stops < MaxStops
     /\ stopping' = TRUE
     /\ chunk' = [f \in DOMAIN chunk |-> IF f \in twice THEN [chunk[f] EXCEPT !.due = @ + 1]
                                         ELSE chunk[f]]
     /\ repeated' = repeated \cup UNION {ToSet(disk[f].body) \cap Records : f \in twice}
     /\ UNCHANGED <<checksum, running, todo, stops, disk, job, next,
                    acked, delivered, bad, exposed>>

\* Mutant: the file stays.
DestroyKeepsFile(f) ==
  /\ Idle /\ f \in DOMAIN chunk /\ chunk[f].stage = "done"
  /\ chunk' = Drop(chunk, f)
  /\ UNCHANGED <<engineVars, disk, job, history, next>>

(* flb_input_chunk_destroy with its file. *)
flb_input_chunk_destroy(f) ==
  /\ Idle /\ f \in DOMAIN chunk /\ chunk[f].stage = "done"
  /\ chunk' = Drop(chunk, f) /\ disk' = Drop(disk, f)
  /\ exposed' = exposed \ {f}
  /\ UNCHANGED <<engineVars, job, acked, delivered, bad, repeated, next>>

------------------------------------------------------------------------------
(***************************************************************************)
(* The end of the process, and the next start.                             *)
(***************************************************************************)
Gone == /\ running' = FALSE /\ stopping' = FALSE /\ todo' = {} /\ chunk' = <<>> /\ job' = NoJob
        /\ stops' = stops + 1
        /\ repeated' = repeated \cup UNION {ToSet(disk[f].body) \cap Records :
                                              f \in {g \in DOMAIN chunk : chunk[g].stage = "done"}}
        /\ UNCHANGED <<checksum, acked, delivered, bad, next>>

(* A kill, at any moment; every store made so far is in the files. *)
Kill ==
  /\ running /\ stops < MaxStops
  /\ exposed' = exposed \cup {f \in DOMAIN chunk : ~chunk[f].synced \/ Writing(f)}
  /\ Gone /\ UNCHANGED disk

(* A regular stop closes every chunk, which syncs it. *)
cio_destroy ==
  /\ Idle /\ stopping
  /\ disk' = [f \in DOMAIN disk |-> IF f \in DOMAIN chunk /\ chunk[f].up
                                    THEN cio_file_sync(chunk[f], disk[f]) ELSE disk[f]]
  /\ Gone /\ UNCHANGED exposed

Start ==
  /\ ~running
  /\ running' = TRUE /\ todo' = DOMAIN disk
  /\ UNCHANGED <<checksum, stopping, disk, chunk, job, history, stops, next>>

(* cio_scan_stream_files and sb_segregate_chunks for one file.  A file     *)
(* whose checksum is wrong is left alone, one without a tag is deleted,    *)
(* the others wait, locked and down.                                       *)
Load(f) ==
  LET d == cio_file_st_get_content_len(disk[f])
      ok == cio_file_format_check(d)
      k == [up |-> FALSE, data_size |-> 0, synced |-> TRUE, crc_cur |-> Sum(d, FALSE),
            locked |-> TRUE, stage |-> "backlog", flushes |-> 0, due |-> 0, tried |-> FALSE]
  IN /\ running /\ f \in todo /\ todo' = todo \ {f}
     /\ chunk' = IF ok /\ d.meta THEN Put(chunk, f, k) ELSE chunk
     /\ disk' = IF ok /\ ~d.meta THEN Drop(disk, f) ELSE [disk EXCEPT ![f] = d]
     /\ exposed' = IF ok /\ ~d.meta THEN exposed \ {f} ELSE exposed
     /\ UNCHANGED <<checksum, running, stopping, stops, job, acked, delivered, bad, repeated, next>>

(* The records before the first cell that is not one. *)
ValidRecords(cells) ==
  LET ends == {n \in 0 .. Len(cells) : n = Len(cells) \/ cells[n + 1] \notin Records}
  IN Min(ends)

(* cb_queue_chunks and flb_input_chunk_map for one chunk.  What follows    *)
(* the valid records is zeros, or a torn record, whose bytes make the      *)
(* unpacker fail or want more.  The content is cut back in data_size only; *)
(* the chunk then goes down, which leaves the header as it is.             *)
cb_queue_chunks(f) ==
  LET k == mmap_file(chunk[f], disk[f])
      cells == Content(disk[f], k.data_size)
      n == ValidRecords(cells)
      torn == n < Len(cells) /\ cells[n + 1] = Torn
      write_at == [k EXCEPT !.data_size = n]
  IN /\ Idle /\ f \in DOMAIN chunk /\ chunk[f].stage = "backlog"
     /\ \E fails \in IF torn THEN BOOLEAN ELSE {FALSE} :
          IF n > 0 /\ (fails => n > MinOffset)
          THEN /\ chunk' = [chunk EXCEPT ![f] = [ChunkDown(write_at) EXCEPT !.stage = "input"]]
               /\ disk' = [disk EXCEPT ![f] = cio_file_sync(write_at, @)]
               /\ UNCHANGED exposed
          ELSE /\ chunk' = Drop(chunk, f) /\ disk' = Drop(disk, f)
               /\ exposed' = exposed \ {f}
     /\ UNCHANGED <<engineVars, job, acked, delivered, bad, repeated, next>>

------------------------------------------------------------------------------
Appending ==
  \/ \E f \in Files : flb_input_chunk_create(f) \/ AppendToChunk(f)
  \/ WriteMeta \/ ParkNewChunk \/ WriteSum \/ WriteCopy \/ WriteLen \/ AppendEnd

Engine(f) ==
  \/ flb_input_chunk_flush(f) \/ flb_engine_dispatch_retry(f) \/ Retry(f) \/ Deliver(f)
  \/ flb_input_chunk_destroy(f) \/ Load(f) \/ cb_queue_chunks(f)

Next ==
  \/ Appending \/ \E f \in Files : Engine(f)
  \/ flb_engine_reschedule_retries \/ Kill \/ cio_destroy \/ Start

Spec == Init /\ [][Next]_vars

(* The process is started again and runs; the engine works on every chunk, *)
(* and an output that retries delivers in the end.                         *)
Fairness ==
  /\ WF_vars(Start)
  /\ WF_vars(WriteMeta \/ ParkNewChunk \/ WriteSum \/ WriteCopy \/ WriteLen \/ AppendEnd)
  /\ \A f \in Files : /\ WF_vars(Load(f) \/ cb_queue_chunks(f) \/ flb_input_chunk_destroy(f))
                      /\ SF_vars(Deliver(f))
                      /\ SF_vars(flb_input_chunk_flush(f) \/ flb_engine_dispatch_retry(f))

FairSpec == Spec /\ Fairness

------------------------------------------------------------------------------
SumType == [meta : BOOLEAN, cells : Seq(Records \cup {Zero, Torn}), fin : BOOLEAN]

(* A mapped chunk never claims more content than its file has room for,    *)
(* and never another amount than the header says, once a write is over;    *)
(* only one chunk is open for appends.                                     *)
TypeOK ==
  /\ checksum \in BOOLEAN /\ running \in BOOLEAN /\ stopping \in BOOLEAN /\ stops \in 0 .. MaxStops
  /\ DOMAIN disk \subseteq Files /\ DOMAIN chunk \subseteq DOMAIN disk /\ todo \subseteq DOMAIN disk
  /\ \A f \in DOMAIN disk : /\ disk[f].len \in 0 .. Len(disk[f].body) /\ disk[f].meta \in BOOLEAN
                            /\ disk[f].crc \in SumType
  /\ \A f \in DOMAIN chunk :
       /\ chunk[f].crc_cur \in SumType
       /\ chunk[f].stage \in {"input", "task", "done", "backlog"}
       /\ chunk[f].flushes + chunk[f].due \in (IF chunk[f].stage = "task" THEN 1 .. 2 ELSE {0})
       /\ chunk[f].data_size = IF chunk[f].up THEN disk[f].len ELSE 0
  /\ Cardinality({f \in DOMAIN chunk : ~chunk[f].locked}) <= 1

(* A synced chunk can be read back: whatever way it became synced (a lock, *)
(* going down, being mapped), the file passes cio_file_format_check, so    *)
(* bringing it up again, now or after a restart, cannot fail.              *)
SyncedReadable ==
  \A f \in DOMAIN chunk : chunk[f].synced /\ ~Writing(f) => cio_file_format_check(disk[f])

Recoverable(f) ==
  \/ cio_file_format_check(disk[f])
  \/ f \in DOMAIN chunk
  \/ checksum /\ f \in exposed

(* No acknowledged record is lost: after any kill, stop and restart it was *)
(* delivered, or stands in the content of a file with a tag that the next  *)
(* start accepts.  The exception is storage.checksum: a file that was not  *)
(* synced when the process was killed has no valid checksum.               *)
AckedKept ==
  \A r \in acked : \/ delivered[r] > 0
                   \/ \E f \in DOMAIN disk : /\ disk[f].meta /\ Recoverable(f)
                                             /\ r \in ToSet(Content(disk[f], disk[f].len))

(* A record is delivered again in two cases only: the process ended after  *)
(* the output's FLB_OK and before the chunk's file was deleted, or the     *)
(* engine was stopped while a retry of the chunk was being flushed, which  *)
(* flb_engine_reschedule_retries then flushes a second time.               *)
DeliveredOnce == \A r \in Records : delivered[r] > 1 => r \in repeated

(* Every acknowledged record is delivered in the end, through kills,       *)
(* restarts and retries, except in a file that a kill left without a valid *)
(* checksum: there is always a later moment when none is left to deliver.  *)
AckedDelivered ==
  []<>(\A r \in acked : \/ delivered[r] > 0
                        \/ checksum /\ \E f \in exposed : r \in ToSet(Content(disk[f], disk[f].len)))

(* "truncate the chunk to recover valid records": outputs are handed whole *)
(* records only.                                                           *)
HandedWhole == ~bad

==============================================================================
