--------------------------- MODULE InputPipeline ---------------------------
(***************************************************************************)
(* Inputs that run in a thread of their own, composed with the chunks of   *)
(* module InputChunks.  The input's thread puts records into a ring buffer *)
(* of bytes (src/flb_ring_buffer.c over lib/lwrb), the engine thread takes *)
(* them out and appends them to chunks; the engine tells the thread to     *)
(* pause and to resume through a pipe.  The two threads share the indices  *)
(* of the ring, its bytes, the flush_pending flag and the signal pipe, and *)
(* every access to one of these is a step of its own; only the store of    *)
(* the read index is one step with the append that follows it, which reads *)
(* nothing the input's thread writes.  Loads and stores of the volatile    *)
(* indices are taken to be seen in program order, which is what the        *)
(* library relies on.                                                      *)
(***************************************************************************)
EXTENDS InputChunks

CONSTANTS
  EntryBytes,   \* sizeof(cr), the bytes of an entry
  Entries,      \* entries that fit: data_size = Entries * EntryBytes
  DataWindow,   \* data_window, in bytes
  RetryLimit,   \* retry_limit of append_to_ring_buffer
  MaxRecords    \* bound: records an input's thread produces

VARIABLES
  buff, w, r,       \* the ring: its bytes and its two indices
  flush_pending,    \* a signal is under way
  signal,           \* the signal pipe holds something
  pc, cr, retries, av,   \* the thread: where it is in an append, and its locals
  next, dropped,    \* the thread's next record; those it could not enqueue
  rb_flush_flag,    \* the engine saw a signal in this round of events
  at, epc, got,     \* the collector: which input, where in its loop, the entry read
  handed, refused   \* records given to input_chunk_append_raw; those it refused

threadVars == <<pc, cr, retries, av, next, dropped>>
collectorVars == <<rb_flush_flag, at, epc, got, handed, refused>>
ringVars == <<buff, w, r, flush_pending, signal>>
vars == <<st, threadVars, collectorVars, ringVars>>

DataSize == Entries * EntryBytes
BuffSize == DataSize + 1     \* flb_ring_buffer_create adds a byte for lwrb

ASSUME RingAssumption == /\ EntryBytes \in Nat \ {0} /\ Entries \in Nat \ {0}
                         /\ DataWindow \in Nat /\ RetryLimit \in Nat \ {0}

lwrb_get_free(wi, ri) == (IF ri > wi THEN ri - wi ELSE BuffSize - (wi - ri)) - 1
lwrb_get_full(wi, ri) == IF wi >= ri THEN wi - ri ELSE BuffSize - (ri - wi)

\* Mutant: the index runs past the end of the buffer.
WrapMissing(n) == n

(* An entry is written and read byte by byte, and may wrap anywhere. *)
Wrap(n) == IF n >= BuffSize THEN n - BuffSize ELSE n
Bytes(n) == [k \in 1 .. EntryBytes |-> <<n, k>>]
Record(b) == IF b = Bytes(b[1][1]) THEN b[1][1] ELSE 0     \* 0: a torn entry

Init ==
  /\ CoreInit
  /\ buff = [i \in Threaded |-> [b \in 0 .. DataSize |-> <<0, 0>>]]
  /\ w = [i \in Threaded |-> 0] /\ r = [i \in Threaded |-> 0]
  /\ flush_pending = [i \in Threaded |-> FALSE]
  /\ signal = [i \in Threaded |-> FALSE]
  /\ pc = [i \in Threaded |-> "idle"] /\ cr = [i \in Threaded |-> 0]
  /\ retries = [i \in Threaded |-> 0] /\ av = [i \in Threaded |-> 0]
  /\ next = [i \in Threaded |-> 1] /\ dropped = [i \in Threaded |-> {}]
  /\ rb_flush_flag = FALSE
  /\ at = 0 /\ epc = "loop" /\ got = <<>>
  /\ handed = [i \in Threaded |-> <<>>] /\ refused = [i \in Threaded |-> {}]

------------------------------------------------------------------------------
(***************************************************************************)
(* The thread of an input.                                                 *)
(***************************************************************************)

(* A collector of the plugin runs and appends a record. *)
append_to_ring_buffer(i) ==
  /\ pc[i] = "idle" /\ st.running[i] /\ next[i] <= MaxRecords
  /\ pc' = [pc EXCEPT ![i] = "write"]
  /\ cr' = [cr EXCEPT ![i] = next[i]]
  /\ retries' = [retries EXCEPT ![i] = 0]
  /\ UNCHANGED <<st, av, next, dropped, collectorVars, ringVars>>

(* flb_ring_buffer_write reads the free space; without room the thread     *)
(* sleeps and tries again, up to the limit.                                *)
WriteCheck(i) ==
  LET free == lwrb_get_free(w[i], r[i])
      last == retries[i] + 1 >= RetryLimit
  IN /\ pc[i] = "write"
     /\ \/ /\ free >= EntryBytes
           /\ av' = [av EXCEPT ![i] = free]
           /\ pc' = [pc EXCEPT ![i] = "copy"]
           /\ UNCHANGED <<retries, next, dropped>>
        \/ /\ free < EntryBytes
           /\ retries' = [retries EXCEPT ![i] = @ + 1]
           /\ pc' = [pc EXCEPT ![i] = IF last THEN "idle" ELSE "write"]
           /\ dropped' = [dropped EXCEPT ![i] = IF last THEN @ \cup {cr[i]} ELSE @]
           /\ next' = [next EXCEPT ![i] = IF last THEN @ + 1 ELSE @]
           /\ UNCHANGED av
     /\ UNCHANGED <<st, cr, collectorVars, ringVars>>

(* lwrb_write copies the bytes first ... *)
WriteCopy(i) ==
  /\ pc[i] = "copy"
  /\ pc' = [pc EXCEPT ![i] = "publish"]
  /\ buff' = [buff EXCEPT ![i] = [b \in DOMAIN @ |->
        LET here == {k \in 1 .. EntryBytes : Wrap(w[i] + k - 1) = b}
        IN IF here = {} THEN @[b] ELSE Bytes(cr[i])[CHOOSE k \in here : TRUE]]]
  /\ UNCHANGED <<st, cr, retries, av, next, dropped, collectorVars, w, r,
                 flush_pending, signal>>

(* ... and then moves the index, which is what the reader goes by. *)
WritePublish(i) ==
  /\ pc[i] = "publish"
  /\ pc' = [pc EXCEPT ![i] = "test"]
  /\ w' = [w EXCEPT ![i] = Wrap(@ + EntryBytes)]
  /\ next' = [next EXCEPT ![i] = @ + 1]
  /\ UNCHANGED <<st, cr, retries, av, dropped, collectorVars, buff, r,
                 flush_pending, signal>>

(* The engine is signalled when the ring holds a window of data, unless a  *)
(* signal is pending already.                                              *)
WriteTest(i) ==
  LET used == DataSize - (av[i] - EntryBytes)
  IN /\ pc[i] = "test"
     /\ pc' = [pc EXCEPT ![i] =
                 IF ~flush_pending[i] /\ used >= DataWindow THEN "signal" ELSE "idle"]
     /\ UNCHANGED <<st, cr, retries, av, next, dropped, collectorVars, ringVars>>

WritePending(i) ==
  /\ pc[i] = "signal"
  /\ pc' = [pc EXCEPT ![i] = "pipe"]
  /\ flush_pending' = [flush_pending EXCEPT ![i] = TRUE]
  /\ UNCHANGED <<st, cr, retries, av, next, dropped, collectorVars, buff, w, r, signal>>

WriteSignal(i) ==
  /\ pc[i] = "pipe"
  /\ pc' = [pc EXCEPT ![i] = "idle"]
  /\ signal' = [signal EXCEPT ![i] = TRUE]
  /\ UNCHANGED <<st, cr, retries, av, next, dropped, collectorVars, buff, w, r, flush_pending>>

(* The thread's event loop takes one message from the pipe.  A resume      *)
(* starts the collectors only while ingestion is on.                       *)
handle_input_event(i) ==
  /\ pc[i] = "idle" /\ st.events[i] # <<>>
  /\ st' = [st EXCEPT !.events[i] = Tail(@),
                      !.running[i] = Head(st.events[i]) = "resume"
                                     /\ (@ \/ st.ingestion)]
  /\ UNCHANGED <<threadVars, collectorVars, ringVars>>

InputThread(i) ==
  \/ append_to_ring_buffer(i) \/ WriteCheck(i) \/ WriteCopy(i) \/ WritePublish(i)
  \/ WriteTest(i) \/ WritePending(i) \/ WriteSignal(i)
  \/ handle_input_event(i)

------------------------------------------------------------------------------
(***************************************************************************)
(* The engine thread.                                                      *)
(***************************************************************************)

(* Any other work of the engine happens between two collections. *)
EngineStep ==
  /\ epc = "loop"
  /\ CoreNext
  /\ UNCHANGED <<threadVars, collectorVars, ringVars>>

(* The event of the signal pipe: drain it, and collect after this round.   *)
DrainSignal(i) ==
  /\ epc = "loop" /\ signal[i]
  /\ signal' = [signal EXCEPT ![i] = FALSE]
  /\ rb_flush_flag' = TRUE
  /\ UNCHANGED <<st, threadVars, at, epc, got, handed, refused, buff, w, r, flush_pending>>

StartCollector ==
  /\ at' = 1 /\ epc' = "read"
  /\ UNCHANGED <<st, threadVars, got, handed, refused, ringVars>>

(* The collector runs after a round with a signal, and from a timer.       *)
CollectAfterSignal ==
  epc = "loop" /\ rb_flush_flag /\ rb_flush_flag' = FALSE /\ StartCollector

CollectOnTimer ==
  epc = "loop" /\ ~rb_flush_flag /\ UNCHANGED rb_flush_flag /\ StartCollector

In == InputList[at]

\* Mutant: the status of the input is not looked at.
CollectReadPaused ==
  /\ epc = "read"
  /\ IF In \in Threaded /\ lwrb_get_full(w[In], r[In]) > 0
     THEN epc' = "copy" ELSE epc' = "reset"
  /\ UNCHANGED <<st, threadVars, rb_flush_flag, at, got, handed, refused, ringVars>>

\* Mutant: the last entry is left in the ring.
CollectReadLast ==
  /\ epc = "read"
  /\ IF In \in Threaded /\ ~flb_input_buf_paused(st, In)
           /\ lwrb_get_full(w[In], r[In]) > EntryBytes
     THEN epc' = "copy" ELSE epc' = "reset"
  /\ UNCHANGED <<st, threadVars, rb_flush_flag, at, got, handed, refused, ringVars>>

(* One turn of the loop over an input: it ends when the input is paused or *)
(* its ring is empty.  Only threaded inputs ever have something there.     *)
CollectRead ==
  /\ epc = "read"
  /\ IF In \in Threaded /\ ~flb_input_buf_paused(st, In)
           /\ lwrb_get_full(w[In], r[In]) > 0
     THEN epc' = "copy" ELSE epc' = "reset"
  /\ UNCHANGED <<st, threadVars, rb_flush_flag, at, got, handed, refused, ringVars>>

\* Mutant: the part of the entry beyond the end of the buffer is not copied.
CollectCopyLinear ==
  /\ epc = "copy"
  /\ got' = [k \in 1 .. EntryBytes |->
               IF r[In] + k - 1 <= DataSize THEN buff[In][r[In] + k - 1] ELSE <<0, 0>>]
  /\ epc' = "append"
  /\ UNCHANGED <<st, threadVars, rb_flush_flag, at, handed, refused, ringVars>>

CollectCopy ==
  /\ epc = "copy"
  /\ got' = [k \in 1 .. EntryBytes |-> buff[In][Wrap(r[In] + k - 1)]]
  /\ epc' = "append"
  /\ UNCHANGED <<st, threadVars, rb_flush_flag, at, handed, refused, ringVars>>

(* The index is moved, which frees the bytes, and the record is appended.  *)
CollectAppend ==
  /\ epc = "append"
  /\ r' = [r EXCEPT ![In] = Wrap(@ + EntryBytes)]
  /\ \E res \in {input_chunk_append_raw(st, In, 1, 1)} :
       /\ st' = res.s
       /\ refused' = [refused EXCEPT ![In] = IF res.ok THEN @ ELSE @ \cup {Record(got)}]
  /\ handed' = [handed EXCEPT ![In] = Append(@, Record(got))]
  /\ got' = <<>> /\ epc' = "read"
  /\ UNCHANGED <<threadVars, rb_flush_flag, at, buff, w, flush_pending, signal>>

(* The loop over this input is done. *)
CollectReset ==
  /\ epc = "reset"
  /\ flush_pending' = [i \in Threaded |-> flush_pending[i] /\ i # In]
  /\ IF at < Len(InputList) THEN at' = at + 1 /\ epc' = "read"
                            ELSE at' = 0 /\ epc' = "loop"
  /\ UNCHANGED <<st, threadVars, rb_flush_flag, got, handed, refused, buff, w, r, signal>>

Collector == CollectRead \/ CollectCopy \/ CollectAppend \/ CollectReset

Next ==
  \/ \E i \in Threaded : InputThread(i)
  \/ EngineStep
  \/ \E i \in Threaded : DrainSignal(i)
  \/ CollectAfterSignal \/ CollectOnTimer \/ Collector

Spec == Init /\ [][Next]_vars

------------------------------------------------------------------------------
(***************************************************************************)
(* Fairness.  The threads keep running and the collector's timer keeps     *)
(* firing; the engine works on chunks as in InputChunks.  As there, the    *)
(* condition under which each action is enabled is spelled out.            *)
(***************************************************************************)
EngineWork(i) ==
  epc = "loop" /\ Work(i) /\ UNCHANGED <<threadVars, collectorVars, ringVars>>

ThreadCan(i) == pc[i] # "idle" \/ st.events[i] # <<>> \/ (st.running[i] /\ next[i] <= MaxRecords)

Fairness ==
  /\ \A i \in Threaded : []<>~ThreadCan(i) \/ []<><<InputThread(i)>>_vars
  /\ []<>(epc = "loop") \/ []<><<Collector>>_vars
  /\ []<>(epc # "loop") \/ []<><<CollectOnTimer \/ CollectAfterSignal>>_vars
  /\ \A i \in MayPause : <>[](epc # "loop" \/ ~WorkCan(i)) \/ []<><<EngineWork(i)>>_vars

FairSpec == Spec /\ Fairness

------------------------------------------------------------------------------
(***************************************************************************)
(* Properties.                                                             *)
(***************************************************************************)

(* Every variable has its type: the ring indices stay within the buffer,   *)
(* the collector within the list of inputs.                                *)
TypeOK ==
  /\ ChunkTypeOK
  /\ \A i \in Threaded : w[i] \in 0 .. DataSize /\ r[i] \in 0 .. DataSize
  /\ epc \in {"loop", "read", "copy", "append", "reset"} /\ at \in 0 .. Len(InputList)

(* The thread of an input and the engine agree on whether it is paused,    *)
(* once the thread has read its pipe: the last message sent says so.       *)
PauseAgreed ==
  \A i \in Inputs \ {Backlog} :
    LET told == IF st.events[i] = <<>> THEN st.running[i] ELSE Last(st.events[i]) = "resume"
    IN IF st.ingestion THEN told = ~flb_input_buf_paused(st, i) ELSE ~told

(* A record the ring buffer took is never lost to a pause: the collector   *)
(* only takes it out when input_chunk_append_raw will accept it.           *)
NeverRefused == \A i \in Threaded : Kind[i] # "memrb" => refused[i] = {}

(* The ring buffer and its collector behave as a bounded queue: records go *)
(* to the engine once, whole and in order, and only a refusal that the     *)
(* plugin sees loses one.                                                  *)
Entry(i, n) == [k \in 1 .. EntryBytes |-> buff[i][Wrap(Wrap(r[i] + (n - 1) * EntryBytes) + k - 1)]]
Queued(i) == [n \in 1 .. lwrb_get_full(w[i], r[i]) \div EntryBytes |->
                Record(Entry(i, n))]

Ring == INSTANCE RecordQueue WITH
  Producers <- Threaded, Capacity <- Entries,
  queue <- [i \in Threaded |-> Queued(i)]

RingIsQueue == Ring!QueueSpec

(* A record that is in the ring buffer reaches the engine, even when its   *)
(* signal was never sent because another was pending: the timer sees to    *)
(* it.  Only an input that is paused when ingestion stops keeps records.   *)
RecordsReachEngine ==
  \A i \in Threaded : \A n \in 1 .. MaxRecords :
    Contains(Queued(i), n)
      ~> (Contains(handed[i], n) \/ (flb_input_buf_paused(st, i) /\ ~st.ingestion))

==============================================================================
