---------------------------- MODULE RecordQueue ----------------------------
(***************************************************************************)
(* What an input in a thread of its own is promised about its records      *)
(* (append_to_ring_buffer and flb_input_chunk_ring_buffer_collector): a    *)
(* record that was accepted is handed to the engine once, whole and in the *)
(* order of acceptance, and at most `Capacity` records wait.               *)
(***************************************************************************)
EXTENDS Naturals, Sequences

CONSTANTS Producers, Capacity

VARIABLES
  next,    \* the record a producer will offer next
  queue,   \* the records accepted and not yet handed over
  handed   \* the records handed to the engine

QueueInit ==
  /\ next = [p \in Producers |-> 1]
  /\ queue = [p \in Producers |-> <<>>]
  /\ handed = [p \in Producers |-> <<>>]

(* The next record is accepted. *)
Accept(p) ==
  /\ Len(queue[p]) < Capacity
  /\ queue' = [queue EXCEPT ![p] = Append(@, next[p])]
  /\ next' = [next EXCEPT ![p] = @ + 1]
  /\ UNCHANGED handed

(* The next record is refused, and the plugin is told so. *)
Refuse(p) ==
  /\ next' = [next EXCEPT ![p] = @ + 1]
  /\ UNCHANGED <<queue, handed>>

(* The oldest record that waits goes to the engine. *)
Hand(p) ==
  /\ queue[p] # <<>>
  /\ handed' = [handed EXCEPT ![p] = Append(@, Head(queue[p]))]
  /\ queue' = [queue EXCEPT ![p] = Tail(@)]
  /\ UNCHANGED next

QueueNext == \E p \in Producers : Accept(p) \/ Refuse(p) \/ Hand(p)

QueueSpec == QueueInit /\ [][QueueNext]_<<next, queue, handed>>

==============================================================================
