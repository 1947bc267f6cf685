---------------------------- MODULE EngineLemmas -----------------------------
(***************************************************************************)
(* What the inductive invariant of FlbEngine rests on: counting the flushes*)
(* of a task, its id, and the helpers that several actions share.          *)
(***************************************************************************)
EXTENDS EngineTypes, FiniteSetTheorems, WellFoundedInduction

------------------------------------------------------------------------------
(* What each part of the invariant depends on. *)

\* UsersCount is about users and flushes.
LEMMA FrameUsers == ASSUME UsersCount, UNCHANGED <<users, flush>> PROVE UsersCount'
  BY DEF UsersCount, Flushes

\* FlushHasTask is about flushes and tasks.
LEMMA FrameFlush == ASSUME FlushHasTask, UNCHANGED <<task, flush>> PROVE FlushHasTask'
  BY DEF FlushHasTask

\* RetryHasTask is about retries and tasks.
LEMMA FrameRetry == ASSUME RetryHasTask, UNCHANGED <<task, attempts>> PROVE RetryHasTask'
  BY DEF RetryHasTask

\* RequestHasRetry is about requests and retries.
LEMMA FrameRequest == ASSUME RequestHasRetry, UNCHANGED <<req, attempts>> PROVE RequestHasRetry'
  BY DEF RequestHasRetry

\* TaskHasChunk is about tasks and chunks.
LEMMA FrameChunk == ASSUME TaskHasChunk, UNCHANGED <<chunk, task>> PROVE TaskHasChunk'
  BY DEF TaskHasChunk

\* QueueInv is about the queues and their flushes.
LEMMA FrameQueue == ASSUME QueueInv, UNCHANGED <<pending, flush>> PROVE QueueInv'
  BY DEF QueueInv

\* TaskIdsExact is about tasks and their ids.
LEMMA FrameIds == ASSUME TaskIdsExact, UNCHANGED <<task, tasks_map>> PROVE TaskIdsExact'
  BY DEF TaskIdsExact

------------------------------------------------------------------------------
(* Counting flushes. *)

\* There are finitely many flush slots.
LEMMA SlotsFinite == IsFiniteSet(Slots)
  <1> DEFINE T == (Chunks \X Outputs) \X Copies
             f == [s \in Slots |-> <<<<s[1], s[2]>>, s[3]>>]
  <1>1. IsFiniteSet(Copies)
    BY FS_Interval, BoundAssumption DEF Copies
  <1>2. IsFiniteSet(Chunks \X Outputs)
    BY FS_Product, InstanceAssumption
  <1>3. IsFiniteSet(T)
    BY <1>1, <1>2, FS_Product
  <1>4. f \in Injection(Slots, T)
    BY SlotParts DEF Injection, IsInjective
  <1> QED BY <1>3, <1>4, FS_Injection

\* The flushes of a task are finitely many.
LEMMA FlushesFinite ==
    \A c : IsFiniteSet(Flushes(c)) /\ Cardinality(Flushes(c)) \in Nat
  <1> TAKE c
  <1>1. Flushes(c) \subseteq Slots BY DEF Flushes
  <1>2. IsFiniteSet(Flushes(c)) BY <1>1, SlotsFinite, FS_Subset
  <1> QED BY <1>2, FS_CardinalityType

\* A task without users has no flush left.
LEMMA IdleHasNoFlush ==
    ASSUME UsersCount, NEW c \in Chunks, users[c] = 0
    PROVE  Flushes(c) = {}
  <1>1. Cardinality(Flushes(c)) = 0 BY FlushesFinite DEF UsersCount
  <1> QED BY <1>1, FlushesFinite, FS_EmptySet

\* The last user of a task is its only flush.
LEMMA LastFlush ==
    ASSUME UsersCount, NEW s \in Slots, flush[s] # "none", users[s[1]] = 1
    PROVE  Flushes(s[1]) = {s}
  <1> DEFINE F == Flushes(s[1])
  <1>1. s \in F BY DEF Flushes
  <1>2. Cardinality(F) <= 1 BY SlotParts DEF UsersCount
  <1>3. F # {} BY <1>1
  <1>4. Cardinality(F) # 0 BY <1>3, FlushesFinite, FS_EmptySet
  <1>5. Cardinality(F) = 1 BY <1>2, <1>4, FlushesFinite
  <1>6. \E x : F = {x} BY <1>5, FlushesFinite, FS_Singleton, Zenon
  <1> QED BY <1>1, <1>6

\* A step that changes one flush keeps users covering flushes when it counts a
\* new flush and discounts at most the one it ends.
LEMMA CountStep ==
    ASSUME UsersCount, FlushType, TaskType, NEW s \in Slots, NEW v,
           flush' = [flush EXCEPT ![s] = v], users' \in [Chunks -> Int],
           \A c \in Chunks : c # s[1] => users'[c] >= users[c],
           users'[s[1]] >= users[s[1]] + (IF v # "none" THEN (IF flush[s] = "none" THEN 1 ELSE 0)
                                          ELSE (IF flush[s] = "none" THEN 0 ELSE -1))
    PROVE  UsersCount'
  <1> SUFFICES ASSUME NEW c \in Chunks PROVE Cardinality(Flushes(c)') <= users'[c]
    BY DEF UsersCount
  <1>0. /\ Cardinality(Flushes(c)) \in Nat /\ Cardinality(Flushes(c)) <= users[c]
        /\ users[c] \in Int /\ users'[c] \in Int
    BY FlushesFinite DEF UsersCount, TaskType
  <1>1. CASE c # s[1]
    <2>1. Flushes(c)' = Flushes(c) BY <1>1 DEF Flushes, FlushType
    <2> QED BY <2>1, <1>0, <1>1
  <1>2. CASE c = s[1] /\ v # "none"
    <2>1. Flushes(c)' = Flushes(c) \cup {s} BY <1>2 DEF Flushes, FlushType
    <2>2. s \in Flushes(c) <=> flush[s] # "none" BY <1>2 DEF Flushes
    <2>3. Cardinality(Flushes(c)') = IF flush[s] # "none" THEN Cardinality(Flushes(c))
                                     ELSE Cardinality(Flushes(c)) + 1
      BY <2>1, <2>2, FlushesFinite, FS_AddElement, Zenon
    <2> QED BY <2>3, <1>0, <1>2
  <1>3. CASE c = s[1] /\ v = "none"
    <2>1. Flushes(c)' = Flushes(c) \ {s} BY <1>3 DEF Flushes, FlushType
    <2>2. s \in Flushes(c) <=> flush[s] # "none" BY <1>3 DEF Flushes
    <2>3. Cardinality(Flushes(c)') = IF flush[s] # "none" THEN Cardinality(Flushes(c)) - 1
                                     ELSE Cardinality(Flushes(c))
      BY <2>1, <2>2, FlushesFinite, FS_RemoveElement, Zenon
    <2> QED BY <2>3, <1>0, <1>3
  <1> QED BY <1>1, <1>2, <1>3

------------------------------------------------------------------------------
(* Task ids. *)

\* map_get_task_id finds a free id when there is one.
LEMMA FreeIdFound ==
    ASSUME FreeIds # {}
    PROVE  map_get_task_id \in FreeIds
  <1>1. FreeIds \subseteq Nat
    BY BoundAssumption DEF FreeIds, TaskIds
  <1> DEFINE R == OpToRel(<, Nat)
  <1>2. IsWellFoundedOn(R, Nat)
    BY NatLessThanWellFounded, Zenon
  <1>3. \A j, i \in Nat : j < i => <<j, i>> \in R
    BY DEF OpToRel
  <1> HIDE DEF R
  <1>4. PICK i \in FreeIds : \A j \in FreeIds : <<j, i>> \notin R
    BY <1>1, <1>2, WFMin, Zenon
  <1>5. \A j \in FreeIds : i <= j
    <2> TAKE j \in FreeIds
    <2>1. i \in Nat /\ j \in Nat BY <1>1
    <2>2. ~ (j < i) BY <2>1, <1>3, <1>4, Zenon
    <2> QED BY <2>1, <2>2
  <1> QED BY <1>5 DEF map_get_task_id

\* flb_task_destroy frees the ids of the tasks it destroys, and no other.
LEMMA DestroyIds ==
    ASSUME TaskType, TaskIdsExact, NEW D \in SUBSET Chunks, flb_task_destroy(D)
    PROVE  TaskIdsExact'
  <1>1. ASSUME NEW i \in TaskIds, tasks_map'[i] \in Chunks
        PROVE  task'[tasks_map'[i]] # "none"
    BY <1>1, InstanceAssumption DEF flb_task_destroy, TaskIdsExact, TaskType
  <1>2. ASSUME NEW c \in Chunks, task'[c] # "none"
        PROVE  \E i \in TaskIds : \A j \in TaskIds : tasks_map'[j] = c <=> j = i
    <2>1. c \notin D /\ task[c] # "none"
      BY <1>2 DEF flb_task_destroy
    <2>2. PICK i \in TaskIds : \A j \in TaskIds : tasks_map[j] = c <=> j = i
      BY <2>1 DEF TaskIdsExact
    <2>3. \A j \in TaskIds : tasks_map'[j] = c <=> j = i
      BY <2>1, <2>2, InstanceAssumption DEF flb_task_destroy
    <2> QED BY <2>3
  <1> QED BY <1>1, <1>2 DEF TaskIdsExact

\* A new task takes a free id; the ids of the others stay.
LEMMA CreateIds ==
    ASSUME TaskType, TaskIdsExact, FreeIds # {}, NEW c \in Chunks, task[c] = "none",
           NEW v \in {Free, Dangling, c},
           tasks_map' = [tasks_map EXCEPT ![map_get_task_id] = v],
           v = c => task' \in {[task EXCEPT ![c] = "new"]},
           v # c => task' \in {task, [task EXCEPT ![c] = "none"]}
    PROVE  TaskIdsExact'
  <1> DEFINE n == map_get_task_id
  <1>1. n \in TaskIds /\ tasks_map[n] = Free
    BY FreeIdFound DEF FreeIds
  <1>2. \A j \in TaskIds : tasks_map[j] # c
    BY DEF TaskIdsExact
  <1>3. \A d \in Chunks : d # c => task'[d] = task[d]
    BY DEF TaskType
  <1>4. \A j \in TaskIds : tasks_map'[j] = IF j = n THEN v ELSE tasks_map[j]
    BY <1>1 DEF TaskType
  <1>5. v \in Chunks => v = c
    BY InstanceAssumption
  <1>6. v = c <=> task'[c] # "none"
    BY DEF TaskType
  <1> HIDE DEF n
  <1>7. ASSUME NEW i \in TaskIds, tasks_map'[i] \in Chunks
        PROVE  task'[tasks_map'[i]] # "none"
    BY <1>2, <1>3, <1>4, <1>5, <1>6, <1>7 DEF TaskIdsExact
  <1>8. ASSUME NEW d \in Chunks, task'[d] # "none"
        PROVE  \E i \in TaskIds : \A j \in TaskIds : tasks_map'[j] = d <=> j = i
    <2>1. CASE d = c
      BY <2>1, <1>1, <1>2, <1>4, <1>6, <1>8
    <2>2. CASE d # c
      <3>1. PICK i \in TaskIds : \A j \in TaskIds : tasks_map[j] = d <=> j = i
        BY <2>2, <1>3, <1>8 DEF TaskIdsExact
      <3>2. i # n
        BY <3>1, <1>1, InstanceAssumption
      <3>3. \A j \in TaskIds : tasks_map'[j] = d <=> j = i
        BY <3>1, <3>2, <1>1, <1>4, <1>5, <2>2
      <3> QED BY <3>3
    <2> QED BY <2>1, <2>2
  <1> QED BY <1>7, <1>8 DEF TaskIdsExact

------------------------------------------------------------------------------
(* The effect of the helpers of several actions on EngineInv. *)

\* A step that keeps flushes, queues and users, and in which every task stays a task.
LEMMA StatusStep ==
    ASSUME TypeOK, TypeOK', EngineInv,
           UNCHANGED <<chunk, tasks_map, users, attempts, flush, pending, req>>,
           \A c \in Chunks : task'[c] = "none" <=> task[c] = "none"
    PROVE  /\ UsersCount' /\ FlushHasTask' /\ RetryHasTask' /\ RequestHasRetry' /\ TaskHasChunk'
           /\ QueueInv' /\ TaskIdsExact'
  <1>1. UsersCount'
    BY DEF EngineInv, UsersCount, Flushes
  <1>2. FlushHasTask' /\ RetryHasTask' /\ RequestHasRetry' /\ TaskHasChunk'
    BY SlotParts DEF EngineInv, FlushHasTask, RetryHasTask, RequestHasRetry, TaskHasChunk
  <1>3. QueueInv'
    BY DEF EngineInv, QueueInv
  <1>4. TaskIdsExact'
    BY DEF EngineInv, TaskIdsExact
  <1> QED BY <1>1, <1>2, <1>3, <1>4

\* The live requests left by flb_task_retry_destroy are old ones of other retries.
LEMMA RetryDestroyed ==
    ASSUME FlushType, NEW R, NEW s \in Slots,
           flb_task_retry_destroy(R)[s] \in {"wait", "now"}
    PROVE  <<s[1], s[2]>> \notin R /\ req[s] \in {"wait", "now"}
BY DEF flb_task_retry_destroy, flb_sched_request_invalidate, FlushType

\* Destroying tasks is safe when no flush and no retry of them is left.
LEMMA DestroyStep ==
    ASSUME TypeOK, EngineInv, NEW D \in SUBSET Chunks, flb_task_destroy(D),
           \A s \in Slots : flush'[s] # "none" => s[1] \notin D /\ task[s[1]] # "none",
           \A c \in Chunks, o \in Outputs :
             attempts'[c][o] > 0 => c \notin D /\ task[c] # "none"
    PROVE  FlushHasTask' /\ RetryHasTask' /\ TaskHasChunk' /\ TaskIdsExact'
  <1>1. FlushHasTask' /\ RetryHasTask'
    BY SlotParts DEF FlushHasTask, RetryHasTask, flb_task_destroy
  <1>2. TaskHasChunk'
    BY DEF EngineInv, TaskHasChunk, flb_task_destroy
  <1>3. TaskIdsExact'
    BY DestroyIds DEF EngineInv, TypeOK
  <1> QED BY <1>1, <1>2, <1>3

\* A queue keeps its order and its pending flushes when a flush that is not
\* pending changes.
LEMMA QueueKept ==
    ASSUME FlushType, QueueInv, pending' = pending, NEW s \in Slots, NEW v,
           flush[s] # "pending", flush' = [flush EXCEPT ![s] = v]
    PROVE  QueueInv'
  <1>1. \A o \in Outputs : \A i \in DOMAIN pending[o] : pending[o][i] \in Slots
    BY DEF FlushType
  <1>2. \A o \in Outputs : \A i \in DOMAIN pending[o] : flush'[pending[o][i]] = "pending"
    BY <1>1 DEF FlushType, QueueInv
  <1> QED BY <1>2 DEF QueueInv

\* Submitting a flush of a task counts it as a user and queues it once.
LEMMA SubmitStep ==
    ASSUME TypeOK, TypeOK', EngineInv, NEW s \in Slots, NEW res, FreeFlush(s), Submit(s, res),
           task[s[1]] # "none"
    PROVE  /\ UsersCount' /\ QueueInv'
           /\ \A t \in Slots : flush'[t] # "none" => task[t[1]] # "none"
  <1>a. TaskType /\ FlushType /\ users' \in [Chunks -> Int] /\ FlushType'
    BY DEF TypeOK, TaskType
  <1>b. flush[s] = "none" /\ s[1] \in Chunks /\ s[2] \in Outputs
    BY SlotParts DEF FreeFlush
  <1>1. PICK v \in {"none", "wire", "pending"} :
          /\ flush' = [flush EXCEPT ![s] = v]
          /\ v = "pending" <=> res = "queued"
          /\ v # "none" => users' = [users EXCEPT ![s[1]] = @ + 1]
          /\ users' \in {users, [users EXCEPT ![s[1]] = @ + 1]}
    <2>1. CASE res = "sent" BY <2>1 DEF Submit
    <2>2. CASE res = "queued" BY <2>2 DEF Submit
    <2>3. CASE res \notin {"sent", "queued"}
      <3>1. flush' = [flush EXCEPT ![s] = "none"]
        BY <2>3, <1>a, <1>b, Zenon DEF Submit, FlushType
      <3> QED BY <3>1, <2>3, Zenon DEF Submit
    <2> QED BY <2>1, <2>2, <2>3
  <1>2. UsersCount'
    <2>1. \A c \in Chunks : c # s[1] => users'[c] >= users[c]
      BY <1>1, <1>a, <1>b DEF TaskType
    <2>2. users'[s[1]] >= users[s[1]] + (IF v # "none" THEN (IF flush[s] = "none" THEN 1 ELSE 0)
                                         ELSE (IF flush[s] = "none" THEN 0 ELSE -1))
      BY <1>1, <1>a, <1>b DEF TaskType
    <2> QED BY <1>1, <1>a, <2>1, <2>2, CountStep, Zenon DEF EngineInv
  <1>3. QueueInv'
    <2>1. CASE res # "queued"
      BY <2>1, <1>1, <1>a, <1>b, QueueKept, Zenon DEF Submit, EngineInv
    <2>2. CASE res = "queued"
      <3> DEFINE q == pending[s[2]]
      <3>1. pending' = [pending EXCEPT ![s[2]] = Append(q, s)] /\ q \in Seq(Slots)
        BY <2>2, <1>a, <1>b DEF Submit, FlushType
      <3>2. \A o \in Outputs : \A i \in DOMAIN pending[o] :
              /\ pending[o][i] \in Slots /\ pending[o][i] # s
              /\ pending[o][i][2] = o /\ flush'[pending[o][i]] = "pending"
        BY <1>1, <1>a, <1>b DEF EngineInv, QueueInv, FlushType
      <3>3. flush'[s] = "pending" BY <1>1, <2>2, <1>a DEF FlushType
      <3>4. ASSUME NEW o \in Outputs, o # s[2]
            PROVE  /\ \A i \in DOMAIN pending'[o] : pending'[o][i][2] = o /\ flush'[pending'[o][i]] = "pending"
                   /\ \A i, j \in DOMAIN pending'[o] : pending'[o][i] = pending'[o][j] => i = j
        <4>1. pending'[o] = pending[o] BY <3>1, <3>4, <1>a DEF FlushType
        <4> QED BY <4>1, <3>2 DEF EngineInv, QueueInv
      <3>5. /\ \A i \in DOMAIN pending'[s[2]] : pending'[s[2]][i][2] = s[2] /\ flush'[pending'[s[2]][i]] = "pending"
            /\ \A i, j \in DOMAIN pending'[s[2]] : pending'[s[2]][i] = pending'[s[2]][j] => i = j
        <4> DEFINE p == pending'[s[2]]
                   n == Len(q) + 1
        <4>1. p = Append(q, s) BY <3>1, <1>a, <1>b DEF FlushType
        <4>2. DOMAIN p = 1 .. n /\ p[n] = s /\ n \notin DOMAIN q /\ n \in Nat
          BY <4>1, <3>1
        <4>3. \A i \in 1 .. n : i # n => i \in DOMAIN q /\ p[i] = q[i]
          BY <4>1, <3>1
        <4>4. \A i \in DOMAIN q : q[i] # s /\ q[i][2] = s[2] /\ flush'[q[i]] = "pending"
          BY <3>2, <1>b
        <4>5. \A i, j \in DOMAIN q : q[i] = q[j] => i = j
          BY <1>b DEF EngineInv, QueueInv
        <4> HIDE DEF p, n, q
        <4>6. \A i \in DOMAIN p : p[i][2] = s[2] /\ flush'[p[i]] = "pending"
          BY <4>2, <4>3, <4>4, <3>3
        <4>7. \A i, j \in DOMAIN p : p[i] = p[j] => i = j
          BY <4>2, <4>3, <4>4, <4>5
        <4> QED BY <4>6, <4>7 DEF p
      <3> QED BY <3>4, <3>5, <1>b DEF QueueInv
    <2> QED BY <2>1, <2>2
  <1>4. \A t \in Slots : flush'[t] # "none" => task[t[1]] # "none"
    BY <1>1, <1>a DEF EngineInv, FlushHasTask, FlushType
  <1> QED BY <1>2, <1>3, <1>4
==============================================================================
