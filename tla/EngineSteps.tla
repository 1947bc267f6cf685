----------------------------- MODULE EngineSteps -----------------------------
(***************************************************************************)
(* Every action of FlbEngine preserves EngineInv.                          *)
(***************************************************************************)
EXTENDS EngineLemmas

------------------------------------------------------------------------------
(* EngineInv is inductive: one lemma per action, or group of alike actions. *)

\* The steps of the engine thread that only move it, and flb_engine_exit.
LEMMA InvQuiet ==
    ASSUME TypeOK, TypeOK', EngineInv,
           \/ FlushTimer \/ NextInput \/ EndCreate \/ \E o \in Outputs : SkipRoute(o)
           \/ \E s \in Slots : handle_output_event(s) \/ FireStale(s)
           \/ flb_engine_manager \/ EngineShutdown \/ flb_engine_exit
    PROVE  EngineInv'
  <1>1. UNCHANGED <<chunk, tasks_map, task, users, attempts, flush, pending, req>>
    <2>1. CASE \E o \in Outputs : SkipRoute(o)
      BY <2>1 DEF SkipRoute, taskVars, flushVars
    <2>2. CASE \E s \in Slots : handle_output_event(s) \/ FireStale(s)
      BY <2>2 DEF handle_output_event, FireStale, taskVars, flushVars
    <2>3. CASE FlushTimer \/ NextInput \/ EndCreate \/ flb_engine_manager \/ EngineShutdown
               \/ flb_engine_exit
      BY <2>3, Zenon DEF FlushTimer, NextInput, EndCreate, flb_engine_manager, EngineShutdown,
                  flb_engine_exit, taskVars, flushVars
    <2> QED BY <2>1, <2>2, <2>3
  <1>2. ThreadInv'
    <2>0. ThreadInv BY DEF EngineInv
    <2>1. CASE FlushTimer \/ EndCreate \/ flb_engine_manager \/ EngineShutdown
      BY <2>1, ZenonT(30) DEF FlushTimer, EndCreate, flb_engine_manager, EngineShutdown, flb_engine_flush,
                  ThreadInv, At
    <2>2. CASE NextInput
      BY <2>2, <1>1, Zenon DEF NextInput, ThreadInv
    <2>3. CASE flb_engine_exit
      BY <2>3, <2>0, <1>1 DEF flb_engine_exit, loopVars, ThreadInv
    <2>4. CASE \E o \in Outputs : SkipRoute(o)
      BY <2>4, <2>0, <1>1 DEF SkipRoute, ThreadInv
    <2>5. ASSUME NEW s \in Slots, handle_output_event(s) PROVE ThreadInv'
      BY <2>5, <1>1 DEF handle_output_event, ThreadInv
    <2>6. ASSUME NEW s \in Slots, FireStale(s) PROVE ThreadInv'
      BY <2>6, <2>0, <1>1 DEF FireStale, loopVars, ThreadInv
    <2> QED BY <2>1, <2>2, <2>3, <2>4, <2>5, <2>6
  <1> QED BY <1>1, <1>2, StatusStep DEF EngineInv

\* tasks_start marks a task as running and, without a hit, as new again.
LEMMA InvStatus ==
    ASSUME TypeOK, TypeOK', EngineInv, EndRoutes \/ \E c \in Chunks : StartTask(c)
    PROVE  EngineInv'
  <1>1. CASE EndRoutes
    <2>1. \A c \in Chunks : task'[c] = "none" <=> task[c] = "none"
      BY <1>1 DEF EndRoutes, At, EngineInv, ThreadInv, TypeOK, TaskType
    <2>2. UNCHANGED <<chunk, tasks_map, users, attempts, flush, pending, req>>
      BY <1>1 DEF EndRoutes, flushVars
    <2>3. ThreadInv'
      BY <1>1 DEF EndRoutes, ThreadInv
    <2> QED BY <2>1, <2>2, <2>3, StatusStep, ZenonT(30) DEF EngineInv
  <1>2. ASSUME NEW c \in Chunks, StartTask(c) PROVE EngineInv'
    <2>1. \A d \in Chunks : task'[d] = "none" <=> task[d] = "none"
      BY <1>2 DEF StartTask, TypeOK, TaskType
    <2>2. UNCHANGED <<chunk, tasks_map, users, attempts, flush, pending, req>>
      BY <1>2 DEF StartTask, flushVars
    <2>3. ThreadInv'
      BY <1>2 DEF StartTask, At, ThreadInv, TypeOK, TaskType
    <2> QED BY <2>1, <2>2, <2>3, StatusStep DEF EngineInv
  <1> QED BY <1>1, <1>2

\* The clean-up of flb_engine_dispatch destroys tasks without users and retries.
LEMMA InvEndInput ==
    ASSUME TypeOK, TypeOK', EngineInv, EndInput
    PROVE  EngineInv'
  <1> DEFINE D == {c \in Chunks : /\ In[c] = in /\ task[c] # "none" /\ users[c] = 0
                                  /\ ~HasRetry(c) /\ Routes(c) = {}}
  <1>1. flb_task_destroy(D) /\ UNCHANGED <<users, attempts, flush, pending, req>>
    BY Zenon DEF EndInput, flushVars
  <1>2. \A s \in Slots : flush[s] # "none" => s[1] \notin D /\ task[s[1]] # "none"
    BY IdleHasNoFlush, SlotParts DEF EngineInv, FlushHasTask, Flushes
  <1>3. \A c \in Chunks, o \in Outputs : attempts[c][o] > 0 => c \notin D /\ task[c] # "none"
    BY DEF EngineInv, RetryHasTask, HasRetry
  <1>4. D \in SUBSET Chunks OBVIOUS
  <1> HIDE DEF D
  <1>5. FlushHasTask' /\ RetryHasTask' /\ TaskHasChunk' /\ TaskIdsExact'
    BY <1>1, <1>2, <1>3, <1>4, DestroyStep
  <1>6. UsersCount' /\ RequestHasRetry' /\ QueueInv'
    BY <1>1 DEF EngineInv, UsersCount, Flushes, RequestHasRetry, QueueInv
  <1>7. ThreadInv'
    BY DEF EndInput, ThreadInv
  <1> QED BY <1>5, <1>6, <1>7 DEF EngineInv

\* flb_engine_dispatch creates the task of a ready chunk, which had none.
LEMMA InvDispatch ==
    ASSUME TypeOK, TypeOK', EngineInv, NEW c \in Chunks, DispatchChunk(c)
    PROVE  EngineInv'
  <1>0. TaskType /\ TaskType' /\ FlushType BY DEF TypeOK
  <1>1. chunk[c] = "ready" /\ task[c] = "none"
    BY DEF DispatchChunk, At, EngineInv, ThreadInv, TaskHasChunk
  <1>2. UNCHANGED <<flush, pending, req, pc>> /\ pc = "create" /\ walk' \in {{}, walk \ {c}}
    BY DEF DispatchChunk, flushVars, At
  <1>3. \/ UNCHANGED <<chunk, tasks_map, task, users, attempts>>
        \/ /\ FreeIds # {} /\ UNCHANGED <<chunk, task, users, attempts>>
           /\ tasks_map' = [tasks_map EXCEPT ![map_get_task_id] = Dangling]
        \/ /\ FreeIds # {} /\ \E R \in SUBSET Outputs : flb_task_create(c, R)
           /\ walk' = walk \ {c}
    BY DEF DispatchChunk, taskVars
  <1>4. CASE UNCHANGED <<chunk, tasks_map, task, users, attempts>>
    <2>1. ThreadInv' BY <1>2, <1>4 DEF EngineInv, ThreadInv
    <2> QED BY <1>2, <1>4, <2>1, StatusStep DEF EngineInv
  <1>5. CASE /\ FreeIds # {} /\ UNCHANGED <<chunk, task, users, attempts>>
             /\ tasks_map' = [tasks_map EXCEPT ![map_get_task_id] = Dangling]
    <2>1. ThreadInv' BY <1>2, <1>5 DEF EngineInv, ThreadInv
    <2>2. Dangling # c BY InstanceAssumption
    <2>3. TaskIdsExact' BY <1>0, <1>1, <1>5, <2>2, CreateIds, ZenonT(30) DEF EngineInv
    <2>4. /\ UsersCount' /\ FlushHasTask' /\ RetryHasTask' /\ RequestHasRetry' /\ TaskHasChunk'
          /\ QueueInv'
      BY <1>2, <1>5, FrameUsers, FrameFlush, FrameRetry, FrameRequest, FrameChunk, FrameQueue
         DEF EngineInv
    <2> QED BY <2>1, <2>3, <2>4 DEF EngineInv
  <1>6. ASSUME FreeIds # {}, NEW R \in SUBSET Outputs, flb_task_create(c, R), walk' = walk \ {c}
        PROVE  EngineInv'
    <2> DEFINE v == IF R = {} THEN Free ELSE c
    <2>1. /\ \A d \in Chunks : d # c => /\ task'[d] = task[d] /\ chunk'[d] = chunk[d]
                                        /\ users'[d] = users[d] /\ attempts'[d] = attempts[d]
          /\ users'[c] = 0 /\ attempts'[c] = [o \in Outputs |-> 0]
          /\ task'[c] # "none" => chunk'[c] = "busy"
      BY <1>0, <1>6 DEF flb_task_create, TaskType
    <2>2. Flushes(c) = {} /\ \A d : Flushes(d)' = Flushes(d)
      BY <1>1, <1>2 DEF EngineInv, FlushHasTask, Flushes
    <2>3. \A o \in Outputs : attempts[c][o] = 0
      BY <1>0, <1>1 DEF EngineInv, RetryHasTask, TaskType
    <2>4. UsersCount'
      <3>1. UsersCount BY DEF EngineInv
      <3>2. Cardinality(Flushes(c)) = 0 BY <2>2, FS_EmptySet
      <3> QED BY <2>1, <2>2, <3>1, <3>2 DEF UsersCount
    <2>5. FlushHasTask'
      BY <1>1, <1>2, <2>1, SlotParts DEF EngineInv, FlushHasTask
    <2>6. RetryHasTask'
      <3>1. RetryHasTask BY DEF EngineInv
      <3>2. \A o \in Outputs : ~(attempts'[c][o] > 0) BY <2>1
      <3> QED BY <2>1, <3>1, <3>2 DEF RetryHasTask
    <2>7. RequestHasRetry'
      BY <1>2, <2>1, <2>3, SlotParts DEF EngineInv, RequestHasRetry
    <2>8. TaskHasChunk'
      BY <2>1, Zenon DEF EngineInv, TaskHasChunk
    <2>9. QueueInv'
      BY <1>2 DEF EngineInv, QueueInv
    <2>10. TaskIdsExact'
      <3>1. v \in {Free, Dangling, c} /\ (v = c <=> R # {})
        BY InstanceAssumption
      <3>2. /\ tasks_map' = [tasks_map EXCEPT ![map_get_task_id] = v]
            /\ task' = [task EXCEPT ![c] = IF R = {} THEN "none" ELSE "new"]
        BY <1>6 DEF flb_task_create
      <3> HIDE DEF v
      <3> QED BY <3>1, <3>2, <1>0, <1>1, <1>6, CreateIds, ZenonT(30) DEF EngineInv
    <2>11. ThreadInv'
      BY <1>2, <1>6, <2>1, <1>0, SMTT(30) DEF EngineInv, ThreadInv, TypeOK, LoopType
    <2> QED BY <2>4, <2>5, <2>6, <2>7, <2>8, <2>9, <2>10, <2>11, Zenon DEF EngineInv
  <1> QED BY <1>3, <1>4, <1>5, <1>6

\* tasks_start submits a route of a task it is visiting.
LEMMA InvStartRoute ==
    ASSUME TypeOK, TypeOK', EngineInv, NEW s \in Slots, StartRoute(s)
    PROVE  EngineInv'
  <1>1. PICK res : Submit(s, res) BY DEF StartRoute
  <1>2. FreeFlush(s) /\ task[s[1]] # "none" /\ pc = "route" /\ UNCHANGED <<pc, cur>>
    BY DEF StartRoute, At, EngineInv, ThreadInv
  <1>3. UNCHANGED <<chunk, tasks_map, task, attempts, req>> BY DEF StartRoute
  <1>4. /\ UsersCount' /\ QueueInv' /\ \A t \in Slots : flush'[t] # "none" => task[t[1]] # "none"
    BY <1>1, <1>2, SubmitStep
  <1>5. FlushHasTask' /\ RetryHasTask' /\ RequestHasRetry' /\ TaskHasChunk' /\ TaskIdsExact'
    BY <1>3, <1>4 DEF EngineInv, FlushHasTask, RetryHasTask, RequestHasRetry, TaskHasChunk,
                      TaskIdsExact
  <1>6. ThreadInv' BY <1>2, <1>3 DEF EngineInv, ThreadInv
  <1> QED BY <1>4, <1>5, <1>6 DEF EngineInv

\* Clearing the attempts of one retry, and of no other.
LEMMA ClearedRetry ==
    ASSUME TypeOK, NEW c \in Chunks, NEW o \in Outputs,
           attempts' \in {attempts, [attempts EXCEPT ![c][o] = 0]}
    PROVE  \A d \in Chunks, x \in Outputs :
             /\ attempts'[d][x] > 0 => attempts[d][x] > 0
             /\ attempts'[d][x] = attempts[d][x] \/ (d = c /\ x = o)
  <1>1. attempts \in [Chunks -> [Outputs -> Nat]] BY DEF TypeOK, TaskType
  <1> QED BY <1>1

\* The requests of a cleared retry are gone or stale, those of the others stay.
LEMMA ClearedRequests ==
    ASSUME TypeOK, EngineInv, NEW c \in Chunks, NEW o \in Outputs, NEW R,
           attempts' \in {attempts, [attempts EXCEPT ![c][o] = 0]},
           req' = flb_task_retry_destroy(R),
           attempts[c][o] > 0 /\ <<c, o>> \notin R => attempts' = attempts
    PROVE  RequestHasRetry'
  <1> SUFFICES ASSUME NEW s \in Slots, req'[s] \in {"wait", "now"}
               PROVE  attempts'[s[1]][s[2]] > 0
    BY DEF RequestHasRetry
  <1>1. FlushType BY DEF TypeOK
  <1>2. <<s[1], s[2]>> \notin R /\ req[s] \in {"wait", "now"}
    BY <1>1, RetryDestroyed
  <1>3. attempts[s[1]][s[2]] > 0
    BY <1>2 DEF EngineInv, RequestHasRetry
  <1>4. CASE s[1] = c /\ s[2] = o
    BY <1>2, <1>3, <1>4
  <1>5. CASE ~(s[1] = c /\ s[2] = o)
    BY <1>3, <1>5, ClearedRetry, SlotParts
  <1> QED BY <1>4, <1>5

\* flb_output_task_queue_flush_one: the first pending flush leaves its queue.
LEMMA InvFlushOne ==
    ASSUME TypeOK, TypeOK', EngineInv, flush_one
    PROVE  EngineInv'
  <1> DEFINE o == back[2]
             q == pending[o]
             s == Head(q)
             c == s[1]
  <1>0. TaskType /\ FlushType /\ users' \in [Chunks -> Int] BY SMTT(30) DEF TypeOK, TaskType
  <1>1. /\ back \in Slots /\ flush[back] \in Returns /\ o \in Outputs /\ pc = "queue"
    BY SlotParts, Zenon DEF flush_one, At, EngineInv, ThreadInv
  <1>2. q \in Seq(Slots) /\ q # <<>>
    BY <1>0, <1>1, Zenon DEF flush_one, FlushType
  <1>3. s \in Slots /\ s = q[1] /\ 1 \in DOMAIN q
    BY <1>2
  <1>4. flush[s] = "pending" /\ s[2] = o /\ c \in Chunks /\ task[c] # "none" /\ s # back
    BY <1>1, <1>3, SlotParts DEF EngineInv, QueueInv, FlushHasTask, Returns
  <1>5. PICK res :
          LET freed == IF Refused(o, res) /\ carries[s] = "live" THEN {<<c, o>>} ELSE {}
          IN  /\ users' = IF res = "sent" THEN users ELSE [users EXCEPT ![c] = @ - 1]
              /\ flush' = [flush EXCEPT ![s] = IF res = "sent" THEN "wire" ELSE "none"]
              /\ attempts' = IF freed = {} THEN attempts ELSE [attempts EXCEPT ![c][o] = 0]
              /\ req' = flb_task_retry_destroy(freed)
    BY ZenonT(30) DEF flush_one
  <1>6. UNCHANGED <<chunk, tasks_map, task, back>> /\ pc' \in {"settle", "queue"}
        /\ pending' = [pending EXCEPT ![o] = Tail(q)]
    BY ZenonT(30) DEF flush_one
  <1> DEFINE v == IF res = "sent" THEN "wire" ELSE "none"
             freed == IF Refused(o, res) /\ carries[s] = "live" THEN {<<c, o>>} ELSE {}
  <1>7. flush' = [flush EXCEPT ![s] = v] /\ v \in {"wire", "none"} BY <1>5, SMTT(30)
  <1>8. /\ attempts' \in {attempts, [attempts EXCEPT ![c][o] = 0]}
        /\ req' = flb_task_retry_destroy(freed)
        /\ <<c, o>> \notin freed => attempts' = attempts
    <2>1. req' = flb_task_retry_destroy(freed) BY <1>5, Zenon
    <2>2. attempts' = IF freed = {} THEN attempts ELSE [attempts EXCEPT ![c][o] = 0]
      BY <1>5, Zenon
    <2>3. freed = {} \/ freed = {<<c, o>>} BY Zenon
    <2> HIDE DEF freed, o, q, s, c, v
    <2> QED BY <2>1, <2>2, <2>3, Zenon
  <1>9. users' = IF v = "wire" THEN users ELSE [users EXCEPT ![c] = @ - 1] BY <1>5, Zenon
  <1> HIDE DEF o, q, s, c, v, freed
  <1>10. UsersCount'
    <2>1. users \in [Chunks -> Int] BY <1>0 DEF TaskType
    <2>2. \A d \in Chunks : d # c => users'[d] >= users[d]
      BY <1>4, <1>9, <2>1
    <2>3. users'[c] >= users[c] + (IF v # "none" THEN (IF flush[s] = "none" THEN 1 ELSE 0)
                                   ELSE (IF flush[s] = "none" THEN 0 ELSE -1))
      BY <1>4, <1>7, <1>9, <2>1
    <2> QED BY <1>0, <1>3, <1>7, <2>2, <2>3, CountStep, ZenonT(30) DEF EngineInv, c
  <1>11. FlushHasTask'
    BY <1>0, <1>3, <1>4, <1>6, <1>7 DEF EngineInv, FlushHasTask, FlushType, c
  <1>12. RetryHasTask'
    BY <1>1, <1>4, <1>6, <1>8, ClearedRetry DEF EngineInv, RetryHasTask
  <1>13. RequestHasRetry'
    BY <1>1, <1>4, <1>8, ClearedRequests
  <1>14. TaskHasChunk' /\ TaskIdsExact'
    BY <1>6 DEF EngineInv, TaskHasChunk, TaskIdsExact
  <1>15. QueueInv'
    <2>1. \A x \in Outputs : \A i \in DOMAIN pending[x] : pending[x][i] \in Slots
      BY <1>0 DEF FlushType
    <2>2. ASSUME NEW x \in Outputs, x # o
          PROVE  /\ \A i \in DOMAIN pending'[x] : pending'[x][i][2] = x /\ flush'[pending'[x][i]] = "pending"
                 /\ \A i, j \in DOMAIN pending'[x] : pending'[x][i] = pending'[x][j] => i = j
      <3>1. pending'[x] = pending[x] BY <1>6, <2>2, <1>0 DEF FlushType
      <3>2. \A i \in DOMAIN pending[x] : pending[x][i] # s
        BY <1>4, <2>2 DEF EngineInv, QueueInv
      <3>3. \A i \in DOMAIN pending[x] : flush'[pending[x][i]] = flush[pending[x][i]]
        BY <3>2, <2>1, <1>0, <1>7 DEF FlushType
      <3> QED BY <3>1, <3>3 DEF EngineInv, QueueInv
    <2>3. /\ \A i \in DOMAIN pending'[o] : pending'[o][i][2] = o /\ flush'[pending'[o][i]] = "pending"
          /\ \A i, j \in DOMAIN pending'[o] : pending'[o][i] = pending'[o][j] => i = j
      <3> DEFINE t == Tail(q)
      <3>1. pending'[o] = t BY <1>1, <1>6, <1>0 DEF FlushType
      <3>2. \A i \in DOMAIN t : i \in Nat /\ i + 1 \in DOMAIN q /\ i + 1 # 1 /\ t[i] = q[i + 1]
        BY <1>2
      <3>3. \A i, j \in DOMAIN q : q[i] = q[j] => i = j
        BY <1>1 DEF EngineInv, QueueInv, q
      <3>4. \A i \in DOMAIN q : q[i][2] = o /\ flush[q[i]] = "pending" /\ q[i] \in Slots
        BY <1>1, <2>1 DEF EngineInv, QueueInv, q
      <3> HIDE DEF t
      <3>5. \A i \in DOMAIN t : t[i] # s /\ t[i][2] = o /\ flush[t[i]] = "pending" /\ t[i] \in Slots
        BY <3>2, <3>3, <3>4, <1>3
      <3>6. \A i \in DOMAIN t : flush'[t[i]] = "pending"
        BY <3>5, <1>0, <1>7 DEF FlushType
      <3>7. \A i, j \in DOMAIN t : t[i] = t[j] => i = j
        BY <3>2, <3>3
      <3> QED BY <3>1, <3>5, <3>6, <3>7
    <2> QED BY <2>2, <2>3, <1>1 DEF QueueInv
  <1>16. ThreadInv'
    BY <1>0, <1>1, <1>4, <1>6, <1>7 DEF ThreadInv, FlushType
  <1> QED BY <1>10, <1>11, <1>12, <1>13, <1>14, <1>15, <1>16 DEF EngineInv

\* Ending the flush s of a task: users still cover the flushes of every task.
LEMMA EndCount ==
    ASSUME TypeOK, EngineInv, NEW s \in Slots, flush[s] # "none",
           flush' = [flush EXCEPT ![s] = "none"],
           users' = [users EXCEPT ![s[1]] = @ - 1]
    PROVE  UsersCount'
  <1>1. TaskType /\ FlushType /\ users \in [Chunks -> Int] /\ s[1] \in Chunks
    BY SlotParts DEF TypeOK, TaskType
  <1>2. users' \in [Chunks -> Int] BY <1>1
  <1>3. \A d \in Chunks : d # s[1] => users'[d] >= users[d] BY <1>1
  <1>4. users'[s[1]] >= users[s[1]] + (IF "none" # "none" THEN (IF flush[s] = "none" THEN 1 ELSE 0)
                                       ELSE (IF flush[s] = "none" THEN 0 ELSE -1))
    BY <1>1
  <1> QED BY <1>1, <1>2, <1>3, <1>4, CountStep, Zenon DEF EngineInv

\* Ending the flush s destroys its task only when nothing else holds it.
LEMMA EndTask ==
    ASSUME TypeOK, EngineInv, NEW s \in Slots, flush[s] # "none",
           flush' = [flush EXCEPT ![s] = "none"],
           attempts' = [attempts EXCEPT ![s[1]][s[2]] = 0],
           flb_task_destroy(flb_task_users_release(s[1], s[2], 1))
    PROVE  FlushHasTask' /\ RetryHasTask' /\ TaskHasChunk' /\ TaskIdsExact'
  <1> DEFINE D == flb_task_users_release(s[1], s[2], 1)
  <1>0. /\ D \subseteq {s[1]}
        /\ D # {} => users[s[1]] = 1 /\ \A x \in Outputs \ {s[2]} : attempts[s[1]][x] = 0
    BY DEF flb_task_users_release
  <1> HIDE DEF D
  <1>1. s[1] \in Chunks /\ s[2] \in Outputs /\ D \in SUBSET Chunks BY <1>0, SlotParts
  <1>2. FlushType /\ attempts \in [Chunks -> [Outputs -> Nat]] BY DEF TypeOK, TaskType
  <1>3. ASSUME NEW t \in Slots, flush'[t] # "none"
        PROVE  t[1] \notin D /\ task[t[1]] # "none"
    <2>1. t # s /\ flush[t] # "none" BY <1>2, <1>3 DEF FlushType
    <2>2. t[1] \notin D
      <3> SUFFICES ASSUME t[1] = s[1], users[s[1]] = 1 PROVE FALSE
        BY <1>0
      <3>1. Flushes(s[1]) = {s} BY LastFlush DEF EngineInv
      <3>2. t \in Flushes(s[1]) BY <2>1 DEF Flushes
      <3> QED BY <2>1, <3>1, <3>2
    <2> QED BY <2>1, <2>2 DEF EngineInv, FlushHasTask
  <1>4. ASSUME NEW c \in Chunks, NEW o \in Outputs, attempts'[c][o] > 0
        PROVE  c \notin D /\ task[c] # "none"
    <2>1. attempts[c][o] > 0 /\ ~(c = s[1] /\ o = s[2]) BY <1>1, <1>2, <1>4
    <2> QED BY <1>0, <2>1 DEF EngineInv, RetryHasTask
  <1>5. flb_task_destroy(D) BY DEF D
  <1> QED BY <1>1, <1>3, <1>4, <1>5, DestroyStep, SMTT(30)

\* handle_output_event settles a returned flush: the task may end with it, or a
\* retry is scheduled for it.
LEMMA InvSettle ==
    ASSUME TypeOK, TypeOK', EngineInv, Settle
    PROVE  EngineInv'
  <1> DEFINE s == back
             c == s[1]
             o == s[2]
  <1>0. FlushType /\ TaskType /\ attempts \in [Chunks -> [Outputs -> Nat]] BY DEF TypeOK, TaskType
  <1>1. s \in Slots /\ flush[s] \in Returns /\ flush[s] # "none" /\ flush[s] # "pending"
        /\ c \in Chunks /\ o \in Outputs
    BY SlotParts DEF Settle, At, EngineInv, ThreadInv, Returns
  <1>2. flush' = [flush EXCEPT ![s] = "none"] /\ pending' = pending /\ pc' = "loop"
    BY DEF Settle
  <1>3. QueueInv' /\ ThreadInv'
    <2>1. QueueInv' BY <1>0, <1>1, <1>2, QueueKept, Zenon DEF EngineInv
    <2>2. ThreadInv' BY <1>2 DEF ThreadInv
    <2> QED BY <2>1, <2>2
  <1>4. ASSUME NEW m, Finish(c, o, m) PROVE EngineInv'
    <2> DEFINE freed == IF attempts[c][o] > 0 THEN {<<c, o>>} ELSE {}
    <2>1. UsersCount' BY <1>1, <1>2, <1>4, EndCount, Zenon DEF Finish
    <2>2. FlushHasTask' /\ RetryHasTask' /\ TaskHasChunk' /\ TaskIdsExact'
      BY <1>1, <1>2, <1>4, EndTask, Zenon DEF Finish
    <2>3. RequestHasRetry'
      <3>1. req' = flb_task_retry_destroy(freed) /\ attempts' = [attempts EXCEPT ![c][o] = 0]
        BY <1>4 DEF Finish
      <3>2. attempts[c][o] > 0 /\ <<c, o>> \notin freed => attempts' = attempts OBVIOUS
      <3>3. attempts' \in {attempts, [attempts EXCEPT ![c][o] = 0]} BY <3>1
      <3>4. req' = flb_task_retry_destroy(freed) BY <3>1
      <3> HIDE DEF freed, c, o
      <3> QED BY <1>1, <3>2, <3>3, <3>4, ClearedRequests, SMTT(30)
    <2> QED BY <1>3, <2>1, <2>2, <2>3 DEF EngineInv
  <1>5. ASSUME Retry(c, o) PROVE EngineInv'
    <2>1. UsersCount' BY <1>1, <1>2, <1>5, EndCount, ZenonT(30) DEF Retry
    <2>2. CASE /\ \E r \in Slots : /\ r[1] = c /\ r[2] = o /\ FreeReq(r)
                                   /\ req' \in {[req EXCEPT ![r] = t] : t \in NewRequest}
               /\ attempts' = [attempts EXCEPT ![c][o] = @ + 1]
               /\ flb_task_destroy({})
      <3>1. task[c] # "none" BY <1>1 DEF EngineInv, FlushHasTask
      <3>2. \A t \in Slots : flush'[t] # "none" => t[1] \notin {} /\ task[t[1]] # "none"
        BY <1>0, <1>1, <1>2, SMTT(30) DEF EngineInv, FlushHasTask, FlushType
      <3>3. \A d \in Chunks, x \in Outputs :
              /\ attempts'[d][x] > 0 => attempts[d][x] > 0 \/ (d = c /\ x = o)
              /\ attempts[d][x] > 0 => attempts'[d][x] > 0
              /\ attempts'[c][o] > 0
        BY <1>0, <1>1, <2>2, SMTT(30)
      <3>4. \A d \in Chunks, x \in Outputs : attempts'[d][x] > 0 => d \notin {} /\ task[d] # "none"
        BY <3>1, <3>3 DEF EngineInv, RetryHasTask
      <3>5. FlushHasTask' /\ RetryHasTask' /\ TaskHasChunk' /\ TaskIdsExact'
        BY <2>2, <3>2, <3>4, DestroyStep
      <3>6. RequestHasRetry'
        <4>1. PICK r \in Slots : /\ r[1] = c /\ r[2] = o
                                /\ \E t : req' = [req EXCEPT ![r] = t]
          BY <2>2
        <4>2. \A u \in Slots : req'[u] \in {"wait", "now"} =>
                 req[u] \in {"wait", "now"} \/ (u[1] = c /\ u[2] = o)
          BY <4>1, <1>0 DEF FlushType
        <4> QED BY <4>2, <3>3, SlotParts DEF EngineInv, RequestHasRetry
      <3> QED BY <1>3, <2>1, <3>5, <3>6 DEF EngineInv
    <2>3. CASE /\ req' = flb_task_retry_destroy({<<c, o>>})
               /\ attempts' = [attempts EXCEPT ![c][o] = 0]
               /\ flb_task_destroy(flb_task_users_release(c, o, 1))
      <3>1. FlushHasTask' /\ RetryHasTask' /\ TaskHasChunk' /\ TaskIdsExact'
        BY <1>1, <1>2, <2>3, EndTask, Zenon
      <3>2. RequestHasRetry'
        <4> DEFINE R == {<<c, o>>}
        <4>1. attempts[c][o] > 0 /\ <<c, o>> \notin R => attempts' = attempts OBVIOUS
        <4>2. req' = flb_task_retry_destroy(R) BY <2>3
        <4>3. attempts' \in {attempts, [attempts EXCEPT ![c][o] = 0]} BY <2>3
        <4> HIDE DEF R, c, o
        <4> QED BY <1>1, <4>1, <4>2, <4>3, ClearedRequests
      <3> QED BY <1>3, <2>1, <3>1, <3>2 DEF EngineInv
    <2> QED BY <1>5, <2>2, <2>3 DEF Retry
  <1>6. (\E m : Finish(c, o, m)) \/ Retry(c, o) BY DEF Settle
  <1> QED BY <1>4, <1>5, <1>6

\* A step that only arms requests of existing retries.
LEMMA RequestStep ==
    ASSUME TypeOK, EngineInv,
           UNCHANGED <<chunk, tasks_map, task, users, attempts, flush, pending>>, pc' = "loop",
           \A s \in Slots : req'[s] \in {"wait", "now"} => attempts[s[1]][s[2]] > 0
    PROVE  EngineInv'
  <1>1. UsersCount' /\ FlushHasTask' /\ RetryHasTask' /\ TaskHasChunk' /\ QueueInv' /\ TaskIdsExact'
    BY FrameUsers, FrameFlush, FrameRetry, FrameChunk, FrameQueue, FrameIds DEF EngineInv
  <1>2. RequestHasRetry' BY DEF RequestHasRetry
  <1>3. ThreadInv' BY DEF ThreadInv
  <1> QED BY <1>1, <1>2, <1>3 DEF EngineInv

\* schedule_request_promote arms waiting requests.
LEMMA InvPromote ==
    ASSUME TypeOK, EngineInv, NEW P \in SUBSET {s \in Slots : req[s] = "wait"}, Promote(P)
    PROVE  EngineInv'
  <1>1. UNCHANGED <<chunk, tasks_map, task, users, attempts, flush, pending>> /\ pc' = "loop"
    BY DEF Promote, taskVars, At
  <1>2. \A s \in Slots : req'[s] \in {"wait", "now"} => attempts[s[1]][s[2]] > 0
    BY DEF Promote, EngineInv, RequestHasRetry
  <1> QED BY <1>1, <1>2, RequestStep

\* flb_engine_reschedule_retries arms requests of the retries it walks.
LEMMA InvEngineStop ==
    ASSUME TypeOK, EngineInv, EngineStop
    PROVE  EngineInv'
  <1>1. UNCHANGED <<chunk, tasks_map, task, users, attempts, flush, pending>> /\ pc' = "loop"
    BY DEF EngineStop, taskVars
  <1>2. ASSUME NEW s \in Slots, req'[s] \in {"wait", "now"}
        PROVE  attempts[s[1]][s[2]] > 0
    <2>1. CASE req[s] \in {"wait", "now"}
      BY <2>1 DEF EngineInv, RequestHasRetry
    <2>2. CASE req[s] \notin {"wait", "now"}
      <3> DEFINE all == UNION {Retries(c) : c \in Chunks}
      <3>1. flb_engine_reschedule_retries
        BY <1>2, <2>2 DEF EngineStop
      <3>2. flb_sched_request_invalidate(all)[s] \notin {"wait", "now"}
        BY <2>2 DEF flb_sched_request_invalidate
      <3>3. <<s[1], s[2]>> \in all
        BY <1>2, <3>1, <3>2 DEF flb_engine_reschedule_retries
      <3> QED BY <3>3 DEF Retries
    <2> QED BY <2>1, <2>2
  <1> QED BY <1>1, <1>2, RequestStep

\* flb_engine_dispatch_retry: the retry waits again, is flushed, or is destroyed.
LEMMA InvDispatchRetry ==
    ASSUME TypeOK, TypeOK', EngineInv, NEW r \in Slots, flb_engine_dispatch_retry(r)
    PROVE  EngineInv'
  <1> DEFINE c == r[1]
             o == r[2]
             R == {<<c, o>>}
  <1>0. FlushType /\ TaskType /\ attempts \in [Chunks -> [Outputs -> Nat]] BY DEF TypeOK, TaskType
  <1>1. c \in Chunks /\ o \in Outputs /\ attempts[c][o] > 0 /\ task[c] # "none"
    BY SlotParts DEF flb_engine_dispatch_retry, EngineInv, RequestHasRetry, RetryHasTask
  <1>2. ThreadInv'
    BY Zenon DEF flb_engine_dispatch_retry, At, ThreadInv
  <1>3. ASSUME req' = flb_task_retry_destroy(R), attempts' = [attempts EXCEPT ![c][o] = 0]
        PROVE  RequestHasRetry'
    <2>1. attempts[c][o] > 0 /\ <<c, o>> \notin R => attempts' = attempts OBVIOUS
    <2>2. attempts' \in {attempts, [attempts EXCEPT ![c][o] = 0]} BY <1>3
    <2>3. req' = flb_task_retry_destroy(R) BY <1>3
    <2> HIDE DEF R, c, o
    <2> QED BY <1>1, <2>1, <2>2, <2>3, ClearedRequests
  <1>4. CASE Reschedule(r)
    <2>1. UNCHANGED <<users, flush, pending>> BY <1>4 DEF Reschedule
    <2>2. UsersCount' /\ QueueInv' BY <2>1 DEF EngineInv, UsersCount, Flushes, QueueInv
    <2>3. CASE /\ req' \in {[req EXCEPT ![r] = t] : t \in NewRequest}
               /\ flb_task_destroy({}) /\ attempts' = attempts
      <3>1. /\ \A t \in Slots : flush'[t] # "none" => t[1] \notin {} /\ task[t[1]] # "none"
            /\ \A d \in Chunks, x \in Outputs :
                 attempts'[d][x] > 0 => d \notin {} /\ task[d] # "none"
        BY <2>1, <2>3, ZenonT(30) DEF EngineInv, FlushHasTask, RetryHasTask
      <3>2. FlushHasTask' /\ RetryHasTask' /\ TaskHasChunk' /\ TaskIdsExact'
        BY <2>3, <3>1, DestroyStep, ZenonT(30)
      <3>3. RequestHasRetry'
        BY <1>0, <1>1, <2>3 DEF EngineInv, RequestHasRetry, FlushType
      <3> QED BY <1>2, <2>2, <3>2, <3>3 DEF EngineInv
    <2>4. CASE /\ req' = flb_task_retry_destroy(R) /\ attempts' = [attempts EXCEPT ![c][o] = 0]
               /\ flb_task_destroy(flb_task_users_release(c, o, 0))
      <3> DEFINE D == flb_task_users_release(c, o, 0)
      <3>0. D \subseteq {c} /\ (D # {} => users[c] = 0 /\ \A x \in Outputs \ {o} : attempts[c][x] = 0)
        BY DEF flb_task_users_release
      <3>1. ASSUME NEW t \in Slots, flush'[t] # "none" PROVE t[1] \notin D /\ task[t[1]] # "none"
        BY <1>1, <2>1, <3>0, <3>1, IdleHasNoFlush, SlotParts, SMTT(30) DEF EngineInv, FlushHasTask, Flushes
      <3>2. ASSUME NEW d \in Chunks, NEW x \in Outputs, attempts'[d][x] > 0
            PROVE  d \notin D /\ task[d] # "none"
        <4>1. attempts[d][x] > 0 /\ ~(d = c /\ x = o)
          <5>1. attempts'[d][x] = IF d = c /\ x = o THEN 0 ELSE attempts[d][x]
            BY <1>0, <1>1, <2>4 DEF TaskType
          <5> QED BY <3>2, <5>1
        <4>2. RetryHasTask BY DEF EngineInv
        <4>3. task[d] # "none" BY <4>1, <4>2 DEF RetryHasTask
        <4> QED BY <3>0, <4>1, <4>3, SMTT(30)
      <3>3. flb_task_destroy(D) /\ D \in SUBSET Chunks BY <1>1, <2>4, <3>0
      <3> HIDE DEF D
      <3>4. FlushHasTask' /\ RetryHasTask' /\ TaskHasChunk' /\ TaskIdsExact'
        BY <3>1, <3>2, <3>3, DestroyStep
      <3> QED BY <1>2, <1>3, <2>2, <2>4, <3>4, SMTT(30) DEF EngineInv
    <2> QED BY <1>4, <2>3, <2>4 DEF Reschedule
  <1>5. ASSUME NEW s \in Slots, Redispatch(r, s) PROVE EngineInv'
    <2>1. s[1] = c /\ FreeFlush(s) /\ UNCHANGED <<chunk, tasks_map, task>>
      BY <1>5 DEF Redispatch
    <2>2. /\ UsersCount' /\ QueueInv'
          /\ \A t \in Slots : flush'[t] # "none" => task[t[1]] # "none"
      <3>1. CASE UNCHANGED <<users, flush, pending>>
        BY <3>1, ZenonT(30) DEF EngineInv, UsersCount, Flushes, QueueInv, FlushHasTask
      <3>2. ASSUME NEW res, Submit(s, res)
            PROVE  /\ UsersCount' /\ QueueInv'
                   /\ \A t \in Slots : flush'[t] # "none" => task[t[1]] # "none"
        BY <1>1, <2>1, <3>2, SubmitStep, Zenon
      <3> QED BY <1>5, <3>1, <3>2 DEF Redispatch
    <2>3. \/ req' = flb_task_retry_destroy(R) /\ attempts' = [attempts EXCEPT ![c][o] = 0]
          \/ req' = [req EXCEPT ![r] = "none"] /\ attempts' = attempts
      BY <1>5 DEF Redispatch, flb_sched_request_destroy
    <2>4. RequestHasRetry'
      <3>1. CASE req' = [req EXCEPT ![r] = "none"] /\ attempts' = attempts
        BY <3>1, <1>0 DEF EngineInv, RequestHasRetry, FlushType
      <3> QED BY <1>3, <2>3, <3>1
    <2>5. RetryHasTask'
      <3>1. attempts' \in {attempts, [attempts EXCEPT ![c][o] = 0]} BY <2>3
      <3> HIDE DEF c, o
      <3> QED BY <1>1, <2>1, <3>1, ClearedRetry, SMTT(30) DEF EngineInv, RetryHasTask
    <2>6. FlushHasTask' /\ TaskHasChunk' /\ TaskIdsExact'
      <3>1. FlushHasTask' BY <2>1, <2>2 DEF FlushHasTask
      <3>2. TaskHasChunk' /\ TaskIdsExact' BY <2>1, FrameChunk, FrameIds DEF EngineInv
      <3> QED BY <3>1, <3>2
    <2> QED BY <1>2, <2>2, <2>4, <2>5, <2>6, SMTT(30) DEF EngineInv
  <1> QED BY <1>4, <1>5 DEF flb_engine_dispatch_retry

\* A flush starts, returns or is lost in the thread that runs it, at any moment of
\* the engine thread; it is not the flush being settled.
LEMMA InvFlush ==
    ASSUME TypeOK, TypeOK', EngineInv, FlushStep
    PROVE  EngineInv'
  <1>0. FlushType /\ FlushType' /\ TaskType /\ users \in [Chunks -> Int] BY DEF TypeOK, TaskType
  <1>1. PICK s \in Slots : \/ StartFlush(s) \/ LoseFlush(s)
                           \/ \E ret \in Returns : flb_output_return(s, ret)
    BY ZenonT(30) DEF FlushStep
  <1>2. flush[s] \in {"wire", "active"} /\ \E v : flush' = [flush EXCEPT ![s] = v]
    BY <1>1 DEF StartFlush, LoseFlush, flb_output_return
  <1>3. UNCHANGED <<chunk, tasks_map, task, users, attempts, pending, req, pc, back, cur, walk>>
    BY <1>1, Zenon DEF StartFlush, LoseFlush, flb_output_return, loopVars
  <1>4. PICK v : flush' = [flush EXCEPT ![s] = v] BY <1>2, Zenon
  <1>5. UsersCount'
    <2>1. \A c \in Chunks : c # s[1] => users'[c] >= users[c] BY <1>0, <1>3
    <2>2. users'[s[1]] >= users[s[1]] + (IF v # "none" THEN (IF flush[s] = "none" THEN 1 ELSE 0)
                                         ELSE (IF flush[s] = "none" THEN 0 ELSE -1))
      <3>1. users[s[1]] \in Int /\ users'[s[1]] = users[s[1]] BY <1>0, <1>3, SlotParts, SMTT(30)
      <3> QED BY <1>2, <3>1
    <2> QED BY <1>0, <1>3, <1>4, <2>1, <2>2, CountStep, ZenonT(30) DEF EngineInv
  <1>6. FlushHasTask'
    BY <1>0, <1>2, <1>3, <1>4 DEF EngineInv, FlushHasTask, FlushType
  <1>7. QueueInv'
    BY <1>0, <1>2, <1>3, <1>4, QueueKept, ZenonT(30) DEF EngineInv
  <1>8. RetryHasTask' /\ RequestHasRetry' /\ TaskHasChunk' /\ TaskIdsExact'
    BY <1>3, SMTT(30) DEF EngineInv, RetryHasTask, RequestHasRetry, TaskHasChunk, TaskIdsExact
  <1>9. ThreadInv'
    BY <1>0, <1>2, <1>3, <1>4 DEF EngineInv, ThreadInv, Returns, FlushType
  <1> QED BY <1>5, <1>6, <1>7, <1>8, <1>9, SMTT(30) DEF EngineInv

\* A collector leaves a new chunk, which has no task.
LEMMA InvIngest ==
    ASSUME TypeOK, EngineInv, NEW c \in Chunks, Ingest(c)
    PROVE  EngineInv'
  <1>1. UNCHANGED <<tasks_map, task, users, attempts, flush, pending, req>> /\ pc' = "loop"
    BY ZenonT(30) DEF Ingest, At, flushVars
  <1>2. UsersCount' /\ FlushHasTask' /\ RetryHasTask' /\ RequestHasRetry' /\ QueueInv' /\ TaskIdsExact'
    BY <1>1, FrameUsers, FrameFlush, FrameRetry, FrameRequest, FrameQueue, FrameIds, SMTT(30) DEF EngineInv
  <1>3. TaskHasChunk'
    BY <1>1, Zenon DEF Ingest, EngineInv, TaskHasChunk, TypeOK, TaskType
  <1>4. ThreadInv' BY <1>1 DEF ThreadInv
  <1> QED BY <1>2, <1>3, <1>4 DEF EngineInv

\* flb_input_chunk_release_space destroys a task only when it has no users, and
\* its retries with it.
LEMMA InvRelease ==
    ASSUME TypeOK, TypeOK', EngineInv, NEW c \in Chunks, NEW o \in Outputs, NEW scope,
           ReleaseSpace(c, o, scope)
    PROVE  EngineInv'
  <1>0. FlushType /\ TaskType BY DEF TypeOK
  <1>1. UNCHANGED <<users, flush, pending>> /\ pc' = "loop"
    BY DEF ReleaseSpace, At
  <1>2. UsersCount' /\ QueueInv' /\ ThreadInv'
    <2>1. UsersCount' /\ QueueInv' BY <1>1, FrameUsers, FrameQueue DEF EngineInv
    <2>2. ThreadInv' BY <1>1 DEF ThreadInv
    <2> QED BY <2>1, <2>2
  <1>3. CASE users[c] # 0
    <2>1. UNCHANGED <<chunk, task, tasks_map, attempts, req>> BY <1>3 DEF ReleaseSpace
    <2>2. FlushHasTask' /\ RetryHasTask' /\ RequestHasRetry' /\ TaskHasChunk' /\ TaskIdsExact'
      BY <1>1, <2>1, FrameFlush, FrameRetry, FrameRequest, FrameChunk, FrameIds, SMTT(30) DEF EngineInv
    <2> QED BY <1>2, <2>2, SMTT(30) DEF EngineInv
  <1>4. CASE users[c] = 0
    <2> DEFINE kept == IF scope = "local" THEN mask[c] \ {o} ELSE mask[c]
               D == IF scope = "global" \/ kept = {} THEN {c} ELSE {}
               R == UNION {Retries(x) : x \in D}
    <2>1. /\ flb_task_destroy(D)
          /\ attempts' = [x \in Chunks |-> IF x \in D THEN [y \in Outputs |-> 0] ELSE attempts[x]]
          /\ req' = flb_task_retry_destroy(R)
      BY <1>4, SMTT(30) DEF ReleaseSpace
    <2>2. D \in SUBSET Chunks /\ \A x \in D : x = c OBVIOUS
    <2>3. \A x \in D, y \in Outputs : attempts[x][y] > 0 => <<x, y>> \in R
      BY DEF Retries
    <2> HIDE DEF D, R
    <2>4. \A t \in Slots : flush'[t] # "none" => t[1] \notin D /\ task[t[1]] # "none"
      BY <1>1, <1>4, <2>2, IdleHasNoFlush, SlotParts, SMTT(30) DEF EngineInv, FlushHasTask, Flushes
    <2>5. \A d \in Chunks, x \in Outputs : attempts'[d][x] > 0 => d \notin D /\ task[d] # "none"
      <3>1. RetryHasTask BY DEF EngineInv
      <3>2. \A d \in Chunks, x \in Outputs : attempts'[d][x] > 0 => d \notin D /\ attempts[d][x] > 0
        BY <2>1
      <3> QED BY <3>1, <3>2 DEF RetryHasTask
    <2>6. FlushHasTask' /\ RetryHasTask' /\ TaskHasChunk' /\ TaskIdsExact'
      BY <2>1, <2>2, <2>4, <2>5, DestroyStep, Zenon
    <2>7. RequestHasRetry'
      <3> SUFFICES ASSUME NEW t \in Slots, req'[t] \in {"wait", "now"}
                   PROVE  attempts'[t[1]][t[2]] > 0
        BY DEF RequestHasRetry
      <3>1. <<t[1], t[2]>> \notin R /\ req[t] \in {"wait", "now"}
        BY <1>0, <2>1, RetryDestroyed, SMTT(30)
      <3>2. attempts[t[1]][t[2]] > 0 BY <3>1 DEF EngineInv, RequestHasRetry
      <3>3. t[1] \notin D BY <2>3, <3>1, <3>2, SlotParts
      <3> QED BY <2>1, <3>2, <3>3, SlotParts
    <2> QED BY <1>2, <2>6, <2>7, SMTT(30) DEF EngineInv
  <1> QED BY <1>3, <1>4
==============================================================================
