----------------------------- MODULE EngineTypes -----------------------------
(***************************************************************************)
(* The state of FlbEngine stays well typed, for every value of its         *)
(* constants.  TypeOK is proved in its four parts, one lemma each: the     *)
(* provers treat functions, queues, scalars and flags differently.         *)
(***************************************************************************)
EXTENDS FlbEngine, TLAPS

\* A flush slot is a chunk, an output and a copy.
LEMMA SlotParts ==
    /\ \A s \in Slots : s[1] \in Chunks /\ s[2] \in Outputs /\ s[3] \in Copies
    /\ \A c \in Chunks, o \in Outputs, k \in Copies : <<c, o, k>> \in Slots
    /\ \A s \in Slots : s = <<s[1], s[2], s[3]>>
BY DEF Slots

------------------------------------------------------------------------------
(* What the updates of the actions do to types. *)

\* Updating one cell of a table keeps its type.
LEMMA NestedExcept ==
    ASSUME NEW A, NEW B, NEW V, NEW f \in [A -> [B -> V]], NEW a, NEW b, NEW v,
           a \in A /\ b \in B => v \in V
    PROVE  [f EXCEPT ![a][b] = v] \in [A -> [B -> V]]
  <1>1. CASE a \in A BY <1>1, Zenon
  <1>2. CASE a \notin A BY <1>2, Zenon
  <1> QED BY <1>1, <1>2

\* Updating one entry of a function keeps its type.
LEMMA PlainExcept ==
    ASSUME NEW A, NEW V, NEW f \in [A -> V], NEW a, NEW v, a \in A => v \in V
    PROVE  [f EXCEPT ![a] = v] \in [A -> V]
  <1>1. CASE a \in A BY <1>1
  <1>2. CASE a \notin A BY <1>2, Zenon
  <1> QED BY <1>1, <1>2

\* flb_task_users_inc and flb_task_users_dec keep users integers.
LEMMA UsersType ==
    ASSUME TaskType, NEW c
    PROVE  /\ [users EXCEPT ![c] = @ + 1] \in [Chunks -> Int]
           /\ [users EXCEPT ![c] = @ - 1] \in [Chunks -> Int]
  <1>1. CASE c \in Chunks BY <1>1 DEF TaskType
  <1>2. CASE c \notin Chunks BY <1>2, Zenon DEF TaskType
  <1> QED BY <1>1, <1>2

\* The statuses of a route, and no route.
RouteStatus == {"none", "inactive", "active", "dropped"}

\* flb_task_set_route_status keeps routes well typed.
LEMMA RouteType ==
    ASSUME TaskType, NEW c, NEW o, NEW v \in RouteStatus
    PROVE  [route EXCEPT ![c][o] = v] \in [Chunks -> [Outputs -> RouteStatus]]
  <1>1. route \in [Chunks -> [Outputs -> RouteStatus]] BY DEF TaskType, RouteStatus
  <1> QED BY <1>1, NestedExcept, Zenon

\* Creating, repeating or destroying a retry keeps attempts natural numbers.
LEMMA AttemptsType ==
    ASSUME TaskType, NEW c, NEW o
    PROVE  /\ [attempts EXCEPT ![c][o] = @ + 1] \in [Chunks -> [Outputs -> Nat]]
           /\ [attempts EXCEPT ![c][o] = 0] \in [Chunks -> [Outputs -> Nat]]
  <1>1. attempts \in [Chunks -> [Outputs -> Nat]] BY DEF TaskType
  <1>2. c \in Chunks /\ o \in Outputs => attempts[c][o] + 1 \in Nat BY <1>1
  <1>3. [attempts EXCEPT ![c][o] = attempts[c][o] + 1] \in [Chunks -> [Outputs -> Nat]]
    BY <1>1, <1>2, NestedExcept
  <1>4. [attempts EXCEPT ![c][o] = 0] \in [Chunks -> [Outputs -> Nat]]
    BY <1>1, NestedExcept, Zenon
  <1> QED BY <1>3, <1>4

\* Counting records keeps the metrics well typed.
LEMMA CountedType ==
    ASSUME TaskType, NEW c, NEW o, NEW m \in {"proc", "dropped"}
    PROVE  [counted EXCEPT ![c][o] = Append(@, m)] \in [Chunks -> [Outputs -> Seq({"proc", "dropped"})]]
  <1> DEFINE V == Seq({"proc", "dropped"})
  <1>1. counted \in [Chunks -> [Outputs -> V]] BY DEF TaskType
  <1>2. c \in Chunks /\ o \in Outputs => Append(counted[c][o], m) \in V BY <1>1
  <1>3. [counted EXCEPT ![c][o] = Append(counted[c][o], m)] \in [Chunks -> [Outputs -> V]]
    <2> DEFINE v == Append(counted[c][o], m)
    <2>1. c \in Chunks /\ o \in Outputs => v \in V BY <1>2
    <2> HIDE DEF V, v
    <2>2. [counted EXCEPT ![c][o] = v] \in [Chunks -> [Outputs -> V]]
      BY <1>1, <2>1, NestedExcept
    <2> QED BY <2>2 DEF v
  <1> QED BY <1>3

\* Destroying tasks keeps tasks, ids and routes well typed.
LEMMA TaskDestroyType ==
    ASSUME TaskType, NEW D, flb_task_destroy(D)
    PROVE  /\ chunk' \in [Chunks -> {"absent", "ready", "busy", "gone"}]
           /\ tasks_map' \in [TaskIds -> Chunks \cup {Free, Dangling}]
           /\ task' \in [Chunks -> {"none", "new", "running"}]
           /\ route' \in [Chunks -> [Outputs -> {"none", "inactive", "active", "dropped"}]]
BY DEF TaskType, flb_task_destroy

\* Destroying retries leaves well typed requests and queue entries.
LEMMA DestroyType ==
    ASSUME FlushType, NEW R
    PROVE  /\ flb_sched_request_invalidate(R) \in [Slots -> {"none", "wait", "now", "stale"}]
           /\ flb_task_retry_destroy(R) \in [Slots -> {"none", "wait", "now", "stale"}]
           /\ Orphaned(R) \in [Slots -> {"none", "live", "stale"}]
BY DEF FlushType, flb_sched_request_invalidate, flb_task_retry_destroy, Orphaned

\* A submission keeps flushes and queues well typed.
LEMMA SubmitType ==
    ASSUME FlushType, NEW s \in Slots, NEW res, Submit(s, res)
    PROVE  /\ flush' \in [Slots -> {"none", "pending"} \cup InFlight]
           /\ pending' \in [Outputs -> Seq(Slots)]
           /\ in_progress' \in [Outputs -> BOOLEAN]
  <1>1. flush' \in [Slots -> {"none", "pending"} \cup InFlight]
    BY DEF FlushType, Submit, InFlight
  <1>2. pending' \in [Outputs -> Seq(Slots)]
    BY SlotParts DEF FlushType, Submit
  <1>3. in_progress' \in [Outputs -> BOOLEAN]
    BY SlotParts DEF FlushType, Submit
  <1> QED BY <1>1, <1>2, <1>3

------------------------------------------------------------------------------
(* One lemma per part of TypeOK. *)

\* Every step keeps tasks, ids, users, routes and retries well typed.
LEMMA TaskTypeStep == TypeOK /\ [Next]_vars => TaskType'
  <1> SUFFICES ASSUME TypeOK, [Next]_vars PROVE TaskType'
    OBVIOUS
  <1>a. TaskType /\ LoopType /\ FlushType BY DEF TypeOK
  <1> USE <1>a
  <1>1. CASE EngineStep
    <2>1. ASSUME FlushTimer \/ NextInput \/ EndCreate PROVE TaskType'
       BY <2>1 DEF TaskType, taskVars, FlushTimer, flb_engine_flush, NextInput, EndCreate
    <2>2. ASSUME EndRoutes PROVE TaskType'
       BY <2>2, Zenon DEF TaskType, EndRoutes
    <2>3. ASSUME EndInput PROVE TaskType'
       BY <2>3, TaskDestroyType DEF TaskType, EndInput
    <2>4. ASSUME NEW c \in Chunks, DispatchChunk(c) PROVE TaskType'
      <3>1. CASE UNCHANGED taskVars /\ UNCHANGED counted
         BY <3>1 DEF TaskType, taskVars
      <3>2. CASE /\ up' \in {up, [up EXCEPT ![c] = TRUE], [up EXCEPT ![c] = c \notin Fs]}
                 /\ tasks_map' \in {tasks_map, [tasks_map EXCEPT ![map_get_task_id] = Dangling]}
                 /\ UNCHANGED <<mask, chunk, task, users, route, attempts, counted>>
         BY <3>2, Zenon DEF TaskType
      <3>3. ASSUME NEW R \in SUBSET Outputs, flb_task_create(c, R),
                   up' = [up EXCEPT ![c] = TRUE], UNCHANGED <<mask, counted>>
            PROVE  TaskType'
        <4>1. route' \in [Chunks -> [Outputs -> {"none", "inactive", "active", "dropped"}]]
          BY <3>3 DEF flb_task_create, TaskType
        <4>2. tasks_map' \in [TaskIds -> Chunks \cup {Free, Dangling}]
          BY <3>3, Zenon DEF flb_task_create, TaskType
        <4>3. attempts' \in [Chunks -> [Outputs -> Nat]]
          BY <3>3 DEF flb_task_create, TaskType
        <4>4. users' \in [Chunks -> Int] /\ up' \in [Chunks -> BOOLEAN]
          BY <3>3 DEF flb_task_create, TaskType
        <4>5. /\ chunk' \in [Chunks -> {"absent", "ready", "busy", "gone"}]
              /\ task' \in [Chunks -> {"none", "new", "running"}]
          BY <3>3 DEF flb_task_create, TaskType
        <4> QED BY <3>3, <4>1, <4>2, <4>3, <4>4, <4>5 DEF TaskType
      <3> QED BY <2>4, <3>1, <3>2, <3>3 DEF DispatchChunk
    <2>5. ASSUME NEW c \in Chunks, StartTask(c) PROVE TaskType'
       BY <2>5 DEF TaskType, StartTask
    <2>6. ASSUME NEW o \in Outputs, SkipRoute(o) PROVE TaskType'
       BY <2>6 DEF TaskType, taskVars, SkipRoute
    <2>7. ASSUME NEW s \in Slots, StartRoute(s) PROVE TaskType'
       BY <2>7, SlotParts DEF TaskType, StartRoute, Submit
    <2>8. ASSUME NEW s \in Slots, handle_output_event(s) PROVE TaskType'
       BY <2>8 DEF TaskType, taskVars, handle_output_event
    <2>9. ASSUME flush_one PROVE TaskType'
      <3>1. users' \in [Chunks -> Int]
        <4>1. \E c : users' \in {users, [users EXCEPT ![c] = @ - 1]}
          BY <2>9, Zenon DEF flush_one
        <4> QED BY <4>1, UsersType, SMTT(30) DEF TaskType
      <3>2. attempts' \in [Chunks -> [Outputs -> Nat]]
        <4>1. PICK c, o : attempts' \in {attempts, [attempts EXCEPT ![c][o] = 0]}
          BY <2>9, Zenon DEF flush_one
        <4>2. attempts \in [Chunks -> [Outputs -> Nat]] BY DEF TaskType
        <4> QED BY <4>1, <4>2, AttemptsType, SMTT(30)
      <3> QED BY <2>9, <3>1, <3>2, Zenon DEF TaskType, flush_one
    <2>10. ASSUME Settle PROVE TaskType'
      <3>1. ASSUME NEW c, NEW o, NEW m \in {"proc", "dropped"}, Finish(c, o, m), UNCHANGED mask
            PROVE  TaskType'
        <4>1. PICK D : flb_task_destroy(D)
          BY <3>1 DEF Finish
        <4>2. attempts' \in [Chunks -> [Outputs -> Nat]]
          BY <3>1, AttemptsType DEF Finish
        <4>3. users' \in [Chunks -> Int]
          BY <3>1, UsersType DEF Finish
        <4>4. counted' \in [Chunks -> [Outputs -> Seq({"proc", "dropped"})]]
          <5>1. counted' = [counted EXCEPT ![c][o] = Append(@, m)]
            BY <3>1, Zenon DEF Finish
          <5> QED BY <5>1, CountedType, Zenon
        <4> QED BY <3>1, <4>1, <4>2, <4>3, <4>4, TaskDestroyType DEF Finish, TaskType
      <3>2. ASSUME NEW c, NEW o, Retry(c, o), UNCHANGED mask
            PROVE  TaskType'
        <4>1. up' \in [Chunks -> BOOLEAN]
          <5>1. PICK b \in RetryDown(c) : up' = [up EXCEPT ![c] = b]
            BY <3>2 DEF Retry
          <5>2. c \in Chunks => b \in BOOLEAN
            BY <5>1, Zenon DEF RetryDown, TaskType
          <5> QED BY <5>1, <5>2, PlainExcept DEF TaskType
        <4>2. PICK D : flb_task_destroy(D)
          BY <3>2 DEF Retry
        <4>3. users' \in [Chunks -> Int]
          BY <3>2, UsersType DEF Retry
        <4>4. attempts' \in [Chunks -> [Outputs -> Nat]]
          <5>1. attempts' \in {[attempts EXCEPT ![c][o] = 0], [attempts EXCEPT ![c][o] = @ + 1]}
            BY <3>2 DEF Retry
          <5> QED BY <5>1, AttemptsType
        <4> QED BY <3>2, <4>1, <4>2, <4>3, <4>4, TaskDestroyType DEF Retry, TaskType
      <3> QED BY <2>10, <3>1, <3>2 DEF Settle
    <2>11. ASSUME NEW P \in SUBSET {s \in Slots : req[s] = "wait"}, Promote(P) PROVE TaskType'
       BY <2>11 DEF TaskType, taskVars, Promote
    <2>12. ASSUME NEW r \in Slots, flb_engine_dispatch_retry(r) PROVE TaskType'
      <3>1. CASE Reschedule(r)
        <4>1. PICK D : flb_task_destroy(D)
          BY <3>1 DEF Reschedule
        <4>2. attempts' \in [Chunks -> [Outputs -> Nat]]
          <5>1. PICK c, o : attempts' \in {attempts, [attempts EXCEPT ![c][o] = 0]}
            BY <3>1 DEF Reschedule
          <5>2. attempts \in [Chunks -> [Outputs -> Nat]] BY SMTT(30) DEF TaskType
          <5> QED BY <5>1, <5>2, AttemptsType
        <4> QED BY <3>1, <4>1, <4>2, <2>12, TaskDestroyType
                DEF TaskType, flb_engine_dispatch_retry, Reschedule
      <3>2. ASSUME NEW s \in Slots, Redispatch(r, s) PROVE TaskType'
        <4>1. attempts' \in [Chunks -> [Outputs -> Nat]]
          <5>1. PICK c, o : attempts' \in {attempts, [attempts EXCEPT ![c][o] = 0]}
            BY <3>2 DEF Redispatch
          <5>2. attempts \in [Chunks -> [Outputs -> Nat]] BY DEF TaskType
          <5> QED BY <5>1, <5>2, AttemptsType
        <4>2. users' \in [Chunks -> Int]
          BY <3>2 DEF Redispatch, TaskType, Submit
        <4> QED BY <3>2, <4>1, <4>2, <2>12, Zenon
                DEF TaskType, flb_engine_dispatch_retry, Redispatch
      <3> QED BY <3>1, <3>2, <2>12 DEF flb_engine_dispatch_retry
    <2>13. ASSUME NEW r \in Slots, FireStale(r) PROVE TaskType'
       BY <2>13 DEF TaskType, taskVars, FireStale
    <2>14. ASSUME flb_engine_manager \/ EngineStop \/ EngineShutdown PROVE TaskType'
       BY <2>14, Zenon DEF TaskType, taskVars, flb_engine_manager, EngineStop, EngineShutdown
    <2> QED BY <1>1, <2>1, <2>2, <2>3, <2>4, <2>5, <2>6, <2>7, <2>8, <2>9, <2>10, <2>11, <2>12,
               <2>13, <2>14, Zenon DEF EngineStep
  <1>2. CASE FlushStep
    <2> SUFFICES ASSUME NEW s \in Slots,
                        \/ StartFlush(s) \/ LoseFlush(s)
                        \/ \E ret \in Returns : flb_output_return(s, ret)
                 PROVE TaskType'
      BY <1>2, Zenon DEF FlushStep
    <2>1. route' \in [Chunks -> [Outputs -> RouteStatus]]
      <3>1. PICK c, o : route' \in {route, [route EXCEPT ![c][o] = "inactive"],
                                 [route EXCEPT ![c][o] = "active"]}
        BY DEF StartFlush, LoseFlush, flb_output_return
      <3>2. route \in [Chunks -> [Outputs -> RouteStatus]]
        BY DEF TaskType, RouteStatus
      <3>3. {"inactive", "active"} \subseteq RouteStatus
        BY DEF RouteStatus
      <3>4. [route EXCEPT ![c][o] = "inactive"] \in [Chunks -> [Outputs -> RouteStatus]]
        BY <3>3, RouteType
      <3>5. [route EXCEPT ![c][o] = "active"] \in [Chunks -> [Outputs -> RouteStatus]]
        BY <3>3, RouteType
      <3> QED BY <3>1, <3>2, <3>4, <3>5
    <2> QED BY <2>1 DEF TaskType, StartFlush, LoseFlush, flb_output_return, RouteStatus
  <1>3. CASE InputStep
    <2>1. ASSUME NEW c \in Chunks, Ingest(c) PROVE TaskType'
      <3>1. PICK R \in Masks : mask' = [mask EXCEPT ![c] = R]
        BY <2>1 DEF Ingest
      <3>2. mask' \in [Chunks -> SUBSET Outputs]
        BY <3>1, InstanceAssumption DEF TaskType
      <3>3. up' \in [Chunks -> BOOLEAN]
        BY <2>1, Zenon DEF TaskType, Ingest
      <3>4. chunk' \in [Chunks -> {"absent", "ready", "busy", "gone"}]
        BY <2>1 DEF TaskType, Ingest
      <3> QED BY <2>1, <3>2, <3>3, <3>4 DEF TaskType, Ingest
    <2>2. ASSUME NEW c \in Chunks, NEW o \in Outputs, NEW scope, ReleaseSpace(c, o, scope) PROVE TaskType'
      <3>1. mask' \in [Chunks -> SUBSET Outputs]
        BY <2>2 DEF ReleaseSpace, TaskType
      <3>2. CASE users[c] # 0
        <4>1. route' \in [Chunks -> [Outputs -> RouteStatus]]
          <5>1. route' = route \/ route' = [route EXCEPT ![c][o] = "dropped"]
            BY <2>2, <3>2 DEF ReleaseSpace
          <5>2. "dropped" \in RouteStatus
            BY DEF RouteStatus
          <5>3. route \in [Chunks -> [Outputs -> RouteStatus]]
            BY DEF TaskType, RouteStatus
          <5> QED BY <5>1, <5>2, <5>3, RouteType
        <4> QED BY <2>2, <3>1, <3>2, <4>1 DEF ReleaseSpace, TaskType, RouteStatus
      <3>3. CASE users[c] = 0
        <4>1. PICK D : flb_task_destroy(D)
          BY <2>2, <3>3 DEF ReleaseSpace
        <4>2. counted' \in [Chunks -> [Outputs -> Seq({"proc", "dropped"})]]
          <5>1. counted' = [counted EXCEPT ![c][o] = Append(@, "dropped")]
            BY <2>2, <3>3, Zenon DEF ReleaseSpace
          <5> QED BY <5>1, CountedType, Zenon
        <4>3. attempts' \in [Chunks -> [Outputs -> Nat]]
          <5>1. PICK E : attempts' = [x \in Chunks |-> IF x \in E THEN [y \in Outputs |-> 0]
                                                       ELSE attempts[x]]
            BY <2>2, <3>3, Zenon DEF ReleaseSpace
          <5> QED BY <5>1 DEF TaskType
        <4> QED BY <2>2, <3>1, <4>1, <4>2, <4>3, TaskDestroyType DEF ReleaseSpace, TaskType
      <3> QED BY <3>2, <3>3
    <2>3. ASSUME flb_engine_exit PROVE TaskType'
       BY <2>3 DEF TaskType, taskVars, flb_engine_exit
    <2> QED BY <1>3, <2>1, <2>2, <2>3, Zenon DEF InputStep
  <1>4. CASE UNCHANGED vars
    BY <1>4 DEF vars, TaskType, taskVars
  <1> QED BY <1>1, <1>2, <1>3, <1>4, Zenon DEF Next, Halted

\* Every step keeps flushes, queues and requests well typed.
LEMMA FlushTypeStep == TypeOK /\ [Next]_vars => FlushType'
  <1> SUFFICES ASSUME TypeOK, [Next]_vars PROVE FlushType'
    OBVIOUS
  <1>a. TaskType /\ LoopType /\ FlushType BY DEF TypeOK
  <1> USE <1>a
  <1>1. CASE EngineStep
    <2>1. ASSUME FlushTimer \/ NextInput \/ EndCreate \/ EndRoutes \/ EndInput PROVE FlushType'
       BY <2>1, SMTT(30) DEF FlushType, flushVars, FlushTimer, flb_engine_flush, NextInput, EndCreate, EndRoutes, EndInput
    <2>2. ASSUME NEW c \in Chunks, DispatchChunk(c) \/ StartTask(c) PROVE FlushType'
       BY <2>2, Zenon DEF FlushType, flushVars, DispatchChunk, StartTask, Routes
    <2>3. ASSUME NEW o \in Outputs, SkipRoute(o) PROVE FlushType'
       BY <2>3 DEF FlushType, flushVars, SkipRoute
    <2>4. ASSUME NEW s \in Slots, StartRoute(s) PROVE FlushType'
      <3>1. PICK res : Submit(s, res) BY <2>4 DEF StartRoute
      <3> QED BY <2>4, <3>1, SubmitType DEF FlushType, StartRoute
    <2>5. ASSUME NEW s \in Slots, handle_output_event(s) PROVE FlushType'
       BY <2>5, SlotParts DEF FlushType, handle_output_event
    <2>6. ASSUME flush_one PROVE FlushType'
      <3> DEFINE o == back[2]
                 s == Head(pending[o])
      <3>1. req' \in [Slots -> {"none", "wait", "now", "stale"}]
        <4>1. PICK R : req' = flb_task_retry_destroy(R)
          BY <2>6, Zenon DEF flush_one
        <4> QED BY <4>1, DestroyType, SMTT(30)
      <3>2. carries' \in [Slots -> {"none", "live", "stale"}]
        <4>1. PICK res : LET freed == IF Refused(o, res) /\ carries[s] = "live" THEN {<<s[1], o>>} ELSE {}
                         IN  carries' = [Orphaned(freed) EXCEPT ![s] = "none"]
          BY <2>6, Zenon DEF flush_one
        <4> QED BY <4>1, DestroyType, Zenon
      <3>3. pending' \in [Outputs -> Seq(Slots)]
        <4>1. CASE o \in Outputs
          <5>1. pending[o] \in Seq(Slots) /\ pending[o] # <<>>
            BY <2>6, <4>1, Zenon DEF flush_one, FlushType
          <5>2. Tail(pending[o]) \in Seq(Slots)
            BY <5>1, SMTT(30)
          <5>3. pending' = [pending EXCEPT ![o] = Tail(pending[o])]
            BY <2>6, ZenonT(30) DEF flush_one
          <5> QED BY <5>2, <5>3, Zenon DEF FlushType
        <4>2. CASE o \notin Outputs
          BY <4>2, <2>6, Zenon DEF flush_one, FlushType
        <4> QED BY <4>1, <4>2
      <3>4. in_progress' \in [Outputs -> BOOLEAN]
        <4>1. PICK res : in_progress' = [in_progress EXCEPT ![o] = (res = "sent")]
          BY <2>6, ZenonT(30) DEF flush_one
        <4> QED BY <4>1, Zenon DEF FlushType
      <3>5. flush' \in [Slots -> {"none", "pending"} \cup InFlight]
        BY <2>6, Zenon DEF flush_one, FlushType, InFlight
      <3> QED BY <3>1, <3>2, <3>3, <3>4, <3>5 DEF FlushType
    <2>7. ASSUME Settle PROVE FlushType'
      <3>1. /\ flush' = [flush EXCEPT ![back] = "none"]
            /\ pending' = pending /\ in_progress' = in_progress
        BY <2>7 DEF Settle
      <3>2. flush' \in [Slots -> {"none", "pending"} \cup InFlight]
        BY <3>1, Zenon DEF FlushType
      <3> HIDE DEF FlushType
      <3>3. \/ \E c, o, m : Finish(c, o, m)
            \/ \E c, o : Retry(c, o)
        BY <2>7 DEF Settle
      <3>4. ASSUME NEW c, NEW o, NEW m, Finish(c, o, m)
            PROVE  /\ req' \in [Slots -> {"none", "wait", "now", "stale"}]
                   /\ carries' \in [Slots -> {"none", "live", "stale"}]
        BY <3>4, DestroyType DEF Finish
      <3>5. ASSUME NEW c, NEW o, Retry(c, o)
            PROVE  /\ req' \in [Slots -> {"none", "wait", "now", "stale"}]
                   /\ carries' \in [Slots -> {"none", "live", "stale"}]
        BY <3>5, DestroyType DEF Retry, NewRequest, FlushType
      <3> QED BY <3>1, <3>2, <3>3, <3>4, <3>5 DEF FlushType
    <2>8. ASSUME NEW P \in SUBSET {s \in Slots : req[s] = "wait"}, Promote(P) PROVE FlushType'
       BY <2>8 DEF FlushType, flushVars, Promote
    <2>9. ASSUME NEW r \in Slots, flb_engine_dispatch_retry(r) PROVE FlushType'
      <3>1. CASE Reschedule(r)
        BY <3>1, <2>9, DestroyType DEF FlushType, flb_engine_dispatch_retry, Reschedule, NewRequest
      <3>2. ASSUME NEW s \in Slots, Redispatch(r, s) PROVE FlushType'
        <4>1. /\ req' \in [Slots -> {"none", "wait", "now", "stale"}]
              /\ carries' \in [Slots -> {"none", "live", "stale"}]
          <5>1. CASE /\ req' = flb_task_retry_destroy({<<r[1], r[2]>>})
                     /\ carries' = Orphaned({<<r[1], r[2]>>})
            BY <5>1, DestroyType
          <5>2. CASE /\ req' = [req EXCEPT ![r] = "none"]
                     /\ carries' \in {carries, [carries EXCEPT ![s] = "live"]}
            BY <5>2 DEF FlushType
          <5> QED BY <3>2, <5>1, <5>2 DEF Redispatch, flb_sched_request_destroy
        <4>2. \/ UNCHANGED <<flush, pending, in_progress>>
              \/ \E res : Submit(s, res)
          BY <3>2 DEF Redispatch
        <4> QED BY <4>1, <4>2, SubmitType DEF FlushType
      <3> QED BY <3>1, <3>2, <2>9 DEF flb_engine_dispatch_retry
    <2>10. ASSUME NEW r \in Slots, FireStale(r) PROVE FlushType'
       BY <2>10 DEF FlushType, flushVars, FireStale
    <2>11. ASSUME EngineStop PROVE FlushType'
      <3>1. req' \in [Slots -> {"none", "wait", "now", "stale"}]
        BY <2>11, DestroyType, ZenonT(30) DEF EngineStop, flb_engine_reschedule_retries, FlushType
      <3> QED BY <3>1, <2>11, SMTT(30) DEF EngineStop, FlushType
    <2>12. ASSUME flb_engine_manager \/ EngineShutdown PROVE FlushType'
       BY <2>12, Zenon DEF FlushType, flushVars, flb_engine_manager, EngineShutdown
    <2> QED BY <1>1, <2>1, <2>2, <2>3, <2>4, <2>5, <2>6, <2>7, <2>8, <2>9, <2>10, <2>11, <2>12, ZenonT(30) DEF EngineStep
  <1>2. CASE FlushStep
    <2> SUFFICES ASSUME NEW s \in Slots,
                        \/ StartFlush(s) \/ LoseFlush(s)
                        \/ \E ret \in Returns : flb_output_return(s, ret)
                 PROVE FlushType'
      BY <1>2, Zenon DEF FlushStep
    <2> QED BY ZenonT(30) DEF FlushType, InFlight, Returns, StartFlush, LoseFlush, flb_output_return
  <1>3. CASE InputStep
    <2>1. ASSUME NEW c \in Chunks, Ingest(c) PROVE FlushType'
       BY <2>1 DEF FlushType, flushVars, Ingest
    <2>2. ASSUME NEW c \in Chunks, NEW o \in Outputs, NEW scope, ReleaseSpace(c, o, scope) PROVE FlushType'
      BY <2>2, DestroyType DEF ReleaseSpace, FlushType
    <2>3. ASSUME flb_engine_exit PROVE FlushType'
       BY <2>3 DEF FlushType, flushVars, flb_engine_exit
    <2> QED BY <1>3, <2>1, <2>2, <2>3, Zenon DEF InputStep
  <1>4. CASE UNCHANGED vars
    BY <1>4 DEF vars, FlushType, flushVars
  <1> QED BY <1>1, <1>2, <1>3, <1>4, Zenon DEF Next, Halted

\* Every step keeps the engine thread's position and counters well typed.
LEMMA LoopStep == TypeOK /\ [Next]_vars => LoopType'
  <1> SUFFICES ASSUME TypeOK, [Next]_vars PROVE LoopType'
    OBVIOUS
  <1>a. LoopType /\ FlushType BY DEF TypeOK
  <1> USE <1>a DEF LoopType, stopVars, loopVars
  <1>1. CASE EngineStep
    <2>1. ASSUME FlushTimer \/ NextInput \/ EndCreate \/ EndRoutes \/ EndInput PROVE LoopType'
      <3>1. CASE FlushTimer BY <3>1 DEF FlushTimer, flb_engine_flush
      <3>2. CASE NextInput BY <3>2 DEF NextInput
      <3>3. CASE EndCreate BY <3>3 DEF EndCreate
      <3>4. CASE EndRoutes BY <3>4 DEF EndRoutes
      <3>5. CASE EndInput BY <3>5 DEF EndInput
      <3> QED BY <2>1, <3>1, <3>2, <3>3, <3>4, <3>5, Zenon
    <2>2. ASSUME NEW c \in Chunks, DispatchChunk(c) \/ StartTask(c) PROVE LoopType'
       BY <2>2, Zenon DEF DispatchChunk, StartTask, Routes
    <2>3. ASSUME NEW o \in Outputs, SkipRoute(o) PROVE LoopType'
       BY <2>3 DEF SkipRoute
    <2>4. ASSUME NEW s \in Slots, StartRoute(s) \/ handle_output_event(s) PROVE LoopType'
       BY <2>4, SMTT(30) DEF StartRoute, handle_output_event, Submit
    <2>5. ASSUME flush_one \/ Settle PROVE LoopType'
       BY <2>5, Zenon DEF flush_one, Settle
    <2>6. ASSUME NEW P \in SUBSET {s \in Slots : req[s] = "wait"}, Promote(P) PROVE LoopType'
       BY <2>6 DEF Promote
    <2>7. ASSUME NEW r \in Slots, flb_engine_dispatch_retry(r) \/ FireStale(r) PROVE LoopType'
       BY <2>7 DEF flb_engine_dispatch_retry, FireStale, Reschedule, Redispatch, Submit
    <2>8. ASSUME flb_engine_manager \/ EngineStop \/ EngineShutdown PROVE LoopType'
       BY <2>8, SMTT(30) DEF flb_engine_manager, flb_engine_flush, EngineStop, EngineShutdown
    <2> QED BY <1>1, <2>1, <2>2, <2>3, <2>4, <2>5, <2>6, <2>7, <2>8, Zenon DEF EngineStep
  <1>2. CASE FlushStep
    <2> SUFFICES ASSUME NEW s \in Slots,
                        \/ StartFlush(s) \/ LoseFlush(s)
                        \/ \E ret \in Returns : flb_output_return(s, ret)
                 PROVE LoopType'
      BY <1>2, Zenon DEF FlushStep
    <2> QED BY DEF StartFlush, LoseFlush, flb_output_return
  <1>3. CASE InputStep
    <2>1. ASSUME NEW c \in Chunks, Ingest(c) PROVE LoopType'
      BY <2>1, Zenon DEF Ingest
    <2>2. ASSUME NEW c \in Chunks, NEW o \in Outputs, NEW scope, ReleaseSpace(c, o, scope)
          PROVE  LoopType'
      BY <2>2 DEF ReleaseSpace
    <2>3. ASSUME flb_engine_exit PROVE LoopType'
      BY <2>3, BoundAssumption DEF flb_engine_exit
    <2> QED BY <1>3, <2>1, <2>2, <2>3, ZenonT(30) DEF InputStep
  <1>4. CASE UNCHANGED vars
    BY <1>4 DEF vars
  <1> QED BY <1>1, <1>2, <1>3, <1>4, Zenon DEF Next, Halted

\* Every step keeps the flags of the engine thread Boolean.
LEMMA FlagStep == FlagType /\ [Next]_vars => FlagType'
  <1> SUFFICES ASSUME FlagType, [Next]_vars PROVE FlagType'
    OBVIOUS
  <1> USE DEF FlagType, stopVars, loopVars
  <1>1. CASE EngineStep
    <2>1. ASSUME FlushTimer \/ NextInput \/ EndCreate \/ EndRoutes \/ EndInput PROVE FlagType'
      BY <2>1, Zenon DEF FlushTimer, flb_engine_flush, NextInput, EndCreate, EndRoutes, EndInput
    <2>2. ASSUME NEW c \in Chunks, DispatchChunk(c) \/ StartTask(c) PROVE FlagType'
      BY <2>2, Zenon DEF DispatchChunk, StartTask
    <2>3. ASSUME NEW o \in Outputs, SkipRoute(o) PROVE FlagType'
      BY <2>3, Zenon DEF SkipRoute
    <2>4. ASSUME NEW s \in Slots, StartRoute(s) \/ handle_output_event(s) PROVE FlagType'
      BY <2>4, Zenon DEF StartRoute, handle_output_event
    <2>5. ASSUME flush_one \/ Settle PROVE FlagType'
      BY <2>5, Zenon DEF flush_one, Settle
    <2>6. ASSUME NEW P \in SUBSET {s \in Slots : req[s] = "wait"}, Promote(P) PROVE FlagType'
      BY <2>6, Zenon DEF Promote
    <2>7. ASSUME NEW r \in Slots, flb_engine_dispatch_retry(r) \/ FireStale(r) PROVE FlagType'
      BY <2>7, Zenon DEF flb_engine_dispatch_retry, FireStale
    <2>8. ASSUME flb_engine_manager \/ EngineStop \/ EngineShutdown PROVE FlagType'
      BY <2>8, Zenon DEF flb_engine_manager, flb_engine_flush, EngineStop, EngineShutdown
    <2> QED BY <1>1, <2>1, <2>2, <2>3, <2>4, <2>5, <2>6, <2>7, <2>8, Zenon DEF EngineStep
  <1>2. CASE FlushStep
    <2> SUFFICES ASSUME NEW s \in Slots,
                        \/ StartFlush(s) \/ LoseFlush(s)
                        \/ \E ret \in Returns : flb_output_return(s, ret)
                 PROVE  FlagType'
      BY <1>2, Zenon DEF FlushStep
    <2> QED BY Zenon DEF StartFlush, LoseFlush, flb_output_return
  <1>3. CASE InputStep
    <2>1. ASSUME NEW c \in Chunks, Ingest(c) PROVE FlagType'
      BY <2>1, Zenon DEF Ingest
    <2>2. ASSUME NEW c \in Chunks, NEW o \in Outputs, NEW scope, ReleaseSpace(c, o, scope)
          PROVE  FlagType'
      BY <2>2, Zenon DEF ReleaseSpace
    <2>3. ASSUME flb_engine_exit PROVE FlagType'
      BY <2>3, Zenon DEF flb_engine_exit
    <2> QED BY <1>3, <2>1, <2>2, <2>3, Zenon DEF InputStep
  <1>4. CASE UNCHANGED vars
    BY <1>4, Zenon DEF vars
  <1> QED BY <1>1, <1>2, <1>3, <1>4, Zenon DEF Next, Halted

------------------------------------------------------------------------------
\* The initial state is well typed.
LEMMA InitType == Init => TypeOK
  <1> SUFFICES ASSUME Init PROVE TypeOK
    OBVIOUS
  <1>1. TaskType BY DEF Init, TaskType
  <1>2. FlushType BY DEF Init, FlushType
  <1>3. LoopType BY BoundAssumption DEF Init, LoopType
  <1>4. FlagType BY Zenon DEF Init, FlagType
  <1> QED BY <1>1, <1>2, <1>3, <1>4 DEF TypeOK

\* Every step, of the engine thread, an output or an input, keeps the state well typed.
LEMMA TypeStep == TypeOK /\ [Next]_vars => TypeOK'
  <1>1. TypeOK => FlagType BY DEF TypeOK
  <1> QED BY <1>1, TaskTypeStep, FlushTypeStep, LoopStep, FlagStep, Zenon DEF TypeOK

\* The state of the engine is always well formed, for any number of chunks, inputs,
\* outputs, task ids and any failures of the calls it makes.
THEOREM TypeCorrect == Spec => []TypeOK
  <1> QED BY InitType, TypeStep, PTL DEF Spec
==============================================================================
