---------------------------- MODULE EngineProofs -----------------------------
(***************************************************************************)
(* UsersCoverFlushes, TaskIdsExact and RetriesBounded hold of FlbEngine for*)
(* every value of its constants.  The first two follow from EngineInv,     *)
(* which is inductive.                                                     *)
(***************************************************************************)
EXTENDS EngineSteps

------------------------------------------------------------------------------
(* The theorems. *)

\* The engine starts without flushes, retries, requests and tasks.
LEMMA InvInit == Init => EngineInv
  <1> SUFFICES ASSUME Init PROVE EngineInv
    OBVIOUS
  <1>1. \A c : Flushes(c) = {} BY DEF Init, Flushes
  <1>2. UsersCount
    <2>1. Cardinality({}) = 0 BY FS_EmptySet
    <2>2. \A c \in Chunks : users[c] = 0 BY DEF Init
    <2> QED BY <1>1, <2>1, <2>2 DEF UsersCount
  <1>3. FlushHasTask /\ RetryHasTask /\ RequestHasRetry /\ TaskHasChunk
    BY DEF Init, FlushHasTask, RetryHasTask, RequestHasRetry, TaskHasChunk
  <1>4. QueueInv BY DEF Init, QueueInv
  <1>5. TaskIdsExact BY InstanceAssumption DEF Init, TaskIdsExact
  <1>6. ThreadInv BY DEF Init, ThreadInv
  <1> QED BY <1>2, <1>3, <1>4, <1>5, <1>6 DEF EngineInv

\* Every step preserves EngineInv.
LEMMA InvStep == TypeOK /\ EngineInv /\ [Next]_vars => EngineInv'
  <1> SUFFICES ASSUME TypeOK, EngineInv, [Next]_vars PROVE EngineInv'
    OBVIOUS
  <1>0. TypeOK' BY TypeStep
  <1>1. CASE EngineStep
    <2>1. CASE \/ FlushTimer \/ NextInput \/ EndCreate \/ \E o \in Outputs : SkipRoute(o)
               \/ \E s \in Slots : handle_output_event(s) \/ FireStale(s)
               \/ flb_engine_manager \/ EngineShutdown
      BY <1>0, <2>1, InvQuiet
    <2>2. CASE EndRoutes \/ \E c \in Chunks : StartTask(c) BY <1>0, <2>2, InvStatus
    <2>3. CASE EndInput BY <1>0, <2>3, InvEndInput
    <2>4. CASE \E c \in Chunks : DispatchChunk(c) BY <1>0, <2>4, InvDispatch
    <2>5. CASE \E s \in Slots : StartRoute(s) BY <1>0, <2>5, InvStartRoute
    <2>6. CASE flush_one BY <1>0, <2>6, InvFlushOne
    <2>7. CASE Settle BY <1>0, <2>7, InvSettle
    <2>8. CASE \E P \in SUBSET {s \in Slots : req[s] = "wait"} : Promote(P) BY <2>8, InvPromote
    <2>9. CASE \E r \in Slots : flb_engine_dispatch_retry(r) BY <1>0, <2>9, InvDispatchRetry
    <2>10. CASE EngineStop BY <2>10, InvEngineStop
    <2> QED BY <1>1, <2>1, <2>2, <2>3, <2>4, <2>5, <2>6, <2>7, <2>8, <2>9, <2>10, Zenon
            DEF EngineStep
  <1>2. CASE FlushStep BY <1>0, <1>2, InvFlush
  <1>3. CASE InputStep
    <2>1. CASE \E c \in Chunks : Ingest(c) BY <2>1, InvIngest
    <2>2. CASE \E c \in Chunks, o \in Outputs, scope \in {"local", "global"} : ReleaseSpace(c, o, scope)
      BY <1>0, <2>2, InvRelease
    <2>3. CASE flb_engine_exit BY <1>0, <2>3, InvQuiet
    <2> QED BY <1>3, <2>1, <2>2, <2>3, Zenon DEF InputStep
  <1>4. CASE UNCHANGED vars
    <2>1. UNCHANGED <<chunk, tasks_map, task, users, attempts, flush, pending, req, pc, back, cur, walk>>
      BY <1>4 DEF vars, taskVars, flushVars, loopVars
    <2>2. ThreadInv' BY <2>1 DEF EngineInv, ThreadInv
    <2> QED BY <1>0, <2>1, <2>2, StatusStep DEF EngineInv
  <1> QED BY <1>1, <1>2, <1>3, <1>4, Zenon DEF Next, Halted

\* EngineInv holds of every reachable state.
THEOREM EngineInvariant == Spec => []EngineInv
  <1> QED BY InvInit, InvStep, TypeCorrect, PTL DEF Spec

\* Whatever fails, is retried, released or stopped, a flush that the engine has not
\* settled is a user of a task that is still in tasks_map: the value it returns names it.
THEOREM FlushesKeepTask == Spec => []UsersCoverFlushes
  <1>1. EngineInv => UsersCoverFlushes
    <2> SUFFICES ASSUME EngineInv, NEW c \in Chunks
                 PROVE  /\ Cardinality(Flushes(c)) <= users[c]
                        /\ Flushes(c) # {} => task[c] # "none" /\ \E i \in TaskIds : tasks_map[i] = c
      BY Zenon DEF UsersCoverFlushes
    <2>1. Cardinality(Flushes(c)) <= users[c] BY DEF EngineInv, UsersCount
    <2>2. Flushes(c) # {} => task[c] # "none" BY DEF EngineInv, FlushHasTask, Flushes
    <2>3. task[c] # "none" => \E i \in TaskIds : tasks_map[i] = c BY DEF EngineInv, TaskIdsExact
    <2> QED BY <2>1, <2>2, <2>3, ZenonT(30)
  <1> QED BY <1>1, EngineInvariant, PTL

\* Task ids are never shared, and destroyed tasks leave none behind.
THEOREM IdsExact == Spec => []TaskIdsExact
  <1>1. EngineInv => TaskIdsExact BY DEF EngineInv
  <1> QED BY <1>1, EngineInvariant, PTL

\* Only a retry below the limit of its output is tried again.
LEMMA BoundedStep ==
    ASSUME TypeOK, EngineInv, RetriesBounded, [Next]_vars
    PROVE  RetriesBounded'
  <1>0. attempts \in [Chunks -> [Outputs -> Nat]] /\ RetryLimit \in [Outputs -> Int]
    BY BoundAssumption DEF TypeOK, TaskType
  <1> DEFINE Down == \A c \in Chunks, o \in Outputs : attempts'[c][o] \in {0, attempts[c][o]}
  <1>1. Down => RetriesBounded'
    <2> SUFFICES ASSUME Down, NEW c \in Chunks, NEW o \in Outputs, RetryLimit[o] >= 0
                 PROVE  attempts'[c][o] <= RetryLimit[o]
      BY DEF RetriesBounded
    <2> QED BY <1>0 DEF RetriesBounded
  <1>2. ASSUME NEW c, NEW o, attempts' = [attempts EXCEPT ![c][o] = 0] PROVE Down
    BY <1>0, <1>2
  <1>3. ASSUME UNCHANGED attempts PROVE Down
    BY <1>0, <1>3
  <1> HIDE DEF Down
  <1>4. CASE EngineStep
    <2>1. CASE \/ FlushTimer \/ NextInput \/ EndCreate \/ EndRoutes \/ EndInput
               \/ flb_engine_manager \/ EngineStop \/ EngineShutdown
      <3>1. UNCHANGED attempts
        BY <2>1, Zenon DEF FlushTimer, NextInput, EndCreate, EndRoutes, EndInput, flb_engine_manager,
                    EngineStop, EngineShutdown, taskVars
      <3> QED BY <1>1, <1>3, <3>1
    <2>2. ASSUME NEW c \in Chunks, DispatchChunk(c) PROVE RetriesBounded'
      <3>1. \/ UNCHANGED attempts
            \/ attempts' = [attempts EXCEPT ![c] = [o \in Outputs |-> 0]]
        BY <2>2, Zenon DEF DispatchChunk, flb_task_create, taskVars
      <3>2. Down BY <1>0, <3>1 DEF Down
      <3> QED BY <1>1, <3>2
    <2>3. ASSUME NEW c \in Chunks, StartTask(c) PROVE RetriesBounded'
      BY <1>1, <1>3, <2>3 DEF StartTask
    <2>4. ASSUME NEW o \in Outputs, SkipRoute(o) PROVE RetriesBounded'
      BY <1>1, <1>3, <2>4 DEF SkipRoute, taskVars
    <2>5. ASSUME NEW s \in Slots, StartRoute(s) \/ handle_output_event(s) \/ FireStale(s)
          PROVE  RetriesBounded'
      BY <1>1, <1>3, <2>5, Zenon DEF StartRoute, handle_output_event, FireStale, taskVars
    <2>6. CASE flush_one
      <3>1. \/ UNCHANGED attempts
            \/ \E c, o : attempts' = [attempts EXCEPT ![c][o] = 0]
        BY <2>6, Zenon DEF flush_one
      <3> QED BY <1>1, <1>2, <1>3, <3>1
    <2>7. CASE Settle
      <3> DEFINE c == back[1]
                 o == back[2]
      <3>1. flush[back] \in {"OK", "ERROR", "RETRY"}
        BY <2>7, SMTT(30) DEF Settle, At, EngineInv, ThreadInv, Returns
      <3>2. \/ attempts' = [attempts EXCEPT ![c][o] = 0]
            \/ ~Exhausted(c, o) /\ attempts' = [attempts EXCEPT ![c][o] = @ + 1]
        BY <2>7, <3>1 DEF Settle, Finish, Retry
      <3>3. CASE attempts' = [attempts EXCEPT ![c][o] = 0]
        BY <1>1, <1>2, <3>3, Zenon
      <3>4. CASE ~Exhausted(c, o) /\ attempts' = [attempts EXCEPT ![c][o] = @ + 1]
        BY <1>0, <3>4 DEF Exhausted, RetriesBounded
      <3> QED BY <3>2, <3>3, <3>4
    <2>8. ASSUME NEW P \in SUBSET {s \in Slots : req[s] = "wait"}, Promote(P)
          PROVE  RetriesBounded'
      BY <1>1, <1>3, <2>8 DEF Promote, taskVars
    <2>9. ASSUME NEW r \in Slots, flb_engine_dispatch_retry(r) PROVE RetriesBounded'
      <3>1. \/ UNCHANGED attempts
            \/ \E c, o : attempts' = [attempts EXCEPT ![c][o] = 0]
        BY <2>9 DEF flb_engine_dispatch_retry, Reschedule, Redispatch
      <3> QED BY <1>1, <1>2, <1>3, <3>1
    <2> QED BY <1>4, <2>1, <2>2, <2>3, <2>4, <2>5, <2>6, <2>7, <2>8, <2>9, Zenon DEF EngineStep
  <1>5. CASE FlushStep
    <2> SUFFICES ASSUME NEW s \in Slots,
                        \/ StartFlush(s) \/ LoseFlush(s)
                        \/ \E ret \in Returns : flb_output_return(s, ret)
                 PROVE  RetriesBounded'
      BY <1>5, Zenon DEF FlushStep
    <2>1. UNCHANGED attempts BY Zenon DEF StartFlush, LoseFlush, flb_output_return
    <2> QED BY <1>1, <1>3, <2>1
  <1>6. CASE InputStep
    <2>1. ASSUME NEW c \in Chunks, Ingest(c) PROVE RetriesBounded'
      BY <1>1, <1>3, <2>1, Zenon DEF Ingest
    <2>2. ASSUME NEW c \in Chunks, NEW o \in Outputs, NEW scope, ReleaseSpace(c, o, scope)
          PROVE  RetriesBounded'
      <3>1. \/ UNCHANGED attempts
            \/ \E D : attempts' = [x \in Chunks |-> IF x \in D THEN [y \in Outputs |-> 0]
                                                    ELSE attempts[x]]
        <4>1. CASE users[c] # 0
          BY <2>2, <4>1, Zenon DEF ReleaseSpace
        <4>2. CASE users[c] = 0
          <5>1. PICK D : attempts' = [x \in Chunks |-> IF x \in D THEN [y \in Outputs |-> 0]
                                                       ELSE attempts[x]]
            BY <2>2, <4>2, Zenon DEF ReleaseSpace
          <5> QED BY <5>1, Zenon
        <4> QED BY <4>1, <4>2
      <3>2. Down BY <1>0, <3>1 DEF Down
      <3> QED BY <1>1, <3>2
    <2>3. ASSUME flb_engine_exit PROVE RetriesBounded'
      BY <1>1, <1>3, <2>3 DEF flb_engine_exit, taskVars
    <2> QED BY <1>6, <2>1, <2>2, <2>3, Zenon DEF InputStep
  <1>7. CASE UNCHANGED vars
    BY <1>1, <1>3, <1>7 DEF vars, taskVars
  <1> QED BY <1>4, <1>5, <1>6, <1>7, Zenon DEF Next, Halted

\* flb_task_retry_create never lets a retry exceed the retry_limit of its output,
\* however STOP events, failed submissions and released space interleave with it.
THEOREM RetryLimitHolds == Spec => []RetriesBounded
  <1>1. Init => RetriesBounded BY BoundAssumption DEF Init, RetriesBounded
  <1>2. TypeOK /\ EngineInv /\ RetriesBounded /\ [Next]_vars => RetriesBounded'
    BY BoundedStep
  <1> QED BY <1>1, <1>2, TypeCorrect, EngineInvariant, PTL DEF Spec
==============================================================================
