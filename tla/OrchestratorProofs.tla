------------------------- MODULE OrchestratorProofs -------------------------
(***************************************************************************)
(* Proofs about Orchestrator, for any workloads, numbers of requests,      *)
(* workers, coroutines and retries.                                        *)
(***************************************************************************)
EXTENDS Orchestrator, LoadBalancerProofs

\* A request's entry in the store is one of its own planned tasks; a coroutine works
\* on a planned task the store knows; an unplanned request has untouched objects.
Bookkeeping ==
    /\ \A t \in Stored : t \in Plan[tasks[t]] /\ reqpc[tasks[t]] # "idle"
    /\ \A p \in Pipe : Live(p) => TaskOf(p) \in Stored /\ TaskOf(p) \in Plan[job[p][1]]
    /\ \A o \in Object : reqpc[o[1]] = "idle" => object[o] = Created
    /\ \A w \in Worker : workers[w].status # "offline"

\* The invariant every other proof builds on.
CoreInv == TypeOK /\ NoWorkerLeak /\ HeldOrProduced /\ Bookkeeping

-----------------------------------------------------------------------------
\* Components of a task object's identity.
LEMMA ObjectFacts ==
    /\ \A o \in Object : o[1] \in Request /\ o[2] \in Task /\ o = <<o[1], o[2]>>
    /\ \A r \in Request, t \in Task :
            <<r, t>> \in Object /\ <<r, t>>[1] = r /\ <<r, t>>[2] = t
BY DEF Object

\* The store holds a Task object under every id it knows.
LEMMA CurrentFacts ==
    ASSUME StoreTypeOK, NEW t \in Stored
    PROVE  /\ Current(t) \in Object /\ Current(t)[1] = tasks[t] /\ Current(t)[2] = t
           /\ tasks[t] \in Request /\ t \in Task
BY RequestAssumption DEF StoreTypeOK, Stored, Current, Object

\* Records built from well-typed parts are Task records.
LEMMA FieldsType ==
    ASSUME NEW s \in TaskStatus, NEW n \in Nat,
           NEW f \in {"transient", "permanent", None}, NEW w \in Worker \union {None}
    PROVE  Fields(s, n, f, w) \in TaskFields
BY DEF Fields, TaskFields

\* Changing the status keeps a Task record.
LEMMA WithStatusType ==
    ASSUME NEW task \in TaskFields, NEW s \in TaskStatus
    PROVE  /\ WithStatus(task, s) \in TaskFields
           /\ WithStatus(task, s).status = s
           /\ WithStatus(task, s).retry_count = task.retry_count
           /\ WithStatus(task, s).failure_type = task.failure_type
BY DEF Fields, TaskFields, WithStatus

\* classify_failure answers "transient" or "permanent".
LEMMA ClassifyType ==
    ASSUME NEW e
    PROVE  ClassifyFailure(e) \in {"transient", "permanent", None}
BY DEF ClassifyFailure

\* A live coroutine has a task object whose id the store knows.
LEMMA JobFacts ==
    ASSUME CoreInv, NEW p \in Pipe, Live(p)
    PROVE  /\ job[p] \in Object /\ job[p] # None
           /\ TaskOf(p) \in Stored /\ TaskOf(p) \in Task
           /\ job[p][1] \in Request /\ TaskOf(p) \in Plan[job[p][1]]
           /\ Current(TaskOf(p)) \in Object
           /\ Current(TaskOf(p))[1] = tasks[TaskOf(p)]
           /\ Current(TaskOf(p))[2] = TaskOf(p)
           /\ tasks[TaskOf(p)] \in Request
           /\ StoredTask(p) \in TaskFields
           /\ Partition[TaskOf(p)] \in {"cpu", "io"}
<1>1. job[p] \in Object /\ job[p] # None
  BY DEF CoreInv, TypeOK
<1>2. TaskOf(p) \in Stored /\ TaskOf(p) \in Plan[job[p][1]]
  BY DEF CoreInv, Bookkeeping
<1>3. job[p][1] \in Request
  BY <1>1, ObjectFacts
<1>4. StoreTypeOK
  BY DEF CoreInv, TypeOK
<1>5. StoredTask(p) \in TaskFields
  BY <1>2, <1>4, CurrentFacts DEF StoredTask, StoreTypeOK
<1>6. QED
  BY <1>1, <1>2, <1>3, <1>4, <1>5, CurrentFacts, OrchestratorAssumption

-----------------------------------------------------------------------------
(* What the actions do, in the terms the proofs use. *)

\* Every step of the orchestrator is a step of the load balancer or leaves its
\* variables alone.
LEMMA LBStep ==
    ASSUME CoreInv, [Next]_vars
    PROVE  [LBNext]_lbVars
<1>1. CASE UNCHANGED vars
  BY <1>1 DEF vars
<1>2. CASE \E r \in Request : SubmitPlan(r) \/ Workload(r)
  BY <1>2 DEF SubmitPlan, Workload, ScheduleWorkload, LaunchWorkload
<1>3. ASSUME NEW p \in Pipe, Process(p) PROVE [LBNext]_lbVars
  <2>1. CASE Assign(p)
    <3>1. Live(p)
      BY <2>1 DEF Assign, Live
    <3>2. TaskOf(p) \in Task /\ Partition[TaskOf(p)] \in {"cpu", "io"}
      BY <3>1, JobFacts
    <3>3. AssignWorker(p, TaskOf(p), Partition[TaskOf(p)])
      BY <2>1 DEF Assign
    <3>4. QED
      BY <3>2, <3>3 DEF LBNext
  <2>2. CASE ExecuteFails(p)
    BY <2>2 DEF ExecuteFails, LBNext
  <2>3. CASE ExecuteSucceeds(p)
    BY <2>3 DEF ExecuteSucceeds, LBNext
  <2>4. CASE Unavailable(p) \/ Defer(p) \/ RunTask(p) \/ DeadLetter(p)
             \/ ScheduleRetry(p) \/ RetryAfterBackoff(p) \/ Validate(p) \/ Reschedule(p)
    BY <2>4 DEF Unavailable, Defer, RunTask, DeadLetter, ScheduleRetry,
                RetryAfterBackoff, Validate, Reschedule
  <2>5. QED
    BY <1>3, <2>1, <2>2, <2>3, <2>4 DEF Process
<1>4. QED
  BY <1>1, <1>2, <1>3 DEF Next

\* update_task changes one object.
LEMMA UpdateFacts ==
    ASSUME StoreTypeOK, NEW t \in Stored, NEW fields \in TaskFields,
           UpdateTask(t, fields)
    PROVE  /\ object' \in [Object -> TaskFields]
           /\ object'[Current(t)] = fields
           /\ \A o \in Object : o # Current(t) => object'[o] = object[o]
BY CurrentFacts DEF UpdateTask, StoreTypeOK

\* The outcome of a pass over the list that releases the objects of S.
PassResult(list, S) ==
    /\ S \subseteq list
    /\ IsPass(list, S)
    /\ pending' = list \ S
    /\ \A o \in Object :
         /\ produced'[o] = IF o \in S THEN produced[o] + 1 ELSE produced[o]
         /\ (o \in S \/ \E q \in S : o = Current(q[2]))
                => object'[o] = WithStatus(object[o], "queued")
         /\ ~(o \in S \/ \E q \in S : o = Current(q[2]))
                => object'[o] = object[o]

\* A pass turns the objects it releases, and the stored objects with their ids, to
\* QUEUED, counts a message for each released one and drops those from the list.
LEMMA PassFacts ==
    ASSUME StoreTypeOK, SchedTypeOK, NEW list, list \subseteq Object, Pass(list)
    PROVE  /\ object' \in [Object -> TaskFields]
           /\ produced' \in [Object -> Nat]
           /\ pending' \subseteq list
           /\ \E S : PassResult(list, S)
<1>1. PICK S \in SUBSET list : IsPass(list, S) /\ Queue(S) /\ pending' = list \ S
  BY DEF Pass
<1>2. \A o \in Object : WithStatus(object[o], "queued") \in TaskFields
  BY WithStatusType DEF StoreTypeOK, TaskStatus
<1>3. object' \in [Object -> TaskFields]
  BY <1>1, <1>2 DEF Queue, StoreTypeOK
<1>4. produced' \in [Object -> Nat]
  BY <1>1 DEF Queue, SchedTypeOK
<1>5. \A o \in Object :
        /\ produced'[o] = IF o \in S THEN produced[o] + 1 ELSE produced[o]
        /\ (o \in S \/ \E q \in S : o = Current(q[2]))
               => object'[o] = WithStatus(object[o], "queued")
        /\ ~(o \in S \/ \E q \in S : o = Current(q[2]))
               => object'[o] = object[o]
  BY <1>1 DEF Queue
<1>6. PassResult(list, S)
  BY <1>1, <1>5 DEF PassResult
<1>7. QED
  BY <1>1, <1>3, <1>4, <1>6

\* The outcome of create_task for every task of Q on the identities P, while the
\* coroutines of Done return and everybody else is left alone.
SpawnResult(Q, Done, P) ==
    /\ P \subseteq Pipe
    /\ \A p \in P : /\ pc[p] = "free" /\ pc'[p] = "start"
                    /\ \E t \in Q : job'[p] = Current(t)
                    /\ result'[p] = result[p]
    /\ \A t \in Q : \E p \in P : job'[p] = Current(t)
    /\ \A p \in Pipe : p \in Done =>
           pc'[p] = "free" /\ job'[p] = None /\ result'[p] = NoResult
    /\ \A p \in Pipe : p \notin P /\ p \notin Done =>
           pc'[p] = pc[p] /\ job'[p] = job[p] /\ result'[p] = result[p]
    /\ pc' = [p \in Pipe |-> pc'[p]]
    /\ job' = [p \in Pipe |-> job'[p]]
    /\ result' = [p \in Pipe |-> result'[p]]

\* create_task starts one coroutine per task of Q, each on a free identity; Done
\* returns, and everybody else is left alone.
LEMMA SpawnFacts ==
    ASSUME StoreTypeOK, NEW Q, Q \subseteq Stored,
           NEW Done, \A p \in Done : Live(p), Spawn(Q, Done)
    PROVE  \E P : SpawnResult(Q, Done, P)
<1>0. PICK P \in SUBSET {p \in Pipe : ~Live(p)} : \E f \in Bijection(P, Q) :
            /\ pc' = [p \in Pipe |-> IF p \in P THEN "start"
                                     ELSE IF p \in Done THEN "free" ELSE pc[p]]
            /\ job' = [p \in Pipe |-> IF p \in P THEN Current(f[p])
                                      ELSE IF p \in Done THEN None ELSE job[p]]
            /\ result' = [p \in Pipe |-> IF p \in Done THEN NoResult ELSE result[p]]
  BY DEF Spawn
<1>1. PICK f \in Bijection(P, Q) :
            /\ pc' = [p \in Pipe |-> IF p \in P THEN "start"
                                     ELSE IF p \in Done THEN "free" ELSE pc[p]]
            /\ job' = [p \in Pipe |-> IF p \in P THEN Current(f[p])
                                      ELSE IF p \in Done THEN None ELSE job[p]]
            /\ result' = [p \in Pipe |-> IF p \in Done THEN NoResult ELSE result[p]]
  BY <1>0
<1>2. /\ f \in [P -> Q]
      /\ \A t \in Q : \E p \in P : f[p] = t
  BY <1>1 DEF Bijection, Injection, Surjection
<1>3. P \subseteq Pipe /\ \A p \in P : ~Live(p) /\ p \notin Done
  BY <1>0
<1>4. \A p \in P : /\ pc[p] = "free" /\ pc'[p] = "start"
                   /\ \E t \in Q : job'[p] = Current(t)
                   /\ result'[p] = result[p]
  BY <1>1, <1>2, <1>3 DEF Live
<1>5. \A t \in Q : \E p \in P : job'[p] = Current(t)
  BY <1>1, <1>2, <1>3
<1>6. \A p \in Pipe : p \in Done =>
            pc'[p] = "free" /\ job'[p] = None /\ result'[p] = NoResult
  BY <1>1, <1>3
<1>7. \A p \in Pipe : p \notin P /\ p \notin Done =>
            pc'[p] = pc[p] /\ job'[p] = job[p] /\ result'[p] = result[p]
  BY <1>1
<1>8. /\ pc' = [p \in Pipe |-> pc'[p]] /\ job' = [p \in Pipe |-> job'[p]]
      /\ result' = [p \in Pipe |-> result'[p]]
  BY <1>1
<1>9. SpawnResult(Q, Done, P)
  BY <1>3, <1>4, <1>5, <1>6, <1>7, <1>8 DEF SpawnResult
<1>10. QED
  BY <1>9

-----------------------------------------------------------------------------
(* CoreInv is inductive. *)

\* CoreInv holds initially.
LEMMA CoreInit == Init => CoreInv
<1> SUFFICES ASSUME Init PROVE CoreInv
  OBVIOUS
<1>1. LBTypeOK /\ \A w \in Worker : workers[w].status # "offline"
  BY DEF Init, LBInit, LBTypeOK, Registered, WorkerStatus
<1>2. StoreTypeOK
  BY FieldsType DEF Init, StoreInit, StoreTypeOK, Created, TaskStatus
<1>3. SchedTypeOK
  BY DEF Init, SchedInit, SchedTypeOK
<1>4. TypeOK
  BY <1>1, <1>2, <1>3 DEF Init, TypeOK, ReqPc, PipePc, TaskResult, NoResult, Live
<1>5. NoWorkerLeak
  BY DEF Init, LBInit, NoWorkerLeak
<1>6. HeldOrProduced
  BY ObjectFacts DEF Init, SchedInit, HeldOrProduced
<1>7. Bookkeeping
  BY <1>1 DEF Init, StoreInit, Bookkeeping, Stored, Live
<1>8. QED
  BY <1>4, <1>5, <1>6, <1>7 DEF CoreInv

\* Workers never go offline: no code path sets that status.
LEMMA NeverOffline ==
    ASSUME CoreInv, [Next]_vars
    PROVE  LBTypeOK' /\ \A w \in Worker : workers'[w].status # "offline"
<1>1. LBTypeOK /\ \A w \in Worker : workers[w].status # "offline"
  BY DEF CoreInv, TypeOK, Bookkeeping
<1>2. [LBNext]_lbVars
  BY LBStep
<1>3. LBTypeOK'
  BY <1>1, <1>2, LBTypeStep
<1>4. CASE UNCHANGED lbVars
  BY <1>1, <1>3, <1>4 DEF lbVars
<1>5. CASE LBNext
  <2>1. PICK p \in Pipe, w \in Worker :
          \/ \E t \in Task : AssignTo(p, t, w)
          \/ \E success \in BOOLEAN : ReleaseFrom(p, success, w)
    BY <1>1, <1>5, StepForms
  <2>2. \A v \in Worker : workers'[v].status # "offline"
    BY <1>1, <2>1 DEF AssignTo, ReleaseFrom, Busy, Released, LBTypeOK
  <2>3. QED
    BY <1>3, <2>2
<1>6. QED
  BY <1>2, <1>3, <1>4, <1>5

\* A step of coroutine p that leaves requests and scheduler alone, updates at most
\* the stored object of its task, and keeps, re-fetches or drops that task.
LEMMA CoroutineStep ==
    ASSUME CoreInv, [Next]_vars, NEW p \in Pipe, Live(p), NEW l \in PipePc,
           UNCHANGED <<schedVars, reqpc, tasks>>,
           object' \in [Object -> TaskFields],
           \A o \in Object : o # Current(TaskOf(p)) => object'[o] = object[o],
           pc' = [pc EXCEPT ![p] = l],
           \/ job' = job /\ l # "free"
           \/ job' = [job EXCEPT ![p] = Current(TaskOf(p))] /\ l # "free"
           \/ job' = [job EXCEPT ![p] = None] /\ l = "free",
           result' \in [Pipe -> TaskResult],
           ahead' \in [Pipe -> SUBSET Pipe],
           execution_history' \in [Task -> Nat],
           failure_logs' \in [Task -> Nat],
           total_retries' \in Nat,
           \A q \in Pipe : q # p => worker_id'[q] = worker_id[q],
           worker_id'[p] # None <=> l \in {"assigned", "running"}
    PROVE  CoreInv'
<1> USE DEF schedVars
<1>1. /\ job[p] \in Object /\ job[p] # None
      /\ TaskOf(p) \in Stored /\ TaskOf(p) \in Task
      /\ Current(TaskOf(p)) \in Object
      /\ Current(TaskOf(p))[1] = tasks[TaskOf(p)]
      /\ Current(TaskOf(p))[2] = TaskOf(p)
      /\ tasks[TaskOf(p)] \in Request
  BY JobFacts
<1>2. LBTypeOK' /\ \A w \in Worker : workers'[w].status # "offline"
  BY NeverOffline
<1>3. TypeOK'
  <2>1. StoreTypeOK' /\ SchedTypeOK'
    BY DEF CoreInv, TypeOK, StoreTypeOK, SchedTypeOK
  <2>2. /\ reqpc' \in [Request -> ReqPc] /\ pc' \in [Pipe -> PipePc]
        /\ job' \in [Pipe -> Object \union {None}]
    BY <1>1 DEF CoreInv, TypeOK
  <2>3. \A q \in Pipe : Live(q)' <=> job'[q] # None
    <3>1. Current(TaskOf(p)) # None
      BY <1>1, OrchestratorAssumption
    <3>2. \A q \in Pipe : q # p => pc'[q] = pc[q] /\ job'[q] = job[q]
      BY DEF CoreInv, TypeOK
    <3>3. Live(p)' <=> job'[p] # None
      BY <1>1, <3>1 DEF CoreInv, TypeOK, Live
    <3>4. QED
      BY <3>2, <3>3 DEF CoreInv, TypeOK, Live
  <2>4. QED
    BY <1>2, <2>1, <2>2, <2>3 DEF TypeOK
<1>4. NoWorkerLeak'
  BY DEF CoreInv, TypeOK, NoWorkerLeak
<1>5. HeldOrProduced'
  BY DEF CoreInv, HeldOrProduced
<1>6. Bookkeeping'
  <2>1. Stored' = Stored
    BY DEF Stored
  <2>2. \A t \in Stored' : t \in Plan[tasks'[t]] /\ reqpc'[tasks'[t]] # "idle"
    BY <2>1 DEF CoreInv, Bookkeeping
  <2>3. \A q \in Pipe : Live(q)' => TaskOf(q)' \in Stored' /\ TaskOf(q)' \in Plan[job'[q][1]]
    <3>1. ASSUME NEW q \in Pipe, q # p, Live(q)'
          PROVE  TaskOf(q)' \in Stored' /\ TaskOf(q)' \in Plan[job'[q][1]]
      <4>1. pc'[q] = pc[q] /\ job'[q] = job[q]
        BY <3>1 DEF CoreInv, TypeOK
      <4>2. QED
        BY <2>1, <3>1, <4>1 DEF CoreInv, Bookkeeping, Live, TaskOf
    <3>2. ASSUME Live(p)'
          PROVE  TaskOf(p)' \in Stored' /\ TaskOf(p)' \in Plan[job'[p][1]]
      <4>1. job'[p] = job[p] \/ job'[p] = Current(TaskOf(p))
        BY <3>2 DEF CoreInv, TypeOK, Live
      <4>2. TaskOf(p) \in Plan[job[p][1]] /\ TaskOf(p) \in Plan[tasks[TaskOf(p)]]
        BY <1>1 DEF CoreInv, Bookkeeping
      <4>3. QED
        BY <1>1, <2>1, <4>1, <4>2 DEF TaskOf
    <3>3. QED
      BY <3>1, <3>2
  <2>4. \A o \in Object : reqpc'[o[1]] = "idle" => object'[o] = Created
    <3>1. reqpc[tasks[TaskOf(p)]] # "idle"
      BY <1>1 DEF CoreInv, Bookkeeping
    <3>2. QED
      BY <1>1, <3>1 DEF CoreInv, Bookkeeping
  <2>5. QED
    BY <1>2, <2>2, <2>3, <2>4 DEF Bookkeeping
<1>7. QED
  BY <1>3, <1>4, <1>5, <1>6 DEF CoreInv

\* CoreInv is preserved by run_workload.
LEMMA CoreWorkload ==
    ASSUME CoreInv, [Next]_vars, NEW r \in Request, SubmitPlan(r) \/ Workload(r)
    PROVE  CoreInv'
<1> USE DEF schedVars, storeVars
<1>1. LBTypeOK' /\ \A w \in Worker : workers'[w].status # "offline"
  BY NeverOffline
<1>2. TypeOK /\ StoreTypeOK /\ SchedTypeOK
  BY DEF CoreInv, TypeOK
<1>3. CASE SubmitPlan(r)
  <2>1. /\ tasks' = [t \in Task |-> IF t \in Plan[r] THEN r ELSE tasks[t]]
        /\ reqpc' = [reqpc EXCEPT ![r] = "planned"] /\ reqpc[r] = "idle"
        /\ UNCHANGED <<lbVars, pending, turn, produced, pc, job, result, ahead,
                       object, execution_history, failure_logs, total_retries>>
    BY <1>3 DEF SubmitPlan, AddTasks
  <2>2. TypeOK'
    BY <1>1, <1>2, <2>1 DEF TypeOK, StoreTypeOK, SchedTypeOK, ReqPc, Live
  <2>3. NoWorkerLeak'
    BY <2>1 DEF CoreInv, NoWorkerLeak, lbVars
  <2>4. HeldOrProduced'
    BY <1>2, <2>1, ObjectFacts DEF CoreInv, HeldOrProduced, TypeOK
  <2>5. Stored \subseteq Stored'
    BY <2>1, RequestAssumption DEF Stored
  <2>6. Bookkeeping'
    <3>1. \A t \in Stored' : t \in Plan[tasks'[t]] /\ reqpc'[tasks'[t]] # "idle"
      BY <1>2, <2>1 DEF CoreInv, Bookkeeping, Stored, TypeOK, StoreTypeOK
    <3>2. \A q \in Pipe : Live(q)' =>
                TaskOf(q)' \in Stored' /\ TaskOf(q)' \in Plan[job'[q][1]]
      BY <2>1, <2>5 DEF CoreInv, Bookkeeping, Live, TaskOf
    <3>3. \A o \in Object : reqpc'[o[1]] = "idle" => object'[o] = Created
      BY <1>2, <2>1, ObjectFacts DEF CoreInv, Bookkeeping, TypeOK
    <3>4. QED
      BY <1>1, <3>1, <3>2, <3>3 DEF Bookkeeping
  <2>7. QED
    BY <2>2, <2>3, <2>4, <2>6 DEF CoreInv
<1>4. CASE ScheduleWorkload(r)
  <2> DEFINE list == pending \union PlanObjects(r)
  <2>1. /\ turn' \in [Request -> Nat]
        /\ Pass(list)
        /\ reqpc' = [reqpc EXCEPT ![r] = "scheduled"] /\ reqpc[r] = "planned"
        /\ UNCHANGED <<lbVars, pc, job, result, ahead,
                       tasks, execution_history, failure_logs, total_retries>>
    <3>1. {q \in Request : turn[q] > 0} \subseteq Request
      OBVIOUS
    <3>2. Cardinality({q \in Request : turn[q] > 0}) \in Nat
      BY <3>1, RequestAssumption, FS_Subset, FS_CardinalityType
    <3>3. QED
      BY <1>2, <1>4, <3>2 DEF ScheduleWorkload, Schedule, SchedTypeOK
  <2>2. list \subseteq Object
    BY <1>2, PlanAssumption DEF SchedTypeOK, PlanObjects, Object
  <2>3. /\ object' \in [Object -> TaskFields] /\ produced' \in [Object -> Nat]
        /\ pending' \subseteq list
    BY <1>2, <2>1, <2>2, PassFacts
  <2>0. PICK S : PassResult(list, S)
    BY <1>2, <2>1, <2>2, PassFacts
  <2>4. /\ S \subseteq list
        /\ pending' = list \ S
        /\ \A o \in Object :
             /\ produced'[o] = IF o \in S THEN produced[o] + 1 ELSE produced[o]
             /\ ~(o \in S \/ \E q \in S : o = Current(q[2])) => object'[o] = object[o]
    BY <2>0 DEF PassResult
  <2>5. TypeOK'
    BY <1>1, <1>2, <2>1, <2>2, <2>3
       DEF TypeOK, StoreTypeOK, SchedTypeOK, ReqPc, Live
  <2>6. NoWorkerLeak'
    BY <2>1 DEF CoreInv, NoWorkerLeak, lbVars
  <2>7. \A o \in Object : o \in list <=>
            o \in pending \/ (o[1] = r /\ o[2] \in Plan[r])
    BY ObjectFacts DEF PlanObjects
  <2>8. HeldOrProduced'
    <3>1. ASSUME NEW o \in Object
          PROVE  IF reqpc'[o[1]] \in {"scheduled", "done"} /\ o[2] \in Plan[o[1]]
                 THEN produced'[o] = (IF o \in pending' THEN 0 ELSE 1)
                 ELSE produced'[o] = 0 /\ o \notin pending'
      <4>1. IF reqpc[o[1]] \in {"scheduled", "done"} /\ o[2] \in Plan[o[1]]
            THEN produced[o] = (IF o \in pending THEN 0 ELSE 1)
            ELSE produced[o] = 0 /\ o \notin pending
        BY DEF CoreInv, HeldOrProduced
      <4>2. o[1] # r => reqpc'[o[1]] = reqpc[o[1]]
        BY <1>2, <2>1, ObjectFacts DEF TypeOK
      <4>3. o[1] = r => reqpc'[o[1]] = "scheduled" /\ reqpc[o[1]] = "planned"
        BY <1>2, <2>1 DEF TypeOK
      <4>4. o \in pending' <=> o \in list /\ o \notin S
        BY <2>4
      <4>5. produced'[o] = IF o \in S THEN produced[o] + 1 ELSE produced[o]
        BY <2>4
      <4>6. o \in S => o \in list
        BY <2>4
      <4>7. QED
        BY <2>7, <4>1, <4>2, <4>3, <4>4, <4>5, <4>6
    <3>2. QED
      BY <3>1 DEF HeldOrProduced
  <2>9. Bookkeeping'
    <3>1. Stored' = Stored
      BY <2>1 DEF Stored
    <3>2. \A t \in Stored' : t \in Plan[tasks'[t]] /\ reqpc'[tasks'[t]] # "idle"
      BY <1>2, <2>1, <3>1, CurrentFacts DEF CoreInv, Bookkeeping, TypeOK
    <3>3. \A q \in Pipe : Live(q)' =>
                TaskOf(q)' \in Stored' /\ TaskOf(q)' \in Plan[job'[q][1]]
      BY <2>1, <3>1 DEF CoreInv, Bookkeeping, Live, TaskOf
    <3>4. ASSUME NEW o \in Object, reqpc'[o[1]] = "idle"
          PROVE  object'[o] = Created
      <4>1. reqpc[o[1]] = "idle" /\ o[1] # r
        BY <1>2, <2>1, <3>4, ObjectFacts DEF TypeOK
      <4>2. o \notin S
        <5>1. o \notin pending
          BY <4>1 DEF CoreInv, HeldOrProduced
        <5>2. QED
          BY <2>4, <2>7, <4>1, <5>1
      <4>3. ASSUME NEW q \in S, o = Current(q[2]) PROVE FALSE
        <5>1. tasks[q[2]] = o[1] /\ q[2] = o[2]
          BY <4>3 DEF Current
        <5>2. q[2] \in Stored
          BY <5>1, ObjectFacts, RequestAssumption DEF Stored
        <5>3. QED
          BY <4>1, <5>1, <5>2 DEF CoreInv, Bookkeeping
      <4>4. object'[o] = object[o]
        BY <2>4, <4>2, <4>3
      <4>5. QED
        BY <4>1, <4>4 DEF CoreInv, Bookkeeping
    <3>5. QED
      BY <1>1, <3>2, <3>3, <3>4 DEF Bookkeeping
  <2>10. QED
    BY <2>5, <2>6, <2>8, <2>9 DEF CoreInv
<1>5. CASE LaunchWorkload(r)
  <2>1. /\ Spawn(TasksByStatus("queued"), {})
        /\ reqpc' = [reqpc EXCEPT ![r] = "done"] /\ reqpc[r] = "scheduled"
        /\ UNCHANGED <<workers, worker_id, overbooked, tasks, object, execution_history,
                       failure_logs, total_retries, pending, turn, produced, ahead>>
    BY <1>5 DEF LaunchWorkload, lbVars
  <2>2. TasksByStatus("queued") \subseteq Stored
    BY DEF TasksByStatus
  <2>3. PICK P : SpawnResult(TasksByStatus("queued"), {}, P)
    BY <1>2, <2>1, <2>2, SpawnFacts
  <2>4. \A p \in P : /\ pc'[p] = "start" /\ pc[p] = "free" /\ result'[p] = result[p]
                     /\ job'[p] \in Object /\ job'[p] # None
                     /\ job'[p][2] \in Stored /\ job'[p][2] \in Plan[job'[p][1]]
    <3>1. \A t \in Stored : t \in Plan[tasks[t]]
      BY DEF CoreInv, Bookkeeping
    <3>2. QED
      BY <1>2, <2>2, <2>3, <3>1, CurrentFacts, OrchestratorAssumption DEF SpawnResult
  <2>5. TypeOK'
    <3>1. StoreTypeOK' /\ SchedTypeOK' /\ reqpc' \in [Request -> ReqPc]
      BY <1>2, <2>1 DEF StoreTypeOK, SchedTypeOK, TypeOK, ReqPc
    <3>2. \A p \in Pipe : pc'[p] \in PipePc /\ job'[p] \in Object \union {None}
                          /\ result'[p] \in TaskResult /\ (Live(p)' <=> job'[p] # None)
      BY <1>2, <2>3, <2>4 DEF TypeOK, PipePc, Live, SpawnResult
    <3>3. /\ pc' \in [Pipe -> PipePc] /\ job' \in [Pipe -> Object \union {None}]
          /\ result' \in [Pipe -> TaskResult]
      BY <2>3, <3>2 DEF SpawnResult
    <3>4. QED
      BY <1>1, <1>2, <2>1, <3>1, <3>2, <3>3 DEF TypeOK
  <2>6. NoWorkerLeak'
    BY <2>1, <2>3, <2>4 DEF CoreInv, NoWorkerLeak, SpawnResult
  <2>7. HeldOrProduced'
    BY <1>2, <2>1, ObjectFacts DEF CoreInv, HeldOrProduced, TypeOK
  <2>8. Bookkeeping'
    <3>1. Stored' = Stored
      BY <2>1 DEF Stored
    <3>2. \A t \in Stored' : t \in Plan[tasks'[t]] /\ reqpc'[tasks'[t]] # "idle"
      BY <1>2, <2>1, <3>1, CurrentFacts DEF CoreInv, Bookkeeping, TypeOK
    <3>3. \A q \in Pipe : Live(q)' =>
                TaskOf(q)' \in Stored' /\ TaskOf(q)' \in Plan[job'[q][1]]
      BY <2>3, <2>4, <3>1 DEF CoreInv, Bookkeeping, Live, TaskOf, SpawnResult
    <3>4. \A o \in Object : reqpc'[o[1]] = "idle" => object'[o] = Created
      BY <1>2, <2>1, ObjectFacts DEF CoreInv, Bookkeeping, TypeOK
    <3>5. QED
      BY <1>1, <3>2, <3>3, <3>4 DEF Bookkeeping
  <2>9. QED
    BY <2>5, <2>6, <2>7, <2>8 DEF CoreInv
<1>6. QED
  BY <1>3, <1>4, <1>5 DEF Workload

\* CoreInv is preserved by every step of process_single_task but the last.
LEMMA CoreProcess ==
    ASSUME CoreInv, [Next]_vars, NEW p \in Pipe, Process(p), ~Reschedule(p)
    PROVE  CoreInv'
<1> USE DEF schedVars, storeVars, lbVars
<1>1. TypeOK /\ StoreTypeOK /\ SchedTypeOK /\ LBTypeOK
  BY DEF CoreInv, TypeOK
<1>2. Live(p)
  BY DEF Process, Live, Assign, Unavailable, Defer, RunTask, ExecuteFails,
         ExecuteSucceeds, DeadLetter, ScheduleRetry, RetryAfterBackoff, Validate
<1>3. /\ job[p] \in Object /\ TaskOf(p) \in Stored /\ TaskOf(p) \in Task
      /\ Current(TaskOf(p)) \in Object /\ StoredTask(p) \in TaskFields
  BY <1>2, JobFacts
<1>4. /\ result \in [Pipe -> TaskResult] /\ NoResult \in TaskResult
      /\ \A e \in Error : FailedWith(e) \in TaskResult
      /\ \A x \in ExecTime : SucceededIn(x) \in TaskResult
  BY <1>1 DEF TypeOK, TaskResult, NoResult, FailedWith, SucceededIn
<1>5. /\ ahead \in [Pipe -> SUBSET Pipe]
      /\ Starting \subseteq Pipe
  BY <1>1 DEF TypeOK, Starting
<1>6. /\ execution_history \in [Task -> Nat] /\ failure_logs \in [Task -> Nat]
      /\ total_retries \in Nat
  BY <1>1 DEF StoreTypeOK
<1>7. object \in [Object -> TaskFields]
  BY <1>1 DEF StoreTypeOK
<1>8. \A s \in TaskStatus : WithStatus(StoredTask(p), s) \in TaskFields
  BY <1>3, WithStatusType
<1>9. /\ StoredTask(p).retry_count \in Nat
      /\ StoredTask(p).failure_type \in {"transient", "permanent", None}
      /\ StoredTask(p).assigned_worker \in Worker \union {None}
      /\ object[job[p]].retry_count \in Nat
  BY <1>3, <1>7 DEF TaskFields
<1>10. worker_id[p] # None <=> pc[p] \in {"assigned", "running"}
  BY DEF CoreInv, NoWorkerLeak
<1>11. CASE Assign(p)
  <2>1. PICK w \in Worker : worker_id' = [worker_id EXCEPT ![p] = w]
    BY <1>11 DEF Assign, AssignWorker, LeastLoaded, Candidates
  <2>2. worker_id'[p] = w /\ \A q \in Pipe : q # p => worker_id'[q] = worker_id[q]
    BY <1>1, <2>1 DEF LBTypeOK
  <2>3. Fields("assigned", StoredTask(p).retry_count, StoredTask(p).failure_type,
               worker_id'[p]) \in TaskFields
    BY <1>9, <2>2, FieldsType DEF TaskStatus
  <2>4. /\ object' \in [Object -> TaskFields]
        /\ \A o \in Object : o # Current(TaskOf(p)) => object'[o] = object[o]
    BY <1>1, <1>3, <1>11, <2>3, UpdateFacts DEF Assign
  <2>5. ahead' \in [Pipe -> SUBSET Pipe]
    BY <1>5, <1>11 DEF Assign, Started
  <2>6. /\ pc' = [pc EXCEPT ![p] = "assigned"] /\ "assigned" \in PipePc
        /\ UNCHANGED <<pending, turn, produced, reqpc, job, result,
                       tasks, execution_history, failure_logs, total_retries>>
    BY <1>11 DEF Assign, Goto, PipePc
  <2>7. QED
    BY <1>2, <1>4, <1>6, <2>2, <2>4, <2>5, <2>6, WorkerFacts, CoroutineStep
<1>12. CASE Unavailable(p)
  <2>1. ahead' \in [Pipe -> SUBSET Pipe]
    BY <1>5, <1>12 DEF Unavailable
  <2>2. /\ pc' = [pc EXCEPT ![p] = "unavailable"] /\ "unavailable" \in PipePc
        /\ pc[p] = "start"
        /\ UNCHANGED <<workers, worker_id, pending, turn, produced, reqpc, job, result,
                       tasks, object, execution_history, failure_logs, total_retries>>
    BY <1>12 DEF Unavailable, Goto, PipePc
  <2>3. QED
    BY <1>2, <1>4, <1>6, <1>7, <1>10, <2>1, <2>2, CoroutineStep
<1>13. CASE Defer(p)
  <2>1. /\ pc' = [pc EXCEPT ![p] = "free"] /\ "free" \in PipePc
        /\ job' = [job EXCEPT ![p] = None]
        /\ result' = [result EXCEPT ![p] = NoResult]
        /\ pc[p] = "unavailable"
        /\ UNCHANGED <<workers, worker_id, pending, turn, produced, reqpc, ahead,
                       tasks, object, execution_history, failure_logs, total_retries>>
    BY <1>13 DEF Defer, Return, PipePc
  <2>2. result' \in [Pipe -> TaskResult]
    BY <1>4, <2>1
  <2>3. QED
    BY <1>2, <1>5, <1>6, <1>7, <1>10, <2>1, <2>2, CoroutineStep
<1>14. CASE RunTask(p)
  <2>1. /\ pc' = [pc EXCEPT ![p] = "running"] /\ "running" \in PipePc
        /\ pc[p] = "assigned"
        /\ UpdateTask(TaskOf(p), WithStatus(StoredTask(p), "running"))
        /\ UNCHANGED <<workers, worker_id, pending, turn, produced, reqpc, job, result,
                       tasks, execution_history, failure_logs, total_retries>>
    BY <1>14 DEF RunTask, Goto, PipePc, SetStatus, StoredTask
  <2>2. /\ object' \in [Object -> TaskFields]
        /\ \A o \in Object : o # Current(TaskOf(p)) => object'[o] = object[o]
    BY <1>1, <1>3, <1>8, <2>1, UpdateFacts DEF TaskStatus
  <2>3. ahead' \in [Pipe -> SUBSET Pipe]
    BY <1>5, <1>14 DEF RunTask, FallAsleep
  <2>4. QED
    BY <1>2, <1>4, <1>6, <1>10, <2>1, <2>2, <2>3, CoroutineStep
<1>15. CASE ExecuteFails(p)
  <2>1. /\ pc' = [pc EXCEPT ![p] = "failed"] /\ "failed" \in PipePc
        /\ worker_id' = [worker_id EXCEPT ![p] = None]
        /\ UpdateTask(TaskOf(p), WithStatus(StoredTask(p), "failed"))
        /\ \E e \in Error : result' = [result EXCEPT ![p] = FailedWith(e)]
        /\ UNCHANGED <<pending, turn, produced, reqpc, job, ahead,
                       tasks, execution_history, failure_logs, total_retries>>
    BY <1>15 DEF ExecuteFails, ReleaseWorker, Goto, PipePc, SetStatus, StoredTask
  <2>2. /\ object' \in [Object -> TaskFields]
        /\ \A o \in Object : o # Current(TaskOf(p)) => object'[o] = object[o]
    BY <1>1, <1>3, <1>8, <2>1, UpdateFacts DEF TaskStatus
  <2>3. result' \in [Pipe -> TaskResult]
    BY <1>4, <2>1
  <2>4. worker_id'[p] = None /\ \A q \in Pipe : q # p => worker_id'[q] = worker_id[q]
    BY <1>1, <2>1 DEF LBTypeOK
  <2>5. QED
    BY <1>2, <1>5, <1>6, <2>1, <2>2, <2>3, <2>4, CoroutineStep
<1>16. CASE ExecuteSucceeds(p)
  <2>1. /\ pc' = [pc EXCEPT ![p] = "completed"] /\ "completed" \in PipePc
        /\ worker_id' = [worker_id EXCEPT ![p] = None]
        /\ UpdateTask(TaskOf(p), WithStatus(StoredTask(p), "completed"))
        /\ execution_history' = [execution_history EXCEPT ![TaskOf(p)] = @ + 1]
        /\ \E x \in ExecTime : result' = [result EXCEPT ![p] = SucceededIn(x)]
        /\ UNCHANGED <<pending, turn, produced, reqpc, job, ahead,
                       tasks, failure_logs, total_retries>>
    BY <1>16 DEF ExecuteSucceeds, ReleaseWorker, Goto, PipePc, SetStatus, StoredTask,
                 AddExecutionRecord
  <2>2. /\ object' \in [Object -> TaskFields]
        /\ \A o \in Object : o # Current(TaskOf(p)) => object'[o] = object[o]
    BY <1>1, <1>3, <1>8, <2>1, UpdateFacts DEF TaskStatus
  <2>3. result' \in [Pipe -> TaskResult] /\ execution_history' \in [Task -> Nat]
    <3>1. result' \in [Pipe -> TaskResult]
      BY <1>4, <2>1
    <3>2. execution_history' \in [Task -> Nat]
      BY <1>3, <1>6, <2>1
    <3>3. QED
      BY <3>1, <3>2
  <2>4. worker_id'[p] = None /\ \A q \in Pipe : q # p => worker_id'[q] = worker_id[q]
    BY <1>1, <2>1 DEF LBTypeOK
  <2>5. QED
    BY <1>2, <1>5, <1>6, <2>1, <2>2, <2>3, <2>4, CoroutineStep
<1>17. CASE DeadLetter(p)
  <2>1. /\ pc' = [pc EXCEPT ![p] = "free"] /\ "free" \in PipePc
        /\ job' = [job EXCEPT ![p] = None]
        /\ result' = [result EXCEPT ![p] = NoResult]
        /\ pc[p] = "failed"
        /\ UpdateTask(TaskOf(p), Fields("failed", StoredTask(p).retry_count,
                                        ClassifyFailure(result[p].error),
                                        StoredTask(p).assigned_worker))
        /\ failure_logs' = [failure_logs EXCEPT ![TaskOf(p)] = @ + 1]
        /\ UNCHANGED <<workers, worker_id, pending, turn, produced, reqpc, ahead,
                       tasks, execution_history, total_retries>>
    BY <1>17 DEF DeadLetter, Return, PipePc, AddFailureLog
  <2>2. Fields("failed", StoredTask(p).retry_count, ClassifyFailure(result[p].error),
               StoredTask(p).assigned_worker) \in TaskFields
    BY <1>9, FieldsType, ClassifyType DEF TaskStatus
  <2>3. /\ object' \in [Object -> TaskFields]
        /\ \A o \in Object : o # Current(TaskOf(p)) => object'[o] = object[o]
    BY <1>1, <1>3, <2>1, <2>2, UpdateFacts
  <2>4. result' \in [Pipe -> TaskResult] /\ failure_logs' \in [Task -> Nat]
    <3>1. result' \in [Pipe -> TaskResult]
      BY <1>4, <2>1
    <3>2. failure_logs' \in [Task -> Nat]
      BY <1>3, <1>6, <2>1
    <3>3. QED
      BY <3>1, <3>2
  <2>5. QED
    BY <1>2, <1>5, <1>6, <1>10, <2>1, <2>3, <2>4, CoroutineStep
<1>18. CASE ScheduleRetry(p)
  <2>1. /\ pc' = [pc EXCEPT ![p] = "backoff"] /\ "backoff" \in PipePc
        /\ pc[p] = "failed"
        /\ UpdateTask(TaskOf(p), Fields("created", object[job[p]].retry_count + 1,
                                        ClassifyFailure(result[p].error), None))
        /\ failure_logs' = [failure_logs EXCEPT ![TaskOf(p)] = @ + 1]
        /\ total_retries' = total_retries + 1
        /\ UNCHANGED <<workers, worker_id, pending, turn, produced, reqpc, job, result,
                       tasks, execution_history>>
    BY <1>18 DEF ScheduleRetry, Goto, PipePc, AddFailureLog, IncrementRetries
  <2>2. Fields("created", object[job[p]].retry_count + 1,
               ClassifyFailure(result[p].error), None) \in TaskFields
    <3>1. object[job[p]].retry_count + 1 \in Nat
      BY <1>9
    <3>2. QED
      BY <3>1, FieldsType, ClassifyType DEF TaskStatus
  <2>3. /\ object' \in [Object -> TaskFields]
        /\ \A o \in Object : o # Current(TaskOf(p)) => object'[o] = object[o]
    BY <1>1, <1>3, <2>1, <2>2, UpdateFacts
  <2>4. /\ failure_logs' \in [Task -> Nat] /\ total_retries' \in Nat
        /\ ahead' \in [Pipe -> SUBSET Pipe]
    <3>1. failure_logs' \in [Task -> Nat] /\ total_retries' \in Nat
      BY <1>3, <1>6, <2>1
    <3>2. ahead' \in [Pipe -> SUBSET Pipe]
      BY <1>5, <1>18 DEF ScheduleRetry, FallAsleep
    <3>3. QED
      BY <3>1, <3>2
  <2>5. QED
    BY <1>2, <1>4, <1>6, <1>10, <2>1, <2>3, <2>4, CoroutineStep
<1>19. CASE RetryAfterBackoff(p)
  <2>1. /\ pc' = [pc EXCEPT ![p] = "start"] /\ "start" \in PipePc
        /\ job' = [job EXCEPT ![p] = Current(TaskOf(p))]
        /\ result' = [result EXCEPT ![p] = NoResult]
        /\ pc[p] = "backoff"
        /\ UNCHANGED <<workers, worker_id, pending, turn, produced, reqpc, ahead,
                       tasks, object, execution_history, failure_logs, total_retries>>
    BY <1>19 DEF RetryAfterBackoff, Goto, PipePc
  <2>2. result' \in [Pipe -> TaskResult]
    BY <1>4, <2>1
  <2>3. QED
    BY <1>2, <1>5, <1>6, <1>7, <1>10, <2>1, <2>2, CoroutineStep
<1>20. CASE Validate(p)
  <2>1. /\ pc' = [pc EXCEPT ![p] = "reschedule"] /\ "reschedule" \in PipePc
        /\ pc[p] = "completed"
        /\ \/ UpdateTask(TaskOf(p), WithStatus(StoredTask(p), "validated"))
           \/ object' = object
        /\ UNCHANGED <<workers, worker_id, pending, turn, produced, reqpc, job, result,
                       ahead, tasks, execution_history, failure_logs, total_retries>>
    BY <1>20 DEF Validate, Goto, PipePc, SetStatus, StoredTask
  <2>2. /\ object' \in [Object -> TaskFields]
        /\ \A o \in Object : o # Current(TaskOf(p)) => object'[o] = object[o]
    BY <1>1, <1>3, <1>7, <1>8, <2>1, UpdateFacts DEF TaskStatus
  <2>3. QED
    BY <1>2, <1>4, <1>5, <1>6, <1>10, <2>1, <2>2, CoroutineStep
<1>21. QED
  BY <1>11, <1>12, <1>13, <1>14, <1>15, <1>16, <1>17, <1>18, <1>19, <1>20 DEF Process

\* CoreInv is preserved by the last step of process_single_task: a pass over the
\* pending list and a coroutine for every task that is QUEUED after it.
LEMMA CoreReschedule ==
    ASSUME CoreInv, [Next]_vars, NEW p \in Pipe, Reschedule(p)
    PROVE  CoreInv'
<1> USE DEF schedVars, lbVars
<1> DEFINE Q == {t \in Stored : object'[Current(t)].status = "queued"}
<1>1. TypeOK /\ StoreTypeOK /\ SchedTypeOK
  BY DEF CoreInv, TypeOK
<1>2. LBTypeOK' /\ \A w \in Worker : workers'[w].status # "offline"
  BY NeverOffline
<1>3. /\ pc[p] = "reschedule" /\ turn' = turn /\ Pass(pending) /\ Spawn(Q, {p})
      /\ UNCHANGED <<workers, worker_id, reqpc, ahead,
                     tasks, execution_history, failure_logs, total_retries>>
  BY DEF Reschedule, RetryPending
<1>4. pending \subseteq Object
  BY <1>1 DEF SchedTypeOK
<1>5. /\ object' \in [Object -> TaskFields] /\ produced' \in [Object -> Nat]
      /\ pending' \subseteq pending
  BY <1>1, <1>3, <1>4, PassFacts
<1>6. PICK S : PassResult(pending, S)
  BY <1>1, <1>3, <1>4, PassFacts
<1>7. PICK P : SpawnResult(Q, {p}, P)
  <2>1. Q \subseteq Stored /\ \A q \in {p} : Live(q)
    BY <1>3 DEF Live
  <2>2. QED
    BY <1>1, <1>3, <2>1, SpawnFacts
<1>8. \A q \in P : /\ pc'[q] = "start" /\ pc[q] = "free" /\ result'[q] = result[q]
                   /\ job'[q] \in Object /\ job'[q] # None
                   /\ job'[q][2] \in Stored /\ job'[q][2] \in Plan[job'[q][1]]
  <2>1. \A t \in Stored : t \in Plan[tasks[t]]
    BY DEF CoreInv, Bookkeeping
  <2>2. \A q \in P : pc'[q] = "start" /\ pc[q] = "free" /\ result'[q] = result[q]
    BY <1>7 DEF SpawnResult
  <2>3. \A q \in P : \E t \in Stored : job'[q] = Current(t)
    BY <1>7 DEF SpawnResult
  <2>4. QED
    BY <1>1, <2>1, <2>2, <2>3, CurrentFacts, OrchestratorAssumption
<1>9. TypeOK'
  <2>1. StoreTypeOK' /\ SchedTypeOK' /\ reqpc' \in [Request -> ReqPc]
    BY <1>1, <1>3, <1>4, <1>5 DEF StoreTypeOK, SchedTypeOK, TypeOK
  <2>2. NoResult \in TaskResult
    BY DEF NoResult, TaskResult
  <2>3. \A q \in Pipe : pc'[q] \in PipePc /\ job'[q] \in Object \union {None}
                        /\ result'[q] \in TaskResult /\ (Live(q)' <=> job'[q] # None)
    BY <1>1, <1>7, <1>8, <2>2 DEF TypeOK, PipePc, Live, SpawnResult
  <2>4. /\ pc' \in [Pipe -> PipePc] /\ job' \in [Pipe -> Object \union {None}]
        /\ result' \in [Pipe -> TaskResult]
    BY <1>7, <2>3 DEF SpawnResult
  <2>5. QED
    BY <1>1, <1>2, <1>3, <2>1, <2>3, <2>4 DEF TypeOK
<1>10. NoWorkerLeak'
  BY <1>3, <1>7 DEF CoreInv, NoWorkerLeak, SpawnResult
<1>11. HeldOrProduced'
  <2>1. ASSUME NEW o \in Object
        PROVE  IF reqpc'[o[1]] \in {"scheduled", "done"} /\ o[2] \in Plan[o[1]]
               THEN produced'[o] = (IF o \in pending' THEN 0 ELSE 1)
               ELSE produced'[o] = 0 /\ o \notin pending'
    <3>1. IF reqpc[o[1]] \in {"scheduled", "done"} /\ o[2] \in Plan[o[1]]
          THEN produced[o] = (IF o \in pending THEN 0 ELSE 1)
          ELSE produced[o] = 0 /\ o \notin pending
      BY DEF CoreInv, HeldOrProduced
    <3>2. /\ o \in pending' <=> o \in pending /\ o \notin S
          /\ produced'[o] = IF o \in S THEN produced[o] + 1 ELSE produced[o]
          /\ o \in S => o \in pending
      BY <1>6 DEF PassResult
    <3>3. QED
      BY <1>3, <3>1, <3>2
  <2>2. QED
    BY <2>1 DEF HeldOrProduced
<1>12. Bookkeeping'
  <2>1. Stored' = Stored
    BY <1>3 DEF Stored
  <2>2. \A t \in Stored' : t \in Plan[tasks'[t]] /\ reqpc'[tasks'[t]] # "idle"
    BY <1>3, <2>1 DEF CoreInv, Bookkeeping
  <2>3. \A q \in Pipe : Live(q)' =>
              TaskOf(q)' \in Stored' /\ TaskOf(q)' \in Plan[job'[q][1]]
    BY <1>7, <1>8, <2>1 DEF CoreInv, Bookkeeping, Live, TaskOf, SpawnResult
  <2>4. ASSUME NEW o \in Object, reqpc'[o[1]] = "idle"
        PROVE  object'[o] = Created
    <3>1. reqpc[o[1]] = "idle"
      BY <1>3, <2>4
    <3>2. o \notin S
      BY <1>6, <3>1 DEF PassResult, CoreInv, HeldOrProduced
    <3>3. ASSUME NEW q \in S, o = Current(q[2]) PROVE FALSE
      <4>1. tasks[q[2]] = o[1] /\ q[2] = o[2]
        BY <3>3 DEF Current
      <4>2. q[2] \in Stored
        BY <4>1, ObjectFacts, RequestAssumption DEF Stored
      <4>3. QED
        BY <3>1, <4>1, <4>2 DEF CoreInv, Bookkeeping
    <3>4. object'[o] = object[o]
      BY <1>6, <3>2, <3>3 DEF PassResult
    <3>5. QED
      BY <3>1, <3>4 DEF CoreInv, Bookkeeping
  <2>5. QED
    BY <1>2, <2>2, <2>3, <2>4 DEF Bookkeeping
<1>13. QED
  BY <1>9, <1>10, <1>11, <1>12 DEF CoreInv

\* CoreInv is an invariant.
LEMMA CoreInvariant == Spec => []CoreInv
<1>1. CoreInv /\ [Next]_vars => CoreInv'
  <2>1. SUFFICES ASSUME CoreInv, [Next]_vars PROVE CoreInv'
    OBVIOUS
  <2>2. CASE UNCHANGED vars
    <3>1. UNCHANGED <<workers, worker_id, overbooked, tasks, object, execution_history,
                      failure_logs, total_retries, pending, turn, produced,
                      reqpc, pc, job, result, ahead>>
      BY <2>2 DEF vars, lbVars, storeVars, schedVars, loopVars
    <3>2. QED
      BY <2>1, <3>1
         DEF CoreInv, TypeOK, LBTypeOK, StoreTypeOK, SchedTypeOK, Live, NoWorkerLeak,
             HeldOrProduced, Bookkeeping, Stored, TaskOf
  <2>3. CASE \E r \in Request : SubmitPlan(r) \/ Workload(r)
    BY <2>1, <2>3, CoreWorkload
  <2>4. CASE \E p \in Pipe : Process(p)
    BY <2>1, <2>4, CoreProcess, CoreReschedule
  <2>5. QED
    BY <2>1, <2>2, <2>3, <2>4 DEF Next
<1>2. QED
  BY <1>1, CoreInit, PTL DEF Spec

\* Type correctness of the orchestrator, with its store, scheduler and workers.
THEOREM TypeCorrect == Spec => []TypeOK
<1>1. CoreInv => TypeOK
  BY DEF CoreInv
<1>2. QED
  BY <1>1, CoreInvariant, PTL

\* Every branch of process_single_task hands its worker back.
THEOREM NoWorkerLeakHolds == Spec => []NoWorkerLeak
<1>1. CoreInv => NoWorkerLeak
  BY DEF CoreInv
<1>2. QED
  BY <1>1, CoreInvariant, PTL

\* The scheduler neither loses nor repeats a task, across any number of requests.
THEOREM HeldOrProducedHolds == Spec => []HeldOrProduced
<1>1. CoreInv => HeldOrProduced
  BY DEF CoreInv
<1>2. QED
  BY <1>1, CoreInvariant, PTL

\* The orchestrator's steps are built from the load balancer's, so what is proved of
\* LBSpec holds of the running system.
LEMMA ImplementsLoadBalancer == Spec => LBSpec
<1>1. Init => LBInit
  BY DEF Init
<1>2. CoreInv /\ [Next]_vars => [LBNext]_lbVars
  BY LBStep
<1>3. QED
  BY <1>1, <1>2, CoreInvariant, PTL DEF Spec, LBSpec
=============================================================================
