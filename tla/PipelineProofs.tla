--------------------------- MODULE PipelineProofs ---------------------------
(***************************************************************************)
(* Proofs about the pipeline of Orchestrator: nothing is stranded, retried *)
(* too often or started too early, for any workloads and any numbers of    *)
(* requests, workers, coroutines and retries.                              *)
(***************************************************************************)
EXTENDS OrchestratorProofs, Sums

\* What a step of coroutine p does to the status of the stored object of its task.
NewStatus(p) == object'[Current(TaskOf(p))].status

\* The steps of process_single_task other than the rescheduling, by where they lead.
Shape(p) ==
    \/ /\ pc[p] \in {"start", "unavailable"} /\ pc'[p] = "assigned"
       /\ NewStatus(p) = "assigned"
       /\ \E w \in Worker : WorkerType(w) = Partition[TaskOf(p)]
    \/ /\ pc[p] \in {"start", "unavailable"} /\ pc'[p] = "unavailable"
       /\ object' = object
    \/ /\ pc[p] = "unavailable" /\ pc'[p] = "free"
       /\ object' = object /\ Candidates(Partition[TaskOf(p)]) = {}
    \/ pc[p] = "assigned" /\ pc'[p] = "running" /\ NewStatus(p) = "running"
    \/ pc[p] = "running" /\ pc'[p] = "failed" /\ NewStatus(p) = "failed"
    \/ /\ pc[p] = "running" /\ pc'[p] = "completed" /\ NewStatus(p) = "completed"
       /\ execution_history'[TaskOf(p)] > 0
    \/ pc[p] = "failed" /\ pc'[p] = "free" /\ NewStatus(p) = "failed"
    \/ pc[p] = "failed" /\ pc'[p] = "backoff" /\ NewStatus(p) = "created"
    \/ pc[p] = "backoff" /\ pc'[p] = "start" /\ object' = object
    \/ /\ pc[p] = "completed" /\ pc'[p] = "reschedule"
       /\ object' = object \/ NewStatus(p) = "validated"

\* Everything else such a step may change.
Frame(p) ==
    /\ UNCHANGED <<pending, turn, produced, reqpc, tasks>>
    /\ object' \in [Object -> TaskFields]
    /\ \A o \in Object : o # Current(TaskOf(p)) => object'[o] = object[o]
    /\ \A q \in Pipe : q # p => pc'[q] = pc[q] /\ job'[q] = job[q]
    /\ pc'[p] # "free" => job'[p] = job[p] \/ job'[p] = Current(TaskOf(p))
    /\ \A t \in Task : execution_history'[t] >= execution_history[t]

\* Every step of process_single_task except the rescheduling has one of the shapes
\* and stays within the frame.
LEMMA ProcessShape ==
    ASSUME CoreInv, NEW p \in Pipe, Process(p), ~Reschedule(p)
    PROVE  Live(p) /\ Frame(p) /\ Shape(p)
<1> USE DEF schedVars
<1>1. Live(p)
  BY DEF Process, Live, Assign, Unavailable, Defer, RunTask, ExecuteFails,
         ExecuteSucceeds, DeadLetter, ScheduleRetry, RetryAfterBackoff, Validate
<1>2. /\ job[p] \in Object /\ TaskOf(p) \in Stored /\ TaskOf(p) \in Task
      /\ Current(TaskOf(p)) \in Object
      /\ StoredTask(p) \in TaskFields
  BY <1>1, JobFacts
<1>3. /\ StoreTypeOK /\ pc \in [Pipe -> PipePc] /\ job \in [Pipe -> Object \union {None}]
      /\ execution_history \in [Task -> Nat] /\ object \in [Object -> TaskFields]
  BY DEF CoreInv, TypeOK, StoreTypeOK
<1>4. \A s \in TaskStatus : WithStatus(StoredTask(p), s) \in TaskFields
                            /\ WithStatus(StoredTask(p), s).status = s
  BY <1>2, WithStatusType
<1>5. ASSUME NEW s \in TaskStatus, SetStatus(TaskOf(p), s)
      PROVE  /\ object' \in [Object -> TaskFields] /\ NewStatus(p) = s
             /\ \A o \in Object : o # Current(TaskOf(p)) => object'[o] = object[o]
  <2>1. UpdateTask(TaskOf(p), WithStatus(StoredTask(p), s))
    BY <1>5 DEF SetStatus, StoredTask
  <2>2. QED
    BY <1>2, <1>3, <1>4, <2>1, UpdateFacts DEF NewStatus
<1>6. ASSUME NEW s \in TaskStatus, NEW n \in Nat,
             NEW f \in {"transient", "permanent", None}, NEW w \in Worker \union {None},
             UpdateTask(TaskOf(p), Fields(s, n, f, w))
      PROVE  /\ object' \in [Object -> TaskFields] /\ NewStatus(p) = s
             /\ \A o \in Object : o # Current(TaskOf(p)) => object'[o] = object[o]
  <2>1. Fields(s, n, f, w) \in TaskFields /\ Fields(s, n, f, w).status = s
    BY <1>6, FieldsType DEF Fields
  <2>2. QED
    BY <1>2, <1>3, <1>6, <2>1, UpdateFacts DEF NewStatus
<1>7. CASE Assign(p)
  <2>1. PICK w \in Worker : w \in LeastLoaded(Partition[TaskOf(p)]) /\ worker_id'[p] = w
    BY <1>7 DEF Assign, AssignWorker, LeastLoaded, Candidates, CoreInv, TypeOK, LBTypeOK
  <2>2. WorkerType(w) = Partition[TaskOf(p)]
    BY <2>1 DEF LeastLoaded, Candidates
  <2>3. StoredTask(p).retry_count \in Nat
        /\ StoredTask(p).failure_type \in {"transient", "permanent", None}
    BY <1>2 DEF TaskFields
  <2>4. /\ object' \in [Object -> TaskFields] /\ NewStatus(p) = "assigned"
        /\ \A o \in Object : o # Current(TaskOf(p)) => object'[o] = object[o]
    BY <1>6, <1>7, <2>1, <2>3 DEF Assign, TaskStatus
  <2>5. QED
    BY <1>1, <1>3, <1>7, <2>2, <2>4 DEF Assign, Goto, Frame, Shape
<1>8. CASE Unavailable(p)
  BY <1>1, <1>3, <1>8 DEF Unavailable, Goto, Frame, Shape, storeVars
<1>9. CASE Defer(p)
  BY <1>1, <1>3, <1>9 DEF Defer, Return, NoWorker, Frame, Shape, storeVars
<1>10. CASE RunTask(p)
  <2>1. /\ object' \in [Object -> TaskFields] /\ NewStatus(p) = "running"
        /\ \A o \in Object : o # Current(TaskOf(p)) => object'[o] = object[o]
    BY <1>5, <1>10 DEF RunTask, TaskStatus
  <2>2. QED
    BY <1>1, <1>3, <1>10, <2>1 DEF RunTask, Goto, Frame, Shape
<1>11. CASE ExecuteFails(p)
  <2>1. /\ object' \in [Object -> TaskFields] /\ NewStatus(p) = "failed"
        /\ \A o \in Object : o # Current(TaskOf(p)) => object'[o] = object[o]
    BY <1>5, <1>11 DEF ExecuteFails, TaskStatus
  <2>2. QED
    BY <1>1, <1>3, <1>11, <2>1 DEF ExecuteFails, Goto, Frame, Shape
<1>12. CASE ExecuteSucceeds(p)
  <2>1. /\ object' \in [Object -> TaskFields] /\ NewStatus(p) = "completed"
        /\ \A o \in Object : o # Current(TaskOf(p)) => object'[o] = object[o]
    BY <1>5, <1>12 DEF ExecuteSucceeds, TaskStatus
  <2>2. /\ execution_history'[TaskOf(p)] > 0
        /\ \A t \in Task : execution_history'[t] >= execution_history[t]
    BY <1>2, <1>3, <1>12 DEF ExecuteSucceeds, AddExecutionRecord
  <2>3. QED
    BY <1>1, <1>3, <1>12, <2>1, <2>2 DEF ExecuteSucceeds, Goto, Frame, Shape
<1>13. CASE DeadLetter(p)
  <2>1. /\ StoredTask(p).retry_count \in Nat
        /\ StoredTask(p).assigned_worker \in Worker \union {None}
        /\ ClassifyFailure(result[p].error) \in {"transient", "permanent", None}
    BY <1>2, ClassifyType DEF TaskFields
  <2>2. /\ object' \in [Object -> TaskFields] /\ NewStatus(p) = "failed"
        /\ \A o \in Object : o # Current(TaskOf(p)) => object'[o] = object[o]
    BY <1>6, <1>13, <2>1 DEF DeadLetter, TaskStatus
  <2>3. QED
    BY <1>1, <1>3, <1>13, <2>2 DEF DeadLetter, Return, Frame, Shape
<1>14. CASE ScheduleRetry(p)
  <2>1. /\ object[job[p]].retry_count + 1 \in Nat
        /\ ClassifyFailure(result[p].error) \in {"transient", "permanent", None}
    BY <1>2, <1>3, ClassifyType DEF TaskFields
  <2>2. /\ object' \in [Object -> TaskFields] /\ NewStatus(p) = "created"
        /\ \A o \in Object : o # Current(TaskOf(p)) => object'[o] = object[o]
    BY <1>6, <1>14, <2>1 DEF ScheduleRetry, TaskStatus
  <2>3. QED
    BY <1>1, <1>3, <1>14, <2>2 DEF ScheduleRetry, Goto, Frame, Shape
<1>15. CASE RetryAfterBackoff(p)
  BY <1>1, <1>3, <1>15 DEF RetryAfterBackoff, Goto, Frame, Shape, storeVars
<1>16. CASE Validate(p)
  <2>1. /\ object' \in [Object -> TaskFields]
        /\ object' = object \/ NewStatus(p) = "validated"
        /\ \A o \in Object : o # Current(TaskOf(p)) => object'[o] = object[o]
    BY <1>3, <1>5, <1>16 DEF Validate, TaskStatus
  <2>2. QED
    BY <1>1, <1>3, <1>16, <2>1 DEF Validate, Goto, Frame, Shape
<1>17. QED
  BY <1>7, <1>8, <1>9, <1>10, <1>11, <1>12, <1>13, <1>14, <1>15, <1>16 DEF Process

-----------------------------------------------------------------------------
\* A pass over the list only turns statuses to QUEUED.
LEMMA PassStatus ==
    ASSUME StoreTypeOK, SchedTypeOK, NEW list, list \subseteq Object, Pass(list)
    PROVE  /\ object' \in [Object -> TaskFields]
           /\ \A o \in Object :
                /\ object'[o].status = object[o].status \/ object'[o].status = "queued"
                /\ object'[o].retry_count = object[o].retry_count
<1>1. PICK S : PassResult(list, S)
  BY PassFacts
<1>2. object' \in [Object -> TaskFields]
  BY PassFacts
<1>3. ASSUME NEW o \in Object
      PROVE  /\ object'[o].status = object[o].status \/ object'[o].status = "queued"
             /\ object'[o].retry_count = object[o].retry_count
  <2>1. object'[o] = object[o] \/ object'[o] = WithStatus(object[o], "queued")
    BY <1>1 DEF PassResult
  <2>2. object[o] \in TaskFields /\ "queued" \in TaskStatus
    BY DEF StoreTypeOK, TaskStatus
  <2>3. QED
    BY <2>1, <2>2, WithStatusType
<1>4. QED
  BY <1>2, <1>3

\* The list a request's scheduling passes over consists of Task objects.
LEMMA ScheduleList ==
    ASSUME CoreInv, NEW r \in Request
    PROVE  StoreTypeOK /\ SchedTypeOK /\ pending \union PlanObjects(r) \subseteq Object
           /\ pending \subseteq Object
BY PlanAssumption DEF CoreInv, TypeOK, SchedTypeOK, PlanObjects, Object

-----------------------------------------------------------------------------
(* The retry budget *)

\* Only the retry agent raises a retry count, and only below the limit.
LEMMA RetryBudgetStep ==
    ASSUME CoreInv, RetryBudget, [Next]_vars
    PROVE  RetryBudget'
<1>1. CASE UNCHANGED vars
  BY <1>1 DEF RetryBudget, vars, storeVars
<1>2. ASSUME NEW r \in Request, SubmitPlan(r) \/ LaunchWorkload(r) PROVE RetryBudget'
  BY <1>2 DEF RetryBudget, SubmitPlan, LaunchWorkload, storeVars
<1>3. ASSUME NEW r \in Request, ScheduleWorkload(r) PROVE RetryBudget'
  <2>1. Pass(pending \union PlanObjects(r))
    BY <1>3 DEF ScheduleWorkload, Schedule
  <2>2. QED
    BY <2>1, ScheduleList, PassStatus DEF RetryBudget
<1>4. ASSUME NEW p \in Pipe, Reschedule(p) PROVE RetryBudget'
  <2>1. Pass(pending) /\ pending \subseteq Object /\ StoreTypeOK /\ SchedTypeOK
    BY <1>4 DEF Reschedule, RetryPending, CoreInv, TypeOK, SchedTypeOK
  <2>2. QED
    BY <2>1, PassStatus DEF RetryBudget
<1>5. ASSUME NEW p \in Pipe, Process(p), ~Reschedule(p) PROVE RetryBudget'
  <2> DEFINE c == Current(TaskOf(p))
  <2>1. Live(p) /\ Frame(p)
    BY <1>5, ProcessShape
  <2>2. /\ job[p] \in Object /\ TaskOf(p) \in Stored /\ c \in Object
        /\ StoredTask(p) \in TaskFields /\ StoredTask(p) = object[c] /\ StoreTypeOK
    BY <2>1, JobFacts DEF StoredTask, CoreInv, TypeOK
  <2>3. SUFFICES object'[c].retry_count <= MAX_RETRIES
    BY <2>1 DEF Frame, RetryBudget
  <2>4. object[c].retry_count <= MAX_RETRIES
    BY <2>2 DEF RetryBudget
  <2>5. ASSUME NEW s \in TaskStatus, SetStatus(TaskOf(p), s)
        PROVE  object'[c].retry_count <= MAX_RETRIES
    <3>1. UpdateTask(TaskOf(p), WithStatus(object[c], s))
      BY <2>5 DEF SetStatus
    <3>2. object'[c] = WithStatus(object[c], s)
      BY <2>2, <3>1, WithStatusType, UpdateFacts
    <3>3. QED
      BY <2>2, <2>4, <3>2, WithStatusType
  <2>6. ASSUME NEW s, NEW n, NEW f, NEW w, UpdateTask(TaskOf(p), Fields(s, n, f, w))
        PROVE  object'[c].retry_count = n
    BY <2>2, <2>6 DEF UpdateTask, Fields, StoreTypeOK
  <2>7. CASE RunTask(p) \/ ExecuteFails(p) \/ ExecuteSucceeds(p)
    BY <2>5, <2>7 DEF RunTask, ExecuteFails, ExecuteSucceeds, TaskStatus
  <2>8. CASE Validate(p)
    BY <2>4, <2>5, <2>8 DEF Validate, TaskStatus
  <2>9. CASE Unavailable(p) \/ Defer(p) \/ RetryAfterBackoff(p)
    BY <2>4, <2>9 DEF Unavailable, Defer, RetryAfterBackoff, storeVars
  <2>10. CASE Assign(p)
    BY <2>2, <2>4, <2>6, <2>10 DEF Assign
  <2>11. CASE DeadLetter(p)
    BY <2>2, <2>4, <2>6, <2>11 DEF DeadLetter
  <2>12. CASE ScheduleRetry(p)
    <3>1. /\ object[job[p]].retry_count \in Nat
          /\ ~(object[job[p]].retry_count >= MAX_RETRIES)
      BY <2>2, <2>12 DEF ScheduleRetry, GivesUp, StoreTypeOK, TaskFields
    <3>2. object'[c].retry_count = object[job[p]].retry_count + 1
      BY <2>6, <2>12 DEF ScheduleRetry
    <3>3. QED
      BY <3>1, <3>2, OrchestratorAssumption
  <2>13. QED
    BY <1>5, <2>7, <2>8, <2>9, <2>10, <2>11, <2>12 DEF Process
<1>6. QED
  BY <1>1, <1>2, <1>3, <1>4, <1>5 DEF Next, Workload, Process

\* No task is ever retried more than MAX_RETRIES times, whatever duplicates,
\* resubmissions and failures interleave (retry_agent.py, handle_failure).
THEOREM RetryBudgetHolds == Spec => []RetryBudget
<1>1. Init => RetryBudget
  BY OrchestratorAssumption DEF Init, StoreInit, RetryBudget, Created, Fields
<1>2. CoreInv /\ RetryBudget /\ [Next]_vars => RetryBudget'
  BY RetryBudgetStep
<1>3. QED
  BY <1>1, <1>2, CoreInvariant, PTL DEF Spec

-----------------------------------------------------------------------------
(* The current task of a worker *)

\* A release clears the current task, an assignment sets it to the holder's task,
\* and a coroutine changes its task only while it holds no worker.
LEMMA CurrentTaskStep ==
    ASSUME CoreInv, CurrentTaskHeld, [Next]_vars
    PROVE  CurrentTaskHeld'
<1>1. /\ workers \in [Worker -> WorkerStatus] /\ None \notin Worker
      /\ worker_id \in [Pipe -> Worker \union {None}]
      /\ job \in [Pipe -> Object \union {None}] /\ pc \in [Pipe -> PipePc]
  BY NoneAssumption DEF CoreInv, TypeOK, LBTypeOK
<1>2. ASSUME UNCHANGED lbVars,
             \A p \in Pipe : worker_id[p] # None => job'[p] = job[p]
      PROVE  CurrentTaskHeld'
  <2>1. \A p \in Pipe : worker_id[p] # None => TaskOf(p)' = TaskOf(p)
    BY <1>2 DEF TaskOf
  <2>2. ASSUME NEW w \in Worker, workers'[w].current_task # None
        PROVE  \E p \in Pipe : worker_id'[p] = w /\ TaskOf(p)' = workers'[w].current_task
    <3>1. PICK p \in Pipe : worker_id[p] = w /\ TaskOf(p) = workers[w].current_task
      BY <1>2, <2>2 DEF lbVars, CurrentTaskHeld
    <3>2. QED
      BY <1>1, <1>2, <2>1, <3>1 DEF lbVars
  <2>3. QED
    BY <2>2 DEF CurrentTaskHeld
<1>3. CASE UNCHANGED vars
  BY <1>2, <1>3 DEF vars, loopVars
<1>4. ASSUME NEW r \in Request, SubmitPlan(r) \/ ScheduleWorkload(r)
      PROVE  CurrentTaskHeld'
  BY <1>2, <1>4 DEF SubmitPlan, ScheduleWorkload
<1>5. ASSUME NEW r \in Request, LaunchWorkload(r) PROVE CurrentTaskHeld'
  <2>1. PICK P : SpawnResult(TasksByStatus("queued"), {}, P)
    BY <1>5, SpawnFacts DEF LaunchWorkload, TasksByStatus, CoreInv, TypeOK
  <2>2. \A p \in Pipe : worker_id[p] # None => job'[p] = job[p]
    BY <2>1 DEF SpawnResult, CoreInv, NoWorkerLeak
  <2>3. QED
    BY <1>2, <1>5, <2>2 DEF LaunchWorkload
<1>6. ASSUME NEW p \in Pipe, Reschedule(p) PROVE CurrentTaskHeld'
  <2> DEFINE Q == {t \in Stored : object'[Current(t)].status = "queued"}
  <2>1. Live(p) /\ Spawn(Q, {p}) /\ Q \subseteq Stored /\ StoreTypeOK
    BY <1>6 DEF Reschedule, Live, CoreInv, TypeOK
  <2> HIDE DEF Q
  <2>2. PICK P : SpawnResult(Q, {p}, P)
    BY <2>1, SpawnFacts
  <2>3. \A q \in Pipe : worker_id[q] # None => job'[q] = job[q]
    BY <1>6, <2>2 DEF SpawnResult, CoreInv, NoWorkerLeak, Reschedule
  <2>4. QED
    BY <1>2, <1>6, <2>3 DEF Reschedule
<1>7. ASSUME NEW p \in Pipe, Assign(p) PROVE CurrentTaskHeld'
  <2>1. PICK w \in LeastLoaded(Partition[TaskOf(p)]) :
            /\ workers' = [workers EXCEPT ![w] = Busy(@, TaskOf(p))]
            /\ worker_id' = [worker_id EXCEPT ![p] = w]
    BY <1>7 DEF Assign, AssignWorker
  <2>2. w \in Worker /\ worker_id[p] = None /\ job' = job
    BY <1>7, <2>1 DEF Assign, AssignWorker, LeastLoaded, Candidates
  <2>3. workers'[w].current_task = TaskOf(p) /\ worker_id'[p] = w
    BY <1>1, <2>1, <2>2 DEF Busy
  <2>4. \A q \in Pipe : TaskOf(q)' = TaskOf(q)
    BY <2>2 DEF TaskOf
  <2>5. ASSUME NEW v \in Worker, workers'[v].current_task # None
        PROVE  \E q \in Pipe : worker_id'[q] = v /\ TaskOf(q)' = workers'[v].current_task
    <3>1. CASE v = w
      BY <2>3, <2>4, <3>1
    <3>2. CASE v # w
      <4>1. workers'[v] = workers[v]
        BY <1>1, <2>1, <3>2
      <4>2. PICK q \in Pipe : worker_id[q] = v /\ TaskOf(q) = workers[v].current_task
        BY <2>5, <4>1 DEF CurrentTaskHeld
      <4>3. QED
        BY <1>1, <2>1, <2>2, <2>4, <4>1, <4>2
    <3>3. QED
      BY <3>1, <3>2
  <2>6. QED
    BY <2>5 DEF CurrentTaskHeld
<1>8. ASSUME NEW p \in Pipe, NEW success \in BOOLEAN, ReleaseWorker(p, success), job' = job
      PROVE  CurrentTaskHeld'
  <2> DEFINE w == worker_id[p]
  <2>1. /\ w \in Worker
        /\ workers' = [workers EXCEPT ![w] = Released(@, success)]
        /\ worker_id' = [worker_id EXCEPT ![p] = None]
    BY <1>1, <1>8 DEF ReleaseWorker
  <2>2. workers'[w].current_task = None
    BY <1>1, <2>1 DEF Released
  <2>3. \A q \in Pipe : TaskOf(q)' = TaskOf(q)
    BY <1>8 DEF TaskOf
  <2>4. ASSUME NEW v \in Worker, workers'[v].current_task # None
        PROVE  \E q \in Pipe : worker_id'[q] = v /\ TaskOf(q)' = workers'[v].current_task
    <3>1. v # w
      BY <2>2, <2>4
    <3>2. workers'[v] = workers[v]
      BY <1>1, <2>1, <3>1
    <3>3. PICK q \in Pipe : worker_id[q] = v /\ TaskOf(q) = workers[v].current_task
      BY <2>4, <3>2 DEF CurrentTaskHeld
    <3>4. QED
      BY <1>1, <2>1, <2>3, <3>1, <3>2, <3>3
  <2>5. QED
    BY <2>4 DEF CurrentTaskHeld
<1>9. ASSUME NEW p \in Pipe, ExecuteFails(p) \/ ExecuteSucceeds(p) PROVE CurrentTaskHeld'
  BY <1>8, <1>9 DEF ExecuteFails, ExecuteSucceeds
<1>10. ASSUME NEW p \in Pipe, Unavailable(p) \/ RunTask(p) \/ ScheduleRetry(p) \/ Validate(p)
       PROVE  CurrentTaskHeld'
  BY <1>2, <1>10 DEF Unavailable, RunTask, ScheduleRetry, Validate
<1>11. ASSUME NEW p \in Pipe, Defer(p) \/ DeadLetter(p) \/ RetryAfterBackoff(p)
       PROVE  CurrentTaskHeld'
  <2>1. worker_id[p] = None /\ UNCHANGED lbVars
    BY <1>11 DEF Defer, DeadLetter, RetryAfterBackoff, CoreInv, NoWorkerLeak
  <2>2. \A q \in Pipe : q # p => job'[q] = job[q]
    BY <1>1, <1>11 DEF Defer, DeadLetter, RetryAfterBackoff, Return
  <2>3. QED
    BY <1>2, <2>1, <2>2
<1>12. QED
  BY <1>3, <1>4, <1>5, <1>6, <1>7, <1>9, <1>10, <1>11 DEF Next, Workload, Process

\* The task a worker is shown with is one a coroutine really runs on it, for any
\* number of coroutines per worker (load_balancer.py, assign_worker, release_worker).
THEOREM CurrentTaskHeldHolds == Spec => []CurrentTaskHeld
<1>1. Init => CurrentTaskHeld
  BY DEF Init, LBInit, CurrentTaskHeld, Registered
<1>2. CoreInv /\ CurrentTaskHeld /\ [Next]_vars => CurrentTaskHeld'
  BY CurrentTaskStep
<1>3. QED
  BY <1>1, <1>2, CoreInvariant, PTL DEF Spec

-----------------------------------------------------------------------------
(* No lost wake-up *)

\* The dependencies of a Task object are task ids.
LEMMA DependenciesAreTasks ==
    ASSUME NEW o \in Object
    PROVE  Dependencies(o) \subseteq Task
BY PlanAssumption, ObjectFacts DEF Dependencies

\* Dependencies are not met by a step that keeps the store's objects and validates
\* none of them.
LEMMA NotNewlyMet ==
    ASSUME tasks' = tasks, NEW o \in Object,
           \A d \in Stored : object'[Current(d)].status \in {"validated", "stored"}
                                => object[Current(d)].status \in {"validated", "stored"},
           AreDependenciesMet(o)'
    PROVE  AreDependenciesMet(o)
BY DEF AreDependenciesMet, Stored, Current, Dependencies

\* What a pass leaves in the list has a dependency that is not met after the pass.
LEMMA PassLeavesUnmet ==
    ASSUME StoreTypeOK, SchedTypeOK, NEW list, list \subseteq Object, Pass(list),
           tasks' = tasks
    PROVE  \A o \in pending' : ~AreDependenciesMet(o)'
<1>1. PICK S : PassResult(list, S)
  BY PassFacts
<1>2. SUFFICES ASSUME NEW o \in pending', AreDependenciesMet(o)' PROVE FALSE
  OBVIOUS
<1>3. o \in list /\ o \notin S /\ o \in Object /\ S \subseteq list
  BY <1>1, <1>2 DEF PassResult
<1>4. AreDependenciesMet(o)
  <2>1. ASSUME NEW d \in Stored, object'[Current(d)].status \in {"validated", "stored"}
        PROVE  object[Current(d)].status \in {"validated", "stored"}
    <3>1. Current(d) \in Object
      BY CurrentFacts
    <3>2. QED
      BY <2>1, <3>1, PassStatus
  <2>2. QED
    BY <1>2, <1>3, <2>1, NotNewlyMet
<1>5. PICK q \in S : q[2] \in Dependencies(o)
  BY <1>1, <1>3, <1>4 DEF PassResult, IsPass
<1>6. q[2] \in Stored /\ Current(q[2]) \in Object
  BY <1>4, <1>5, CurrentFacts DEF AreDependenciesMet
<1>7. object'[Current(q[2])] = WithStatus(object[Current(q[2])], "queued")
  BY <1>1, <1>6 DEF PassResult
<1>8. object'[Current(q[2])].status = "queued"
  BY <1>6, <1>7, WithStatusType DEF StoreTypeOK, TaskStatus
<1>9. object'[Current(q[2])'].status \in {"validated", "stored"}
  BY <1>2, <1>5 DEF AreDependenciesMet, Dependencies
<1>10. Current(q[2])' = Current(q[2])
  BY DEF Current
<1>11. QED
  BY <1>8, <1>9, <1>10

\* Only a validation meets a dependency, and its coroutine then reschedules.
LEMMA NoLostWakeupStep ==
    ASSUME CoreInv, NoLostWakeup, [Next]_vars
    PROVE  NoLostWakeup'
<1>0. StoreTypeOK /\ SchedTypeOK /\ pending \subseteq Object
  BY DEF CoreInv, TypeOK, SchedTypeOK
<1>1. CASE UNCHANGED vars
  <2>1. \A o \in pending : AreDependenciesMet(o)' => AreDependenciesMet(o)
    BY <1>0, <1>1, NotNewlyMet DEF vars, storeVars
  <2>2. QED
    BY <1>1, <2>1 DEF NoLostWakeup, vars, schedVars, loopVars
<1>2. ASSUME NEW r \in Request, SubmitPlan(r) PROVE NoLostWakeup'
  <2>1. /\ tasks' = [t \in Task |-> IF t \in Plan[r] THEN r ELSE tasks[t]]
        /\ object' = object /\ pending' = pending /\ pc' = pc
    BY <1>2 DEF SubmitPlan, AddTasks, schedVars
  <2>2. \A t \in Plan[r] : t \in Task /\ object[<<r, t>>].status = "created"
    <3>1. \A t \in Plan[r] : t \in Task
      BY PlanAssumption
    <3>2. reqpc[r] = "idle"
      BY <1>2 DEF SubmitPlan
    <3>3. QED
      BY <3>1, <3>2, ObjectFacts DEF CoreInv, Bookkeeping, Created, Fields
  <2>3. ASSUME NEW o \in pending, AreDependenciesMet(o)' PROVE AreDependenciesMet(o)
    <3>1. ASSUME NEW d \in Dependencies(o)
          PROVE  d \in Stored /\ object[Current(d)].status \in {"validated", "stored"}
      <4>1. d \in Task
        BY <1>0, <3>1, DependenciesAreTasks
      <4>2. tasks'[d] # None /\ object[<<tasks'[d], d>>].status \in {"validated", "stored"}
        BY <2>1, <2>3, <3>1 DEF AreDependenciesMet, Dependencies, Stored, Current
      <4>3. d \notin Plan[r]
        BY <2>1, <2>2, <4>1, <4>2
      <4>4. tasks'[d] = tasks[d]
        BY <2>1, <4>1, <4>3
      <4>5. QED
        BY <4>1, <4>2, <4>4 DEF Stored, Current
    <3>2. QED
      BY <3>1 DEF AreDependenciesMet
  <2>4. QED
    BY <2>1, <2>3 DEF NoLostWakeup
<1>3. ASSUME NEW r \in Request, ScheduleWorkload(r) PROVE NoLostWakeup'
  <2>1. Pass(pending \union PlanObjects(r)) /\ tasks' = tasks
    BY <1>3 DEF ScheduleWorkload, Schedule
  <2>2. QED
    BY <2>1, ScheduleList, PassLeavesUnmet DEF NoLostWakeup
<1>4. ASSUME NEW r \in Request, LaunchWorkload(r) PROVE NoLostWakeup'
  <2>1. PICK P : SpawnResult(TasksByStatus("queued"), {}, P)
    BY <1>0, <1>4, SpawnFacts DEF LaunchWorkload, TasksByStatus
  <2>2. \A q \in Pipe : pc[q] = "reschedule" => pc'[q] = "reschedule"
    BY <2>1 DEF SpawnResult
  <2>3. \A o \in pending : AreDependenciesMet(o)' => AreDependenciesMet(o)
    BY <1>0, <1>4, NotNewlyMet DEF LaunchWorkload, storeVars
  <2>4. pending' = pending
    BY <1>4 DEF LaunchWorkload, schedVars
  <2>5. QED
    BY <2>2, <2>3, <2>4 DEF NoLostWakeup
<1>5. ASSUME NEW p \in Pipe, Reschedule(p) PROVE NoLostWakeup'
  <2>1. Pass(pending) /\ tasks' = tasks
    BY <1>5 DEF Reschedule, RetryPending
  <2>2. QED
    BY <1>0, <2>1, PassLeavesUnmet DEF NoLostWakeup
<1>6. ASSUME NEW p \in Pipe, Process(p), ~Reschedule(p) PROVE NoLostWakeup'
  <2>1. Live(p) /\ Frame(p) /\ Shape(p)
    BY <1>6, ProcessShape
  <2>2. CASE pc'[p] = "reschedule"
    BY <2>2 DEF NoLostWakeup
  <2>3. CASE pc'[p] # "reschedule"
    <3>1. ASSUME NEW d \in Stored, object'[Current(d)].status \in {"validated", "stored"}
          PROVE  object[Current(d)].status \in {"validated", "stored"}
      <4>1. Current(d) \in Object
        BY <1>0, CurrentFacts
      <4>2. CASE Current(d) # Current(TaskOf(p))
        BY <2>1, <3>1, <4>1, <4>2 DEF Frame
      <4>3. CASE Current(d) = Current(TaskOf(p))
        BY <2>1, <2>3, <3>1, <4>3 DEF Shape, NewStatus
      <4>4. QED
        BY <4>2, <4>3
    <3>2. \A o \in pending : AreDependenciesMet(o)' => AreDependenciesMet(o)
      BY <1>0, <2>1, <3>1, NotNewlyMet DEF Frame
    <3>3. \A q \in Pipe : pc[q] = "reschedule" => pc'[q] = "reschedule"
      BY <2>1 DEF Frame, Shape
    <3>4. QED
      BY <2>1, <3>2, <3>3 DEF NoLostWakeup, Frame
  <2>4. QED
    BY <2>2, <2>3
<1>7. QED
  BY <1>1, <1>2, <1>3, <1>4, <1>5, <1>6 DEF Next, Workload, Process

\* A task the scheduler holds although its dependencies are validated is about to be
\* released, for any workloads, resubmissions and duplicates (scheduler.py).
THEOREM NoLostWakeupHolds == Spec => []NoLostWakeup
<1>1. Init => NoLostWakeup
  BY DEF Init, SchedInit, NoLostWakeup
<1>2. CoreInv /\ NoLostWakeup /\ [Next]_vars => NoLostWakeup'
  BY NoLostWakeupStep
<1>3. QED
  BY <1>1, <1>2, CoreInvariant, PTL DEF Spec

-----------------------------------------------------------------------------
(* Queued tasks are served *)

\* No worker can run task t.
Unservable(t) == \A w \in Worker : WorkerType(w) # Partition[t]

\* A step that leaves a task queued leaves its coroutine or its launch to come.
LEMMA QueuedIsServedStep ==
    ASSUME CoreInv, QueuedIsServed, [Next]_vars
    PROVE  QueuedIsServed'
<1> DEFINE Served(t) ==
        \/ \E p \in Pipe : pc[p] \in {"start", "unavailable"} /\ TaskOf(p) = t
        \/ \E r \in Request : reqpc[r] = "scheduled"
        \/ Unservable(t)
<1>0. /\ StoreTypeOK /\ SchedTypeOK /\ pending \subseteq Object
      /\ pc \in [Pipe -> PipePc] /\ reqpc \in [Request -> ReqPc]
      /\ \A t \in TasksByStatus("queued") : Served(t)
  BY DEF CoreInv, TypeOK, SchedTypeOK, QueuedIsServed, Unservable
<1>1. SUFFICES ASSUME NEW t \in TasksByStatus("queued")' PROVE Served(t)'
  BY DEF QueuedIsServed, Unservable
<1>2. t \in Stored' /\ object'[Current(t)'].status = "queued"
  BY <1>1 DEF TasksByStatus
<1>3. ASSUME tasks' = tasks
      PROVE  t \in Stored /\ Current(t)' = Current(t) /\ Current(t) \in Object
             /\ object'[Current(t)].status = "queued"
  <2>1. t \in Stored /\ Current(t)' = Current(t)
    BY <1>2, <1>3 DEF Stored, Current
  <2>2. QED
    BY <1>0, <1>2, <2>1, CurrentFacts
<1>4. CASE UNCHANGED vars
  <2>1. Served(t)
    BY <1>0, <1>3, <1>4 DEF vars, storeVars, TasksByStatus
  <2>2. QED
    BY <1>4, <2>1 DEF vars, loopVars, TaskOf, Unservable
<1>5. ASSUME NEW r \in Request, SubmitPlan(r) PROVE Served(t)'
  <2>1. /\ tasks' = [d \in Task |-> IF d \in Plan[r] THEN r ELSE tasks[d]]
        /\ object' = object /\ UNCHANGED <<pc, job>>
        /\ reqpc[r] = "idle" /\ reqpc' = [reqpc EXCEPT ![r] = "planned"]
    BY <1>5 DEF SubmitPlan, AddTasks, schedVars
  <2>2. t \in Task /\ tasks'[t] # None /\ object[<<tasks'[t], t>>].status = "queued"
    BY <1>2, <2>1 DEF Stored, Current
  <2>3. t \notin Plan[r]
    BY <2>1, <2>2, ObjectFacts DEF CoreInv, Bookkeeping, Created, Fields
  <2>4. t \in TasksByStatus("queued")
    BY <2>1, <2>2, <2>3 DEF TasksByStatus, Stored, Current
  <2>5. Served(t)
    BY <1>0, <2>4
  <2>6. \A q \in Request : reqpc[q] = "scheduled" => reqpc'[q] = "scheduled"
    BY <1>0, <2>1
  <2>7. QED
    BY <2>1, <2>5, <2>6 DEF TaskOf, Unservable
<1>6. ASSUME NEW r \in Request, ScheduleWorkload(r) PROVE Served(t)'
  <2>1. reqpc'[r] = "scheduled"
    BY <1>0, <1>6 DEF ScheduleWorkload
  <2>2. QED
    BY <2>1
<1>7. ASSUME NEW r \in Request, LaunchWorkload(r) PROVE Served(t)'
  <2>1. UNCHANGED storeVars /\ Spawn(TasksByStatus("queued"), {})
    BY <1>7 DEF LaunchWorkload
  <2>2. PICK P : SpawnResult(TasksByStatus("queued"), {}, P)
    BY <1>0, <2>1, SpawnFacts DEF TasksByStatus
  <2>3. t \in TasksByStatus("queued")
    BY <1>3, <2>1 DEF storeVars, TasksByStatus
  <2>4. PICK p \in P : job'[p] = Current(t)
    BY <2>2, <2>3 DEF SpawnResult
  <2>5. p \in Pipe /\ pc'[p] = "start" /\ TaskOf(p)' = t
    BY <2>2, <2>4 DEF SpawnResult, TaskOf, Current
  <2>6. QED
    BY <2>5
<1>8. ASSUME NEW p \in Pipe, Reschedule(p) PROVE Served(t)'
  <2> DEFINE Q == {d \in Stored : object'[Current(d)].status = "queued"}
  <2>1. Live(p) /\ Spawn(Q, {p}) /\ Q \subseteq Stored /\ tasks' = tasks
    BY <1>8 DEF Reschedule, Live
  <2>2. t \in Q
    BY <1>3, <2>1
  <2> HIDE DEF Q
  <2>3. PICK P : SpawnResult(Q, {p}, P)
    BY <1>0, <2>1, SpawnFacts
  <2>4. PICK q \in P : job'[q] = Current(t)
    BY <2>2, <2>3 DEF SpawnResult
  <2>5. q \in Pipe /\ pc'[q] = "start" /\ TaskOf(q)' = t
    BY <2>3, <2>4 DEF SpawnResult, TaskOf, Current
  <2>6. QED
    BY <2>5
<1>9. ASSUME NEW p \in Pipe, Process(p), ~Reschedule(p) PROVE Served(t)'
  <2>1. Live(p) /\ Frame(p) /\ Shape(p)
    BY <1>9, ProcessShape
  <2>2. /\ t \in Stored /\ Current(t) \in Object /\ Current(t)[2] = t
        /\ object'[Current(t)].status = "queued" /\ reqpc' = reqpc
    BY <1>0, <1>3, <2>1, CurrentFacts DEF Frame
  <2>3. Current(TaskOf(p))[2] = TaskOf(p)
    BY <2>1, JobFacts
  <2>4. pc'[p] # "free" => TaskOf(p)' = TaskOf(p)
    BY <2>1, <2>3 DEF Frame, TaskOf
  <2>5. ASSUME object[Current(t)].status = "queued",
               pc[p] \in {"start", "unavailable"} => TaskOf(p) # t
        PROVE  Served(t)'
    <3>1. Served(t)
      BY <1>0, <2>2, <2>5 DEF TasksByStatus
    <3>2. \A q \in Pipe : q # p => pc'[q] = pc[q] /\ TaskOf(q)' = TaskOf(q)
      BY <2>1 DEF Frame, TaskOf
    <3>3. QED
      BY <2>2, <2>5, <3>1, <3>2 DEF Unservable
  <2>6. CASE t # TaskOf(p)
    <3>1. object[Current(t)].status = "queued"
      BY <2>1, <2>2, <2>3, <2>6 DEF Frame
    <3>2. QED
      BY <2>5, <2>6, <3>1
  <2>7. CASE t = TaskOf(p)
    <3>1. object' = object
      BY <2>1, <2>2, <2>7 DEF Shape, NewStatus
    <3>2. CASE pc'[p] \in {"start", "unavailable"}
      BY <2>4, <2>7, <3>2
    <3>3. CASE pc'[p] = "free"
      <4>1. Candidates(Partition[t]) = {}
        BY <2>1, <2>2, <2>7, <3>3 DEF Shape, NewStatus
      <4>2. Unservable(t)
        BY <4>1 DEF Unservable, Candidates, CoreInv, Bookkeeping
      <4>3. QED
        BY <4>2 DEF Unservable
    <3>4. CASE pc'[p] \notin {"start", "unavailable", "free"}
      <4>1. pc[p] \notin {"start", "unavailable"}
        BY <2>1, <2>2, <2>7, <3>4 DEF Shape, NewStatus
      <4>2. QED
        BY <2>2, <2>5, <3>1, <4>1
    <3>5. QED
      BY <3>2, <3>3, <3>4
  <2>8. QED
    BY <2>6, <2>7
<1>10. QED
  BY <1>4, <1>5, <1>6, <1>7, <1>8, <1>9 DEF Next, Workload, Process

\* A QUEUED task has a coroutine or a launch to come, unless no worker can run it,
\* for any workloads and numbers of requests (main.py, _check_and_process_queued_tasks).
THEOREM QueuedIsServedHolds == Spec => []QueuedIsServed
<1>1. Init => QueuedIsServed
  BY DEF Init, StoreInit, QueuedIsServed, TasksByStatus, Stored
<1>2. CoreInv /\ QueuedIsServed /\ [Next]_vars => QueuedIsServed'
  BY QueuedIsServedStep
<1>3. QED
  BY <1>1, <1>2, CoreInvariant, PTL DEF Spec

-----------------------------------------------------------------------------
(* Tasks that no worker can run *)

\* A coroutine of such a task never gets past assign_worker.
WaitingInv ==
    /\ UnservableStaysQueued
    /\ \A p \in Pipe : Live(p) /\ Unservable(TaskOf(p)) => pc[p] \in {"start", "unavailable"}

\* WaitingInv is inductive relative to CoreInv.
LEMMA WaitingStep ==
    ASSUME CoreInv, WaitingInv, [Next]_vars
    PROVE  WaitingInv'
<1> DEFINE Calm == \A o \in Object : Unservable(o[2]) =>
                        object[o].status \in {"created", "queued"}
           Waiting == \A p \in Pipe : pc[p] # "free" /\ Unservable(TaskOf(p))
                        => pc[p] \in {"start", "unavailable"}
<1>0. StoreTypeOK /\ SchedTypeOK /\ pending \subseteq Object /\ Calm /\ Waiting
  BY DEF CoreInv, TypeOK, SchedTypeOK, WaitingInv, UnservableStaysQueued, Unservable, Live
<1>1. SUFFICES Calm' /\ Waiting'
  BY DEF WaitingInv, UnservableStaysQueued, Unservable, Live
<1>2. ASSUME NEW list, list \subseteq Object, Pass(list) PROVE Calm'
  BY <1>0, <1>2, PassStatus DEF Unservable
<1>3. ASSUME NEW Q, NEW Done, NEW P, SpawnResult(Q, Done, P) PROVE Waiting'
  BY <1>0, <1>3 DEF SpawnResult, TaskOf, Unservable
<1>4. CASE UNCHANGED vars
  BY <1>0, <1>4 DEF vars, storeVars, loopVars, TaskOf, Unservable
<1>5. ASSUME NEW r \in Request, SubmitPlan(r) PROVE Calm' /\ Waiting'
  BY <1>0, <1>5 DEF SubmitPlan, AddTasks, TaskOf, Unservable
<1>6. ASSUME NEW r \in Request, ScheduleWorkload(r) PROVE Calm' /\ Waiting'
  <2>1. Pass(pending \union PlanObjects(r)) /\ UNCHANGED <<pc, job>>
    BY <1>6 DEF ScheduleWorkload, Schedule
  <2>2. Calm'
    BY <1>2, <2>1, ScheduleList
  <2>3. Waiting'
    BY <1>0, <2>1 DEF TaskOf, Unservable
  <2>4. QED
    BY <2>2, <2>3
<1>7. ASSUME NEW r \in Request, LaunchWorkload(r) PROVE Calm' /\ Waiting'
  <2>1. UNCHANGED storeVars /\ Spawn(TasksByStatus("queued"), {})
    BY <1>7 DEF LaunchWorkload
  <2>2. PICK P : SpawnResult(TasksByStatus("queued"), {}, P)
    BY <1>0, <2>1, SpawnFacts DEF TasksByStatus
  <2>3. Waiting'
    BY <1>3, <2>2
  <2>4. Calm'
    BY <1>0, <2>1 DEF storeVars, Unservable
  <2>5. QED
    BY <2>3, <2>4
<1>8. ASSUME NEW p \in Pipe, Reschedule(p) PROVE Calm' /\ Waiting'
  <2> DEFINE Q == {d \in Stored : object'[Current(d)].status = "queued"}
  <2>1. Live(p) /\ Spawn(Q, {p}) /\ Q \subseteq Stored /\ Pass(pending)
    BY <1>8 DEF Reschedule, RetryPending, Live
  <2> HIDE DEF Q
  <2>2. PICK P : SpawnResult(Q, {p}, P)
    BY <1>0, <2>1, SpawnFacts
  <2>3. Waiting'
    BY <1>3, <2>2
  <2>4. Calm'
    BY <1>0, <1>2, <2>1
  <2>5. QED
    BY <2>3, <2>4
<1>9. ASSUME NEW p \in Pipe, Process(p), ~Reschedule(p) PROVE Calm' /\ Waiting'
  <2>1. Live(p) /\ Frame(p) /\ Shape(p)
    BY <1>9, ProcessShape
  <2>2. Current(TaskOf(p))[2] = TaskOf(p) /\ Current(TaskOf(p)) \in Object
    BY <2>1, JobFacts
  <2>3. ASSUME Unservable(TaskOf(p))
        PROVE  object' = object /\ pc'[p] \in {"start", "unavailable", "free"}
    <3>1. pc[p] \in {"start", "unavailable"}
      BY <1>0, <2>1, <2>3 DEF Live
    <3>2. QED
      BY <2>1, <2>3, <3>1 DEF Shape, Unservable
  <2>4. Calm'
    BY <1>0, <2>1, <2>2, <2>3 DEF Frame, Unservable
  <2>5. \A q \in Pipe : pc'[q] # "free" => TaskOf(q)' = TaskOf(q)
    BY <2>1, <2>2 DEF Frame, TaskOf
  <2>6. Waiting'
    BY <1>0, <2>1, <2>3, <2>5 DEF Frame, Unservable
  <2>7. QED
    BY <2>4, <2>6
<1>10. QED
  BY <1>4, <1>5, <1>6, <1>7, <1>8, <1>9 DEF Next, Workload, Process

\* A task whose type has no worker is never reported as assigned, running, failed or
\* validated, for any workloads and numbers of requests (main.py, task_deferred).
THEOREM UnservableStaysQueuedHolds == Spec => []UnservableStaysQueued
<1>1. Init => WaitingInv
  BY DEF Init, StoreInit, WaitingInv, UnservableStaysQueued, Created, Fields, Live
<1>2. CoreInv /\ WaitingInv /\ [Next]_vars => WaitingInv'
  BY WaitingStep
<1>3. WaitingInv => UnservableStaysQueued
  BY DEF WaitingInv
<1>4. QED
  BY <1>1, <1>2, <1>3, CoreInvariant, PTL DEF Spec

-----------------------------------------------------------------------------
(* Nothing is abandoned *)

\* What a task's status says about its coroutines: an ASSIGNED or RUNNING task has one
\* at that very step; a CREATED one that is neither held nor waiting to be scheduled is
\* being retried, and there is a worker for it.
StatusInv ==
    \A t \in Stored :
        /\ object[Current(t)].status \in {"assigned", "running"} =>
             \E p \in Pipe : pc[p] = object[Current(t)].status /\ TaskOf(p) = t
        /\ object[Current(t)].status = "created" =>
             \/ Current(t) \in pending
             \/ reqpc[tasks[t]] = "planned"
             \/ /\ ~Unservable(t)
                /\ \E p \in Pipe : pc[p] \in {"backoff", "start", "unavailable"} /\ TaskOf(p) = t

\* StatusInv is inductive relative to CoreInv and WaitingInv.
LEMMA StatusStep ==
    ASSUME CoreInv, WaitingInv, StatusInv, [Next]_vars
    PROVE  StatusInv'
<1> DEFINE At(l, t) == \E p \in Pipe : pc[p] = l /\ TaskOf(p) = t
           Retried(t) == /\ ~Unservable(t)
                         /\ \E p \in Pipe : /\ pc[p] \in {"backoff", "start", "unavailable"}
                                            /\ TaskOf(p) = t
           Good(t) == LET s == object[Current(t)].status IN
                /\ s \in {"assigned", "running"} => At(s, t)
                /\ s = "created" => \/ Current(t) \in pending
                                    \/ reqpc[tasks[t]] = "planned"
                                    \/ Retried(t)
<1>0. /\ StoreTypeOK /\ SchedTypeOK /\ pending \subseteq Object
      /\ pc \in [Pipe -> PipePc] /\ reqpc \in [Request -> ReqPc]
      /\ \A t \in Stored : Good(t)
  BY DEF CoreInv, TypeOK, SchedTypeOK, StatusInv
<1>1. SUFFICES ASSUME NEW t \in Stored' PROVE Good(t)'
  BY DEF StatusInv
<1>2. ASSUME tasks' = tasks
      PROVE  /\ t \in Stored /\ Current(t)' = Current(t) /\ Current(t) \in Object
             /\ Current(t)[1] = tasks[t] /\ Current(t)[2] = t /\ tasks[t] \in Request
  BY <1>0, <1>1, <1>2, CurrentFacts DEF Stored, Current
\* The coroutines that matter keep their places, the status changes to QUEUED at most.
<1>3. ASSUME tasks' = tasks,
             \A p \in Pipe : pc[p] \in {"assigned", "running", "backoff", "start", "unavailable"}
                                => pc'[p] = pc[p] /\ TaskOf(p)' = TaskOf(p),
             \/ object'[Current(t)].status = object[Current(t)].status
             \/ object'[Current(t)].status = "queued",
             object'[Current(t)].status = "created" /\ Current(t) \in pending
                => Current(t) \in pending',
             object'[Current(t)].status = "created" /\ reqpc[tasks[t]] = "planned"
                => reqpc'[tasks[t]] = "planned" \/ Current(t) \in pending'
      PROVE  Good(t)'
  <2>1. Good(t) /\ t \in Stored /\ Current(t)' = Current(t)
    BY <1>0, <1>2, <1>3
  <2>2. object'[Current(t)].status \in {"assigned", "running"} => At(object[Current(t)].status, t)'
    <3>1. SUFFICES ASSUME object'[Current(t)].status \in {"assigned", "running"}
                   PROVE  At(object[Current(t)].status, t)'
      OBVIOUS
    <3>2. object'[Current(t)].status = object[Current(t)].status
      BY <1>3, <3>1
    <3>3. PICK p \in Pipe : pc[p] = object[Current(t)].status /\ TaskOf(p) = t
      BY <2>1, <3>1, <3>2
    <3>4. pc'[p] = object'[Current(t)].status /\ TaskOf(p)' = t
      BY <1>3, <3>1, <3>2, <3>3
    <3>5. QED
      BY <2>1, <3>4
  <2>3. Retried(t) => Retried(t)'
    BY <1>3 DEF Unservable
  <2>4. QED
    BY <1>3, <2>1, <2>2, <2>3
<1>4. CASE UNCHANGED vars
  BY <1>3, <1>4 DEF vars, storeVars, schedVars, loopVars, TaskOf
<1>5. ASSUME NEW r \in Request, SubmitPlan(r) PROVE Good(t)'
  <2>1. /\ tasks' = [d \in Task |-> IF d \in Plan[r] THEN r ELSE tasks[d]]
        /\ object' = object /\ UNCHANGED <<pc, job, pending>>
        /\ reqpc[r] = "idle" /\ reqpc' = [reqpc EXCEPT ![r] = "planned"]
    BY <1>5 DEF SubmitPlan, AddTasks, schedVars
  <2>2. t \in Task
    BY DEF Stored
  <2>3. CASE t \in Plan[r]
    <3>1. tasks'[t] = r /\ Current(t)' = <<r, t>>
      BY <2>1, <2>2, <2>3 DEF Current
    <3>2. object'[<<r, t>>].status = "created" /\ reqpc'[r] = "planned"
      BY <1>0, <2>1, <2>2, ObjectFacts DEF CoreInv, Bookkeeping, Created, Fields
    <3>3. QED
      BY <3>1, <3>2
  <2>4. CASE t \notin Plan[r]
    <3>1. t \in Stored /\ tasks'[t] = tasks[t] /\ Current(t)' = Current(t) /\ Good(t)
      BY <1>0, <1>1, <2>1, <2>2, <2>4 DEF Stored, Current
    <3>2. reqpc[tasks[t]] = "planned" => reqpc'[tasks[t]] = "planned"
      BY <1>0, <2>1, <3>1, CurrentFacts
    <3>3. QED
      BY <2>1, <3>1, <3>2 DEF TaskOf, Unservable
  <2>5. QED
    BY <2>3, <2>4
<1>6. ASSUME NEW list, list \subseteq Object, Pass(list), tasks' = tasks
      PROVE  /\ \/ object'[Current(t)].status = object[Current(t)].status
                \/ object'[Current(t)].status = "queued"
             /\ object'[Current(t)].status = "created" /\ Current(t) \in list
                    => Current(t) \in pending'
  <2>1. PICK S : PassResult(list, S)
    BY <1>0, <1>6, PassFacts
  <2>2. object[Current(t)] \in TaskFields /\ "queued" \in TaskStatus
    BY <1>0, <1>2, <1>6 DEF StoreTypeOK, TaskStatus
  <2>3. Current(t) \in S => object'[Current(t)].status = "queued"
    BY <1>2, <1>6, <2>1, <2>2, WithStatusType DEF PassResult
  <2>4. QED
    BY <1>0, <1>2, <1>6, <2>1, <2>3, PassStatus DEF PassResult
<1>7. ASSUME NEW r \in Request, ScheduleWorkload(r) PROVE Good(t)'
  <2>1. /\ Pass(pending \union PlanObjects(r)) /\ UNCHANGED <<pc, job, tasks>>
        /\ reqpc' = [reqpc EXCEPT ![r] = "scheduled"]
    BY <1>7 DEF ScheduleWorkload, Schedule
  <2>2. pending \union PlanObjects(r) \subseteq Object
    BY ScheduleList
  <2>3. t \in Stored /\ Current(t) = <<tasks[t], t>> /\ t \in Plan[tasks[t]]
    BY <1>2, <2>1 DEF Current, CoreInv, Bookkeeping
  <2>4. reqpc[tasks[t]] = "planned" =>
            reqpc'[tasks[t]] = "planned" \/ Current(t) \in PlanObjects(r)
    BY <1>0, <1>2, <2>1, <2>3 DEF PlanObjects
  <2>5. QED
    BY <1>3, <1>6, <2>1, <2>2, <2>4 DEF TaskOf
<1>8. ASSUME NEW Q, NEW Done, NEW P, SpawnResult(Q, Done, P),
             \A p \in Done : p \in Pipe /\ pc[p] = "reschedule"
      PROVE  \A p \in Pipe :
                pc[p] \in {"assigned", "running", "backoff", "start", "unavailable"}
                    => pc'[p] = pc[p] /\ TaskOf(p)' = TaskOf(p)
  BY <1>8 DEF SpawnResult, TaskOf
<1>9. ASSUME NEW r \in Request, LaunchWorkload(r) PROVE Good(t)'
  <2>1. /\ UNCHANGED <<tasks, object, pending>> /\ Spawn(TasksByStatus("queued"), {})
        /\ reqpc[r] = "scheduled" /\ reqpc' = [reqpc EXCEPT ![r] = "done"]
    BY <1>9 DEF LaunchWorkload, storeVars, schedVars
  <2>2. PICK P : SpawnResult(TasksByStatus("queued"), {}, P)
    BY <1>0, <2>1, SpawnFacts DEF TasksByStatus
  <2>3. \A p \in Pipe :
            pc[p] \in {"assigned", "running", "backoff", "start", "unavailable"}
                => pc'[p] = pc[p] /\ TaskOf(p)' = TaskOf(p)
    BY <1>8, <2>2
  <2>4. reqpc[tasks[t]] = "planned" => reqpc'[tasks[t]] = "planned"
    BY <1>0, <1>2, <2>1
  <2>5. QED
    BY <1>3, <2>1, <2>3, <2>4
<1>10. ASSUME NEW p \in Pipe, Reschedule(p) PROVE Good(t)'
  <2> DEFINE Q == {d \in Stored : object'[Current(d)].status = "queued"}
  <2>1. /\ Live(p) /\ Spawn(Q, {p}) /\ Q \subseteq Stored /\ Pass(pending)
        /\ UNCHANGED <<tasks, reqpc>> /\ pc[p] = "reschedule"
    BY <1>10 DEF Reschedule, RetryPending, Live
  <2> HIDE DEF Q
  <2>2. PICK P : SpawnResult(Q, {p}, P)
    BY <1>0, <2>1, SpawnFacts
  <2>3. \A q \in Pipe :
            pc[q] \in {"assigned", "running", "backoff", "start", "unavailable"}
                => pc'[q] = pc[q] /\ TaskOf(q)' = TaskOf(q)
    BY <1>8, <2>1, <2>2
  <2>4. QED
    BY <1>0, <1>3, <1>6, <2>1, <2>3
<1>11. ASSUME NEW p \in Pipe, Process(p), ~Reschedule(p) PROVE Good(t)'
  <2>1. Live(p) /\ Frame(p) /\ Shape(p)
    BY <1>11, ProcessShape
  <2>2. /\ Current(TaskOf(p))[2] = TaskOf(p) /\ UNCHANGED <<tasks, reqpc, pending>>
        /\ pc'[p] # "free" => TaskOf(p)' = TaskOf(p)
    BY <2>1, JobFacts DEF Frame, TaskOf
  <2>3. t \in Stored /\ Current(t)' = Current(t) /\ Current(t)[2] = t /\ Good(t)
    BY <1>0, <1>2, <2>2
  <2>4. \A q \in Pipe : q # p => pc'[q] = pc[q] /\ TaskOf(q)' = TaskOf(q)
    BY <2>1 DEF Frame, TaskOf
  <2>5. CASE t # TaskOf(p)
    <3>1. object'[Current(t)] = object[Current(t)]
      BY <1>2, <2>1, <2>2, <2>3, <2>5 DEF Frame
    <3>2. \A l : At(l, t) => At(l, t)'
      BY <2>4, <2>5
    <3>3. Retried(t) => Retried(t)'
      BY <2>4, <2>5 DEF Unservable
    <3>4. QED
      BY <2>2, <2>3, <3>1, <3>2, <3>3
  <2>6. CASE t = TaskOf(p)
    <3>1. \A l : At(l, t) /\ pc[p] # l => At(l, t)'
      BY <2>4
    <3>2. CASE pc'[p] \in {"assigned", "running", "failed", "completed"}
      <4>1. object'[Current(t)].status = pc'[p]
        BY <2>1, <2>6, <3>2 DEF Shape, NewStatus
      <4>2. \E q \in Pipe : pc'[q] = object'[Current(t)].status /\ TaskOf(q)' = t
        BY <2>2, <2>6, <3>2, <4>1
      <4>3. QED
        BY <2>3, <3>2, <4>1, <4>2
    <3>3. CASE pc[p] = "failed"
      <4>1. ~Unservable(t)
        BY <2>1, <2>6, <3>3 DEF WaitingInv
      <4>2. CASE object'[Current(t)].status = "failed"
        BY <2>3, <4>2
      <4>3. CASE object'[Current(t)].status = "created" /\ pc'[p] = "backoff"
        <5>1. Retried(t)'
          BY <2>2, <2>6, <4>1, <4>3 DEF Unservable
        <5>2. QED
          BY <2>3, <4>3, <5>1
      <4>4. QED
        BY <2>1, <2>6, <3>3, <4>2, <4>3 DEF Shape, NewStatus
    <3>4. CASE object' = object /\ pc[p] \in {"start", "unavailable", "backoff"}
               /\ pc'[p] \in {"unavailable", "start"}
      <4>1. Retried(t) => Retried(t)'
        BY <2>2, <2>4, <2>6, <3>4 DEF Unservable
      <4>2. QED
        BY <2>2, <2>3, <3>1, <3>4, <4>1
    <3>5. CASE object' = object /\ pc[p] = "unavailable" /\ pc'[p] = "free"
               /\ Candidates(Partition[t]) = {}
      <4>1. Unservable(t)
        BY <3>5 DEF Unservable, Candidates, CoreInv, Bookkeeping
      <4>2. QED
        BY <2>2, <2>3, <3>1, <3>5, <4>1
    <3>6. CASE pc[p] = "completed" /\ object' = object
      <4>1. Retried(t) => Retried(t)'
        BY <2>4, <3>6 DEF Unservable
      <4>2. QED
        BY <2>2, <2>3, <3>1, <3>6, <4>1
    <3>7. CASE object'[Current(t)].status = "validated"
      BY <2>3, <3>7
    <3>8. QED
      BY <2>1, <2>6, <3>2, <3>3, <3>4, <3>5, <3>6, <3>7 DEF Shape, NewStatus
  <2>7. QED
    BY <2>5, <2>6
<1>12. QED
  BY <1>4, <1>5, <1>7, <1>9, <1>10, <1>11 DEF Next, Workload, Process

\* No object is ever PARTITIONED or STORED, statuses the code declares and never sets.
LEMMA UnusedStatusStep ==
    ASSUME CoreInv, [Next]_vars,
           \A o \in Object : object[o].status \notin {"partitioned", "stored"}
    PROVE  \A o \in Object : object'[o].status \notin {"partitioned", "stored"}
<1>0. StoreTypeOK /\ SchedTypeOK /\ pending \subseteq Object
  BY DEF CoreInv, TypeOK, SchedTypeOK
<1>1. CASE object' = object
  BY <1>1
<1>2. ASSUME NEW r \in Request, ScheduleWorkload(r)
      PROVE  \A o \in Object : object'[o].status \notin {"partitioned", "stored"}
  <2>1. Pass(pending \union PlanObjects(r)) /\ pending \union PlanObjects(r) \subseteq Object
    BY <1>2, ScheduleList DEF ScheduleWorkload, Schedule
  <2>2. QED
    BY <1>0, <2>1, PassStatus
<1>3. ASSUME NEW p \in Pipe, Reschedule(p)
      PROVE  \A o \in Object : object'[o].status \notin {"partitioned", "stored"}
  <2>1. Pass(pending)
    BY <1>3 DEF Reschedule, RetryPending
  <2>2. QED
    BY <1>0, <2>1, PassStatus
<1>4. ASSUME NEW p \in Pipe, Process(p), ~Reschedule(p)
      PROVE  \A o \in Object : object'[o].status \notin {"partitioned", "stored"}
  <2>1. Frame(p) /\ Shape(p)
    BY <1>4, ProcessShape
  <2>2. object' = object \/ NewStatus(p) \notin {"partitioned", "stored"}
    BY <2>1 DEF Shape
  <2>3. QED
    BY <2>1, <2>2 DEF Frame, NewStatus
<1>5. ASSUME NEW r \in Request, SubmitPlan(r) \/ LaunchWorkload(r) PROVE object' = object
  BY <1>5 DEF SubmitPlan, LaunchWorkload, storeVars
<1>6. CASE UNCHANGED vars
  BY <1>1, <1>6 DEF vars, storeVars
<1>7. QED
  BY <1>1, <1>2, <1>3, <1>4, <1>5, <1>6 DEF Next, Workload, Process

\* No task is left half-way: one that is neither at an end nor held has a coroutine or a
\* launch to come, unless no worker can run it; for any plans, overlapping requests,
\* duplicated coroutines and retries (main.py, process_single_task).
THEOREM NothingAbandonedHolds == Spec => []NothingAbandoned
<1> DEFINE Used == \A o \in Object : object[o].status \notin {"partitioned", "stored"}
<1>1. Init => WaitingInv /\ StatusInv /\ Used
  BY DEF Init, StoreInit, WaitingInv, UnservableStaysQueued, StatusInv, Stored, Created,
         Fields, Live
<1>2. CoreInv /\ WaitingInv /\ [Next]_vars => WaitingInv'
  BY WaitingStep
<1>3. CoreInv /\ WaitingInv /\ StatusInv /\ [Next]_vars => StatusInv'
  BY StatusStep
<1>4. CoreInv /\ Used /\ [Next]_vars => Used'
  BY UnusedStatusStep
<1>5. CoreInv /\ QueuedIsServed /\ StatusInv /\ Used => NothingAbandoned
  <2> SUFFICES ASSUME CoreInv, QueuedIsServed, StatusInv, Used, NEW t \in Stored,
                      ~ \E p \in Pipe : Live(p) /\ TaskOf(p) = t,
                      object[Current(t)].status \notin {"completed", "validated", "failed"},
                      Current(t) \notin pending, reqpc[tasks[t]] # "planned"
               PROVE  /\ object[Current(t)].status = "queued"
                      /\ \/ \E r \in Request : reqpc[r] = "scheduled"
                         \/ \A w \in Worker : WorkerType(w) # Partition[t]
    BY DEF NothingAbandoned
  <2>1. Current(t) \in Object /\ object[Current(t)].status \in TaskStatus
    BY CurrentFacts DEF CoreInv, TypeOK, StoreTypeOK, TaskFields
  <2>2. object[Current(t)].status \notin {"created", "assigned", "running"}
    BY DEF StatusInv, Live
  <2>3. object[Current(t)].status = "queued"
    BY <2>1, <2>2 DEF TaskStatus
  <2>4. QED
    BY <2>3 DEF QueuedIsServed, TasksByStatus, Live
<1> HIDE DEF Used
<1>6. QED
  BY <1>1, <1>2, <1>3, <1>4, <1>5, CoreInvariant, QueuedIsServedHolds, PTL DEF Spec

-----------------------------------------------------------------------------
(* Dead letters *)

\* A step leaves every FAILED task either in the retry agent's hands or justified.
LEMMA DeadLetterStep ==
    ASSUME CoreInv, RetryBudget, DeadLetterJustified, [Next]_vars
    PROVE  DeadLetterJustified'
<1> DEFINE Exhausted(t) == \E r \in Request : object[<<r, t>>].retry_count = MAX_RETRIES
           Justified(t) == object[Current(t)].failure_type = "permanent" \/ Exhausted(t)
           InHand(t) == \E p \in Pipe : pc[p] = "failed" /\ TaskOf(p) = t
<1>0. /\ StoreTypeOK /\ SchedTypeOK /\ pending \subseteq Object
      /\ \A t \in TasksByStatus("failed") : InHand(t) \/ Justified(t)
  BY DEF CoreInv, TypeOK, SchedTypeOK, DeadLetterJustified
<1>1. SUFFICES ASSUME NEW t \in TasksByStatus("failed")'
               PROVE  InHand(t)' \/ Justified(t)'
  BY DEF DeadLetterJustified
<1>2. t \in Stored' /\ object'[Current(t)'].status = "failed"
  BY <1>1 DEF TasksByStatus
<1>3. ASSUME tasks' = tasks
      PROVE  t \in Stored /\ Current(t)' = Current(t) /\ Current(t) \in Object
             /\ Current(t)[2] = t /\ object'[Current(t)].status = "failed"
  <2>1. t \in Stored /\ Current(t)' = Current(t)
    BY <1>2, <1>3 DEF Stored, Current
  <2>2. QED
    BY <1>0, <1>2, <2>1, CurrentFacts
<1>4. ASSUME tasks' = tasks, object'[Current(t)] = object[Current(t)],
             \A r \in Request : object'[<<r, t>>].retry_count = object[<<r, t>>].retry_count,
             \A p \in Pipe : pc[p] = "failed" /\ TaskOf(p) = t =>
                                pc'[p] = "failed" /\ TaskOf(p)' = t
      PROVE  InHand(t)' \/ Justified(t)'
  <2>1. InHand(t) \/ Justified(t)
    BY <1>0, <1>3, <1>4 DEF TasksByStatus
  <2>2. QED
    BY <1>3, <1>4, <2>1
<1>5. ASSUME NEW list, list \subseteq Object, Pass(list), tasks' = tasks
      PROVE  /\ object'[Current(t)] = object[Current(t)]
             /\ \A r \in Request :
                    object'[<<r, t>>].retry_count = object[<<r, t>>].retry_count
  <2>1. PICK S : PassResult(list, S)
    BY <1>0, <1>5, PassFacts
  <2>2. object[Current(t)] \in TaskFields /\ "queued" \in TaskStatus
    BY <1>0, <1>3, <1>5 DEF StoreTypeOK, TaskStatus
  <2>3. object'[Current(t)] = object[Current(t)]
    BY <1>3, <1>5, <2>1, <2>2, WithStatusType DEF PassResult
  <2>4. \A r \in Request : <<r, t>> \in Object
    BY <1>3, CurrentFacts, ObjectFacts, <1>0, <1>5 DEF Object, Stored
  <2>5. QED
    BY <1>0, <1>5, <2>3, <2>4, PassStatus
<1>6. CASE UNCHANGED vars
  BY <1>4, <1>6 DEF vars, storeVars, loopVars, TaskOf
<1>7. ASSUME NEW r \in Request, SubmitPlan(r) PROVE InHand(t)' \/ Justified(t)'
  <2>1. /\ tasks' = [d \in Task |-> IF d \in Plan[r] THEN r ELSE tasks[d]]
        /\ object' = object /\ reqpc[r] = "idle"
    BY <1>7 DEF SubmitPlan, AddTasks
  <2>2. t \in Task /\ tasks'[t] # None /\ object[<<tasks'[t], t>>].status = "failed"
    BY <1>2, <2>1 DEF Stored, Current
  <2>3. t \notin Plan[r]
    BY <2>1, <2>2, ObjectFacts DEF CoreInv, Bookkeeping, Created, Fields
  <2>4. t \in TasksByStatus("failed") /\ Current(t)' = Current(t)
    BY <2>1, <2>2, <2>3 DEF TasksByStatus, Stored, Current
  <2>5. InHand(t) \/ Justified(t)
    BY <1>0, <2>4
  <2>6. UNCHANGED <<pc, job>>
    BY <1>7 DEF SubmitPlan
  <2>7. QED
    BY <2>1, <2>4, <2>5, <2>6 DEF TaskOf
<1>8. ASSUME NEW r \in Request, ScheduleWorkload(r)
      PROVE  InHand(t)' \/ Justified(t)'
  <2>1. Pass(pending \union PlanObjects(r)) /\ UNCHANGED <<pc, job, tasks>>
    BY <1>8 DEF ScheduleWorkload, Schedule
  <2>2. /\ object'[Current(t)] = object[Current(t)]
        /\ \A q \in Request : object'[<<q, t>>].retry_count = object[<<q, t>>].retry_count
    BY <1>5, <2>1, ScheduleList
  <2>3. QED
    BY <1>4, <2>1, <2>2 DEF TaskOf
<1>9. ASSUME NEW Q, NEW Done, NEW P, SpawnResult(Q, Done, P),
             \A p \in Done : pc[p] # "failed"
      PROVE  \A p \in Pipe : pc[p] = "failed" => pc'[p] = "failed" /\ TaskOf(p)' = TaskOf(p)
  BY <1>9 DEF SpawnResult, TaskOf, Live
<1>10. ASSUME NEW r \in Request, LaunchWorkload(r)
       PROVE  InHand(t)' \/ Justified(t)'
  <2>1. UNCHANGED storeVars /\ Spawn(TasksByStatus("queued"), {})
    BY <1>10 DEF LaunchWorkload
  <2>2. PICK P : SpawnResult(TasksByStatus("queued"), {}, P)
    BY <1>0, <2>1, SpawnFacts DEF TasksByStatus
  <2>3. \A p \in Pipe : pc[p] = "failed" => pc'[p] = "failed" /\ TaskOf(p)' = TaskOf(p)
    BY <1>9, <2>2
  <2>4. UNCHANGED <<tasks, object>>
    BY <2>1 DEF storeVars
  <2>5. QED
    BY <1>4, <2>3, <2>4
<1>11. ASSUME NEW p \in Pipe, Reschedule(p) PROVE InHand(t)' \/ Justified(t)'
  <2> DEFINE Q == {d \in Stored : object'[Current(d)].status = "queued"}
  <2>1. /\ Live(p) /\ Spawn(Q, {p}) /\ Q \subseteq Stored /\ Pass(pending)
        /\ tasks' = tasks /\ pc[p] # "failed"
    BY <1>11 DEF Reschedule, RetryPending, Live
  <2> HIDE DEF Q
  <2>2. PICK P : SpawnResult(Q, {p}, P)
    BY <1>0, <2>1, SpawnFacts
  <2>3. /\ object'[Current(t)] = object[Current(t)]
        /\ \A q \in Request : object'[<<q, t>>].retry_count = object[<<q, t>>].retry_count
    BY <1>0, <1>5, <2>1
  <2>4. QED
    BY <1>4, <1>9, <2>1, <2>2, <2>3
<1>12. ASSUME NEW p \in Pipe, Process(p), ~Reschedule(p)
       PROVE  InHand(t)' \/ Justified(t)'
  <2>1. Live(p) /\ Frame(p) /\ Shape(p) /\ tasks' = tasks
    BY <1>12, ProcessShape DEF Frame
  <2>2. /\ Current(TaskOf(p))[2] = TaskOf(p) /\ Current(TaskOf(p)) \in Object
        /\ job[p] \in Object /\ TaskOf(p) \in Stored
    BY <2>1, JobFacts
  <2>3. pc'[p] # "free" => TaskOf(p)' = TaskOf(p)
    BY <2>1, <2>2 DEF Frame, TaskOf
  <2>4. \A q \in Pipe : q # p => pc'[q] = pc[q] /\ TaskOf(q)' = TaskOf(q)
    BY <2>1 DEF Frame, TaskOf
  <2>5. CASE t # TaskOf(p)
    <3>1. /\ object'[Current(t)] = object[Current(t)]
          /\ \A r \in Request : object'[<<r, t>>].retry_count = object[<<r, t>>].retry_count
      <4>1. t \in Task
        BY <1>3, <2>1 DEF Stored
      <4>2. \A r \in Request : <<r, t>> \in Object /\ <<r, t>> # Current(TaskOf(p))
        BY <2>2, <2>5, <4>1 DEF Object
      <4>3. QED
        BY <1>3, <2>1, <2>2, <2>5, <4>2 DEF Frame
    <3>2. QED
      BY <1>4, <2>1, <2>4, <2>5, <3>1
  <2>6. CASE t = TaskOf(p) /\ pc[p] = "failed"
    <3>1. pc'[p] = "free"
      BY <1>3, <2>1, <2>6 DEF Shape, NewStatus
    <3>2. DeadLetter(p)
      BY <1>12, <2>1, <2>6, <3>1 DEF Process, Assign, Unavailable, Defer, RunTask,
         ExecuteFails, ExecuteSucceeds, ScheduleRetry, RetryAfterBackoff, Validate,
         Goto, CoreInv, TypeOK
    <3>3. job[p] = <<job[p][1], t>> /\ job[p][1] \in Request
      BY <2>2, <2>6, ObjectFacts DEF TaskOf
    <3>4. /\ object[job[p]].retry_count \in Nat
          /\ object[job[p]].retry_count <= MAX_RETRIES /\ MAX_RETRIES \in Nat
      BY <1>0, <2>2, OrchestratorAssumption DEF StoreTypeOK, TaskFields, RetryBudget
    <3>5. /\ object'[Current(t)].failure_type = ClassifyFailure(result[p].error)
          /\ object'[Current(t)].retry_count = object[Current(t)].retry_count
          /\ \A o \in Object : object'[o].retry_count = object[o].retry_count
      BY <1>0, <1>3, <2>1, <2>6, <3>2
         DEF DeadLetter, UpdateTask, Fields, StoredTask, StoreTypeOK
    <3>6. ClassifyFailure(result[p].error) = "permanent"
          \/ object[job[p]].retry_count = MAX_RETRIES
      BY <3>2, <3>4 DEF DeadLetter, GivesUp
    <3>7. CASE ClassifyFailure(result[p].error) = "permanent"
      BY <1>3, <2>1, <3>5, <3>7
    <3>8. CASE object[job[p]].retry_count = MAX_RETRIES
      <4>1. object'[<<job[p][1], t>>].retry_count = MAX_RETRIES
        BY <2>2, <3>3, <3>5, <3>8
      <4>2. QED
        BY <3>3, <4>1
    <3>9. QED
      BY <3>6, <3>7, <3>8
  <2>7. CASE t = TaskOf(p) /\ pc'[p] = "failed"
    BY <2>3, <2>7
  <2>8. CASE t = TaskOf(p) /\ pc[p] # "failed" /\ pc'[p] # "failed"
    <3>1. object' = object
      BY <1>3, <2>1, <2>8 DEF Shape, NewStatus
    <3>2. QED
      BY <1>4, <2>1, <2>4, <2>8, <3>1
  <2>9. QED
    BY <2>5, <2>6, <2>7, <2>8
<1>13. QED
  BY <1>6, <1>7, <1>8, <1>10, <1>11, <1>12 DEF Next, Workload, Process

\* A task is dead-lettered only for a permanent error or when some object of its id
\* has used up the retries, for any plans, numbers of overlapping requests and
\* coroutines (retry_agent.py, handle_failure).
THEOREM DeadLetterJustifiedHolds == Spec => []DeadLetterJustified
<1>1. Init => DeadLetterJustified
  BY DEF Init, StoreInit, DeadLetterJustified, TasksByStatus, Stored
<1>2. CoreInv /\ RetryBudget /\ DeadLetterJustified /\ [Next]_vars => DeadLetterJustified'
  BY DeadLetterStep
<1>3. QED
  BY <1>1, <1>2, CoreInvariant, RetryBudgetHolds, PTL DEF Spec

-----------------------------------------------------------------------------
(* Dependency order *)

\* All that t waits for in every workload has executed successfully at least once.
NeedsExecuted(t) == \A d \in Needs[t] : execution_history[d] > 0

\* Why it has: a COMPLETED or VALIDATED task has executed, and a task is QUEUED only
\* when its dependencies were VALIDATED.
OrderInv ==
    /\ \A o \in Object : object[o].status \in {"completed", "validated", "stored"}
                            => execution_history[o[2]] > 0
    /\ \A p \in Pipe : pc[p] = "completed" => execution_history[TaskOf(p)] > 0
    /\ \A o \in Object : object[o].status = "queued" => NeedsExecuted(o[2])
    /\ DependenciesExecuted

\* What a task needs it needs in each workload that contains it.
LEMMA NeedsAreDependencies ==
    ASSUME NEW o \in Object, o[2] \in Plan[o[1]], NEW d \in Needs[o[2]]
    PROVE  d \in Task /\ d \in Dependencies(o)
<1>1. o[1] \in Request /\ o[2] \in Task /\ <<o[1], o[2]>> = o
  BY ObjectFacts
<1>2. d \in Task /\ \A r \in Request : o[2] \in Plan[r] => d \in Dependencies(<<r, o[2]>>)
  BY <1>1 DEF Needs
<1>3. QED
  BY <1>1, <1>2

\* A pass queues only tasks whose dependencies have executed.
LEMMA PassOrder ==
    ASSUME CoreInv, OrderInv, NEW list, list \subseteq Object,
           \A o \in list : o[2] \in Plan[o[1]], Pass(list)
    PROVE  /\ object' \in [Object -> TaskFields]
           /\ \A o \in Object :
                /\ object'[o].status = object[o].status \/ object'[o].status = "queued"
                /\ object'[o].status = "queued" => NeedsExecuted(o[2])
<1>0. StoreTypeOK /\ SchedTypeOK
  BY DEF CoreInv, TypeOK
<1>1. PICK S : PassResult(list, S)
  BY <1>0, PassFacts
<1>2. ASSUME NEW q \in S PROVE NeedsExecuted(q[2])
  <2>1. q \in Object /\ q[2] \in Plan[q[1]] /\ AreDependenciesMet(q)
    BY <1>1 DEF PassResult, IsPass
  <2>2. ASSUME NEW d \in Dependencies(q) PROVE execution_history[d] > 0
    <3>1. d \in Stored /\ object[Current(d)].status \in {"validated", "stored"}
      BY <2>1, <2>2 DEF AreDependenciesMet
    <3>2. Current(d) \in Object /\ Current(d)[2] = d
      BY <1>0, <3>1, CurrentFacts
    <3>3. QED
      BY <3>1, <3>2 DEF OrderInv
  <2>3. QED
    BY <2>1, <2>2, NeedsAreDependencies DEF NeedsExecuted
<1>3. ASSUME NEW o \in Object, object'[o].status = "queued" PROVE NeedsExecuted(o[2])
  <2>1. CASE o \in S
    BY <1>2, <2>1
  <2>2. CASE \E q \in S : o = Current(q[2])
    BY <1>2, <2>2 DEF Current
  <2>3. CASE ~(o \in S \/ \E q \in S : o = Current(q[2]))
    BY <1>1, <1>3, <2>3 DEF PassResult, OrderInv
  <2>4. QED
    BY <2>1, <2>2, <2>3
<1>4. QED
  BY <1>0, <1>3, PassStatus

\* New coroutines have queued tasks, the others keep theirs.
LEMMA SpawnOrder ==
    ASSUME CoreInv, OrderInv, NEW Q, NEW Done, NEW P, SpawnResult(Q, Done, P),
           \A t \in Q : NeedsExecuted(t),
           UNCHANGED execution_history
    PROVE  /\ DependenciesExecuted'
           /\ \A p \in Pipe : pc'[p] = "completed" => execution_history'[TaskOf(p)'] > 0
<1>1. ASSUME NEW p \in Pipe, pc'[p] # "free" PROVE NeedsExecuted(job'[p][2])
  <2>1. CASE p \in P
    BY <2>1 DEF SpawnResult, Current
  <2>2. CASE p \notin P
    BY <1>1, <2>2 DEF SpawnResult, OrderInv, DependenciesExecuted, Live, NeedsExecuted, TaskOf
  <2>3. QED
    BY <2>1, <2>2
<1>2. DependenciesExecuted'
  BY <1>1 DEF DependenciesExecuted, NeedsExecuted, Needs, Dependencies, Live, TaskOf
<1>3. \A p \in Pipe : pc'[p] = "completed" => execution_history'[TaskOf(p)'] > 0
  BY DEF SpawnResult, OrderInv, TaskOf
<1>4. QED
  BY <1>2, <1>3

\* OrderInv is inductive relative to CoreInv.
LEMMA OrderStep ==
    ASSUME CoreInv, OrderInv, [Next]_vars
    PROVE  OrderInv'
<1>0. /\ StoreTypeOK /\ SchedTypeOK /\ pending \subseteq Object
      /\ \A o \in pending : o[2] \in Plan[o[1]]
  BY DEF CoreInv, TypeOK, SchedTypeOK, HeldOrProduced
<1>1. CASE UNCHANGED <<object, execution_history, pc, job>>
  BY <1>1 DEF OrderInv, NeedsExecuted, Needs, DependenciesExecuted, Dependencies, TaskOf, Live
<1>2. ASSUME NEW r \in Request, ScheduleWorkload(r) PROVE OrderInv'
  <2> DEFINE list == pending \union PlanObjects(r)
  <2>1. list \subseteq Object /\ Pass(list) /\ UNCHANGED <<execution_history, pc, job>>
    BY <1>2, ScheduleList DEF ScheduleWorkload, Schedule
  <2>2. \A o \in list : o[2] \in Plan[o[1]]
    BY <1>0 DEF PlanObjects
  <2> HIDE DEF list
  <2>3. \A o \in Object :
            /\ object'[o].status = object[o].status \/ object'[o].status = "queued"
            /\ object'[o].status = "queued" => NeedsExecuted(o[2])
    BY <2>1, <2>2, PassOrder
  <2>4. QED
    BY <2>1, <2>3 DEF OrderInv, NeedsExecuted, Needs, DependenciesExecuted, Dependencies, TaskOf, Live
<1>3. ASSUME NEW r \in Request, LaunchWorkload(r) PROVE OrderInv'
  <2>1. UNCHANGED <<tasks, object, execution_history>>
        /\ Spawn(TasksByStatus("queued"), {})
    BY <1>3 DEF LaunchWorkload, storeVars
  <2>2. PICK P : SpawnResult(TasksByStatus("queued"), {}, P)
    BY <1>0, <2>1, SpawnFacts DEF TasksByStatus
  <2>3. \A t \in TasksByStatus("queued") : NeedsExecuted(t)
    BY <1>0, CurrentFacts DEF TasksByStatus, OrderInv
  <2>4. /\ DependenciesExecuted'
        /\ \A p \in Pipe : pc'[p] = "completed" => execution_history'[TaskOf(p)'] > 0
    BY <2>1, <2>2, <2>3, SpawnOrder
  <2>5. QED
    BY <2>1, <2>4 DEF OrderInv, NeedsExecuted, Needs, Dependencies
<1>4. ASSUME NEW p \in Pipe, Reschedule(p) PROVE OrderInv'
  <2> DEFINE Q == {d \in Stored : object'[Current(d)].status = "queued"}
  <2>1. /\ Live(p) /\ Spawn(Q, {p}) /\ Q \subseteq Stored /\ Pass(pending)
        /\ UNCHANGED execution_history
    BY <1>4 DEF Reschedule, RetryPending, Live
  <2>2. \A o \in Object :
            /\ object'[o].status = object[o].status \/ object'[o].status = "queued"
            /\ object'[o].status = "queued" => NeedsExecuted(o[2])
    BY <1>0, <2>1, PassOrder
  <2>3. \A t \in Q : NeedsExecuted(t)
    BY <1>0, <2>2, CurrentFacts
  <2> HIDE DEF Q
  <2>4. PICK P : SpawnResult(Q, {p}, P)
    BY <1>0, <2>1, SpawnFacts
  <2>5. /\ DependenciesExecuted'
        /\ \A q \in Pipe : pc'[q] = "completed" => execution_history'[TaskOf(q)'] > 0
    BY <2>1, <2>3, <2>4, SpawnOrder
  <2>6. QED
    BY <2>1, <2>2, <2>5 DEF OrderInv, NeedsExecuted, Needs, Dependencies
<1>5. ASSUME NEW p \in Pipe, Process(p), ~Reschedule(p) PROVE OrderInv'
  <2> DEFINE c == Current(TaskOf(p))
  <2>1. Live(p) /\ Frame(p) /\ Shape(p)
    BY <1>5, ProcessShape
  <2>2. /\ c \in Object /\ c[2] = TaskOf(p) /\ c[1] = tasks[TaskOf(p)]
        /\ job[p] \in Object /\ TaskOf(p) \in Stored /\ TaskOf(p) \in Task
        /\ job[p][1] \in Request /\ TaskOf(p) \in Plan[job[p][1]]
        /\ tasks[TaskOf(p)] \in Request
    BY <2>1, JobFacts
  <2>3. \A t \in Task : /\ execution_history[t] \in Nat
                        /\ execution_history'[t] >= execution_history[t]
    BY <1>0, <2>1 DEF Frame, StoreTypeOK
  <2>3a. \A t \in Task : execution_history[t] > 0 => execution_history'[t] > 0
    <3>1. SUFFICES ASSUME NEW t \in Task, execution_history[t] > 0
                   PROVE  execution_history'[t] > 0
      OBVIOUS
    <3>2. execution_history' \in [Task -> Nat]
      BY <1>5, CoreProcess DEF CoreInv, TypeOK, StoreTypeOK
    <3>3. QED
      BY <2>3, <3>1, <3>2
  <2>4. pc'[p] # "free" => TaskOf(p)' = TaskOf(p)
    BY <2>1, <2>2 DEF Frame, TaskOf
  <2>5. ASSUME NEW o \in Object, object'[o].status \in {"completed", "validated", "stored"}
        PROVE  execution_history'[o[2]] > 0
    <3>1. o[2] \in Task
      BY ObjectFacts
    <3>2. CASE object'[o].status = object[o].status
      BY <2>3a, <2>5, <3>1, <3>2 DEF OrderInv
    <3>3. CASE object'[o].status # object[o].status
      <4>1. o = c /\ NewStatus(p) \in {"completed", "validated", "stored"} /\ object' # object
        BY <2>1, <2>5, <3>3 DEF Frame, NewStatus
      <4>2. \/ execution_history'[TaskOf(p)] > 0
            \/ pc[p] = "completed"
        BY <2>1, <4>1 DEF Shape
      <4>3. QED
        BY <2>2, <2>3a, <4>1, <4>2 DEF OrderInv
    <3>4. QED
      BY <3>2, <3>3
  <2>6. ASSUME NEW q \in Pipe, pc'[q] = "completed"
        PROVE  execution_history'[TaskOf(q)'] > 0
    <3>1. CASE q = p
      BY <2>1, <2>4, <2>6, <3>1 DEF Shape
    <3>2. CASE q # p
      <4>1. pc[q] = "completed" /\ TaskOf(q)' = TaskOf(q)
        BY <2>1, <2>6, <3>2 DEF Frame, TaskOf
      <4>2. TaskOf(q) \in Task
        BY <4>1, JobFacts DEF Live
      <4>3. QED
        BY <2>3a, <4>1, <4>2 DEF OrderInv
    <3>3. QED
      BY <3>1, <3>2
  <2>7. \A t \in Task : NeedsExecuted(t) => NeedsExecuted(t)'
    BY <2>3a DEF NeedsExecuted, Needs, Dependencies
  <2>8. ASSUME NEW o \in Object, object'[o].status = "queued" PROVE NeedsExecuted(o[2])'
    <3>1. object[o].status = "queued"
      BY <2>1, <2>8 DEF Frame, Shape, NewStatus
    <3>2. QED
      BY <2>7, <3>1, ObjectFacts DEF OrderInv
  <2>9. ASSUME NEW q \in Pipe, pc'[q] # "free" PROVE NeedsExecuted(TaskOf(q))'
    <3>1. Live(q) /\ TaskOf(q)' = TaskOf(q)
      BY <2>1, <2>4, <2>9 DEF Frame, Live, TaskOf
    <3>2. TaskOf(q) \in Task /\ NeedsExecuted(TaskOf(q))
      BY <3>1, JobFacts DEF OrderInv, DependenciesExecuted, NeedsExecuted
    <3>3. QED
      BY <2>7, <3>1, <3>2
  <2>10. DependenciesExecuted'
    BY <2>9 DEF DependenciesExecuted, NeedsExecuted, Live
  <2>11. QED
    BY <2>5, <2>6, <2>8, <2>10 DEF OrderInv
<1>6. ASSUME NEW r \in Request, SubmitPlan(r) PROVE OrderInv'
  BY <1>1, <1>6 DEF SubmitPlan
<1>7. CASE UNCHANGED vars
  BY <1>1, <1>7 DEF vars, storeVars, loopVars
<1>8. QED
  BY <1>2, <1>3, <1>4, <1>5, <1>6, <1>7 DEF Next, Workload, Process

\* No coroutine works on a task before each task it waits for in all workloads has
\* executed successfully, for any plans and overlapping requests (scheduler.py "tasks
\* with unmet deps are held").
THEOREM DependenciesExecutedHolds == Spec => []DependenciesExecuted
<1>1. Init => OrderInv
  BY DEF Init, StoreInit, OrderInv, DependenciesExecuted, Created, Fields, Live
<1>2. CoreInv /\ OrderInv /\ [Next]_vars => OrderInv'
  BY OrderStep
<1>3. OrderInv => DependenciesExecuted
  BY DEF OrderInv
<1>4. QED
  BY <1>1, <1>2, <1>3, CoreInvariant, PTL DEF Spec

-----------------------------------------------------------------------------
(* The orchestrator implements the dependency gate. *)

\* Only a successful execution changes the history.
LEMMA HistoryStep ==
    ASSUME [Next]_vars
    PROVE  \/ UNCHANGED execution_history
           \/ \E p \in Pipe : ExecuteSucceeds(p)
BY DEF Next, vars, Workload, Process, storeVars, SubmitPlan, ScheduleWorkload, LaunchWorkload,
       Assign, Unavailable, Defer, RunTask, ExecuteFails, DeadLetter, ScheduleRetry,
       RetryAfterBackoff, Validate, Reschedule

\* A step of the orchestrator begins, ends or finishes work as the gate allows.
LEMMA GateStep ==
    ASSUME CoreInv, CoreInv', DependenciesExecuted', [Next]_vars
    PROVE  [Gate!Begin \/ Gate!Finish]_<<{TaskOf(p) : p \in {q \in Pipe : Live(q)}},
                                        {t \in Task : execution_history[t] > 0}>>
<1> DEFINE active == {TaskOf(p) : p \in {q \in Pipe : Live(q)}}
           done == {t \in Task : execution_history[t] > 0}
<1>1. CASE UNCHANGED execution_history
  <2>1. done' = done
    BY <1>1
  <2>2. ASSUME NEW t \in active' PROVE Needs[t] \subseteq done
    <3>1. PICK p \in Pipe : Live(p)' /\ t = TaskOf(p)'
      BY <2>2
    <3>2. TaskOf(p)' \in Task
      BY <3>1, ObjectFacts DEF CoreInv, TypeOK, TaskOf
    <3>3. QED
      BY <1>1, <3>1, <3>2 DEF DependenciesExecuted, Needs, Dependencies
  <2>3. QED
    BY <2>1, <2>2 DEF Gate!Begin
<1>2. ASSUME NEW p \in Pipe, ExecuteSucceeds(p)
      PROVE  Gate!Finish
  <2>1. Live(p) /\ UNCHANGED job /\ pc' = [pc EXCEPT ![p] = "completed"]
    BY <1>2 DEF ExecuteSucceeds, Goto, Live
  <2>2. TaskOf(p) \in Task /\ execution_history \in [Task -> Nat] /\ pc \in [Pipe -> PipePc]
    BY <2>1, JobFacts DEF CoreInv, TypeOK, StoreTypeOK
  <2>3. active' = active
    BY <2>1, <2>2 DEF Live, TaskOf
  <2>4. execution_history' = [execution_history EXCEPT ![TaskOf(p)] = @ + 1]
    BY <1>2 DEF ExecuteSucceeds, AddExecutionRecord
  <2>5. done' = done \union {TaskOf(p)}
    BY <2>2, <2>4
  <2>6. QED
    BY <2>1, <2>3, <2>5 DEF Gate!Finish
<1>3. QED
  BY <1>1, <1>2, HistoryStep

\* The orchestrator implements the abstract dependency gate for any plans and any
\* overlapping requests: work on a task is begun only when everything it waits for in
\* all workloads is done (process_single_task, run_workload).
THEOREM ImplementsGate == Spec => GateSpec
<1>1. Init => Gate!GateInit
  BY DEF Init, StoreInit, Live, Gate!GateInit
<1>2. CoreInv /\ CoreInv' /\ DependenciesExecuted' /\ [Next]_vars
        => [Gate!Begin \/ Gate!Finish]_<<{TaskOf(p) : p \in {q \in Pipe : Live(q)}},
                                        {t \in Task : execution_history[t] > 0}>>
  BY GateStep
<1>3. QED
  BY <1>1, <1>2, DependenciesExecutedHolds, CoreInvariant, PTL
     DEF Spec, GateSpec, Gate!GateSpec

-----------------------------------------------------------------------------
(* The aggregation *)

\* Every request runs a plan of the planner, as a request for n chunks makes it.
PlannedWorkloads ==
    \A r \in Request : \E n \in 1..MaxChunks :
        /\ Plan[r] = PlanTasks(n)
        /\ \A t \in PlanTasks(n) : Deps[r][t] = PlanDependencies(n, t)

\* What has been executed has had all it needs executed before.
HistoryClosed ==
    \A t \in Task : execution_history[t] > 0 =>
        \A d \in Needs[t] : execution_history[d] > 0

\* HistoryClosed is inductive while coroutines have what they need.
LEMMA HistoryClosedStep ==
    ASSUME CoreInv, DependenciesExecuted, HistoryClosed, [Next]_vars
    PROVE  HistoryClosed'
<1>1. CASE UNCHANGED execution_history
  BY <1>1 DEF HistoryClosed, Needs, Dependencies
<1>2. ASSUME NEW p \in Pipe, ExecuteSucceeds(p) PROVE HistoryClosed'
  <2>1. Live(p) /\ execution_history \in [Task -> Nat]
    BY <1>2 DEF ExecuteSucceeds, Live, CoreInv, TypeOK, StoreTypeOK
  <2>2. TaskOf(p) \in Task
    BY <2>1, JobFacts
  <2>3. \A t \in Task : execution_history'[t] = IF t = TaskOf(p) THEN execution_history[t] + 1
                                                               ELSE execution_history[t]
    BY <1>2, <2>1, <2>2 DEF ExecuteSucceeds, AddExecutionRecord
  <2>4. ASSUME NEW t \in Task, execution_history'[t] > 0, NEW d \in Needs[t]
        PROVE  d \in Task /\ execution_history[d] > 0
    BY <2>1, <2>3, <2>4 DEF HistoryClosed, DependenciesExecuted, Needs
  <2>5. ASSUME NEW t \in Task, execution_history'[t] > 0, NEW d \in Needs[t]
        PROVE  d \in Task /\ execution_history'[d] > 0
    BY <2>1, <2>3, <2>4, <2>5
  <2>6. QED
    BY <2>5 DEF HistoryClosed, Needs, Dependencies
<1>3. QED
  BY <1>1, <1>2, HistoryStep

\* A stage is found at its place in the list.
LEMMA StagePlaces ==
    /\ StageIndex("extract_ips") = 1 /\ StageIndex("deduplicate") = 2
    /\ StageIndex("classify") = 3 /\ StageIndex("blacklist_check") = 4
    /\ StageIndex("geolocation") = 5 /\ StageIndex("pattern_detect") = 6
    /\ StageIndex("generate_report") = 7
<1>1. /\ PIPELINE_STAGES[1].stage = "extract_ips" /\ PIPELINE_STAGES[2].stage = "deduplicate"
      /\ PIPELINE_STAGES[3].stage = "classify" /\ PIPELINE_STAGES[4].stage = "blacklist_check"
      /\ PIPELINE_STAGES[5].stage = "geolocation" /\ PIPELINE_STAGES[6].stage = "pattern_detect"
      /\ PIPELINE_STAGES[7].stage = "generate_report"
  BY DEF PIPELINE_STAGES
<1>2. 1..NumStages = {1, 2, 3, 4, 5, 6, 7}
  BY DEF NumStages
<1>3. QED
  BY <1>1, <1>2 DEF StageIndex

\* What the tasks of chunk c wait for, up the pipeline from its report.
LEMMA ChunkNeeds ==
    ASSUME NEW n \in 1..MaxChunks, NEW c \in 1..n
    PROVE  /\ <<"pattern_detect", c>> \in PlanDependencies(n, <<"generate_report", c>>)
           /\ <<"blacklist_check", c>> \in PlanDependencies(n, <<"pattern_detect", c>>)
           /\ <<"geolocation", c>> \in PlanDependencies(n, <<"pattern_detect", c>>)
           /\ <<"classify", c>> \in PlanDependencies(n, <<"geolocation", c>>)
           /\ <<"deduplicate", c>> \in PlanDependencies(n, <<"classify", c>>)
           /\ <<"extract_ips", c>> \in PlanDependencies(n, <<"deduplicate", c>>)
<1>1. /\ PIPELINE_STAGES[2].depends_on = {"extract_ips"}
      /\ PIPELINE_STAGES[3].depends_on = {"deduplicate"}
      /\ PIPELINE_STAGES[5].depends_on = {"classify"}
      /\ PIPELINE_STAGES[6].depends_on = {"blacklist_check", "geolocation"}
      /\ PIPELINE_STAGES[7].depends_on = {"pattern_detect"}
  BY DEF PIPELINE_STAGES
<1>2. QED
  BY <1>1, StagePlaces DEF PlanDependencies, ChunkDependencies, Aggregate

\* The tasks of a plan, one by one.
LEMMA PlanMembers ==
    ASSUME NEW n \in 1..MaxChunks, NEW c \in 1..n
    PROVE  ChunkTasks(c) = {<<"extract_ips", c>>, <<"deduplicate", c>>, <<"classify", c>>,
                            <<"blacklist_check", c>>, <<"geolocation", c>>,
                            <<"pattern_detect", c>>, <<"generate_report", c>>}
           /\ ChunkTasks(c) \subseteq PlanTasks(n)
<1>1. ChunkTasks(c) \subseteq PlanTasks(n)
  BY DEF PlanTasks
<1>2. 1..NumStages = {1, 2, 3, 4, 5, 6, 7}
  BY DEF NumStages
<1>3. ChunkTasks(c) = {<<PIPELINE_STAGES[1].stage, c>>, <<PIPELINE_STAGES[2].stage, c>>,
          <<PIPELINE_STAGES[3].stage, c>>, <<PIPELINE_STAGES[4].stage, c>>,
          <<PIPELINE_STAGES[5].stage, c>>, <<PIPELINE_STAGES[6].stage, c>>,
          <<PIPELINE_STAGES[7].stage, c>>}
  BY <1>2 DEF ChunkTasks
<1>4. QED
  BY <1>1, <1>3 DEF PIPELINE_STAGES

\* A task of a chunk needs what its plan names, because every plan names the same.
LEMMA ChunkTaskNeeds ==
    ASSUME PlannedWorkloads, NEW r \in Request, NEW n \in 1..MaxChunks, Plan[r] = PlanTasks(n),
           \A t \in PlanTasks(n) : Deps[r][t] = PlanDependencies(n, t),
           NEW c \in 1..n, NEW t \in ChunkTasks(c), NEW d \in PlanDependencies(n, t)
    PROVE  d \in Needs[t]
<1>1. t \in Plan[r] /\ t \in Task /\ t # Aggregate
  BY PlanMembers, PlanAssumption DEF Aggregate
<1>2. d \in Task
  BY <1>1, PlanAssumption
<1>3. ASSUME NEW q \in Request, t \in Plan[q] PROVE d \in Dependencies(<<q, t>>)
  <2>1. PICK m \in 1..MaxChunks : /\ Plan[q] = PlanTasks(m)
                                  /\ \A u \in PlanTasks(m) : Deps[q][u] = PlanDependencies(m, u)
    BY DEF PlannedWorkloads
  <2>2. Deps[q][t] = PlanDependencies(n, t)
    BY <1>1, <1>3, <2>1 DEF PlanDependencies
  <2>3. QED
    BY <2>2 DEF Dependencies
<1>4. QED
  BY <1>1, <1>2, <1>3 DEF Needs

\* A chunk whose report has been executed has been executed as a whole.
LEMMA ChunkExecuted ==
    ASSUME PlannedWorkloads, HistoryClosed, NEW r \in Request, NEW n \in 1..MaxChunks,
           Plan[r] = PlanTasks(n), \A t \in PlanTasks(n) : Deps[r][t] = PlanDependencies(n, t),
           NEW c \in 1..n, execution_history[<<"generate_report", c>>] > 0
    PROVE  \A t \in ChunkTasks(c) : execution_history[t] > 0
<1>1. ASSUME NEW t \in ChunkTasks(c), execution_history[t] > 0,
             NEW d \in PlanDependencies(n, t)
      PROVE  execution_history[d] > 0
  <2>1. t \in Task
    BY PlanMembers, PlanAssumption
  <2>2. d \in Needs[t]
    BY ChunkTaskNeeds
  <2>3. QED
    BY <1>1, <2>1, <2>2 DEF HistoryClosed
<1>2. execution_history[<<"pattern_detect", c>>] > 0
  BY <1>1, ChunkNeeds, PlanMembers
<1>3. execution_history[<<"blacklist_check", c>>] > 0
      /\ execution_history[<<"geolocation", c>>] > 0
  BY <1>1, <1>2, ChunkNeeds, PlanMembers
<1>4. execution_history[<<"classify", c>>] > 0
  BY <1>1, <1>3, ChunkNeeds, PlanMembers
<1>5. execution_history[<<"deduplicate", c>>] > 0
  BY <1>1, <1>4, ChunkNeeds, PlanMembers
<1>6. execution_history[<<"extract_ips", c>>] > 0
  BY <1>1, <1>5, ChunkNeeds, PlanMembers
<1>7. QED
  BY <1>2, <1>3, <1>4, <1>5, <1>6, PlanMembers

\* A chunk number is shared by all plans when one of its tasks is.
LEMMA SharedChunk ==
    ASSUME NEW m \in 1..MaxChunks, NEW c \in Nat, NEW t \in ChunkTasks(c), t \in PlanTasks(m)
    PROVE  c \in 1..m
<1>1. t[2] = c /\ t # Aggregate
  <2>1. PICK i \in 1..NumStages : t = <<PIPELINE_STAGES[i].stage, c>>
    BY DEF ChunkTasks
  <2>2. PIPELINE_STAGES[i].stage # "aggregate_final"
    BY <2>1 DEF PIPELINE_STAGES, NumStages
  <2>3. QED
    BY <2>1, <2>2 DEF Aggregate
<1>2. PICK e \in 1..m : t \in ChunkTasks(e)
  BY <1>1 DEF PlanTasks
<1>3. t[2] = e
  BY <1>2 DEF ChunkTasks
<1>4. QED
  BY <1>1, <1>2, <1>3

\* The aggregation waits for the reports only, and is nevertheless last among the tasks
\* that all requests share, for requests with any numbers of chunks, equal or not, that
\* the planner has planned, in any interleaving of resubmissions, duplicates and retries
\* (planner.py, PIPELINE_STAGES and plan).
THEOREM AggregateAfterAllHolds ==
    ASSUME PlannedWorkloads
    PROVE  Spec => []AggregateAfterAll
<1>1. Init => HistoryClosed
  BY DEF Init, StoreInit, HistoryClosed
<1>2. CoreInv /\ DependenciesExecuted /\ HistoryClosed /\ [Next]_vars => HistoryClosed'
  BY HistoryClosedStep
<1>3. CoreInv /\ DependenciesExecuted /\ HistoryClosed => AggregateAfterAll
  <2> SUFFICES ASSUME CoreInv, DependenciesExecuted, HistoryClosed,
                      NEW p \in Pipe, Live(p), TaskOf(p) = Aggregate,
                      NEW t \in Task \ {Aggregate}, \A r \in Request : t \in Plan[r]
               PROVE  execution_history[t] > 0
    BY DEF AggregateAfterAll
  <2> DEFINE r == job[p][1]
  <2>1. r \in Request /\ Aggregate \in Task
    BY JobFacts
  <2>2. PICK n \in 1..MaxChunks :
          /\ Plan[r] = PlanTasks(n)
          /\ \A u \in PlanTasks(n) : Deps[r][u] = PlanDependencies(n, u)
    BY <2>1 DEF PlannedWorkloads
  <2>3. PICK c \in 1..n : t \in ChunkTasks(c)
    <3>1. t \in PlanTasks(n) /\ t # Aggregate
      BY <2>1, <2>2
    <3>2. t \in UNION {ChunkTasks(c) : c \in 1..n}
      BY <3>1 DEF PlanTasks
    <3>3. QED
      BY <3>2
  <2> DEFINE report == <<"generate_report", c>>
  <2>4. report \in Task
    BY <2>1, <2>2, PlanMembers, PlanAssumption
  <2>5. ASSUME NEW q \in Request, Aggregate \in Plan[q]
        PROVE  report \in Dependencies(<<q, Aggregate>>)
    <3>1. PICK m \in 1..MaxChunks :
            /\ Plan[q] = PlanTasks(m)
            /\ \A u \in PlanTasks(m) : Deps[q][u] = PlanDependencies(m, u)
      BY DEF PlannedWorkloads
    <3>2. c \in 1..m
      BY <2>3, <3>1, SharedChunk
    <3>3. QED
      BY <2>5, <3>1, <3>2 DEF Dependencies, PlanDependencies
  <2>6. report \in Needs[Aggregate]
    BY <2>1, <2>4, <2>5 DEF Needs
  <2>7. execution_history[report] > 0
    BY <2>6 DEF DependenciesExecuted
  <2> HIDE DEF r
  <2>8. QED
    BY <2>1, <2>2, <2>3, <2>7, ChunkExecuted
<1>4. QED
  BY <1>1, <1>2, <1>3, DependenciesExecutedHolds, CoreInvariant, PTL DEF Spec

-----------------------------------------------------------------------------
\* The score of an execution never decides: CriticAgent.validate accepts a result
\* exactly if its dependencies are validated and its time is sane, for any times.
THEOREM ScoreNeverDecidesHolds == Spec => []ScoreNeverDecides
<1>1. ASSUME NEW time PROVE Efficiency(time) \in {5, 10, 15, 20}
  BY DEF Efficiency
<1>2. ASSUME NEW p \in Pipe, NEW variance \in Variance, DepsValid(p), TimeValid(p)
      PROVE  IsValid(p, variance)
  <2>1. QualityScore(TRUE, TRUE, result[p].execution_time, variance) >= 50
    BY <1>1 DEF QualityScore, Variance
  <2>2. QED
    BY <1>2, <2>1 DEF IsValid, QualityScore
<1>3. ScoreNeverDecides
  BY <1>2 DEF ScoreNeverDecides, IsValid
<1>4. QED
  BY <1>3, PTL

-----------------------------------------------------------------------------
(* The ledgers *)

Completions == [w \in Worker |-> workers[w].tasks_completed]
Failures == [w \in Worker |-> workers[w].tasks_failed]
Retries == [o \in Object |-> object[o].retry_count]

\* The coroutines whose failure is counted by its worker but not logged yet.
Unlogged == {p \in Pipe : pc[p] = "failed"}

\* What the ledgers sum over is finite, and what they sum up are natural numbers.
LedgerTypes ==
    /\ IsFiniteSet(Worker) /\ IsFiniteSet(Task) /\ IsFiniteSet(Object)
    /\ IsFiniteSet(Unlogged) /\ Cardinality(Unlogged) \in Nat
    /\ Completions \in [Worker -> Nat] /\ Failures \in [Worker -> Nat]
    /\ execution_history \in [Task -> Nat] /\ failure_logs \in [Task -> Nat]
    /\ Retries \in [Object -> Nat]
    /\ SumFunction(Completions) \in Nat /\ SumFunction(Failures) \in Nat
    /\ SumFunction(execution_history) \in Nat /\ SumFunction(failure_logs) \in Nat
    /\ SumFunction(Retries) \in Nat /\ total_retries \in Nat

\* LedgerTypes follows from the types of the variables.
LEMMA LedgersTyped == CoreInv => LedgerTypes
<1> SUFFICES ASSUME TypeOK PROVE LedgerTypes
  BY DEF CoreInv
<1>1. IsFiniteSet(Worker)
  <2>1. NUM_CPU_WORKERS + NUM_IO_WORKERS \in Nat
    BY NumWorkersAssumption
  <2>2. QED
    BY <2>1, FS_Interval DEF Worker
<1>2. IsFiniteSet(Object)
  BY RequestAssumption, TaskAssumption, FS_Product DEF Object
<1>3. IsFiniteSet(Unlogged) /\ Cardinality(Unlogged) \in Nat
  BY PipeAssumption, FS_Subset, FS_CardinalityType DEF Unlogged
<1>4. Completions \in [Worker -> Nat] /\ Failures \in [Worker -> Nat]
  BY DEF TypeOK, LBTypeOK, WorkerStatus, Completions, Failures
<1>5. /\ execution_history \in [Task -> Nat] /\ failure_logs \in [Task -> Nat]
      /\ Retries \in [Object -> Nat] /\ total_retries \in Nat
  BY DEF TypeOK, StoreTypeOK, TaskFields, Retries
<1>6. QED
  BY <1>1, <1>2, <1>3, <1>4, <1>5, TaskAssumption, SumType DEF LedgerTypes

\* The two ledgers of the workers, and the one of the retries.
WorkerLedgers ==
    /\ SumFunction(Completions) = SumFunction(execution_history)
    /\ SumFunction(Failures) = SumFunction(failure_logs) + Cardinality(Unlogged)

RetryLedger == total_retries = SumFunction(Retries)

\* At most one request was submitted: a coroutine's own object is the stored one.
SingleRequest == \A q, r \in Request : q = r

\* LedgersAgree in two parts, the workers' books and the retry counter.
LEMMA LedgersAreLedgers ==
    LedgersAgree <=> WorkerLedgers /\ (Cardinality(Request) = 1 => RetryLedger)
BY DEF LedgersAgree, WorkerLedgers, RetryLedger, Completions, Failures, Retries, Unlogged

\* An execution is counted and recorded in one step; a failure is counted when the
\* worker is released and logged when the coroutine leaves "failed".
LEMMA WorkerLedgersStep ==
    ASSUME CoreInv, LedgerTypes, LedgerTypes', WorkerLedgers, [Next]_vars
    PROVE  WorkerLedgers'
<1>0. /\ LBTypeOK /\ StoreTypeOK
      /\ pc \in [Pipe -> PipePc]
      /\ workers \in [Worker -> WorkerStatus]
  BY DEF CoreInv, TypeOK, LBTypeOK
<1>1. ASSUME Completions' = Completions, Failures' = Failures, Unlogged' = Unlogged,
             UNCHANGED <<execution_history, failure_logs>>
      PROVE  WorkerLedgers'
  BY <1>1 DEF WorkerLedgers
<1>2. ASSUME UNCHANGED workers
      PROVE  Completions' = Completions /\ Failures' = Failures
  BY <1>2 DEF Completions, Failures
<1>3. ASSUME NEW p \in Pipe, NEW success \in BOOLEAN, pc[p] = "running",
             ReleaseWorker(p, success)
      PROVE  \E w \in Worker :
                /\ \A v \in Worker \ {w} :
                      Completions'[v] = Completions[v] /\ Failures'[v] = Failures[v]
                /\ Completions'[w] = Completions[w] + (IF success THEN 1 ELSE 0)
                /\ Failures'[w] = Failures[w] + (IF success THEN 0 ELSE 1)
  <2>1. worker_id[p] \in Worker
    BY <1>0, <1>3 DEF LBTypeOK, ReleaseWorker
  <2>2. workers' = [workers EXCEPT ![worker_id[p]] = Released(workers[worker_id[p]], success)]
    BY <1>3 DEF ReleaseWorker
  <2>3. QED
    BY <1>0, <2>1, <2>2 DEF Completions, Failures, Released
<1>4. CASE UNCHANGED vars
  BY <1>1, <1>2, <1>4 DEF vars, lbVars, storeVars, loopVars, Unlogged
<1>5. ASSUME NEW r \in Request, SubmitPlan(r) \/ ScheduleWorkload(r) PROVE WorkerLedgers'
  BY <1>1, <1>2, <1>5 DEF SubmitPlan, ScheduleWorkload, lbVars, Unlogged
<1>6. ASSUME NEW r \in Request, LaunchWorkload(r) PROVE WorkerLedgers'
  <2>1. PICK P : SpawnResult(TasksByStatus("queued"), {}, P)
    BY <1>0, <1>6, SpawnFacts DEF LaunchWorkload, TasksByStatus
  <2>2. Unlogged' = Unlogged
    BY <2>1 DEF SpawnResult, Unlogged
  <2>3. QED
    BY <1>1, <1>2, <1>6, <2>2 DEF LaunchWorkload, lbVars, storeVars
<1>7. ASSUME NEW p \in Pipe, Reschedule(p) PROVE WorkerLedgers'
  <2> DEFINE Q == {d \in Stored : object'[Current(d)].status = "queued"}
  <2>1. Live(p) /\ Spawn(Q, {p}) /\ Q \subseteq Stored /\ pc[p] = "reschedule"
    BY <1>7 DEF Reschedule, Live
  <2> HIDE DEF Q
  <2>2. PICK P : SpawnResult(Q, {p}, P)
    BY <1>0, <2>1, SpawnFacts
  <2>3. Unlogged' = Unlogged
    BY <2>1, <2>2 DEF SpawnResult, Unlogged
  <2>4. QED
    BY <1>1, <1>2, <1>7, <2>3 DEF Reschedule, lbVars
<1>8. ASSUME NEW p \in Pipe, Assign(p) PROVE WorkerLedgers'
  <2>1. PICK w \in LeastLoaded(Partition[TaskOf(p)]) :
            workers' = [workers EXCEPT ![w] = Busy(workers[w], TaskOf(p))]
    BY <1>8 DEF Assign, AssignWorker
  <2>2. w \in Worker
    BY <2>1 DEF LeastLoaded, Candidates
  <2>3. Completions' = Completions /\ Failures' = Failures
    BY <1>0, <2>1, <2>2 DEF Completions, Failures, Busy
  <2>4. Unlogged' = Unlogged
    BY <1>0, <1>8 DEF Assign, Goto, Unlogged
  <2>5. QED
    BY <1>1, <1>8, <2>3, <2>4 DEF Assign
<1>9. ASSUME NEW p \in Pipe,
             Unavailable(p) \/ Defer(p) \/ RunTask(p) \/ RetryAfterBackoff(p) \/ Validate(p)
      PROVE  WorkerLedgers'
  <2>1. Unlogged' = Unlogged
    BY <1>0, <1>9 DEF Unavailable, Defer, RunTask, RetryAfterBackoff, Validate, Goto, Return,
                      Unlogged
  <2>2. UNCHANGED <<workers, execution_history, failure_logs>>
    BY <1>9 DEF Unavailable, Defer, RunTask, RetryAfterBackoff, Validate, lbVars, storeVars
  <2>3. QED
    BY <1>1, <1>2, <2>1, <2>2
<1>10. ASSUME NEW p \in Pipe, ExecuteSucceeds(p) PROVE WorkerLedgers'
  <2>1. Live(p) /\ pc[p] = "running" /\ ReleaseWorker(p, TRUE)
    BY <1>10 DEF ExecuteSucceeds, Live
  <2>2. TaskOf(p) \in Task
    BY <2>1, JobFacts
  <2>3. PICK w \in Worker :
          /\ \A v \in Worker \ {w} :
                Completions'[v] = Completions[v] /\ Failures'[v] = Failures[v]
          /\ Completions'[w] = Completions[w] + 1 /\ Failures'[w] = Failures[w] + 0
    BY <1>3, <2>1
  <2>4. /\ \A t \in Task \ {TaskOf(p)} : execution_history'[t] = execution_history[t]
        /\ execution_history'[TaskOf(p)] = execution_history[TaskOf(p)] + 1
    BY <1>0, <1>10, <2>2 DEF ExecuteSucceeds, AddExecutionRecord, StoreTypeOK
  <2>5. SumFunction(Completions') + Completions[w] = SumFunction(Completions) + Completions'[w]
    BY <1>0, <2>3, SumUpdate DEF LedgerTypes
  <2>6. SumFunction(execution_history') + execution_history[TaskOf(p)]
        = SumFunction(execution_history) + execution_history'[TaskOf(p)]
    BY <1>0, <2>2, <2>4, SumUpdate DEF LedgerTypes
  <2>7. Failures' = Failures
    BY <1>0, <2>3 DEF LedgerTypes
  <2>8. Unlogged' = Unlogged /\ UNCHANGED failure_logs
    BY <1>0, <1>10, <2>1 DEF ExecuteSucceeds, Goto, Unlogged
  <2>9. SumFunction(Completions') = SumFunction(execution_history')
    BY <1>0, <2>2, <2>3, <2>4, <2>5, <2>6 DEF WorkerLedgers, LedgerTypes
  <2>10. QED
    BY <2>7, <2>8, <2>9 DEF WorkerLedgers
<1>11. ASSUME NEW p \in Pipe, ExecuteFails(p) PROVE WorkerLedgers'
  <2>1. Live(p) /\ pc[p] = "running" /\ ReleaseWorker(p, FALSE)
    BY <1>11 DEF ExecuteFails, Live
  <2>2. PICK w \in Worker :
          /\ \A v \in Worker \ {w} :
                Completions'[v] = Completions[v] /\ Failures'[v] = Failures[v]
          /\ Completions'[w] = Completions[w] + 0 /\ Failures'[w] = Failures[w] + 1
    BY <1>3, <2>1
  <2>3. Completions' = Completions /\ UNCHANGED <<execution_history, failure_logs>>
    BY <1>0, <1>11, <2>2 DEF ExecuteFails, LedgerTypes
  <2>4. SumFunction(Failures') + Failures[w] = SumFunction(Failures) + Failures'[w]
    BY <1>0, <2>2, SumUpdate DEF LedgerTypes
  <2>5. Unlogged' = Unlogged \union {p} /\ p \notin Unlogged
    BY <1>0, <1>11, <2>1 DEF ExecuteFails, Goto, Unlogged
  <2>6. Cardinality(Unlogged') = Cardinality(Unlogged) + 1
    BY <1>0, <2>5, FS_AddElement DEF LedgerTypes
  <2>7. SumFunction(Failures') = SumFunction(failure_logs') + Cardinality(Unlogged')
    BY <1>0, <2>2, <2>3, <2>4, <2>6 DEF WorkerLedgers, LedgerTypes
  <2>8. QED
    BY <2>3, <2>7 DEF WorkerLedgers
<1>12. ASSUME NEW p \in Pipe, DeadLetter(p) \/ ScheduleRetry(p) PROVE WorkerLedgers'
  <2>1. Live(p) /\ pc[p] = "failed" /\ AddFailureLog(TaskOf(p)) /\ pc'[p] # "failed"
    BY <1>0, <1>12 DEF DeadLetter, ScheduleRetry, Live, Goto, Return
  <2>2. TaskOf(p) \in Task
    BY <2>1, JobFacts
  <2>3. UNCHANGED <<workers, execution_history>>
    BY <1>12 DEF DeadLetter, ScheduleRetry, lbVars
  <2>4. /\ \A t \in Task \ {TaskOf(p)} : failure_logs'[t] = failure_logs[t]
        /\ failure_logs'[TaskOf(p)] = failure_logs[TaskOf(p)] + 1
    BY <1>0, <2>1, <2>2 DEF AddFailureLog, StoreTypeOK
  <2>5. SumFunction(failure_logs') + failure_logs[TaskOf(p)]
        = SumFunction(failure_logs) + failure_logs'[TaskOf(p)]
    BY <1>0, <2>2, <2>4, SumUpdate DEF LedgerTypes
  <2>6. Unlogged' = Unlogged \ {p} /\ p \in Unlogged
    BY <1>0, <1>12, <2>1 DEF DeadLetter, ScheduleRetry, Goto, Return, Unlogged
  <2>7. Cardinality(Unlogged') = Cardinality(Unlogged) - 1
    BY <1>0, <2>6, FS_RemoveElement DEF LedgerTypes
  <2>8. Completions' = Completions /\ Failures' = Failures
    BY <1>2, <2>3
  <2>9. SumFunction(Failures') = SumFunction(failure_logs') + Cardinality(Unlogged')
    BY <1>0, <2>2, <2>4, <2>5, <2>7, <2>8 DEF WorkerLedgers, LedgerTypes
  <2>10. QED
    BY <2>3, <2>8, <2>9 DEF WorkerLedgers
<1>13. QED
  BY <1>4, <1>5, <1>6, <1>7, <1>8, <1>9, <1>10, <1>11, <1>12 DEF Next, Workload, Process

\* Only the retry agent's schedule_retry touches a retry count or total_retries.
LEMMA RetriesKept ==
    ASSUME CoreInv, [Next]_vars, \A p \in Pipe : ~ScheduleRetry(p)
    PROVE  Retries' = Retries /\ total_retries' = total_retries
<1>0. StoreTypeOK
  BY DEF CoreInv, TypeOK
<1>1. total_retries' = total_retries
  BY DEF Next, vars, Workload, Process, storeVars, SubmitPlan, ScheduleWorkload,
         LaunchWorkload, Assign, Unavailable, Defer, RunTask, ExecuteFails, ExecuteSucceeds,
         DeadLetter, RetryAfterBackoff, Validate, Reschedule
<1>2. SUFFICES \A o \in Object : object'[o].retry_count = object[o].retry_count
  BY <1>1 DEF Retries
<1>3. CASE UNCHANGED object
  BY <1>3
<1>4. ASSUME NEW list, list \subseteq Object, Pass(list)
      PROVE  \A o \in Object : object'[o].retry_count = object[o].retry_count
  BY <1>0, <1>4, PassStatus DEF CoreInv, TypeOK
<1>5. ASSUME NEW r \in Request, ScheduleWorkload(r)
      PROVE  \A o \in Object : object'[o].retry_count = object[o].retry_count
  <2>1. Pass(pending \union PlanObjects(r))
    BY <1>5 DEF ScheduleWorkload, Schedule
  <2>2. QED
    BY <1>4, <2>1, ScheduleList
<1>6. ASSUME NEW p \in Pipe, Reschedule(p)
      PROVE  \A o \in Object : object'[o].retry_count = object[o].retry_count
  <2>1. Pass(pending) /\ pending \subseteq Object
    BY <1>6 DEF Reschedule, RetryPending, CoreInv, TypeOK, SchedTypeOK
  <2>2. QED
    BY <1>4, <2>1
<1>7. ASSUME NEW p \in Pipe, Live(p), NEW fields \in TaskFields,
             UpdateTask(TaskOf(p), fields), fields.retry_count = StoredTask(p).retry_count
      PROVE  \A o \in Object : object'[o].retry_count = object[o].retry_count
  BY <1>0, <1>7, JobFacts, UpdateFacts DEF StoredTask
<1>8. ASSUME NEW p \in Pipe, Live(p), NEW s \in TaskStatus, SetStatus(TaskOf(p), s)
      PROVE  \A o \in Object : object'[o].retry_count = object[o].retry_count
  <2>1. StoredTask(p) \in TaskFields
    BY <1>8, JobFacts
  <2>2. UpdateTask(TaskOf(p), WithStatus(StoredTask(p), s))
    BY <1>8 DEF SetStatus, StoredTask
  <2>3. QED
    BY <1>7, <1>8, <2>1, <2>2, WithStatusType
<1>9. ASSUME NEW p \in Pipe, Assign(p)
      PROVE  \A o \in Object : object'[o].retry_count = object[o].retry_count
  <2>1. Live(p)
    BY <1>9 DEF Assign, Live
  <2>2. PICK w \in Worker : worker_id'[p] = w
    BY <1>9 DEF Assign, AssignWorker, LeastLoaded, Candidates, CoreInv, TypeOK, LBTypeOK
  <2>3. /\ StoredTask(p).retry_count \in Nat
        /\ StoredTask(p).failure_type \in {"transient", "permanent", None}
    BY <2>1, JobFacts DEF TaskFields
  <2> DEFINE fields == Fields("assigned", StoredTask(p).retry_count,
                              StoredTask(p).failure_type, w)
  <2>4. fields \in TaskFields /\ fields.retry_count = StoredTask(p).retry_count
    BY <2>3, FieldsType DEF Fields, TaskStatus
  <2>5. UpdateTask(TaskOf(p), fields)
    BY <1>9, <2>2 DEF Assign
  <2> HIDE DEF fields
  <2>6. QED
    BY <1>7, <2>1, <2>4, <2>5
<1>10. ASSUME NEW p \in Pipe, DeadLetter(p)
       PROVE  \A o \in Object : object'[o].retry_count = object[o].retry_count
  <2>1. Live(p)
    BY <1>10 DEF DeadLetter, Live
  <2>2. /\ StoredTask(p).retry_count \in Nat
        /\ StoredTask(p).assigned_worker \in Worker \union {None}
        /\ ClassifyFailure(result[p].error) \in {"transient", "permanent", None}
    BY <2>1, JobFacts, ClassifyType DEF TaskFields
  <2> DEFINE fields == Fields("failed", StoredTask(p).retry_count,
                              ClassifyFailure(result[p].error),
                              StoredTask(p).assigned_worker)
  <2>3. fields \in TaskFields /\ fields.retry_count = StoredTask(p).retry_count
    BY <2>2, FieldsType DEF Fields, TaskStatus
  <2>4. UpdateTask(TaskOf(p), fields)
    BY <1>10 DEF DeadLetter
  <2> HIDE DEF fields
  <2>5. QED
    BY <1>7, <2>1, <2>3, <2>4
<1>11. ASSUME NEW p \in Pipe, RunTask(p) \/ ExecuteFails(p) \/ ExecuteSucceeds(p) \/ Validate(p)
       PROVE  \A o \in Object : object'[o].retry_count = object[o].retry_count
  BY <1>3, <1>8, <1>11 DEF RunTask, ExecuteFails, ExecuteSucceeds, Validate, Live, TaskStatus
<1>12. QED
  BY <1>3, <1>5, <1>6, <1>9, <1>10, <1>11
     DEF Next, Workload, Process, vars, storeVars, SubmitPlan, LaunchWorkload,
         Unavailable, Defer, RetryAfterBackoff

\* With a single request, a coroutine's own object is the stored one, so a retry adds
\* one to the stored count and one to the total.
LEMMA RetryLedgerStep ==
    ASSUME SingleRequest, CoreInv, LedgerTypes, LedgerTypes', RetryLedger, [Next]_vars
    PROVE  RetryLedger'
<1>1. CASE \A p \in Pipe : ~ScheduleRetry(p)
  BY <1>1, RetriesKept DEF RetryLedger
<1>2. ASSUME NEW p \in Pipe, ScheduleRetry(p) PROVE RetryLedger'
  <2> DEFINE c == Current(TaskOf(p))
  <2>0. StoreTypeOK
    BY DEF CoreInv, TypeOK
  <2>1. Live(p)
    BY <1>2 DEF ScheduleRetry, Live
  <2>2. c \in Object /\ TaskOf(p) \in Stored /\ job[p] = c
    BY <2>1, JobFacts, ObjectFacts DEF SingleRequest, TaskOf, Current
  <2>3. object[c].retry_count \in Nat
    BY <2>0, <2>2 DEF StoreTypeOK, TaskFields
  <2>4. UpdateTask(TaskOf(p), Fields("created", object[c].retry_count + 1,
                                     ClassifyFailure(result[p].error), None))
        /\ total_retries' = total_retries + 1
    BY <1>2, <2>2 DEF ScheduleRetry, IncrementRetries
  <2>5. /\ object'[c].retry_count = object[c].retry_count + 1
        /\ \A o \in Object : o # c => object'[o] = object[o]
    BY <2>0, <2>2, <2>4 DEF UpdateTask, Fields, StoreTypeOK
  <2>6. /\ Retries'[c] = Retries[c] + 1
        /\ \A o \in Object \ {c} : Retries'[o] = Retries[o]
    BY <2>2, <2>5 DEF Retries
  <2> HIDE DEF c
  <2>7. SumFunction(Retries') + Retries[c] = SumFunction(Retries) + Retries'[c]
    BY <2>0, <2>2, <2>6, SumUpdate DEF LedgerTypes
  <2>8. Retries[c] \in Nat
    BY <2>0, <2>2 DEF LedgerTypes
  <2>9. QED
    BY <2>0, <2>4, <2>6, <2>7, <2>8 DEF RetryLedger, LedgerTypes
<1>3. QED
  BY <1>1, <1>2

\* Everything is counted once: the workers' counters add up to the execution history
\* and, up to the failures on their way to the log, to the failure logs; with one
\* request total_retries adds up to the tasks' retry counts.  For any workloads and
\* numbers of workers, coroutines and retries (store/task_store.py, retry_agent.py).
THEOREM LedgersAgreeHolds == Spec => []LedgersAgree
<1> DEFINE Inv == WorkerLedgers /\ (Cardinality(Request) = 1 => RetryLedger)
<1>1. Init => Inv
  <2> SUFFICES ASSUME Init PROVE Inv
    OBVIOUS
  <2>1. LedgerTypes
    BY CoreInit, LedgersTyped
  <2>2. /\ \A w \in Worker : Completions[w] = 0 /\ Failures[w] = 0
        /\ \A t \in Task : execution_history[t] = 0 /\ failure_logs[t] = 0
        /\ \A o \in Object : Retries[o] = 0
        /\ total_retries = 0 /\ Unlogged = {}
    BY DEF Init, LBInit, StoreInit, Registered, Created, Fields, Completions, Failures,
           Retries, Unlogged
  <2>3. /\ SumFunction(Completions) = 0 /\ SumFunction(Failures) = 0
        /\ SumFunction(execution_history) = 0 /\ SumFunction(failure_logs) = 0
        /\ SumFunction(Retries) = 0
    BY <2>1, <2>2, SumZero DEF LedgerTypes
  <2>4. Cardinality(Unlogged) = 0
    BY <2>2, FS_EmptySet
  <2>5. QED
    BY <2>2, <2>3, <2>4 DEF WorkerLedgers, RetryLedger
<1>2. CoreInv /\ LedgerTypes /\ LedgerTypes' /\ Inv /\ [Next]_vars => Inv'
  <2>1. Cardinality(Request) = 1 => SingleRequest
    BY RequestAssumption, FS_Singleton DEF SingleRequest
  <2>2. QED
    BY <2>1, WorkerLedgersStep, RetryLedgerStep
<1>3. Inv => LedgersAgree
  BY LedgersAreLedgers
<1> HIDE DEF Inv
<1>4. QED
  BY <1>1, <1>2, <1>3, CoreInvariant, LedgersTyped, PTL DEF Spec
=============================================================================
