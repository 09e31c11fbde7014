---------------------------- MODULE Orchestrator ----------------------------
(***************************************************************************)
(* The orchestrator of QueueMind (main.py): run_workload for every         *)
(* submitted request and process_single_task for every queued task, on one *)
(* asyncio event loop, with the worker, retry and critic agents they call. *)
(*                                                                         *)
(* A coroutine gives up the loop only where it sleeps, where it broadcasts *)
(* to WebSocket clients (every monitor.emit: a send may suspend on a slow  *)
(* client, or not) and where create_task defers a new coroutine.  One      *)
(* action is the code between two such points.  The loop's ready queue is  *)
(* first-in first-out: a coroutine that waits to start does so before any  *)
(* coroutine that fell asleep after its creation wakes up.                 *)
(***************************************************************************)
EXTENDS LoadBalancer, Scheduler, Planner, Functions

CONSTANTS
    MAX_RETRIES,    \* config.py
    Partition,      \* Partition[t]: task.partition
    Error,          \* the failures WorkerExecutionAgent.execute reports
    ExecTime        \* the execution times of successful executions, in seconds

ASSUME OrchestratorAssumption ==
    /\ MAX_RETRIES \in Nat
    /\ Partition \in [Task -> {"cpu", "io"}]
    /\ ExecTime \subseteq Nat
    /\ None \notin Object

VARIABLES
    reqpc,     \* reqpc[r]: where run_workload of request r is suspended
    pc,        \* pc[p]: where process_single_task of coroutine p is suspended
    job,       \* job[p]: the Task object coroutine p was created with
    result,    \* result[p]: the TaskResult of its execution
    ahead      \* ahead[p]: coroutines the loop starts before it wakes p up

loopVars == <<reqpc, pc, job, result, ahead>>
vars == <<lbVars, storeVars, schedVars, loopVars>>

ReqPc == {"idle", "planned", "scheduled", "done"}

\* TaskResult: a failed execution has an error, a successful one a valid payload
\* and its time.
TaskResult == [error : Error \union {None}, execution_time : ExecTime \union {None}]

NoResult == [error |-> None, execution_time |-> None]
FailedWith(e) == [error |-> e, execution_time |-> None]
SucceededIn(x) == [error |-> None, execution_time |-> x]

PipePc == {"free", "start", "unavailable", "assigned", "running", "failed",
           "backoff", "completed", "reschedule"}

Init ==
    /\ LBInit
    /\ StoreInit
    /\ SchedInit
    /\ reqpc = [r \in Request |-> "idle"]
    /\ pc = [p \in Pipe |-> "free"]
    /\ job = [p \in Pipe |-> None]
    /\ result = [p \in Pipe |-> NoResult]
    /\ ahead = [p \in Pipe |-> {}]

-----------------------------------------------------------------------------
(* Coroutines of process_single_task. *)

Live(p) == pc[p] # "free"

TaskOf(p) == job[p][2]

\* The fields of the object the store holds under the id of p's task, which is
\* not p's own object if a later request replaced it.
StoredTask(p) == object[Current(TaskOf(p))]

Goto(p, l) == pc' = [pc EXCEPT ![p] = l]

\* The coroutines that wait to start.
Starting == {q \in Pipe : pc[q] = "start"}

\* p goes to sleep: the coroutines that wait to start now are ahead of it.
FallAsleep(p) == ahead' = [ahead EXCEPT ![p] = Starting \ {p}]

Awake(p) == ahead[p] = {}

\* p has started: it is ahead of nobody any more.
Started(p) == ahead' = [q \in Pipe |-> ahead[q] \ {p}]

\* Mutant of Return: the task object is not dropped.
ReturnKeepingJob(p) ==
    /\ pc' = [pc EXCEPT ![p] = "free"]
    /\ job' = job
    /\ result' = [result EXCEPT ![p] = NoResult]

\* The coroutine returns.
Return(p) ==
    /\ pc' = [pc EXCEPT ![p] = "free"]
    /\ job' = [job EXCEPT ![p] = None]
    /\ result' = [result EXCEPT ![p] = NoResult]

\* create_task(process_single_task(task)) for the object stored under every id of
\* Q; Done is the coroutine (if any) that returns in the same step.
Spawn(Q, Done) ==
    \E P \in SUBSET {p \in Pipe : ~Live(p)} :
        \E f \in Bijection(P, Q) :
            /\ pc' = [p \in Pipe |-> IF p \in P THEN "start"
                                     ELSE IF p \in Done THEN "free" ELSE pc[p]]
            /\ job' = [p \in Pipe |-> IF p \in P THEN Current(f[p])
                                      ELSE IF p \in Done THEN None ELSE job[p]]
            /\ result' = [p \in Pipe |-> IF p \in Done THEN NoResult ELSE result[p]]

-----------------------------------------------------------------------------
(* run_workload *)

\* Up to planning_complete: plan, and store every task of the plan.
SubmitPlan(r) ==
    /\ reqpc[r] = "idle"
    /\ reqpc' = [reqpc EXCEPT ![r] = "planned"]
    /\ AddTasks(r)
    /\ UNCHANGED <<lbVars, schedVars, pc, job, result, ahead,
                   object, execution_history, failure_logs, total_retries>>

ScheduleWorkload(r) ==
    /\ reqpc[r] = "planned"
    /\ reqpc' = [reqpc EXCEPT ![r] = "scheduled"]
    /\ Schedule(r)
    /\ UNCHANGED <<lbVars, pc, job, result, ahead,
                   tasks, execution_history, failure_logs, total_retries>>

\* Every QUEUED task gets a coroutine, the other requests' tasks too.
LaunchWorkload(r) ==
    /\ reqpc[r] = "scheduled"
    /\ reqpc' = [reqpc EXCEPT ![r] = "done"]
    /\ Spawn(TasksByStatus("queued"), {})
    /\ UNCHANGED <<lbVars, storeVars, schedVars, ahead>>

-----------------------------------------------------------------------------
(* process_single_task *)

\* assign_worker succeeds, at the first try or at the one after the sleep.
Assign(p) ==
    /\ pc[p] \in {"start", "unavailable"}
    /\ Awake(p)
    /\ AssignWorker(p, TaskOf(p), Partition[TaskOf(p)])
    /\ UpdateTask(TaskOf(p), Fields("assigned", StoredTask(p).retry_count,
                                    StoredTask(p).failure_type, worker_id'[p]))
    /\ Goto(p, "assigned")
    /\ Started(p)
    /\ UNCHANGED <<schedVars, reqpc, job, result,
                   tasks, execution_history, failure_logs, total_retries>>

\* No worker at the first try: worker_unavailable, then sleep(1).
Unavailable(p) ==
    /\ pc[p] = "start"
    /\ NoWorker(p, Partition[TaskOf(p)])
    /\ Goto(p, "unavailable")
    /\ ahead' = [q \in Pipe |-> (IF q = p THEN Starting ELSE ahead[q]) \ {p}]
    /\ UNCHANGED <<lbVars, storeVars, schedVars, reqpc, job, result>>

\* No worker at the second try: task_deferred, and the coroutine returns.
Defer(p) ==
    /\ pc[p] = "unavailable"
    /\ Awake(p)
    /\ NoWorker(p, Partition[TaskOf(p)])
    /\ Return(p)
    /\ UNCHANGED <<lbVars, storeVars, schedVars, reqpc, ahead>>

RunTask(p) ==
    /\ pc[p] = "assigned"
    /\ SetStatus(TaskOf(p), "running")
    /\ Goto(p, "running")
    /\ FallAsleep(p)
    /\ UNCHANGED <<lbVars, schedVars, reqpc, job, result,
                   tasks, execution_history, failure_logs, total_retries>>

\* Mutant of ExecuteFails: the failure branch keeps the worker.
ExecuteFailsHolding(p) ==
    /\ pc[p] = "running"
    /\ Awake(p)
    /\ SetStatus(TaskOf(p), "failed")
    /\ \E e \in Error : result' = [result EXCEPT ![p] = FailedWith(e)]
    /\ Goto(p, "failed")
    /\ UNCHANGED <<lbVars, schedVars, reqpc, job, ahead,
                   tasks, execution_history, failure_logs, total_retries>>

ExecuteFails(p) ==
    /\ pc[p] = "running"
    /\ Awake(p)
    /\ ReleaseWorker(p, FALSE)
    /\ SetStatus(TaskOf(p), "failed")
    /\ \E e \in Error : result' = [result EXCEPT ![p] = FailedWith(e)]
    /\ Goto(p, "failed")
    /\ UNCHANGED <<schedVars, reqpc, job, ahead,
                   tasks, execution_history, failure_logs, total_retries>>

ExecuteSucceeds(p) ==
    /\ pc[p] = "running"
    /\ Awake(p)
    /\ ReleaseWorker(p, TRUE)
    /\ SetStatus(TaskOf(p), "completed")
    /\ AddExecutionRecord(TaskOf(p))
    /\ \E x \in ExecTime : result' = [result EXCEPT ![p] = SucceededIn(x)]
    /\ Goto(p, "completed")
    /\ UNCHANGED <<schedVars, reqpc, job, ahead, tasks, failure_logs, total_retries>>

-----------------------------------------------------------------------------
(* RetryAgent.handle_failure, and the rest of the failure branch *)

\* classify_failure: an error that matches neither pattern list is transient.
PERMANENT_PATTERNS == {"MemoryError", "ParseError", "ValidationError", "SchemaError"}

ClassifyFailure(error) ==
    IF error \in PERMANENT_PATTERNS THEN "permanent" ELSE "transient"

\* Mutants of GivesUp: one retry too many; one retry too few.
GivesUpLate(p) ==
    \/ ClassifyFailure(result[p].error) = "permanent"
    \/ object[job[p]].retry_count > MAX_RETRIES

GivesUpEarly(p) ==
    \/ ClassifyFailure(result[p].error) = "permanent"
    \/ object[job[p]].retry_count + 1 >= MAX_RETRIES

\* The retries are counted on the coroutine's own object, not the stored one.
GivesUp(p) ==
    \/ ClassifyFailure(result[p].error) = "permanent"
    \/ object[job[p]].retry_count >= MAX_RETRIES

DeadLetter(p) ==
    /\ pc[p] = "failed"
    /\ GivesUp(p)
    /\ AddFailureLog(TaskOf(p))
    /\ UpdateTask(TaskOf(p), Fields("failed", StoredTask(p).retry_count,
                                    ClassifyFailure(result[p].error),
                                    StoredTask(p).assigned_worker))
    /\ Return(p)
    /\ UNCHANGED <<lbVars, schedVars, reqpc, ahead, tasks, execution_history,
                   total_retries>>

\* Mutants of ScheduleRetry: the retry is counted but nobody is left to make it; the
\* failure log is written for dead letters only.
ScheduleRetryAndReturn(p) ==
    /\ pc[p] = "failed"
    /\ ~GivesUp(p)
    /\ AddFailureLog(TaskOf(p))
    /\ UpdateTask(TaskOf(p), Fields("created", object[job[p]].retry_count + 1,
                                    ClassifyFailure(result[p].error), None))
    /\ IncrementRetries
    /\ Return(p)
    /\ UNCHANGED <<lbVars, schedVars, reqpc, ahead, tasks, execution_history>>

ScheduleRetryUnlogged(p) ==
    /\ pc[p] = "failed"
    /\ ~GivesUp(p)
    /\ UpdateTask(TaskOf(p), Fields("created", object[job[p]].retry_count + 1,
                                    ClassifyFailure(result[p].error), None))
    /\ IncrementRetries
    /\ Goto(p, "backoff")
    /\ FallAsleep(p)
    /\ UNCHANGED <<lbVars, schedVars, reqpc, job, result, tasks, execution_history,
                   failure_logs>>

ScheduleRetry(p) ==
    /\ pc[p] = "failed"
    /\ ~GivesUp(p)
    /\ AddFailureLog(TaskOf(p))
    /\ UpdateTask(TaskOf(p), Fields("created", object[job[p]].retry_count + 1,
                                    ClassifyFailure(result[p].error), None))
    /\ IncrementRetries
    /\ Goto(p, "backoff")
    /\ FallAsleep(p)
    /\ UNCHANGED <<lbVars, schedVars, reqpc, job, result, tasks, execution_history>>

\* After the delay: a new coroutine for the object the store holds by now takes
\* this one's place.
RetryAfterBackoff(p) ==
    /\ pc[p] = "backoff"
    /\ Awake(p)
    /\ Goto(p, "start")
    /\ job' = [job EXCEPT ![p] = Current(TaskOf(p))]
    /\ result' = [result EXCEPT ![p] = NoResult]
    /\ UNCHANGED <<lbVars, storeVars, schedVars, reqpc, ahead>>

-----------------------------------------------------------------------------
(* CriticAgent.validate, and the rest of the success branch *)

\* Points of a score, in tenths, for the speed of an execution.
Efficiency(time) ==
    CASE time < 2 -> 20 [] time >= 2 /\ time < 5 -> 15
      [] time >= 5 /\ time < 10 -> 10 [] OTHER -> 5

\* _calculate_quality, in tenths, of a result with an output (every successful
\* execution has one); variance is round(random.uniform(0.3, 1.0), 1).
QualityScore(deps_valid, time_valid, time, variance) ==
    LET score == 30 + (IF deps_valid THEN 20 ELSE 0) + (IF time_valid THEN 20 ELSE 0)
                    + Efficiency(time) + variance
    IN  IF score < 100 THEN score ELSE 100

Variance == 3..10

DepsValid(p) == AreDependenciesMet(job[p])
TimeValid(p) == 0 < result[p].execution_time /\ result[p].execution_time < 120

\* validate, when the score's random part is variance.
IsValid(p, variance) ==
    /\ DepsValid(p)
    /\ TimeValid(p)
    /\ QualityScore(DepsValid(p), TimeValid(p), result[p].execution_time, variance) >= 50

\* Mutant of Validate: the coroutine returns without rescheduling.
ValidateAndReturn(p) ==
    /\ pc[p] = "completed"
    /\ \E variance \in Variance :
        IF IsValid(p, variance) THEN SetStatus(TaskOf(p), "validated") ELSE object' = object
    /\ Return(p)
    /\ UNCHANGED <<lbVars, schedVars, reqpc, ahead,
                   tasks, execution_history, failure_logs, total_retries>>

Validate(p) ==
    /\ pc[p] = "completed"
    /\ \E variance \in Variance :
        IF IsValid(p, variance) THEN SetStatus(TaskOf(p), "validated") ELSE object' = object
    /\ Goto(p, "reschedule")
    /\ UNCHANGED <<lbVars, schedVars, reqpc, job, result, ahead,
                   tasks, execution_history, failure_logs, total_retries>>

\* Mutants of Reschedule: retry_pending without launching what it queued; waiting
\* for the scheduler's list to drain.
RescheduleOnly(p) ==
    /\ pc[p] = "reschedule"
    /\ RetryPending
    /\ Return(p)
    /\ UNCHANGED <<lbVars, reqpc, ahead,
                   tasks, execution_history, failure_logs, total_retries>>

RescheduleUntilDrained(p) ==
    /\ pc[p] = "reschedule"
    /\ RetryPending
    /\ pending' = {}
    /\ Spawn({t \in Stored : object'[Current(t)].status = "queued"}, {p})
    /\ UNCHANGED <<lbVars, reqpc, ahead,
                   tasks, execution_history, failure_logs, total_retries>>

\* retry_pending and _check_and_process_queued_tasks, as one step: every task that
\* is QUEUED after the pass gets a coroutine, whether it has one already or not.
Reschedule(p) ==
    /\ pc[p] = "reschedule"
    /\ RetryPending
    /\ Spawn({t \in Stored : object'[Current(t)].status = "queued"}, {p})
    /\ UNCHANGED <<lbVars, reqpc, ahead,
                   tasks, execution_history, failure_logs, total_retries>>

-----------------------------------------------------------------------------
Workload(r) == ScheduleWorkload(r) \/ LaunchWorkload(r)

Process(p) ==
    \/ Assign(p) \/ Unavailable(p) \/ Defer(p) \/ RunTask(p)
    \/ ExecuteFails(p) \/ ExecuteSucceeds(p)
    \/ DeadLetter(p) \/ ScheduleRetry(p) \/ RetryAfterBackoff(p)
    \/ Validate(p) \/ Reschedule(p)

Next ==
    \/ \E r \in Request : SubmitPlan(r) \/ Workload(r)
    \/ \E p \in Pipe : Process(p)

Spec == Init /\ [][Next]_vars

\* The loop runs every ready coroutine, and every sleep and send ends.  Nothing
\* obliges a client to submit a request.
Fairness ==
    /\ \A r \in Request : WF_vars(Workload(r))
    /\ \A p \in Pipe : WF_vars(Process(p))

FairSpec == Spec /\ Fairness

-----------------------------------------------------------------------------
(* Properties *)

\* Every variable has the type the Python models give it; a coroutine has a task
\* object exactly while it is live.
TypeOK ==
    /\ LBTypeOK
    /\ StoreTypeOK
    /\ SchedTypeOK
    /\ reqpc \in [Request -> ReqPc]
    /\ pc \in [Pipe -> PipePc]
    /\ job \in [Pipe -> Object \union {None}]
    /\ result \in [Pipe -> TaskResult]
    /\ ahead \in [Pipe -> SUBSET Pipe]
    /\ \A p \in Pipe : Live(p) <=> job[p] # None

\* No lost wake-up: a task held back by the scheduler although all its
\* dependencies are validated is about to be released, because the coroutine that
\* validated the last of them has still to call retry_pending.
NoLostWakeup ==
    \A o \in pending : AreDependenciesMet(o) => \E p \in Pipe : pc[p] = "reschedule"

\* The scheduler neither loses nor repeats a task: each task object of a scheduled
\* workload is in the pending list and unproduced, or has left it with one message.
HeldOrProduced ==
    \A o \in Object :
        IF reqpc[o[1]] \in {"scheduled", "done"} /\ o[2] \in Plan[o[1]]
        THEN produced[o] = (IF o \in pending THEN 0 ELSE 1)
        ELSE produced[o] = 0 /\ o \notin pending

\* A QUEUED task is never stranded: a coroutine is about to process it, or a request
\* is about to create one, unless no worker of its type is registered at all.
QueuedIsServed ==
    \A t \in TasksByStatus("queued") :
        \/ \E p \in Pipe : pc[p] \in {"start", "unavailable"} /\ TaskOf(p) = t
        \/ \E r \in Request : reqpc[r] = "scheduled"
        \/ \A w \in Worker : WorkerType(w) # Partition[t]

\* A task whose type has no worker waits: it is never reported as assigned, running,
\* failed or validated, through deferrals and resubmissions alike.
UnservableStaysQueued ==
    \A o \in Object : (\A w \in Worker : WorkerType(w) # Partition[o[2]]) =>
        object[o].status \in {"created", "queued"}

\* What a task waits for in every workload that contains it.  Workloads with other
\* numbers of chunks share the id of the aggregation and disagree on the rest.
Needs == [t \in Task |-> {d \in Task : \A r \in Request :
                                t \in Plan[r] => d \in Dependencies(<<r, t>>)}]

\* Dependency order: no coroutine works on a task before each task it waits for in
\* all workloads has executed successfully, whatever duplicates, retries, failures
\* and replaced objects interleave.  The history is kept per id: an execution for
\* one request counts for a later request too, as it does for the scheduler.
DependenciesExecuted ==
    \A p \in Pipe : Live(p) =>
        \A d \in Needs[TaskOf(p)] : execution_history[d] > 0

\* The aggregation comes last: no coroutine works on aggregate_final before every
\* other task that all workloads contain has executed successfully, although it
\* names only the reports as its dependencies (planner.py, the stages' depends_on).
AggregateAfterAll ==
    \A p \in Pipe : Live(p) /\ TaskOf(p) = Aggregate =>
        \A t \in Task \ {Aggregate} :
            (\A r \in Request : t \in Plan[r]) => execution_history[t] > 0

\* Workers do not leak: a coroutine holds a worker exactly from its assignment to
\* the end of its execution, in every branch of process_single_task.
NoWorkerLeak ==
    \A p \in Pipe : worker_id[p] # None <=> pc[p] \in {"assigned", "running"}

\* The task a worker is shown with is one that a coroutine really runs on it.
CurrentTaskHeld ==
    \A w \in Worker : workers[w].current_task # None =>
        \E p \in Pipe : worker_id[p] = w /\ TaskOf(p) = workers[w].current_task

\* No task is retried past MAX_RETRIES, even when duplicated coroutines of one task
\* fail side by side.
RetryBudget == \A o \in Object : object[o].retry_count <= MAX_RETRIES

\* A task is dead-lettered only for a permanent error or an exhausted budget: for a
\* FAILED task that no coroutine is about to hand to the retry agent, the failure
\* was permanent, or some object of that id has used up its retries.  It need not be
\* the stored one: handle_failure counts on the coroutine's own object.
DeadLetterJustified ==
    \A t \in TasksByStatus("failed") :
        \/ \E p \in Pipe : pc[p] = "failed" /\ TaskOf(p) = t
        \/ object[Current(t)].failure_type = "permanent"
        \/ \E r \in Request : object[<<r, t>>].retry_count = MAX_RETRIES

\* Nothing is abandoned half-way: a task of a scheduled workload that is neither at an
\* end (validated, dead-lettered, or rejected by the critic and left COMPLETED) nor
\* held back by the scheduler has a coroutine, or is QUEUED with a request about to
\* create one or without any worker of its type.
NothingAbandoned ==
    \A t \in Stored :
        \/ \E p \in Pipe : Live(p) /\ TaskOf(p) = t
        \/ object[Current(t)].status \in {"completed", "validated", "failed"}
        \/ Current(t) \in pending
        \/ reqpc[tasks[t]] = "planned"
        \/ /\ object[Current(t)].status = "queued"
           /\ \/ \E r \in Request : reqpc[r] = "scheduled"
              \/ \A w \in Worker : WorkerType(w) # Partition[t]

\* The ledgers agree: what the workers' counters say was executed is what the
\* execution history and the failure logs hold (a failure is logged one step
\* later), and total_retries is what the tasks' retry counts add up to.  The last
\* part is about a single request.
LedgersAgree ==
    /\ SumFunction([w \in Worker |-> workers[w].tasks_completed])
            = SumFunction(execution_history)
    /\ SumFunction([w \in Worker |-> workers[w].tasks_failed])
            = SumFunction(failure_logs) + Cardinality({p \in Pipe : pc[p] = "failed"})
    /\ Cardinality(Request) = 1 =>
            total_retries = SumFunction([o \in Object |-> object[o].retry_count])

\* The random part of the quality score, and so the score, decides nothing: a result is
\* accepted exactly if its dependencies are validated and its time is sane (validate,
\* the threshold 5.0 of quality_score).
ScoreNeverDecides ==
    \A p \in Pipe, variance \in Variance : pc[p] = "completed" =>
        (IsValid(p, variance) <=> DepsValid(p) /\ TimeValid(p))

Gate == INSTANCE DependencyGate WITH
    active <- {TaskOf(p) : p \in {q \in Pipe : Live(q)}},
    done <- {t \in Task : execution_history[t] > 0}

\* The orchestrator implements the dependency gate: through retries, duplicates, dead
\* letters and rejections, a coroutine is created for a task only when all it waits for
\* has been executed, and nothing is executed without one (process_single_task,
\* _check_and_process_queued_tasks, run_workload).
GateSpec == Gate!GateSpec

\* Every coroutine that was created returns in the end.
Termination == <>[](\A p \in Pipe : ~Live(p))

\* architecture.md:49-52, the ends of the task lifecycle.  A task that is held for
\* ever waits for a dependency that is not validated.
Settled(r, t) ==
    \/ object[<<r, t>>].status \in {"validated", "stored", "failed"}
    \/ <<r, t>> \in pending /\ ~AreDependenciesMet(<<r, t>>)

\* Every task of a planned workload comes to one of these ends and stays there.
EventuallySettled ==
    \A r \in Request :
        reqpc[r] = "planned" ~> [](\A t \in Plan[r] : Settled(r, t))

\* main.py:176 "Only process if not already being processed": no two coroutines
\* work on the same task.
NoDuplicateProcessing ==
    \A p, q \in Pipe : p # q /\ Live(p) /\ Live(q) => TaskOf(p) # TaskOf(q)
=============================================================================
