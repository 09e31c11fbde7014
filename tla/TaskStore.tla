------------------------------ MODULE TaskStore ------------------------------
(***************************************************************************)
(* The task half of TaskStore (store/task_store.py) and the Task objects   *)
(* it refers to (models/task.py).                                          *)
(*                                                                         *)
(* Every workload request builds fresh Task objects, but the task ids are  *)
(* the same for every request (planner.py), so a later request replaces    *)
(* the object stored under an id while coroutines and the scheduler may    *)
(* still hold the earlier one.  Object <<r, t>> is the Task object with id *)
(* t that the plan of request r created.                                   *)
(*                                                                         *)
(* The store's methods hold an asyncio.Lock around code without an await,  *)
(* so each of them is atomic and none of them suspends its caller.         *)
(***************************************************************************)
EXTENDS Settings

CONSTANTS
    Request,     \* workload requests
    Plan,        \* Plan[r]: the ids of the tasks planned for request r
    Deps,        \* Deps[r][t]: task.dependencies of the object <<r, t>>
    Position     \* Position[t]: place of t in the planner's list

ASSUME RequestAssumption == IsFiniteSet(Request) /\ None \notin Request

\* The planner lists a task after its dependencies and plans both together.
ASSUME PlanAssumption ==
    /\ Plan \in [Request -> SUBSET Task]
    /\ Deps \in [Request -> [Task -> SUBSET Task]]
    /\ Position \in [Task -> Nat]
    /\ \A r \in Request : \A t \in Plan[r] : \A d \in Deps[r][t] :
            d \in Plan[r] /\ Position[d] < Position[t]

Object == Request \X Task

VARIABLES
    tasks,               \* _tasks: the request whose object is stored under an id
    object,              \* the fields of every Task object
    execution_history,   \* number of _execution_history records of an id
    failure_logs,        \* number of _failure_logs entries of an id
    total_retries        \* _total_retries

storeVars == <<tasks, object, execution_history, failure_logs, total_retries>>

TaskFields ==
    [status          : TaskStatus,
     retry_count     : Nat,
     failure_type    : {"transient", "permanent", None},
     assigned_worker : Worker \union {None}]

Fields(status, retry_count, failure_type, assigned_worker) ==
    [status |-> status, retry_count |-> retry_count,
     failure_type |-> failure_type, assigned_worker |-> assigned_worker]

Created == Fields("created", 0, None, None)

\* A Task with another status and the rest of its fields unchanged.
WithStatus(task, s) ==
    Fields(s, task.retry_count, task.failure_type, task.assigned_worker)

StoreInit ==
    /\ tasks = [t \in Task |-> None]
    /\ object = [o \in Object |-> Created]
    /\ execution_history = [t \in Task |-> 0]
    /\ failure_logs = [t \in Task |-> 0]
    /\ total_retries = 0

-----------------------------------------------------------------------------
\* The ids the store knows, and the object it holds for one of them.
Stored == {t \in Task : tasks[t] # None}

Current(t) == <<tasks[t], t>>

\* Mutant of TasksByStatus: tasks that were never queued count as well.
TasksByStatusOrCreated(s) ==
    {t \in Stored : object[Current(t)].status \in {s, "created"}}

\* get_tasks_by_status.
TasksByStatus(s) == {t \in Stored : object[Current(t)].status = s}

Dependencies(o) == Deps[o[1]][o[2]]

\* Mutant of AreDependenciesMet: one dependency is enough.
AnyDependencyMet(o) ==
    Dependencies(o) # {} => \E d \in Dependencies(o) :
        d \in Stored /\ object[Current(d)].status \in {"validated", "stored"}

\* are_dependencies_met: by the status of the object the store holds now.
AreDependenciesMet(o) ==
    \A d \in Dependencies(o) :
        d \in Stored /\ object[Current(d)].status \in {"validated", "stored"}

\* add_task for every task of a plan.
AddTasks(r) == tasks' = [t \in Task |-> IF t \in Plan[r] THEN r ELSE tasks[t]]

\* update_task: on the object the store holds.
UpdateTask(t, fields) == object' = [object EXCEPT ![Current(t)] = fields]

SetStatus(t, s) == UpdateTask(t, WithStatus(object[Current(t)], s))

AddExecutionRecord(t) ==
    execution_history' = [execution_history EXCEPT ![t] = @ + 1]

AddFailureLog(t) == failure_logs' = [failure_logs EXCEPT ![t] = @ + 1]

IncrementRetries == total_retries' = total_retries + 1

StoreTypeOK ==
    /\ tasks \in [Task -> Request \union {None}]
    /\ object \in [Object -> TaskFields]
    /\ execution_history \in [Task -> Nat]
    /\ failure_logs \in [Task -> Nat]
    /\ total_retries \in Nat
=============================================================================
