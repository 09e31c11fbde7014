------------------------------ MODULE Monitor ------------------------------
(***************************************************************************)
(* backend/agents/monitor.py over the connection manager: the coroutines   *)
(* that change a task and announce it, and the metrics loop.               *)
(*                                                                         *)
(* The status of a task is the number of the update that set it.  What the *)
(* event log, the metrics and the log entries contain is left out; that    *)
(* they are broadcast, and when, is not.                                   *)
(***************************************************************************)
EXTENDS ConnectionManager

CONSTANTS
    Task,
    Loop,       \* the coroutine of start_metrics_loop
    MaxUpdates, \* bound: updates of a task
    MaxChan     \* bound: no broadcast starts while a client has so many messages to handle

\* A message: its type, and the task states it carries.  None stands for the messages
\* that carry none: log_entry, metric_update, worker_update.
Message(type, states) == [type |-> type, tasks |-> states]

Messages ==
    [type : {"initial_state"}, tasks : [Task -> Nat]]
    \union [type : {"task_update"}, tasks : UNION {[{t} -> Nat] : t \in Task}]

\* A broadcast that is under way.
Broadcasts ==
    [message : Messages \union {None}, pos : Nat \ {0}, sent : SUBSET Conn, dead : SUBSET Conn]

ASSUME MonitorAssumption ==
    /\ Loop \in Emitter
    /\ MaxUpdates \in Nat
    /\ MaxChan \in Nat
    /\ None \notin Messages
    /\ None \notin Broadcasts

VARIABLES
    store,      \* store[t]: the status of t in the task store
    announced,  \* announced[t]: the status emit_task_update last read
    job         \* job[e]: what e broadcasts next, or None

monitorVars == <<store, announced, job>>

MonitorInit ==
    /\ store = [t \in Task |-> 0]
    /\ announced = [t \in Task |-> 0]
    /\ job = [e \in Emitter |-> None]

Room == \A c \in Conn : Len(chan[c]) < MaxChan

\* e updates t and emits a log entry; the announcement of t comes next.
Emit(e, t) ==
    /\ job[e] = None
    /\ e # Loop
    /\ Room
    /\ store[t] < MaxUpdates
    /\ store' = [store EXCEPT ![t] = @ + 1]
    /\ job' = [job EXCEPT ![e] = t]
    /\ Broadcast(e, None)
    /\ UNCHANGED announced

\* An update nobody announces (the scheduler's, the retry agent's).
UpdateSilently(t) ==
    /\ store[t] < MaxUpdates
    /\ store' = [store EXCEPT ![t] = @ + 1]
    /\ UNCHANGED <<announced, job, managerVars>>

\* The status is the store's when the announcement starts.
EmitTaskUpdate(e) ==
    /\ job[e] \in Task
    /\ LET t == job[e]
       IN  /\ Broadcast(e, Message("task_update", [u \in {t} |-> store[t]]))
           /\ announced' = [announced EXCEPT ![t] = store[t]]
    /\ job' = [job EXCEPT ![e] = None]
    /\ UNCHANGED store

\* A turn of the metrics loop: emit_metrics, then emit_worker_update.
EmitMetrics ==
    /\ job[Loop] = None
    /\ Room
    /\ Broadcast(Loop, None)
    /\ job' = [job EXCEPT ![Loop] = "workers"]
    /\ UNCHANGED <<store, announced>>

EmitWorkerUpdate ==
    /\ job[Loop] = "workers"
    /\ Broadcast(Loop, None)
    /\ job' = [job EXCEPT ![Loop] = None]
    /\ UNCHANGED <<store, announced>>
=============================================================================
