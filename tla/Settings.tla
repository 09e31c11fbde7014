------------------------------ MODULE Settings ------------------------------
(***************************************************************************)
(* Configuration and shared types of the QueueMind backend: config.py,     *)
(* models/task.py and models/events.py.                                    *)
(***************************************************************************)
EXTENDS Naturals, FiniteSets

CONSTANTS
    NUM_CPU_WORKERS,    \* config.py: CPU workers registered at startup
    NUM_IO_WORKERS,     \* config.py: IO workers registered at startup
    Task,               \* task ids the planner may produce
    Pipe,               \* identities of coroutines running process_single_task
    None                \* Python's None

ASSUME NumWorkersAssumption ==
    NUM_CPU_WORKERS \in Nat /\ NUM_IO_WORKERS \in Nat

ASSUME PipeAssumption == IsFiniteSet(Pipe)

\* The ids of a plan are its stages and at most 50 chunks (WorkloadRequest.total_chunks).
ASSUME TaskAssumption == IsFiniteSet(Task)

\* Workers are numbered in the order register_workers registers them: the CPU
\* workers first, then the IO workers.
Worker == 1..(NUM_CPU_WORKERS + NUM_IO_WORKERS)

ASSUME NoneAssumption == None \notin Worker /\ None \notin Task

WorkerType(w) == IF w <= NUM_CPU_WORKERS THEN "cpu" ELSE "io"

TaskStatus == {"created", "partitioned", "queued", "assigned", "running",
               "completed", "failed", "validated", "stored"}

WorkerStatus ==
    [status          : {"idle", "busy", "offline"},
     load_pct        : 0..100,
     current_task    : Task \union {None},
     tasks_completed : Nat,
     tasks_failed    : Nat]
=============================================================================
