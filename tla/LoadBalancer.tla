---------------------------- MODULE LoadBalancer ----------------------------
(***************************************************************************)
(* LoadBalancerAgent (agents/load_balancer.py) with the worker half of     *)
(* TaskStore (store/task_store.py).                                        *)
(*                                                                         *)
(* A coroutine p of process_single_task is given a worker by assign_worker *)
(* and hands it back with release_worker; worker_id[p] is its local        *)
(* variable worker_id in between.  Nothing stops several coroutines from   *)
(* holding the same worker: a busy worker is still a candidate.            *)
(***************************************************************************)
EXTENDS Settings

VARIABLES
    workers,     \* store._workers: the status of every registered worker
    worker_id    \* worker_id[p]: the worker coroutine p holds, or None

\* A history variable, read by the properties only: by how many the holders of a
\* worker have exceeded four at most, since it was last held by nobody.
VARIABLE overbooked

lbVars == <<workers, worker_id, overbooked>>

-----------------------------------------------------------------------------
\* register_workers: every worker starts idle, unloaded, with zero counters.
Registered ==
    [status |-> "idle", load_pct |-> 0, current_task |-> None,
     tasks_completed |-> 0, tasks_failed |-> 0]

LBInit ==
    /\ workers = [w \in Worker |-> Registered]
    /\ worker_id = [p \in Pipe |-> None]
    /\ overbooked = [w \in Worker |-> 0]

\* The coroutines that hold worker w.
Holders(w) == {p \in Pipe : worker_id[p] = w}

\* Mutant of Candidates: any worker stands in for a missing type.
AnyCandidate(type) == {w \in Worker : workers[w].status # "offline"}

Candidates(type) ==
    {w \in Worker : WorkerType(w) = type /\ workers[w].status # "offline"}

\* Mutant of LeastLoaded: the first candidate, whatever its load.
FirstCandidate(type) ==
    {w \in Candidates(type) : \A v \in Candidates(type) : w <= v}

\* get_least_loaded_worker: min() keeps the first of equally loaded candidates.
\* The set has one member, or none when there is no candidate.
LeastLoaded(type) ==
    {w \in Candidates(type) :
        \A v \in Candidates(type) \ {w} :
            \/ workers[w].load_pct < workers[v].load_pct
            \/ workers[w].load_pct = workers[v].load_pct /\ w < v}

\* Mutants: no clamping at 100; a release that keeps the load, or clears it.
LoadUnclamped(load) == load + 25
LoadKept(load) == load
LoadCleared(load) == 0

LoadAfterAssign(load) == IF load + 25 > 100 THEN 100 ELSE load + 25

LoadAfterRelease(load) == IF load < 25 THEN 0 ELSE load - 25

\* The record of a worker after assign_worker gave it task t ...
Busy(worker, t) ==
    [status          |-> "busy",
     load_pct        |-> LoadAfterAssign(worker.load_pct),
     current_task    |-> t,
     tasks_completed |-> worker.tasks_completed,
     tasks_failed    |-> worker.tasks_failed]

\* Mutant of Released: the current task is not cleared.
ReleasedWithTask(worker, success) ==
    [Busy(worker, worker.current_task) EXCEPT
        !.status = "idle",
        !.load_pct = LoadAfterRelease(worker.load_pct),
        !.tasks_completed = @ + (IF success THEN 1 ELSE 0),
        !.tasks_failed = @ + (IF success THEN 0 ELSE 1)]

\* ... and after release_worker: idle and without a current task, whoever else
\* still holds the worker.
Released(worker, success) ==
    [status          |-> "idle",
     load_pct        |-> LoadAfterRelease(worker.load_pct),
     current_task    |-> None,
     tasks_completed |-> worker.tasks_completed + (IF success THEN 1 ELSE 0),
     tasks_failed    |-> worker.tasks_failed + (IF success THEN 0 ELSE 1)]

\* The excess over four holders, when there are this many.
Excess(extra, holders) == IF holders > extra + 4 THEN holders - 4 ELSE extra

-----------------------------------------------------------------------------
\* assign_worker, when some worker of the type exists.
AssignWorker(p, t, type) ==
    /\ worker_id[p] = None
    /\ \E w \in LeastLoaded(type) :
        /\ workers' = [workers EXCEPT ![w] = Busy(@, t)]
        /\ worker_id' = [worker_id EXCEPT ![p] = w]
        /\ overbooked' =
               [overbooked EXCEPT ![w] = Excess(@, Cardinality(Holders(w)) + 1)]

\* assign_worker returns None.
NoWorker(p, type) == worker_id[p] = None /\ Candidates(type) = {}

ReleaseWorker(p, success) ==
    /\ worker_id[p] # None
    /\ workers' = [workers EXCEPT ![worker_id[p]] = Released(@, success)]
    /\ worker_id' = [worker_id EXCEPT ![p] = None]
    /\ overbooked' = [overbooked EXCEPT
            ![worker_id[p]] = IF Holders(worker_id[p]) = {p} THEN 0 ELSE @]

LBNext ==
    \E p \in Pipe :
        \/ \E t \in Task, type \in {"cpu", "io"} : AssignWorker(p, t, type)
        \/ \E success \in BOOLEAN : ReleaseWorker(p, success)

LBSpec == LBInit /\ [][LBNext]_lbVars

-----------------------------------------------------------------------------
\* Every worker record and every holder variable has the type the models give it.
LBTypeOK ==
    /\ workers \in [Worker -> WorkerStatus]
    /\ worker_id \in [Pipe -> Worker \union {None}]
    /\ overbooked \in [Worker -> Nat]

\* load_pct never exceeds the real utilisation (25 per coroutine that holds the
\* worker), whatever was lost by clamping at 100 and at 0.
LoadNeverOverstated ==
    \A w \in Worker : workers[w].load_pct <= 25 * Cardinality(Holders(w))

\* A worker shown as busy, or shown with a current task, is held by a coroutine:
\* no interleaving of assignments and releases leaves a phantom busy worker.
NoPhantomBusy ==
    \A w \in Worker :
        (workers[w].status = "busy" \/ workers[w].current_task # None)
            => Holders(w) # {}

\* What the clamp at 100 loses is bounded: load_pct falls short of the real
\* utilisation by no more than 25 for every holder beyond four the worker had at
\* once since it was last free.  In particular it is exact as long as there were
\* never more than four, and again once the worker was free.
LoadLossBounded ==
    \A w \in Worker :
        25 * Cardinality(Holders(w)) <= workers[w].load_pct + 25 * overbooked[w]

\* load_balancer.py:4 "using least-loaded-first strategy", as far as the clamped
\* load_pct carries it: the worker a coroutine is given has at most as many holders
\* as any other of its type, plus the holders beyond four it has had itself.
LeastUtilizedChosen ==
    [][\A p \in Pipe :
         worker_id[p] = None /\ worker_id'[p] # None =>
            \A v \in Worker :
                WorkerType(v) = WorkerType(worker_id'[p]) =>
                    Cardinality(Holders(worker_id'[p]))
                        <= Cardinality(Holders(v)) + overbooked[worker_id'[p]]]_lbVars
=============================================================================
