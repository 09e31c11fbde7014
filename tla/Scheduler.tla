------------------------------ MODULE Scheduler ------------------------------
(***************************************************************************)
(* SchedulerAgent (agents/scheduler.py).  It keeps a list of Task objects  *)
(* whose dependencies are not met; schedule() appends a workload's tasks   *)
(* and then passes over the list, queueing each task whose dependencies    *)
(* are met when the pass reaches it.  Neither the store nor the in-memory  *)
(* queue suspends it, so a call is one step.                               *)
(*                                                                         *)
(* The list is represented by the set of its members: a request's tasks    *)
(* are appended together in plan order and members only leave it, so the   *)
(* place of a member follows from turn and Position.                       *)
(***************************************************************************)
EXTENDS TaskStore

VARIABLES
    pending,    \* _pending_tasks
    turn,       \* turn[r]: r was the turn[r]-th request scheduled; 0 before it is
    produced    \* produced[o]: messages produced to the queue for object o

schedVars == <<pending, turn, produced>>

SchedInit ==
    /\ pending = {}
    /\ turn = [r \in Request |-> 0]
    /\ produced = [o \in Object |-> 0]

\* o stands before q in the list.
Before(o, q) ==
    IF o[1] = q[1] THEN Position[o[2]] < Position[q[2]]
                   ELSE turn'[o[1]] < turn'[q[1]]

\* S is what one pass over the list queues: a member whose dependencies were
\* met and whose dependencies the pass had not itself set back to QUEUED (a
\* stale object of an earlier request does that to the current one) before it
\* reached the member.  The loop's further passes find nothing more: a pass only
\* turns statuses to QUEUED, so dependencies never become met during it.
IsPass(list, S) ==
    \A o \in list :
        o \in S <=> /\ AreDependenciesMet(o)
                    /\ \A q \in S : Before(q, o) => q[2] \notin Dependencies(o)

\* _schedule_single for every object of S: the listed object and the object the
\* store holds under its id become QUEUED, and a message is produced.
Queue(S) ==
    /\ object' = [o \in Object |->
            IF o \in S \/ \E q \in S : o = Current(q[2])
            THEN WithStatus(object[o], "queued")
            ELSE object[o]]
    /\ produced' = [o \in Object |->
            IF o \in S THEN produced[o] + 1 ELSE produced[o]]

\* Mutant of Pass: a queued task stays in the list.
PassKeepsList(list) ==
    \E S \in SUBSET list :
        /\ IsPass(list, S)
        /\ Queue(S)
        /\ pending' = list

Pass(list) ==
    \E S \in SUBSET list :
        /\ IsPass(list, S)
        /\ Queue(S)
        /\ pending' = list \ S

PlanObjects(r) == {r} \X Plan[r]

\* schedule(tasks) with the plan of request r.
Schedule(r) ==
    /\ turn' = [turn EXCEPT ![r] = Cardinality({q \in Request : turn[q] > 0}) + 1]
    /\ Pass(pending \union PlanObjects(r))

\* retry_pending: with an empty list the pass queues nothing.
RetryPending ==
    /\ turn' = turn
    /\ Pass(pending)

SchedTypeOK ==
    /\ pending \subseteq Object
    /\ turn \in [Request -> Nat]
    /\ produced \in [Object -> Nat]
=============================================================================
