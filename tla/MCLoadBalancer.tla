--------------------------- MODULE MCLoadBalancer ---------------------------
(* Model checking LoadBalancer: the served-task counters are capped, and the  *)
(* symmetry of the coroutines is used by hand.                                *)
EXTENDS LoadBalancer, Functions

CONSTANT MaxServed    \* cap on the tasks all workers serve in a behaviour

\* The coroutines are numbered.  Nothing tells apart the ones that hold nothing, nor
\* those that hold the same worker: the first of the former is given a worker, the
\* last of the latter releases it.
FirstFree(p) == \A q \in Pipe : worker_id[q] = None => p <= q
LastHolder(p) == \A q \in Holders(worker_id[p]) : q <= p

Served(w) == workers[w].tasks_completed + workers[w].tasks_failed

Uncapped ==
    FoldFunction(+, 0, [w \in Worker |-> Served(w)]) < MaxServed

MCAssign(p) ==
    /\ FirstFree(p)
    /\ \E t \in Task, type \in {"cpu", "io"} : AssignWorker(p, t, type)

MCRelease(p) ==
    /\ worker_id[p] # None /\ LastHolder(p) /\ Uncapped
    /\ \E success \in BOOLEAN : ReleaseWorker(p, success)

MCNext == \E p \in Pipe : MCAssign(p) \/ MCRelease(p)

MCSpec == LBInit /\ [][MCNext]_lbVars
=============================================================================
