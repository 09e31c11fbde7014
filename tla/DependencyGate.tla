--------------------------- MODULE DependencyGate ---------------------------
(***************************************************************************)
(* What the orchestrator promises about the order of a workload, without   *)
(* queue, store, coroutines or retries: work on a task begins only when    *)
(* all tasks it needs are done, what is done stays done, and only a task   *)
(* that is being worked on gets done.                                      *)
(***************************************************************************)
CONSTANTS Task, Needs     \* Needs[t]: the tasks t waits for

VARIABLES
    active,     \* tasks that are being worked on
    done        \* tasks that have been executed with success

GateInit == active = {} /\ done = {}

\* Work on some tasks begins, on others it ends.
Begin ==
    /\ \A t \in active' \ active : Needs[t] \subseteq done
    /\ UNCHANGED done

Finish ==
    /\ active' = active
    /\ \E t \in active : done' = done \union {t}

GateSpec == GateInit /\ [][Begin \/ Finish]_<<active, done>>
=============================================================================
