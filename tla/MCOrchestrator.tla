--------------------------- MODULE MCOrchestrator ---------------------------
(* Workloads for model checking Orchestrator: cuts of the planner's plan (the *)
(* dependencies outside a cut count as done).                                  *)
EXTENDS Orchestrator, TLC

CONSTANT Chunks    \* Chunks[r]: total_chunks of request r

PipeSymmetry == Permutations(Pipe)

\* The plans of the requests, cut down to the tasks of Task.
MCPlan == [r \in Request |-> PlanTasks(Chunks[r]) \intersect Task]

MCDeps ==
    [r \in Request |-> [t \in Task |->
        IF t \in MCPlan[r] THEN PlanDependencies(Chunks[r], t) \intersect Task ELSE {}]]

MCPosition == [t \in Task |-> PlanPosition(t)]

MCPartition == [t \in Task |-> PlanPartition(t)]

\* The cuts: stages of a workload of one chunk ...
WholePlan == PlanTasks(1)
Stages(names) == {t \in WholePlan : t[1] \in names}
Join == Stages({"blacklist_check", "geolocation", "pattern_detect"})
JoinAndReport == Join \union Stages({"generate_report"})
LastStages == JoinAndReport \union Stages({"aggregate_final"})
Pair == Stages({"geolocation", "pattern_detect"})

\* ... and how a workload of two chunks begins.
FirstStages == {t \in PlanTasks(2) : t[1] \in {"extract_ips", "deduplicate"}}

OneChunkEach == [r \in Request |-> 1]
TwoChunksEach == [r \in Request |-> 2]
=============================================================================
