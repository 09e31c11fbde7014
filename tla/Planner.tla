------------------------------- MODULE Planner -------------------------------
(***************************************************************************)
(* PlannerAgent (agents/planner.py): the tasks of a workload of n chunks.  *)
(* A task id is its stage and its chunk; the aggregation has chunk 0.      *)
(***************************************************************************)
EXTENDS Naturals

MaxChunks == 50     \* WorkloadRequest.total_chunks: ge=1, le=50

\* PIPELINE_STAGES in list order.
PIPELINE_STAGES == <<
    [stage |-> "extract_ips",     partition |-> "io",  depends_on |-> {}],
    [stage |-> "deduplicate",     partition |-> "cpu", depends_on |-> {"extract_ips"}],
    [stage |-> "classify",        partition |-> "cpu", depends_on |-> {"deduplicate"}],
    [stage |-> "blacklist_check", partition |-> "io",  depends_on |-> {"classify"}],
    [stage |-> "geolocation",     partition |-> "io",  depends_on |-> {"classify"}],
    [stage |-> "pattern_detect",  partition |-> "cpu",
                                depends_on |-> {"blacklist_check", "geolocation"}],
    [stage |-> "generate_report", partition |-> "cpu", depends_on |-> {"pattern_detect"}] >>

NumStages == 7

Aggregate == <<"aggregate_final", 0>>

\* The place of a stage in the list.
StageIndex(stage) == CHOOSE i \in 1..NumStages : PIPELINE_STAGES[i].stage = stage

\* _create_chunk_tasks: one task per stage, dependencies within the chunk.
ChunkTasks(c) == {<<PIPELINE_STAGES[i].stage, c>> : i \in 1..NumStages}

\* Mutant of ChunkDependencies: only the first stage that is named.
FirstChunkDependency(t) ==
    LET on == PIPELINE_STAGES[StageIndex(t[1])].depends_on
    IN  {<<d, t[2]>> : d \in {e \in on : \A f \in on : StageIndex(e) <= StageIndex(f)}}

ChunkDependencies(t) ==
    {<<d, t[2]>> : d \in PIPELINE_STAGES[StageIndex(t[1])].depends_on}

\* plan: the chunks' tasks, then the aggregation of all their reports.
PlanTasks(n) == (UNION {ChunkTasks(c) : c \in 1..n}) \union {Aggregate}

PlanDependencies(n, t) ==
    IF t = Aggregate THEN {<<"generate_report", c>> : c \in 1..n}
                     ELSE ChunkDependencies(t)

PlanPartition(t) ==
    IF t = Aggregate THEN "cpu" ELSE PIPELINE_STAGES[StageIndex(t[1])].partition

\* Place in the list of any plan: the chunks in order, and the aggregation last.
PlanPosition(t) ==
    IF t = Aggregate THEN MaxChunks * NumStages + 1
                     ELSE (t[2] - 1) * NumStages + StageIndex(t[1])
=============================================================================
