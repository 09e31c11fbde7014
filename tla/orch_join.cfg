\* The last stages of a chunk and the aggregation: two dependencies of a join complete side by
\* side; duplicates, retries, dead letters and rejections by the critic.
CONSTANTS
    NUM_CPU_WORKERS = 1
    NUM_IO_WORKERS = 2
    MAX_RETRIES = 1
    Task <- LastStages
    Pipe = {p1, p2, p3, p4}
    None = None
    Request = {r1}
    Chunks <- OneChunkEach
    Plan <- MCPlan
    Deps <- MCDeps
    Position <- MCPosition
    Partition <- MCPartition
    Error = {"ConnectionTimeout", "MemoryError"}
    ExecTime = {3, 120}
SPECIFICATION Spec
SYMMETRY PipeSymmetry
CHECK_DEADLOCK FALSE
INVARIANTS
    TypeOK
    NoLostWakeup
    QueuedIsServed
    NoWorkerLeak
    CurrentTaskHeld
    RetryBudget
    LedgersAgree
    AggregateAfterAll
PROPERTIES
    GateSpec
