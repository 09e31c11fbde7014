\* The same two stages submitted twice: stale Task objects in coroutines and in
\* the pending list.
CONSTANTS
    NUM_CPU_WORKERS = 1
    NUM_IO_WORKERS = 1
    MAX_RETRIES = 1
    Task <- Pair
    Pipe = {p1, p2, p3}
    None = None
    Request = {r1, r2}
    Chunks <- OneChunkEach
    Plan <- MCPlan
    Deps <- MCDeps
    Position <- MCPosition
    Partition <- MCPartition
    Error = {"ConnectionTimeout", "MemoryError"}
    ExecTime = {3, 120}
SPECIFICATION Spec
SYMMETRY PipeSymmetry
CHECK_DEADLOCK FALSE
INVARIANTS
    HeldOrProduced
    DependenciesExecuted
    DeadLetterJustified
    NothingAbandoned
