\* The first stages of two chunks, under fairness.  No CPU worker is registered: what
\* the first tasks release is launched, deferred and launched again.
CONSTANTS
    NUM_CPU_WORKERS = 0
    NUM_IO_WORKERS = 1
    MAX_RETRIES = 1
    Task <- FirstStages
    Pipe = {p1, p2, p3, p4}
    None = None
    Request = {r1}
    Chunks <- TwoChunksEach
    Plan <- MCPlan
    Deps <- MCDeps
    Position <- MCPosition
    Partition <- MCPartition
    Error = {"ConnectionTimeout", "MemoryError"}
    ExecTime = {3, 120}
SPECIFICATION FairSpec
CHECK_DEADLOCK FALSE
INVARIANTS
    UnservableStaysQueued
PROPERTIES
    Termination
