\* A duplicated coroutine re-executes a dependency of a completed task.
CONSTANTS
    NUM_CPU_WORKERS = 1
    NUM_IO_WORKERS = 1
    MAX_RETRIES = 1
    Task <- JoinAndReport
    Pipe = {p1, p2, p3, p4}
    None = None
    Request = {r1}
    Chunks <- OneChunkEach
    Plan <- MCPlan
    Deps <- MCDeps
    Position <- MCPosition
    Partition <- MCPartition
    Error = {"ConnectionTimeout"}
    ExecTime = {3}
SPECIFICATION FairSpec
CHECK_DEADLOCK FALSE
PROPERTIES
    EventuallySettled
