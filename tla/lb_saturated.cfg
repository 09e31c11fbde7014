\* Ten coroutines on two CPU workers: loads are clamped at both ends and drift.
CONSTANTS
    NUM_CPU_WORKERS = 2
    NUM_IO_WORKERS = 0
    Task = {t1}
    Pipe = {1, 2, 3, 4, 5, 6, 7, 8, 9, 10}
    None = None
    MaxServed = 8
SPECIFICATION MCSpec
CHECK_DEADLOCK FALSE
INVARIANTS
    LBTypeOK
    LoadNeverOverstated
    LoadLossBounded
    NoPhantomBusy
PROPERTIES
    LeastUtilizedChosen
