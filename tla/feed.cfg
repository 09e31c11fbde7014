\* Two clients, two coroutines that update a task and the metrics loop.
CONSTANTS
    Conn = {c1, c2}
    Emitter = {e1, e2, loop}
    Loop = loop
    None = None
    Task = {t}
    MaxUpdates = 2
    MaxChan = 2
SPECIFICATION Spec
SYMMETRY FeedSymmetry
INVARIANTS
    NeverTwice
    CaughtUp
    ConnectedIsListed
