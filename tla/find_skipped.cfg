\* A client leaves while a broadcast waits for it: the next one in the list is passed over.
CONSTANTS
    Conn = {c1, c2}
    Emitter = {e1, e2, loop}
    Loop = loop
    None = None
    Task = {t}
    MaxUpdates = 2
    MaxChan = 2
SPECIFICATION Spec
SYMMETRY FeedSymmetry
INVARIANTS
    EveryClientReached
