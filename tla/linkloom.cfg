\* Two requests at a time for one short code, two worker processes, two click events, one fault.
CONSTANTS
    Event = {e1, e2}
    Worker = {w1, w2}
    None = None
    MaxFaults = 1
    Handler = {h1, h2}
    Code = {"a"}
    Url = {"u", "v"}
    Root = "/"
SPECIFICATION Spec
INVARIANTS
    TypeOK
    CacheCoherent
    RedirectRight
    NoClickLost
    SurplusBounded
PROPERTIES
    LedgerSpec
    EventuallyCounted
