\* Two connections, one Close; a pass of one job, then hold or begin again.
SPECIFICATION FairSpec
CONSTANTS
    Conns = {c1, c2}
    Closers = {k1}
    Jobs = 1
    Timings = {{}, {"JobEvery"}}
    OnSubmit = TRUE
    None = None
    MaxFrames = 2
CHECK_DEADLOCK FALSE
INVARIANTS
    QuietAfterClose
    CallbacksFollowSubmissions
PROPERTIES
    CloseReturns
    HandlerEnds
