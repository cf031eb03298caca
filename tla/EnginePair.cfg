\* One thread in pair mode, two jobs that replace each other, one session.
SPECIFICATION Spec
CONSTANTS
    Work = {w1, w2}
    NoWork = NoWork
    Threads = {t1}
    Pair = TRUE
    SubmitBuffer = 2
    CounterFlush = 4
    MaxHashes = 4
    Pushes <- MCPushes
    InitialBackoff = 1
    MaxBackoff = 1
    MaxEpoch = 3
    MaxSessions = 1
INVARIANTS
    ShareCarriesItsWork
    HashesInstalledWork
    HashAccounting
    OneLateShare
