\* One thread, two sessions, under fairness.
SPECIFICATION FairSpec
CONSTANTS
    Work = {w1}
    NoWork = NoWork
    Threads = {t1}
    Pair = FALSE
    SubmitBuffer = 1
    CounterFlush = 1
    MaxHashes = 1
    Pushes <- MCPushes
    InitialBackoff = 1
    MaxBackoff = 1
    MaxEpoch = 3
    MaxSessions = 2
PROPERTIES
    StopReturns
    LostLinkRedials
    StaleJobLeft
    JobPickedUp
