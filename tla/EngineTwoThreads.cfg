\* Two threads race into a one-slot channel over two sessions.
SPECIFICATION Spec
CONSTANTS
    Work = {w1}
    NoWork = NoWork
    Threads = {t1, t2}
    Pair = FALSE
    SubmitBuffer = 1
    CounterFlush = 2
    MaxHashes = 2
    Pushes <- MCPushes
    InitialBackoff = 1
    MaxBackoff = 1
    MaxEpoch = 3
    MaxSessions = 2
SYMMETRY ThreadSymmetry
INVARIANTS
    TypeOK
    OwnSession
    ShareAccounting
    NoWorkWithoutSession
PROPERTIES
    WireEpochsOrdered
    ImplementsRelay
    QuietAfterDone
