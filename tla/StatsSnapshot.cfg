\* Is a Stats result the counters of one push?
SPECIFICATION Spec
CONSTANTS
    Window = 1
    MaxPushes = 1
    MaxHashes = 0
    MaxTime = 0
INVARIANT
    StatsIsSnapshot
