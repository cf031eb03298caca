\* A push mirrored field by field under a Stats call; a two-point window.
SPECIFICATION Spec
CONSTANTS
    Window = 2
    MaxPushes = 1
    MaxHashes = 1
    MaxTime = 2
INVARIANTS
    StatsTypeOK
    FinalWhenStopped
    FieldsAreFresh
    RateIsWide
