\* Nothing is left to do once the first hashes are judged or run has ended.
SPECIFICATION StartupSpec
CONSTANTS
    Worlds <- MCWorlds
    Answers <- MCAnswers
    MaxThreads = 4
    Base = 4
    Digits = 2
    None = None
    Missing = Missing
    Torn = Torn
    Absent = Absent
    Blank = Blank
    Names <- MCNames
    Garbled = Garbled
    NoOrder = NoOrder
    p1 = p1
    p2 = p2
    w1 = w1
    w2 = w2
    dp = dp
    dw = dw
    DefaultDaemon = dp
    DefaultWallet = dw
    SampleBytes <- MCSampleBytes
    SampleWindows <- MCSampleWindows
INVARIANTS
    MinerMatchesReference
    PureSetIsCurrent
    MinesWholeSettings
    SetupIsHonoured
    PinsAllOrNone
    CoresFirst
    TargetIsDefinition
CHECK_DEADLOCK FALSE
