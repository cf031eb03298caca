\* The pipeline stops once a pair is digested, and where data is longer than SortMax.
SPECIFICATION Spec
CONSTANTS
    Width = 3
    MinTries = 2
    MaxTries = 4
    Dropped = 1
    CountBase = 4
    Alphabet = {0, 1}
    SortMax = 12
    ArenaCap = 15
    GroupRunMax = 5
    ShortRunMax = 3
    LiteralMax = 4
    ConstantMin = 3
    LeftOver <- MCLeftOver
    BlockSize = 8
    LengthSize = 4
    PairLengths = {1, 7, 12}
INVARIANTS
    ExactSuffixArray
    RecordsAreSorted
    NeverDeclines
    FlagsFollowTemplates
    PairIsTwoDigests
CHECK_DEADLOCK FALSE
