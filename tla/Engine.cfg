SPECIFICATION Spec
CONSTANTS
    Virtual = Virtual
    VolumeSizes = {4, 6}
    Lengths = {0, 3}
    MaxOthers = 2
    CountOfBitMap = 4
    Unit = 2
    Word = 2
    BlockCounts = {1, 2}
    SkipCounts = {0, 2}
    CallbackIncrement = 2
    MaxAttempts = 2
    MaxChanges = 1
INVARIANTS FewFragments ProgressExact
PROPERTIES SearchExact DefragEnds
