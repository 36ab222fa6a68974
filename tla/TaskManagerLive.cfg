SPECIFICATION FairSpec
CONSTANTS
    Files = {f1}
    Dirs = {d1}
    Children = {}
    NoRecord = NoRecord
PROPERTIES FileCompletes ShutdownCompletes
CHECK_DEADLOCK FALSE
