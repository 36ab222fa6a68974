SPECIFICATION Spec
CHECK_DEADLOCK FALSE
CONSTANTS
    Main = main
    Workers = {w1, w2}
    Dirs <- MCDirs
    Root = "root"
    File = file
    Entries <- MCEntries
    Depth <- MCDepth
    MaxDepths = {1, 3}
    FPI_WORKERTHREADMAX = 2
    FPI_WORKERTHREADTHRESHOLD = 0
    MaxFailures = 1
INVARIANTS Complete WorkersGone
PROPERTIES TreeOrder EnumReturns
