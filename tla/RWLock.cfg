\* Three threads, in program order and with store buffers; StoreBuffered is
\* what the properties of RWLock itself are read with.
CONSTANTS
    Threads = {t1, t2, t3}
    NoThread = NoThread
    NoStore = NoStore
    StoreBuffered = FALSE
    MaxDepth = 2
SPECIFICATION MCSpec
INVARIANTS SharedCountExact
PROPERTIES ImplementsRWLock WriterProceedsInOrder
