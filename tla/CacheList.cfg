SPECIFICATION Spec
CONSTANTS
    Threads = {t1, t2, t3}
    CacheBlockSize = 20
    CacheRegionMax = 2
    CacheRecordSize = 3
    SizeOfCacheList = 2
    MaxHeld = 2
    MaxFailures = 1
INVARIANTS Conserved
PROPERTIES ImplementsPool PopReturns
