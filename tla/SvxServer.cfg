\* Two clients that may never answer, a service that starts well or not.
CONSTANTS
    Clients = {c1, c2}
    Faults = {"event", "callcx", "com", "register", "resume", "context"}
SPECIFICATION FairSpec
INVARIANTS CallCountExact RefsExact HandlerBeforeCleanup
PROPERTIES StopCompletes CancelReachesAll
\* The process exits.
CHECK_DEADLOCK FALSE
