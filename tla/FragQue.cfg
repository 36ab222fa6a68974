SPECIFICATION QueueFairSpec
CONSTANTS
    n1 = n1
    n2 = n2
    p1 = p1
    p2 = p2
    Names = {n1, n2}
    Processes = {p1, p2}
    Earlier = {n1}
    Enumerators = {p1}
    Watchers = {p2}
    FqiCreateFileNameHash <- MCHash
    Owner <- MCOwner
    MaxCalls = 2
    Slack = 0
    MaxFailures = 1
    None = None
INVARIANTS ContextsCounted FilesAsAsked AllTold LateOnce
PROPERTIES ItemsExecuted
CHECK_DEADLOCK FALSE
