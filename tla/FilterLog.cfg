SPECIFICATION Spec
CONSTANTS
    Writers = {w1, w2}
    Client = c
    Events = {e1, e2}
    None = None
    MaxLimit = 2
    MaxRoom = 2
    MaxCaptures = 2
INVARIANTS RecordsCounted LimitOvershoot EventRefsExact
PROPERTIES ImplementsRecordLog
CHECK_DEADLOCK FALSE
