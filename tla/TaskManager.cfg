SPECIFICATION Spec
CONSTANTS
    Files = {}
    Dirs = {d1, d2}
    Children = {c1}
    NoRecord = NoRecord
INVARIANTS RecordsOwnedOnce NoLostWakeup
PROPERTIES EventsInOrder
CHECK_DEADLOCK FALSE
