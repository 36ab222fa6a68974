SPECIFICATION CoFragSpec
CONSTANTS
    Virtual = Virtual
    Openers = {o1}
    Enums = {e1, e2}
    MaxOpens = 2
    MaxTick = 2
    ULONG = 4
    Callers = {c1}
    Layouts <- MCLayouts
    Targets = {10}
INVARIANTS ItemsExact CancelAnswered
SYMMETRY MCSymmetry
