SPECIFICATION Spec
CONSTANTS
    Window = {w1, w2}
    Message = {m1}
    Patch = {p1}
    Prune = {}
    Slot = {s1, s2}
    None = None
    Infinity = Infinity
    MaxAttempts = 2
    MaxOther = 1
INVARIANTS
    NoResurrection
    UnprotectedAgrees
PROPERTIES
    EditsHeld
    QuitEnds
CHECK_DEADLOCK FALSE
