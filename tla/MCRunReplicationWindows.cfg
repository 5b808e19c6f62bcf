CONSTANTS
    Thread = {t1}
    RunId = {r1}
    Permission = {}
    Question = {}
    Window = {w1, w2}
    NoRun = NoRun
    NoThread = NoThread
    NoId = NoId
    NoState = NoState
    Bounded = FALSE
    StrictMode = FALSE
    MaxCloses = 1
    MaxEvents = 1
    Endings = {"completed"}
    Limited = TRUE
SYMMETRY WindowSymmetry
SPECIFICATION ReplicationSpec
INVARIANTS
    ReplicaAgrees
    NoEventSkipped
CHECK_DEADLOCK FALSE
