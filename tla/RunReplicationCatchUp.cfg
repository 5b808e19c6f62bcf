CONSTANTS
    Thread = {t1}
    RunId = {r1, r2}
    Permission = {}
    Question = {}
    Window = {w1}
    NoRun = NoRun
    NoThread = NoThread
    NoId = NoId
    NoState = NoState
    Bounded = FALSE
    StrictMode = TRUE
    MaxCloses = 1
    MaxEvents = 0
    Endings = {"completed"}
    Limited = FALSE
SPECIFICATION ReplicationSpec
INVARIANT RequestEndsWithRun
PROPERTY WindowsCatchUp
CHECK_DEADLOCK FALSE
