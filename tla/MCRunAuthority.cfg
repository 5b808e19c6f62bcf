CONSTANTS
    Thread = {t1}
    RunId = {r1, r2, r3}
    Permission = {p1}
    Question = {q1}
    Window = {w1}
    NoRun = NoRun
    NoThread = NoThread
    NoId = NoId
    MaxEvents = 3
    Endings = {"completed", "failed", "cancelled"}
    Limited = TRUE
SPECIFICATION Spec
SYMMETRY Symmetry
VIEW Unpublished
INVARIANTS
    StatusMatchesInteractions
    AcceptedUntilSettled
    OrphanTurnIsStopped
    QueueReachesRevision
PROPERTY TerminalRunIsFinal
CHECK_DEADLOCK FALSE
