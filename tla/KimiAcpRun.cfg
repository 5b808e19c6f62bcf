CONSTANTS
    Permission = {}
    Review = {v1}
    Native = {n1}
    Mcp = {m1}
    Shell = Shell
    ExitPlan = ExitPlan
    Terminal = {t1}
SPECIFICATION Spec
INVARIANTS NobodyWaitsUnseen NothingOutlivesRun CompletedCanContinue
PROPERTIES KeepsPromise RunEnds
CHECK_DEADLOCK FALSE
