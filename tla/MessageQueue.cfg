CONSTANTS
    Message = {m1}
    Foreign = {f1}
    None = None
    MaxSends = 2
    MaxEvents = 1
    MaxElsewhere = 1
SPECIFICATION Spec
INVARIANTS
    AutoSendsOwn
    SteerKept
    Reconciled
PROPERTY NothingDropped
CHECK_DEADLOCK FALSE
