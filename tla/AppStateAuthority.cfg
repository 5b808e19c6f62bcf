CONSTANTS
    Thread = {t1}
    CommandId = {c1, c2}
    NoCommand = NoCommand
    NoBase = NoBase
    Gone = Gone
    Overlap = FALSE
    MaxApplied = 1
    MaxSubmits = 3
    MaxTransactions = 2
    MaxRereads = 1
SPECIFICATION Spec
INVARIANTS
    MemoryMatchesStore
    NothingMovesUnderCommand
    TransactionSeesLastEdit
PROPERTY
    CommandsAnswered
CHECK_DEADLOCK FALSE
