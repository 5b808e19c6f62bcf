CONSTANTS
    Thread = {t1, t2}
    NoJournal = NoJournal
    Nothing = Nothing
    Faulty = {"load", "check", "discard", "discardBackup", "unmark", "clearFinished", "list",
              "unstage", "unbackup", "clear", "begin", "copy", "stage", "commit", "record", "reconcile"}
    MaxDeletions = 2
    MaxFaults = 3
    MaxCrashes = 2
    MaxRereads = 0
SPECIFICATION Spec
INVARIANTS
    WritesBlockedWhileAway
    SettledIsAtomic
PROPERTY PromiseKept
CHECK_DEADLOCK FALSE
