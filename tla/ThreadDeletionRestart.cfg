CONSTANTS
    Thread = {t1}
    NoJournal = NoJournal
    Nothing = Nothing
    Faulty = {"load", "check", "discard", "discardBackup", "unmark", "clearFinished", "list", "restore",
              "unstage", "unbackup", "clear", "begin", "copy", "stage", "commit", "record", "reconcile"}
    MaxDeletions = 2
    MaxFaults = 2
    MaxCrashes = 1
    MaxRereads = 1
SPECIFICATION Spec
PROPERTY RestartSettles
CHECK_DEADLOCK FALSE
