CONSTANTS
    Absent = Absent
    Faulty = {"open", "read", "evidence", "copy", "import", "rename", "reconcile", "mkdir", "list", "stage", "unstage", "write", "cleanup"}
    InDataDirectory = FALSE
    MaxFaults = 3
    MaxCrashes = 2
    MaxResets = 2
SPECIFICATION DirectorySpec
INVARIANTS
    NothingLost
    EmptyIsFresh
PROPERTIES
    ImportIsFinal
CHECK_DEADLOCK FALSE
