--------------------------- MODULE DataDirectory ---------------------------
(***************************************************************************)
(* The application's data directory over its whole life: startup with the  *)
(* one-time import of the JSON store (sqliteAppStateImport.ts), reread and *)
(* full reset of the recovery page (sqliteAppStateLifecycle.ts), applied   *)
(* by appStateLifecycle.ts, with failing file operations and crashes       *)
(* between any two awaits.                                                 *)
(*                                                                         *)
(* Of the files a directory owns, one of each kind is kept: app-state.json,*)
(* the attachments, the database, and the copies an import leaves.         *)
(***************************************************************************)
EXTENDS Naturals

CONSTANTS
    Absent,          \* a file or directory that does not exist
    Faulty,          \* the steps that may fail
    InDataDirectory, \* whether the process was started in the data directory
    MaxFaults,       \* bound on the failing steps
    MaxCrashes,      \* bound on the crashes
    MaxResets        \* bound on the full resets

Rows == {"empty", "imported", "edited", "invalid"}

Databases == [rows : Rows, marker : BOOLEAN]

\* What a directory may hold.
Directories ==
    [json : {Absent, "data", "malformed"}, attachments : {Absent, "data"},
     database : {Absent} \cup Databases, copies : {Absent, "data"}]

ASSUME DataDirectoryAssumption ==
    /\ Absent \notin Directories \cup Databases \cup {"data", "malformed"}
    /\ InDataDirectory \in BOOLEAN
    /\ MaxFaults \in Nat /\ MaxCrashes \in Nat /\ MaxResets \in Nat

VARIABLES
    base,      \* the files in the data directory
    staging,   \* those in .app-state-reset, or Absent
    connected, \* whether the store's connection is open
    status,    \* what the user sees
    op,        \* the operation that runs, or ran last
    at,        \* where it is
    reloaded,  \* whether initialize runs for the second time, from apply
    targets,   \* entries still to be staged
    staged,    \* stagedNames, in the order in which targets lists them
    damaged,   \* whether rollbackReset could not move an entry back
    faults, crashes, resets, \* bounded counters
    had,       \* history: there has been data of the user
    wiped      \* history: a full reset replaced that data by an empty database

files == <<base, staging>>
operation == <<op, at, reloaded, targets, staged, damaged>>
counters == <<faults, crashes, resets>>
directoryVars == <<files, connected, status, operation, counters, had, wiped>>

\* The owned paths, and the order in which collectResetTargets lists them.
Entries == {"json", "attachments", "database", "copies"}
Place == [json |-> 1, attachments |-> 2, database |-> 3, copies |-> 4]

First(e, S) == \A f \in S : Place[e] <= Place[f]
Latest(e, S) == \A f \in S : Place[f] <= Place[e]

EmptyDirectory == [json |-> Absent, attachments |-> Absent, database |-> Absent, copies |-> Absent]

Database(rows, marker) == [rows |-> rows, marker |-> marker]

EmptyDatabase == Database("empty", FALSE)

Present(e) == base[e] # Absent

\* Mutant of Evidence: an interrupted reset is overlooked.
EvidenceInPlace == Present("attachments") \/ Present("copies")

Evidence == Present("attachments") \/ Present("copies") \/ staging # Absent

HasRows(directory) ==
    \/ directory.json # Absent
    \/ directory.database # Absent /\ directory.database.rows # "empty"

-----------------------------------------------------------------------------
(* Steps *)

Fault(step) ==
    /\ step \in Faulty /\ faults < MaxFaults
    /\ faults' = faults + 1
    /\ UNCHANGED <<crashes, resets>>

\* The operation goes on.
Goto(next) ==
    /\ at' = next
    /\ UNCHANGED <<status, op, reloaded, targets, staged, damaged>>

\* prepareAppStateResult hands the result to the authority and to the gate.
Conclude(result) ==
    /\ at' = "idle"
    /\ status' = result
    /\ UNCHANGED <<op, reloaded, targets, staged, damaged>>

\* The operation rejects: at startup no window is ever opened, on the recovery
\* page everything stays as it is.
Reject == Conclude(IF op = "startup" THEN "failed" ELSE status)

Start ==
    /\ status \in {"down", "failed"}
    /\ status' = "starting" /\ op' = "startup" /\ at' = "open"
    /\ reloaded' = FALSE
    /\ UNCHANGED <<files, connected, targets, staged, damaged, counters, had, wiped>>

Reread ==
    /\ status = "recovery" /\ at = "idle"
    /\ op' = "reread" /\ at' = "open" /\ reloaded' = FALSE
    /\ UNCHANGED <<files, connected, status, targets, staged, damaged, counters, had, wiped>>

\* store.open: a database that is not there is created and migrated.
Open ==
    /\ at = "open"
    /\ \/ /\ connected' = TRUE
          /\ base' = IF Present("database") THEN base ELSE [base EXCEPT !.database = EmptyDatabase]
          /\ Goto("marker") /\ UNCHANGED counters
       \/ /\ ~connected /\ Fault("open")
          /\ Conclude("recovery") /\ UNCHANGED <<base, connected>>
    /\ UNCHANGED <<staging, had, wiped>>

\* A valid result; apply initializes once more before it goes on.
Loaded ==
    /\ at' = IF reloaded THEN "reconcile" ELSE "marker"
    /\ reloaded' = TRUE
    /\ UNCHANGED <<status, op, targets, staged, damaged>>

\* Mutant of CheckMarker: the marker is not asked.
CheckMarkerNever ==
    /\ at = "marker"
    /\ IF base.json = "data" \/ ~base.database.marker THEN Goto("read")
       ELSE IF base.database.rows = "invalid" THEN Conclude("recovery")
       ELSE Loaded
    /\ UNCHANGED <<files, connected, counters, had, wiped>>

CheckMarker ==
    /\ at = "marker"
    /\ IF ~base.database.marker THEN Goto("read")
       ELSE IF base.database.rows = "invalid" THEN Conclude("recovery")
       ELSE Loaded
    /\ UNCHANGED <<files, connected, counters, had, wiped>>

ReadJson ==
    /\ at = "read"
    /\ \/ /\ CASE base.json = Absent -> Goto("evidence")
               [] base.json = "data" -> Goto("copy")
               [] OTHER -> Conclude("recovery")
          /\ UNCHANGED counters
       \/ Fault("read") /\ Conclude("recovery")
    /\ UNCHANGED <<files, connected, had, wiped>>

\* A fresh install, unless something of Carrent's is left.
InspectEvidence ==
    /\ at = "evidence"
    /\ \/ /\ IF Evidence \/ base.database # EmptyDatabase
             THEN Conclude("recovery") /\ UNCHANGED base
             ELSE Loaded /\ base' = [base EXCEPT !.database.marker = TRUE]
          /\ UNCHANGED counters
       \/ Fault("evidence") /\ Conclude("recovery") /\ UNCHANGED base
       \/ Fault("import") /\ Reject /\ UNCHANGED base
    /\ UNCHANGED <<staging, connected, had, wiped>>

CopySource ==
    /\ at = "copy"
    /\ \/ base' = [base EXCEPT !.copies = "data"] /\ Goto("import") /\ UNCHANGED counters
       \/ Fault("copy") /\ Conclude("recovery") /\ UNCHANGED base
    /\ UNCHANGED <<staging, connected, had, wiped>>

\* Rows and marker commit together; a transaction that throws is not caught.
Import ==
    /\ at = "import"
    /\ \/ base' = [base EXCEPT !.database = Database("imported", TRUE)] /\ Goto("rename") /\ UNCHANGED counters
       \/ Fault("import") /\ Reject /\ UNCHANGED base
    /\ UNCHANGED <<staging, connected, had, wiped>>

RenameSource ==
    /\ at = "rename"
    /\ Loaded
    /\ \/ base' = [base EXCEPT !.json = Absent, !.copies = "data"] /\ UNCHANGED counters
       \/ Fault("rename") /\ UNCHANGED base
    /\ UNCHANGED <<staging, connected, had, wiped>>

\* reconcileAttachments deletes what the snapshot does not refer to, or fails
\* silently.
Reconcile ==
    /\ at = "reconcile"
    /\ Conclude("ready")
    /\ \/ /\ base' = IF base.database.rows = "empty" THEN [base EXCEPT !.attachments = Absent] ELSE base
          /\ UNCHANGED counters
       \/ Fault("reconcile") /\ UNCHANGED base
    /\ UNCHANGED <<staging, connected, had, wiped>>

-----------------------------------------------------------------------------
(* fullReset *)

\* The store is drained and closed.
FullReset ==
    /\ status = "recovery" /\ at = "idle" /\ resets < MaxResets
    /\ resets' = resets + 1
    /\ op' = "full-reset" /\ at' = "look"
    /\ connected' = FALSE
    /\ staged' = {} /\ targets' = {} /\ damaged' = FALSE
    /\ UNCHANGED <<files, status, reloaded, faults, crashes, had, wiped>>

\* An earlier reset that did not finish is left alone, if it is seen.
LookForLeftover ==
    /\ at = "look"
    /\ \/ /\ IF staging # Absent THEN Conclude("recovery") ELSE Goto("clear")
          /\ UNCHANGED counters
       \/ Fault("look") /\ Goto("clear")
    /\ UNCHANGED <<files, connected, had, wiped>>

ClearStaging ==
    /\ at = "clear"
    /\ \/ staging' = EmptyDirectory /\ Goto("collect") /\ UNCHANGED counters
       \/ Fault("mkdir") /\ Goto("rollback") /\ UNCHANGED staging
    /\ UNCHANGED <<base, connected, had, wiped>>

\* A directory that cannot be listed has no targets.
CollectResetTargets ==
    /\ at = "collect"
    /\ at' = "stage"
    /\ \/ targets' = {e \in Entries : Present(e)} /\ UNCHANGED counters
       \/ Fault("list") /\ targets' = {}
    /\ UNCHANGED <<files, connected, status, op, reloaded, staged, damaged, had, wiped>>

StageNext ==
    /\ at = "stage"
    /\ \/ targets = {} /\ Goto("fresh") /\ UNCHANGED <<files, counters>>
       \/ \E e \in targets :
             /\ First(e, targets)
             /\ base' = [base EXCEPT ![e] = Absent]
             /\ staging' = [staging EXCEPT ![e] = base[e]]
             /\ staged' = staged \cup {e} /\ targets' = targets \ {e}
             /\ UNCHANGED <<status, op, at, reloaded, damaged, counters>>
       \/ targets # {} /\ Fault("stage") /\ Goto("rollback") /\ UNCHANGED files
    /\ UNCHANGED <<connected, had, wiped>>

OpenFresh ==
    /\ at = "fresh"
    /\ \/ /\ base' = IF Present("database") THEN base ELSE [base EXCEPT !.database = EmptyDatabase]
          /\ connected' = TRUE
          /\ Goto("write") /\ UNCHANGED counters
       \/ Fault("open") /\ Goto("rollback") /\ UNCHANGED <<base, connected>>
    /\ UNCHANGED <<staging, had, wiped>>

\* The empty snapshot and the marker commit together; a marker that is there
\* already makes the transaction fail.
WriteFresh ==
    /\ at = "write"
    /\ \/ /\ ~base.database.marker
          /\ base' = [base EXCEPT !.database = Database("empty", TRUE)]
          /\ wiped' = TRUE
          /\ Goto("cleanup") /\ UNCHANGED <<connected, counters>>
       \/ /\ base.database.marker
          /\ connected' = FALSE /\ Goto("rollback") /\ UNCHANGED <<base, wiped, counters>>
       \/ /\ Fault("write")
          /\ connected' = FALSE /\ Goto("rollback") /\ UNCHANGED <<base, wiped>>
    /\ UNCHANGED <<staging, had>>

\* Mutant of RollbackReset: the staging directory goes also when names are left in it.
RollbackResetForgetting ==
    /\ at = "rollback"
    /\ \/ staged = {} /\ Conclude("recovery") /\ staging' = Absent
       \/ \E e \in staged :
             /\ Latest(e, staged)
             /\ staged' = staged \ {e} /\ damaged' = TRUE
             /\ UNCHANGED <<staging, status, op, at, reloaded, targets>>
    /\ UNCHANGED <<base, connected, counters, had, wiped>>

\* The names are moved back from a path relative to the working directory.
RollbackReset ==
    /\ at = "rollback"
    /\ \/ /\ staged = {} /\ Conclude("recovery") /\ UNCHANGED base
          /\ \/ staging' = (IF damaged THEN staging ELSE Absent) /\ UNCHANGED counters
             \/ ~damaged /\ Fault("cleanup") /\ UNCHANGED staging
       \/ \E e \in staged :
             /\ Latest(e, staged)
             /\ staged' = staged \ {e}
             /\ \/ /\ InDataDirectory
                   /\ base' = [base EXCEPT ![e] = staging[e]]
                   /\ staging' = [staging EXCEPT ![e] = Absent]
                   /\ UNCHANGED <<damaged, counters>>
                \/ /\ ~InDataDirectory /\ UNCHANGED counters
                   /\ damaged' = TRUE /\ UNCHANGED files
                \/ /\ InDataDirectory /\ Fault("unstage")
                   /\ damaged' = TRUE /\ UNCHANGED files
             /\ UNCHANGED <<status, op, at, reloaded, targets>>
    /\ UNCHANGED <<connected, had, wiped>>

CleanUp ==
    /\ at = "cleanup"
    /\ \/ staging' = Absent /\ Conclude("ready") /\ UNCHANGED counters
       \/ Fault("cleanup") /\ Conclude("recovery") /\ UNCHANGED staging
    /\ UNCHANGED <<base, connected, had, wiped>>

-----------------------------------------------------------------------------
(* Environment *)

\* The user works: rows that refer to attachments.
Work ==
    /\ status = "ready"
    /\ base.database.rows # "edited" \/ ~Present("attachments")
    /\ base' = [base EXCEPT !.database.rows = "edited", !.attachments = "data"]
    /\ had' = TRUE /\ wiped' = FALSE
    /\ UNCHANGED <<staging, connected, status, operation, counters>>

\* The process ends, wherever it is.
Crash ==
    /\ status # "down" /\ crashes < MaxCrashes
    /\ crashes' = crashes + 1
    /\ status' = "down" /\ at' = "idle" /\ connected' = FALSE
    /\ UNCHANGED <<files, op, reloaded, targets, staged, damaged, faults, resets, had, wiped>>

-----------------------------------------------------------------------------
(* Specification *)

\* What a release finds: nothing, the JSON store, or a database; each intact or
\* not.
Disk ==
    {EmptyDirectory}
    \cup {[EmptyDirectory EXCEPT !.json = json, !.attachments = "data"] : json \in {"data", "malformed"}}
    \cup {[EmptyDirectory EXCEPT !.database = Database(rows, TRUE), !.attachments = "data", !.copies = copies] :
             rows \in {"edited", "invalid"}, copies \in {Absent, "data"}}

DirectoryInit ==
    /\ base \in Disk
    /\ staging = Absent
    /\ connected = FALSE
    /\ status = "down"
    /\ op = "startup" /\ at = "idle" /\ reloaded = FALSE
    /\ targets = {} /\ staged = {} /\ damaged = FALSE
    /\ faults = 0 /\ crashes = 0 /\ resets = 0
    /\ had = (base # EmptyDirectory)
    /\ wiped = FALSE

Initialize ==
    Open \/ CheckMarker \/ ReadJson \/ InspectEvidence \/ CopySource \/ Import \/ RenameSource \/ Reconcile

Resetting ==
    LookForLeftover \/ ClearStaging \/ CollectResetTargets \/ StageNext \/ OpenFresh \/ WriteFresh
    \/ RollbackReset \/ CleanUp

DirectoryNext == Start \/ Reread \/ Initialize \/ FullReset \/ Resetting \/ Work \/ Crash

DirectorySpec == DirectoryInit /\ [][DirectoryNext]_directoryVars

-----------------------------------------------------------------------------
(* Properties *)

Steps == {"idle", "open", "marker", "read", "evidence", "copy", "import", "rename", "reconcile",
          "look", "clear", "collect", "stage", "fresh", "write", "rollback", "cleanup"}

\* The files and the operation keep their shape.
TypeOK ==
    /\ base \in Directories
    /\ staging # Absent => staging \in Directories
    /\ {connected, reloaded, damaged, had, wiped} \subseteq BOOLEAN
    /\ status \in {"down", "starting", "ready", "recovery", "failed"}
    /\ op \in {"startup", "reread", "full-reset"} /\ at \in Steps
    /\ targets \subseteq Entries /\ staged \subseteq Entries
    /\ faults \in 0..MaxFaults /\ crashes \in 0..MaxCrashes /\ resets \in 0..MaxResets

\* Data of the user stays on the disk, in its place or in the staging directory,
\* until a full reset has committed the empty database that replaces it.
NothingLost ==
    had /\ ~wiped =>
        /\ \E d \in {base, staging} : d # Absent /\ HasRows(d)
        /\ \E d \in {base, staging} : d # Absent /\ d.attachments # Absent

\* An App State that comes up empty means that there never was any, or that it
\* was reset: data set aside by an interrupted reset is not mistaken for a
\* fresh install.
EmptyIsFresh ==
    status = "ready" /\ base.database.rows = "empty" => wiped \/ ~had

\* The import never overwrites what was written after it, also when the process
\* ended between its commit and the renaming of its source.
ImportIsFinal ==
    [][base.database # Absent /\ base.database.rows = "edited" /\ base'.database # Absent
         => base'.database.rows = "edited"]_directoryVars

\* "a half-old/half-new ready state is never exposed": rows come up together with
\* the attachments they refer to.  The code does not keep this when a reset fails
\* (rollbackReset) or stops half-way; no run checks it, README says how to see it.
ReadyIsWhole ==
    status = "ready" /\ base.database.rows # "empty" => Present("attachments")
=============================================================================
