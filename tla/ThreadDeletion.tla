--------------------------- MODULE ThreadDeletion ---------------------------
(***************************************************************************)
(* Permanent thread deletion (electron/chat/threadDeletionTransaction.ts)  *)
(* across three stores that share no transaction: the SQLite rows, the     *)
(* attachment files (electron/attachments/attachmentStore.ts) and the      *)
(* memory of the chat session manager, held together by a journal file.    *)
(*                                                                         *)
(* Two actors take the steps between two awaits one at a time: the         *)
(* deletion manager, whose requests are queued, and the App State          *)
(* lifecycle (electron/workspace/appStateLifecycle.ts), which recovers at  *)
(* startup and when a window on the recovery page asks for a reread.  Any  *)
(* step that does I/O may fail if it is in Faulty, and the process may     *)
(* crash between any two steps.                                            *)
(*                                                                         *)
(* Data left out: every thread has one attachment, named like the thread,  *)
(* and a request names the attachments of its threads.  The JSON-era path  *)
(* of the manager is not modelled: the Main process always runs on SQLite. *)
(***************************************************************************)
EXTENDS Naturals

CONSTANTS
    Thread,        \* threads, and the attachment of each
    NoJournal,     \* "there is no journal file"
    Nothing,       \* "no key is being moved"
    Faulty,        \* the steps whose I/O may fail
    MaxDeletions,  \* bound on the deletions that write a journal
    MaxFaults,     \* bound on the failing steps
    MaxCrashes,    \* bound on the crashes
    MaxRereads     \* bound on the rereads asked for by a window

ASSUME ThreadDeletionAssumption ==
    /\ MaxDeletions \in Nat /\ MaxFaults \in Nat /\ MaxCrashes \in Nat /\ MaxRereads \in Nat
    /\ NoJournal \notin [op : 1..MaxDeletions, phase : {"preparing", "committed"}]
    /\ Nothing \notin Thread

VARIABLES
    rows,        \* threads with rows in the database
    marker,      \* operations whose commit marker is in app_metadata
    journal,     \* thread-deletion-journal.json
    store,       \* files in the attachments directory
    staged,      \* files in attachments-delete-<operation>
    backup,      \* files in attachments-backup-<operation>
    dirs,        \* which of those directories exist
    torn,        \* files whose copy was not finished, and where (0: attachments)
    lock,        \* activeTransactionCount of the App State authority
    refused,     \* deletedThreadIds of the session manager
    actor,       \* where each actor is, and what it holds
    operations,  \* deletions that wrote a journal so far
    faults,      \* steps that failed so far
    crashes,     \* crashes so far
    rereads      \* rereads so far

disk == <<rows, marker, journal, store, staged, backup, dirs, torn>>
files == <<store, staged, backup, dirs, torn>>
memory == <<lock, refused>>
counts == <<operations, crashes, rereads>>
vars == <<disk, memory, actor, counts, faults>>

-----------------------------------------------------------------------------
(* Data *)

Operation == 1..MaxDeletions
Journal == [op : Operation, phase : {"preparing", "committed"}]

Finishing == {"discard", "discardBackup", "unmark", "clearFinished"}
RollingBack == {"list", "restore", "restoring", "unstage", "unbackup", "clear"}
Recovering == {"load", "check"} \cup Finishing \cup RollingBack
Deleting == {"begin", "open", "copy", "copying", "stage", "detach", "commit", "record"}
Step == {"off", "idle", "reload", "reconcile"} \cup Recovering \cup Deleting

\* Where an actor is: its step, why it runs, the operation it works on, the
\* threads it was asked to delete, the pass of retryTwice, whether the pass had
\* an error, and the keys still to be moved.
Place(at, job) == [at |-> at, job |-> job, op |-> 0, target |-> {}, attempt |-> 1,
                   erred |-> FALSE, todo |-> {}, key |-> Nothing]

At(a, s) == actor[a].at = s
Move(a, s) == actor' = [actor EXCEPT ![a].at = s]
Own(a) == staged[actor[a].op] \cup backup[actor[a].op]

\* The windows are there: the process runs and its startup has finished.
Ready == ~At("lifecycle", "off") /\ (actor["lifecycle"].job = "startup" => At("lifecycle", "idle"))
Quiet == Ready /\ At("manager", "idle") /\ At("lifecycle", "idle")

Works == UNCHANGED faults

Fails(step) ==
    /\ step \in Faulty /\ faults < MaxFaults
    /\ faults' = faults + 1

-----------------------------------------------------------------------------
(* How an actor goes on when a part of its work ends.  Only lock and actor     *)
(* change.                                                                   *)

Leave(a, at) == actor' = [actor EXCEPT ![a] = Place(at, @.job)]

\* The transaction ends and the App State lock with it.
Release(a) == lock' = lock - 1 /\ Leave(a, "idle")

\* Mutant of Abandon: the lock is released while recovery is pending.
AbandonReleasing(a) == Release(a)

\* Recovery or rollback could not finish.  The manager keeps the lock
\* (recoveryPending); startup does not come up; a reread reports the error.
Abandon(a) ==
    IF a = "manager" THEN Leave(a, "idle") /\ UNCHANGED lock
    ELSE IF actor[a].job = "startup" THEN Leave(a, "off") /\ UNCHANGED lock
    ELSE Release(a)

\* The journal is settled: the deletion may begin, or the lifecycle reloads.
Recovered(a) ==
    /\ Move(a, IF a = "manager" THEN "begin" ELSE "reload")
    /\ UNCHANGED lock

OwnDeletion(a) == a = "manager" /\ actor[a].job = "delete"

-----------------------------------------------------------------------------
(* recoverThreadDeletionTransaction *)

LoadJournal(a) ==
    /\ At(a, "load")
    /\ \/ Fails("load") /\ Abandon(a)
       \/ Works /\ journal = NoJournal /\ Recovered(a)
       \/ /\ Works /\ journal # NoJournal
          /\ actor' = [actor EXCEPT ![a].op = journal.op, ![a].attempt = 1,
                          ![a].at = IF journal.phase = "committed" THEN "discard" ELSE "check"]
          /\ UNCHANGED lock
    /\ UNCHANGED <<disk, refused, counts>>

CheckMarker(a) ==
    /\ At(a, "check")
    /\ \/ Fails("check") /\ Abandon(a)
       \/ Works /\ Move(a, IF actor[a].op \in marker THEN "discard" ELSE "list") /\ UNCHANGED lock
    /\ UNCHANGED <<disk, refused, counts>>

-----------------------------------------------------------------------------
(* finishCommittedTransaction: commitDeletion, then the marker, then the       *)
(* journal, all of it at most twice.                                         *)

FinishFails(a) ==
    IF actor[a].attempt = 1
    THEN actor' = [actor EXCEPT ![a].at = "discard", ![a].attempt = 2] /\ UNCHANGED lock
    ELSE IF OwnDeletion(a) THEN Release(a) ELSE Abandon(a)

Finish(a, step, next) ==
    /\ At(a, step)
    /\ Works /\ Move(a, next) /\ UNCHANGED lock

DiscardStaged(a) ==
    /\ Finish(a, "discard", "discardBackup")
    /\ staged' = [staged EXCEPT ![actor[a].op] = {}]
    /\ dirs' = dirs \ {<<"staged", actor[a].op>>}
    /\ UNCHANGED <<rows, marker, journal, store, backup, torn, refused, counts>>

DiscardBackup(a) ==
    /\ Finish(a, "discardBackup", "unmark")
    /\ backup' = [backup EXCEPT ![actor[a].op] = {}]
    /\ dirs' = dirs \ {<<"backup", actor[a].op>>}
    /\ torn' = torn \ ({actor[a].op} \X Thread)
    /\ UNCHANGED <<rows, marker, journal, store, staged, refused, counts>>

Unmark(a) ==
    /\ Finish(a, "unmark", "clearFinished")
    /\ marker' = marker \ {actor[a].op}
    /\ UNCHANGED <<rows, journal, files, refused, counts>>

ClearFinished(a) ==
    /\ At(a, "clearFinished")
    /\ Works
    /\ journal' = NoJournal
    /\ IF OwnDeletion(a) THEN Release(a) ELSE Recovered(a)
    /\ UNCHANGED <<rows, marker, files, refused, counts>>

FinishStepFails(a) ==
    /\ actor[a].at \in Finishing
    /\ Fails(actor[a].at)
    /\ FinishFails(a)
    /\ UNCHANGED <<disk, refused, counts>>

-----------------------------------------------------------------------------
(* attachmentStore.rollbackDeletion, in retryTwice.  Pass 0 is the one that    *)
(* prepareDeletion makes itself; its outcome is followed by the others.      *)

EndPass(a, erred) ==
    LET pass == actor[a].attempt
    IN  IF erred /\ pass = 2
        THEN Abandon(a)
        ELSE /\ actor' = [actor EXCEPT ![a].at = IF pass = 0 \/ erred THEN "list" ELSE "clear",
                                       ![a].attempt = IF pass < 2 THEN pass + 1 ELSE pass,
                                       ![a].erred = FALSE]
             /\ UNCHANGED lock

ListKeys(a) ==
    /\ At(a, "list")
    /\ \/ Fails("list") /\ EndPass(a, TRUE)
       \/ Works /\ actor' = [actor EXCEPT ![a].at = "restore", ![a].todo = Own(a)] /\ UNCHANGED lock
    /\ UNCHANGED <<disk, refused, counts>>

\* One key: moved back from the staging directory, else copied from the backup,
\* else (nothing is there) skipped.  An error is remembered and the pass goes on.
RestoreKey(a, t) ==
    LET op == actor[a].op
        next == [actor EXCEPT ![a].todo = @ \ {t}]
    IN  /\ At(a, "restore")
        /\ t \in actor[a].todo
        /\ \/ /\ Fails("restore")
              /\ actor' = [next EXCEPT ![a].erred = TRUE]
              /\ UNCHANGED <<store, staged, torn>>
           \/ /\ Works
              /\ t \in staged[op]
              /\ actor' = next
              /\ store' = store \cup {t}
              /\ staged' = [staged EXCEPT ![op] = @ \ {t}]
              /\ UNCHANGED torn
           \/ /\ Works
              /\ t \in backup[op] \ staged[op]
              /\ actor' = [next EXCEPT ![a].at = "restoring", ![a].key = t]
              /\ store' = store \cup {t}
              /\ torn' = torn \cup {<<0, t>>}
              /\ UNCHANGED staged
           \/ /\ Works
              /\ t \notin Own(a)
              /\ actor' = next
              /\ UNCHANGED <<store, staged, torn>>
        /\ UNCHANGED <<rows, marker, journal, backup, dirs, memory, counts>>

\* The copy is as good as the backup.
RestoreEnds(a) ==
    /\ At(a, "restoring")
    /\ torn' = IF <<actor[a].op, actor[a].key>> \in torn THEN torn ELSE torn \ {<<0, actor[a].key>>}
    /\ Move(a, "restore")
    /\ UNCHANGED <<rows, marker, journal, store, staged, backup, dirs, memory, counts, faults>>

RestoredAll(a) ==
    /\ At(a, "restore")
    /\ actor[a].todo = {}
    /\ Move(a, "unstage")
    /\ UNCHANGED <<disk, memory, counts, faults>>

\* The directories are removed whatever happened to the keys.
RemoveStaged(a) ==
    /\ At(a, "unstage")
    /\ \/ /\ Fails("unstage")
          /\ actor' = [actor EXCEPT ![a].at = "unbackup", ![a].erred = TRUE]
          /\ UNCHANGED files
       \/ /\ Works
          /\ Move(a, "unbackup")
          /\ staged' = [staged EXCEPT ![actor[a].op] = {}]
          /\ dirs' = dirs \ {<<"staged", actor[a].op>>}
          /\ UNCHANGED <<store, backup, torn>>
    /\ UNCHANGED <<rows, marker, journal, memory, counts>>

RemoveBackup(a) ==
    /\ At(a, "unbackup")
    /\ \/ /\ Fails("unbackup")
          /\ EndPass(a, TRUE)
          /\ UNCHANGED files
       \/ /\ Works
          /\ EndPass(a, actor[a].erred)
          /\ backup' = [backup EXCEPT ![actor[a].op] = {}]
          /\ dirs' = dirs \ {<<"backup", actor[a].op>>}
          /\ torn' = torn \ ({actor[a].op} \X Thread)
          /\ UNCHANGED <<store, staged>>
    /\ UNCHANGED <<rows, marker, journal, refused, counts>>

\* Mutant of ClearRolledBack: the journal stays.
ClearRolledBackNever(a) ==
    /\ At(a, "clear")
    /\ Works
    /\ IF OwnDeletion(a) THEN Release(a) ELSE Recovered(a)
    /\ UNCHANGED <<disk, refused, counts>>

ClearRolledBack(a) ==
    /\ At(a, "clear")
    /\ \/ Fails("clear") /\ Abandon(a) /\ UNCHANGED journal
       \/ /\ Works
          /\ journal' = NoJournal
          /\ IF OwnDeletion(a) THEN Release(a) ELSE Recovered(a)
    /\ UNCHANGED <<rows, marker, files, refused, counts>>

Recovery(a) ==
    \/ LoadJournal(a) \/ CheckMarker(a)
    \/ DiscardStaged(a) \/ DiscardBackup(a) \/ Unmark(a) \/ ClearFinished(a) \/ FinishStepFails(a)
    \/ ListKeys(a) \/ RestoreEnds(a) \/ RestoredAll(a) \/ RemoveStaged(a) \/ RemoveBackup(a) \/ ClearRolledBack(a)
    \/ \E t \in Thread : RestoreKey(a, t)

-----------------------------------------------------------------------------
(* deleteThread *)

\* A request reaches the head of the queue.  Two windows may ask for the same
\* thread, and a Project without threads may be removed.
Request(T) ==
    /\ Ready /\ At("manager", "idle")
    /\ operations < MaxDeletions
    /\ lock' = lock + 1
    /\ actor' = [actor EXCEPT !["manager"] = [Place("load", "recover") EXCEPT !.target = T]]
    /\ UNCHANGED <<disk, refused, counts, faults>>

\* Mutant of Begin: the files are moved without a journal.
BeginUnjournaled ==
    /\ At("manager", "begin")
    /\ Works
    /\ operations' = operations + 1
    /\ actor' = [actor EXCEPT !["manager"].at = "open", !["manager"].job = "delete",
                              !["manager"].op = operations + 1]
    /\ UNCHANGED <<disk, memory, crashes, rereads>>

\* The slim journal is written, or the deletion fails before it changed anything.
Begin ==
    /\ At("manager", "begin")
    /\ \/ /\ Fails("begin")
          /\ Release("manager")
          /\ UNCHANGED <<journal, operations>>
       \/ /\ Works
          /\ operations' = operations + 1
          /\ journal' = [op |-> operations + 1, phase |-> "preparing"]
          /\ actor' = [actor EXCEPT !["manager"].at = "open", !["manager"].job = "delete",
                                    !["manager"].op = operations + 1]
          /\ UNCHANGED lock
    /\ UNCHANGED <<rows, marker, files, refused, crashes, rereads>>

\* prepareDeletion creates its directories and takes the keys one by one.
OpenDirectories ==
    LET me == actor["manager"]
    IN  /\ At("manager", "open")
        /\ actor' = [actor EXCEPT !["manager"].at = "copy", !["manager"].todo = me.target]
        /\ dirs' = IF me.target = {} THEN dirs ELSE dirs \cup {<<"staged", me.op>>, <<"backup", me.op>>}
        /\ UNCHANGED <<rows, marker, journal, store, staged, backup, torn, memory, counts, faults>>

\* Mutant of PrepareFails: what was staged is left there.
PrepareFailsUnrestored ==
    LET me == actor["manager"]
    IN  /\ \/ me.at = "copy" /\ me.todo # {}
           \/ me.at = "stage"
        /\ Fails(me.at)
        /\ Move("manager", "clear")
        /\ UNCHANGED <<disk, memory, counts>>

PrepareFails ==
    LET me == actor["manager"]
    IN  /\ \/ me.at = "copy" /\ me.todo # {}
           \/ me.at = "stage"
        /\ Fails(me.at)
        /\ actor' = [actor EXCEPT !["manager"].at = "list", !["manager"].attempt = 0]
        /\ UNCHANGED <<disk, memory, counts>>

\* copyFile is not atomic: the backup is torn until it ends.  A missing file or
\* directory (ENOENT) skips the key.
CopyKey(t) ==
    LET me == actor["manager"]
        there == t \in store /\ <<"backup", me.op>> \in dirs
    IN  /\ At("manager", "copy")
        /\ t \in me.todo
        /\ backup' = IF there THEN [backup EXCEPT ![me.op] = @ \cup {t}] ELSE backup
        /\ torn' = IF there THEN torn \cup {<<me.op, t>>} ELSE torn
        /\ actor' = [actor EXCEPT !["manager"].at = IF there THEN "copying" ELSE "copy",
                                  !["manager"].todo = @ \ {t}, !["manager"].key = t]
        /\ UNCHANGED <<rows, marker, journal, store, staged, dirs, memory, counts, faults>>

CopyEnds ==
    LET me == actor["manager"]
    IN  /\ At("manager", "copying")
        /\ torn' = IF <<0, me.key>> \in torn THEN torn ELSE torn \ {<<me.op, me.key>>}
        /\ Move("manager", "stage")
        /\ UNCHANGED <<rows, marker, journal, store, staged, backup, dirs, memory, counts, faults>>

StageKey ==
    LET me == actor["manager"]
        there == me.key \in store /\ <<"staged", me.op>> \in dirs
    IN  /\ At("manager", "stage")
        /\ store' = IF there THEN store \ {me.key} ELSE store
        /\ staged' = IF there THEN [staged EXCEPT ![me.op] = @ \cup {me.key}] ELSE staged
        /\ Move("manager", "copy")
        /\ UNCHANGED <<rows, marker, journal, backup, dirs, torn, memory, counts, faults>>

Prepared ==
    /\ At("manager", "copy")
    /\ actor["manager"].todo = {}
    /\ Move("manager", "detach")
    /\ UNCHANGED <<disk, memory, counts, faults>>

\* sessionManager.deleteThreadData: runs of the threads are refused from now on.
Detach ==
    /\ At("manager", "detach")
    /\ refused' = refused \cup actor["manager"].target
    /\ Move("manager", "commit")
    /\ UNCHANGED <<disk, lock, counts, faults>>

\* deleteAppStateForThreads: rows and marker in one transaction.  If it fails,
\* the sessions are given back and the files rolled back.
Commit ==
    LET me == actor["manager"]
    IN  /\ At("manager", "commit")
        /\ \/ /\ Fails("commit")
              /\ refused' = refused \ me.target
              /\ actor' = [actor EXCEPT !["manager"].at = "list", !["manager"].attempt = 1]
              /\ UNCHANGED <<rows, marker>>
           \/ /\ Works
              /\ rows' = rows \ me.target
              /\ marker' = marker \cup {me.op}
              /\ Move("manager", "record")
              /\ UNCHANGED refused
        /\ UNCHANGED <<journal, files, lock, counts>>

\* The journal phase; a failure is ignored, since the marker is authoritative.
Record ==
    LET me == actor["manager"]
    IN  /\ At("manager", "record")
        /\ \/ Fails("record") /\ UNCHANGED journal
           \/ Works /\ journal' = [op |-> me.op, phase |-> "committed"]
        /\ actor' = [actor EXCEPT !["manager"].at = "discard", !["manager"].attempt = 1]
        /\ UNCHANGED <<rows, marker, files, memory, counts>>

Deletion ==
    \/ Begin \/ OpenDirectories \/ PrepareFails \/ CopyEnds \/ StageKey \/ Prepared \/ Detach \/ Commit \/ Record
    \/ \E t \in Thread : CopyKey(t)

-----------------------------------------------------------------------------
(* The App State lifecycle *)

Start ==
    /\ At("lifecycle", "off")
    /\ actor' = [actor EXCEPT !["lifecycle"] = Place("load", "startup")]
    /\ UNCHANGED <<disk, memory, counts, faults>>

\* A window on the recovery page asks for a reread; nothing keeps it from doing
\* so while another window is ready and deletes a thread.
Reread ==
    /\ Ready /\ At("lifecycle", "idle")
    /\ rereads < MaxRereads
    /\ rereads' = rereads + 1
    /\ lock' = lock + 1
    /\ actor' = [actor EXCEPT !["lifecycle"] = Place("load", "reread")]
    /\ UNCHANGED <<disk, refused, operations, crashes, faults>>

\* The snapshot is read; todo holds the attachments it refers to.
Reload ==
    /\ At("lifecycle", "reload")
    /\ actor' = [actor EXCEPT !["lifecycle"].at = "reconcile", !["lifecycle"].todo = rows]
    /\ UNCHANGED <<disk, memory, counts, faults>>

\* reconcileAttachmentsAfterValidStateLoad deletes the other files, or ignores
\* that it could not.
Reconcile ==
    /\ At("lifecycle", "reconcile")
    /\ \/ Fails("reconcile") /\ UNCHANGED store
       \/ Works /\ store' = store \cap actor["lifecycle"].todo
    /\ IF actor["lifecycle"].job = "reread" THEN Release("lifecycle")
       ELSE Leave("lifecycle", "idle") /\ UNCHANGED lock
    /\ UNCHANGED <<rows, marker, journal, staged, backup, dirs, torn, refused, counts>>

\* The process ends; files and rows stay.
Crash ==
    /\ ~At("lifecycle", "off")
    /\ crashes < MaxCrashes
    /\ crashes' = crashes + 1
    /\ lock' = 0
    /\ refused' = {}
    /\ actor' = [a \in {"manager", "lifecycle"} |->
                    IF a = "manager" THEN Place("idle", "recover") ELSE Place("off", "startup")]
    /\ UNCHANGED <<disk, operations, rereads, faults>>

Lifecycle == Start \/ Reload \/ Reconcile

-----------------------------------------------------------------------------
(* Specification *)

Init ==
    /\ rows = Thread
    /\ store = Thread
    /\ marker = {}
    /\ journal = NoJournal
    /\ staged = [op \in Operation |-> {}]
    /\ backup = [op \in Operation |-> {}]
    /\ dirs = {}
    /\ torn = {}
    /\ lock = 0
    /\ refused = {}
    /\ actor = [a \in {"manager", "lifecycle"} |->
                   IF a = "manager" THEN Place("idle", "recover") ELSE Place("off", "startup")]
    /\ operations = 0 /\ faults = 0 /\ crashes = 0 /\ rereads = 0

Work == Recovery("manager") \/ Recovery("lifecycle") \/ Deletion \/ Lifecycle

Next ==
    \/ Work
    \/ \E T \in SUBSET Thread : Request(T)
    \/ Reread
    \/ Crash

\* Node's event loop gets to every callback, and a user starts the app again.
Spec == Init /\ [][Next]_vars /\ WF_vars(Work)

-----------------------------------------------------------------------------
(* Properties *)

Whereabouts ==
    [at : Step, job : {"recover", "delete", "startup", "reread"}, op : Operation \cup {0},
     target : SUBSET Thread, attempt : 0..2, erred : BOOLEAN, todo : SUBSET Thread,
     key : Thread \cup {Nothing}]

\* Every variable keeps its shape.
TypeOK ==
    /\ rows \subseteq Thread /\ store \subseteq Thread /\ refused \subseteq Thread
    /\ marker \subseteq Operation
    /\ journal \in Journal \cup {NoJournal}
    /\ staged \in [Operation -> SUBSET Thread] /\ backup \in [Operation -> SUBSET Thread]
    /\ dirs \subseteq {"staged", "backup"} \X Operation
    /\ torn \subseteq (Operation \cup {0}) \X Thread
    /\ lock \in Nat
    /\ actor \in [{"manager", "lifecycle"} -> Whereabouts]
    /\ operations \in 0..MaxDeletions /\ faults \in Nat /\ crashes \in Nat /\ rereads \in Nat

\* The attachments that can be read, or that recovery can bring back: a file that
\* was moved away counts only while the journal names its operation.
Kept == store \cup (IF journal = NoJournal THEN {}
                    ELSE staged[journal.op] \cup backup[journal.op])

\* While the file of a live thread is away from the attachments directory, no
\* App State command is accepted.
WritesBlockedWhileAway == Ready /\ ~(rows \subseteq store) => lock > 0

\* A settled deletion is all or nothing: the attachments in the directory are
\* those of the threads with rows.
SettledIsAtomic == Quiet /\ journal = NoJournal => store = rows

\* Thread deletion as the windows see it: atomic, and attachments follow rows.
Promise == INSTANCE ThreadStore WITH threads <- rows, attachments <- Kept
PromiseKept == Promise!Spec

\* A restart settles whatever the last process left behind.
RestartSettles == At("lifecycle", "off") ~> Ready /\ journal = NoJournal

\* The App State lock is held only while a transaction runs or a journal waits
\* for recovery.  Not what the code does after a failed rollback; no run checks it.
LockEndsWithTransactions == Quiet /\ journal = NoJournal => lock = 0

\* A deletion is reversible until it commits: once it is settled, the attachment
\* of a live thread is whole.  Not so after a crash during the backup copy; no run
\* checks it, README says how to see either of the two.
AttachmentWhole == Quiet /\ journal = NoJournal => \A t \in rows : <<0, t>> \notin torn
=============================================================================
