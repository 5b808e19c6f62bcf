------------------------- MODULE AppStateAuthority -------------------------
(***************************************************************************)
(* The App State authority of the Main Process                             *)
(* (electron/workspace/appStateAuthority.ts) on top of the SQLite store's  *)
(* serialized queue (electron/persistence/sqliteAppStateStore.ts), with    *)
(* what else changes the persisted state: Thread deletion, Project         *)
(* relocation, and the reread of the recovery page.                        *)
(*                                                                         *)
(* A snapshot says, for each thread, which edits it holds, or that the     *)
(* thread is gone.  A command adds one edit, named after its commandId.    *)
(* SQLite is synchronous: what awaits a job of the store's queue goes on   *)
(* before the next job starts, so that a job and its continuation up to the *)
(* next await are one step.                                                *)
(***************************************************************************)
EXTENDS Naturals, FiniteSets, SequencesExt

CONSTANTS
    Thread,
    CommandId,
    NoCommand,       \* no command is being processed
    NoBase,          \* a command without a baseRevision
    Gone,            \* what a snapshot says of a thread that was deleted
    Overlap,         \* whether a reread may run together with a transaction
    MaxApplied,      \* maxAppliedCommandIds
    MaxSubmits,      \* bound on the commands submitted
    MaxTransactions, \* bound on the transactions begun
    MaxRereads       \* bound on the rereads asked for

\* The managers that change the persisted state outside the command path.
Manager == {"deletion", "relocation"}

Snapshot == [Thread -> (SUBSET (CommandId \cup Manager)) \cup {Gone}]

Command == [id : CommandId, thread : Thread, base : Nat \cup {NoBase}]

\* A command whose persistence is awaited, and the snapshots around it.
Working == [command : Command, before : Snapshot, after : Snapshot]

ASSUME AppStateAssumption ==
    /\ Overlap \in BOOLEAN
    /\ MaxApplied \in Nat /\ MaxSubmits \in Nat /\ MaxTransactions \in Nat /\ MaxRereads \in Nat
    /\ NoBase \notin Nat
    /\ NoCommand \notin Working

VARIABLES
    stored,       \* the snapshot in the database
    snapshot,     \* the snapshot in memory
    revision,     \* its revision
    available,    \* whether App State is ready
    transactions, \* activeTransactionCount
    applied,      \* appliedCommands, oldest first
    requests,     \* commands waiting in the authority's queue
    working,      \* the command whose persistence is awaited
    jobs,         \* the store's queue
    tx,           \* the transaction each manager is in
    reread,       \* the recovery operation that is running
    rereads,      \* recovery operations queued behind it
    submits, begun, asked  \* commands, transactions and rereads so far

authorityVars == <<snapshot, revision, available, applied>>
storeVars == <<stored, jobs>>
queueVars == <<requests, working>>
rereadVars == <<reread, rereads>>
counters == <<submits, begun, asked>>
vars == <<authorityVars, storeVars, queueVars, rereadVars, counters, transactions, tx>>

\* What a manager's transaction does to the rows of a thread.
Committed(s, m, t) ==
    IF m = "deletion" THEN [s EXCEPT ![t] = Gone]
    ELSE IF s[t] = Gone THEN s ELSE [s EXCEPT ![t] = @ \cup {m}]

-----------------------------------------------------------------------------
(* Helpers of the authority *)

\* rememberCommand: the oldest identity makes room.
RememberCommand(id) ==
    LET remembered == Append(applied, id)
    IN  applied' = IF Len(remembered) > MaxApplied THEN Tail(remembered) ELSE remembered

\* publishSnapshot.
PublishSnapshot(next) ==
    /\ snapshot' = next
    /\ revision' = revision + 1

SetTransactionActive(active) ==
    transactions' = IF active THEN transactions + 1
                    ELSE IF transactions = 0 THEN 0 ELSE transactions - 1

-----------------------------------------------------------------------------
(* Commands *)

\* app-state:command: the command waits for the ones before it.  Its base is a
\* revision its sender has seen; the sender may repeat a command.
Submit(command) ==
    /\ submits < MaxSubmits
    /\ requests' = Append(requests, command)
    /\ submits' = submits + 1
    /\ UNCHANGED <<authorityVars, storeVars, working, rereadVars, begun, asked, transactions, tx>>

\* Mutant of Refused: a transaction does not keep commands out.
RefusedUnlessReady(command) ==
    \/ ~available
    \/ command.id \in ToSet(applied)
    \/ command.base # NoBase /\ command.base # revision

\* What process refuses before it asks a reducer.
Refused(command) ==
    \/ ~available
    \/ transactions > 0
    \/ command.id \in ToSet(applied)
    \/ command.base # NoBase /\ command.base # revision

\* The reducer knows no thread that is gone.
Reducible(command) == snapshot[command.thread] # Gone

\* It returns the snapshot itself when the edit is there already.
Reduced(command) == [snapshot EXCEPT ![command.thread] = @ \cup {command.id}]

\* process rejects the next command.
Reject ==
    /\ requests # <<>> /\ working = NoCommand
    /\ Refused(Head(requests)) \/ ~Reducible(Head(requests))
    /\ requests' = Tail(requests)
    /\ UNCHANGED <<authorityVars, storeVars, working, rereadVars, counters, transactions, tx>>

\* process accepts a command that changes nothing.
AcceptUnchanged ==
    /\ requests # <<>> /\ working = NoCommand
    /\ LET command == Head(requests)
       IN  /\ ~Refused(command) /\ Reducible(command)
           /\ Reduced(command) = snapshot
           /\ RememberCommand(command.id)
    /\ requests' = Tail(requests)
    /\ UNCHANGED <<snapshot, revision, available, storeVars, working, rereadVars, counters, transactions, tx>>

\* process hands a command to the store and awaits it.
Persist ==
    /\ requests # <<>> /\ working = NoCommand
    /\ LET command == Head(requests)
       IN  /\ ~Refused(command) /\ Reducible(command)
           /\ Reduced(command) # snapshot
           /\ working' = [command |-> command, before |-> snapshot, after |-> Reduced(command)]
    /\ requests' = Tail(requests)
    /\ jobs' = Append(jobs, [kind |-> "persist"])
    /\ UNCHANGED <<authorityVars, stored, rereadVars, counters, transactions, tx>>

\* persistAppStateCommand updates the rows the command owns, and process
\* publishes the snapshot it computed before it awaited the store.
PersistJob ==
    LET command == working.command
    IN  /\ jobs # <<>> /\ Head(jobs).kind = "persist"
        /\ jobs' = Tail(jobs)
        /\ stored[command.thread] # Gone
        /\ stored' = [stored EXCEPT ![command.thread] = @ \cup {command.id}]
        /\ PublishSnapshot(working.after)
        /\ RememberCommand(command.id)
        /\ working' = NoCommand
        /\ UNCHANGED <<available, requests, rereadVars, counters, transactions, tx>>

\* Mutant of PersistJobFails: the queue is not released.
PersistJobHangs ==
    /\ jobs # <<>> /\ Head(jobs).kind = "persist"
    /\ jobs' = Tail(jobs)
    /\ UNCHANGED <<authorityVars, stored, queueVars, rereadVars, counters, transactions, tx>>

\* The transaction fails, and process rejects the command.
PersistJobFails ==
    /\ jobs # <<>> /\ Head(jobs).kind = "persist"
    /\ jobs' = Tail(jobs)
    /\ working' = NoCommand
    /\ UNCHANGED <<authorityVars, stored, requests, rereadVars, counters, transactions, tx>>

-----------------------------------------------------------------------------
(* Transactions: deletion and relocation, each behind its manager's queue *)

NoTx == [step |-> "idle"]

Goes(m, state) == tx' = [tx EXCEPT ![m] = state]

\* The manager takes the lock.  The gate lets nobody ask while App State is not
\* available.
BeginTransaction(m, t) ==
    /\ available
    /\ tx[m] = NoTx
    /\ begun < MaxTransactions
    /\ ~Overlap => rereads = 0 /\ reread.step = "idle"
    /\ begun' = begun + 1
    /\ SetTransactionActive(TRUE)
    /\ Goes(m, [step |-> "begun", thread |-> t])
    /\ UNCHANGED <<authorityVars, storeVars, queueVars, rereadVars, submits, asked>>

\* Mutant of LoadBefore: the writes submitted before are not waited for.
LoadAtOnce(m) ==
    /\ tx[m].step = "begun"
    /\ Goes(m, [step |-> "loaded", thread |-> tx[m].thread, before |-> stored])
    /\ UNCHANGED <<authorityVars, storeVars, queueVars, rereadVars, counters, transactions>>

\* waitForWrites and loadAppStateSnapshot: a job behind the writes so far.
LoadBefore(m) ==
    /\ tx[m].step = "begun"
    /\ jobs' = Append(jobs, [kind |-> "load", manager |-> m])
    /\ Goes(m, [step |-> "loading", thread |-> tx[m].thread])
    /\ UNCHANGED <<authorityVars, stored, queueVars, rereadVars, counters, transactions>>

LoadJob ==
    /\ jobs # <<>> /\ Head(jobs).kind = "load"
    /\ LET m == Head(jobs).manager
       IN  Goes(m, [step |-> "loaded", thread |-> tx[m].thread, before |-> stored])
    /\ jobs' = Tail(jobs)
    /\ UNCHANGED <<authorityVars, stored, queueVars, rereadVars, counters, transactions>>

\* deleteAppStateForThreads or relocateProject, after files and Runtime Sessions
\* were taken care of.
Commit(m) ==
    /\ tx[m].step = "loaded"
    /\ jobs' = Append(jobs, [kind |-> "commit", manager |-> m])
    /\ Goes(m, [tx[m] EXCEPT !.step = "committing"])
    /\ UNCHANGED <<authorityVars, stored, queueVars, rereadVars, counters, transactions>>

\* Mutant of AdoptExternalSnapshot: what was committed does not reach memory.
AdoptNothing(next) == UNCHANGED <<snapshot, revision>>

\* adoptExternalSnapshot.
AdoptExternalSnapshot(next) ==
    IF available THEN PublishSnapshot(next) ELSE UNCHANGED <<snapshot, revision>>

\* The transaction commits, and the authority adopts what it read back.
CommitJob ==
    /\ jobs # <<>> /\ Head(jobs).kind = "commit"
    /\ LET m == Head(jobs).manager
           next == Committed(stored, m, tx[m].thread)
       IN  /\ stored' = next
           /\ AdoptExternalSnapshot(next)
           /\ Goes(m, [tx[m] EXCEPT !.step = "ending"])
    /\ jobs' = Tail(jobs)
    /\ UNCHANGED <<available, applied, queueVars, rereadVars, counters, transactions>>

\* The transaction fails and rolls back.
CommitJobFails ==
    /\ jobs # <<>> /\ Head(jobs).kind = "commit"
    /\ Goes(Head(jobs).manager, [tx[Head(jobs).manager] EXCEPT !.step = "ending"])
    /\ jobs' = Tail(jobs)
    /\ UNCHANGED <<authorityVars, stored, queueVars, rereadVars, counters, transactions>>

\* The manager gives the lock back: after the commit, or because it gave up
\* before it.
EndTransaction(m) ==
    /\ tx[m].step \in {"begun", "loaded", "ending"}
    /\ SetTransactionActive(FALSE)
    /\ Goes(m, NoTx)
    /\ UNCHANGED <<authorityVars, storeVars, queueVars, rereadVars, counters>>

-----------------------------------------------------------------------------
(* app-state:reread *)

\* runRecoveryOperation takes the lock at once and waits for the one before.
AskReread ==
    /\ asked < MaxRereads
    /\ ~Overlap => \A m \in Manager : tx[m] = NoTx
    /\ asked' = asked + 1
    /\ rereads' = rereads + 1
    /\ SetTransactionActive(TRUE)
    /\ UNCHANGED <<authorityVars, storeVars, queueVars, reread, submits, begun, tx>>

\* initializeAppState, and the reload of apply: the last one counts.
StartReread ==
    /\ rereads > 0 /\ reread.step = "idle"
    /\ rereads' = rereads - 1
    /\ reread' = [step |-> "loading"]
    /\ jobs' = Append(jobs, [kind |-> "reread"])
    /\ UNCHANGED <<authorityVars, stored, queueVars, counters, transactions, tx>>

\* The database is read, or found invalid; attachments, Provider Sessions and the
\* bridge come next.
RereadJob ==
    /\ jobs # <<>> /\ Head(jobs).kind = "reread"
    /\ jobs' = Tail(jobs)
    /\ \/ reread' = [step |-> "ready", snapshot |-> stored]
       \/ reread' = [step |-> "invalid"]
    /\ UNCHANGED <<authorityVars, stored, queueVars, rereads, counters, transactions, tx>>

\* replaceState, and the lock is given back.
ReplaceState ==
    /\ reread.step \in {"ready", "invalid"}
    /\ available' = (reread.step = "ready")
    /\ IF reread.step = "ready" THEN PublishSnapshot(reread.snapshot) ELSE UNCHANGED <<snapshot, revision>>
    /\ reread' = [step |-> "idle"]
    /\ SetTransactionActive(FALSE)
    /\ UNCHANGED <<applied, storeVars, queueVars, rereads, counters, tx>>

\* What apply awaits may fail: the lock is given back, nothing else happens.
RereadFails ==
    /\ reread.step = "ready"
    /\ reread' = [step |-> "idle"]
    /\ SetTransactionActive(FALSE)
    /\ UNCHANGED <<authorityVars, storeVars, queueVars, rereads, counters, tx>>

-----------------------------------------------------------------------------
(* Specification *)

Init ==
    /\ stored = [t \in Thread |-> {}]
    /\ snapshot = stored
    /\ revision = 0
    /\ available = TRUE
    /\ transactions = 0
    /\ applied = <<>>
    /\ requests = <<>>
    /\ working = NoCommand
    /\ jobs = <<>>
    /\ tx = [m \in Manager |-> NoTx]
    /\ reread = [step |-> "idle"]
    /\ rereads = 0
    /\ submits = 0 /\ begun = 0 /\ asked = 0

\* The revisions a sender may have seen: the current one, and the one before,
\* which stands for all older ones, none of which is ever current again.
SeenRevisions == {seen \in 0..revision : seen + 1 >= revision}

Process == Reject \/ AcceptUnchanged \/ Persist

Job == PersistJob \/ PersistJobFails \/ LoadJob \/ CommitJob \/ CommitJobFails \/ RereadJob

Next ==
    \/ \E id \in CommandId, t \in Thread, base \in SeenRevisions \cup {NoBase} :
          Submit([id |-> id, thread |-> t, base |-> base])
    \/ Process
    \/ Job
    \/ \E m \in Manager, t \in Thread : BeginTransaction(m, t)
    \/ \E m \in Manager : LoadBefore(m) \/ Commit(m) \/ EndTransaction(m)
    \/ AskReread \/ StartReread \/ ReplaceState \/ RereadFails

\* The queues are chains of promises: what has been queued is run.
Fairness == WF_vars(Process) /\ WF_vars(Job)

Spec == Init /\ [][Next]_vars /\ Fairness

-----------------------------------------------------------------------------
(* Properties *)

\* What awaits its turn in the store's queue.
StoreJob == [kind : {"persist", "reread"}] \cup [kind : {"load", "commit"}, manager : Manager]

\* Where a manager is.
Transaction ==
    {NoTx} \cup [step : {"begun", "loading"}, thread : Thread]
           \cup [step : {"loaded", "committing", "ending"}, thread : Thread, before : Snapshot]

\* Where a recovery operation is.
Reread == [step : {"idle", "loading", "invalid"}] \cup [step : {"ready"}, snapshot : Snapshot]

\* What the authority holds keeps its shape; the lock counts its holders.
TypeOK ==
    /\ stored \in Snapshot /\ snapshot \in Snapshot
    /\ revision \in Nat
    /\ available \in BOOLEAN
    /\ applied \in Seq(CommandId) /\ Len(applied) <= MaxApplied
    /\ requests \in Seq(Command)
    /\ working \in Working \cup {NoCommand}
    /\ jobs \in Seq(StoreJob)
    /\ tx \in [Manager -> Transaction]
    /\ reread \in Reread
    /\ rereads \in Nat
    /\ transactions = Cardinality({m \in Manager : tx[m] # NoTx})
                         + rereads + (IF reread.step = "idle" THEN 0 ELSE 1)

\* What the windows are shown is what is persisted, whatever commands,
\* transactions and rereads were queued, and whichever of them failed.
MemoryMatchesStore == available => snapshot = stored

\* While a command is persisted nothing changes the state it was checked
\* against: process publishes, after the await, a snapshot computed from the
\* current one and from the revision its sender named.
NothingMovesUnderCommand ==
    working # NoCommand =>
        /\ working.before = snapshot
        /\ working.command.base # NoBase => working.command.base = revision

\* The edits a transaction found when it chose what to delete or to move are
\* the ones it commits over: no command gets in between.
TransactionSeesLastEdit ==
    \A m \in Manager : tx[m].step \in {"loaded", "committing"} =>
        \A t \in Thread : stored[t] # Gone /\ tx[m].before[t] # Gone =>
            stored[t] \ Manager = tx[m].before[t] \ Manager

\* Every command is answered, also while a transaction never ends.
CommandsAnswered == []<>(requests = <<>> /\ working = NoCommand)
=============================================================================
