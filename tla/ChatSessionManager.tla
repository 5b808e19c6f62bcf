------------------------- MODULE ChatSessionManager -------------------------
(***************************************************************************)
(* The chat session manager of the main process                            *)
(* (electron/chat/chatSessionManager.ts) for one Thread, with the Provider *)
(* Session store behind it (electron/persistence/sqliteProviderSession-    *)
(* Store.ts), the single operation queue of the SQLite store, and what a   *)
(* Kimi run does to it (electron/chat/kimiAcpChat.ts).                     *)
(*                                                                         *)
(* A Runtime Session is named by the run that opened it; Old is the one    *)
(* the database holds at startup.  Its mapping lives in three places: the  *)
(* manager's memory (runtime), the store's cache (cache) and the database  *)
(* row (row).  Everything the manager awaits from the store is an          *)
(* operation in `queue'; an operation and the continuation that waits for  *)
(* it are one step, as nothing else is dispatched between them.  The store *)
(* promises no more than that: other events may come before an operation   *)
(* is served (with the synchronous SQLite driver few can, with the JSON    *)
(* store, which writes files, all can).                                    *)
(***************************************************************************)
EXTENDS Naturals, Sequences, FiniteSets

CONSTANTS
    Run,             \* run ids, each sent once
    Old,             \* the Runtime Session stored by an earlier app run
    None,            \* no session
    Faulty,          \* the store operations that may fail
    Apart,           \* a deletion of the Thread and a relocation of its Project do not
                     \* overlap, and a deleted Thread is not deleted again
    MaxUpheavals     \* bound: deletions of the Thread, relocations of its
                     \* Project and quits abandoned after shutdown, together

Session == Run \cup {Old}
Maybe == Session \cup {None}
Stages == {"new", "asked", "deferred", "pending", "opening", "prompting",
           "saving", "done"}
Outcomes == {"none", "completed", "stopped", "failed"}
Operations == {"set", "purge", "forget", "delete", "relocate"}

\* Who else than a run waits for an operation.
Others == {"status", "action", "user", "deletion", "relocation"}

ASSUME SessionsAreDistinct ==
    Old \notin Run /\ None \notin Session /\ Run \cap Others = {}
ASSUME BoundsAreNaturals ==
    /\ Apart \in BOOLEAN
    /\ Faulty \subseteq Operations
    /\ MaxUpheavals \in Nat

VARIABLES
    stage,        \* how far each run is
    held,         \* kimiSessions: the runs the manager can still reach
    stopped,      \* stoppedPending, stoppedDeferred, stoppedByUser
    outcome,      \* the terminal event each run emitted
    givenUp,      \* runs the run authority settled over its payload limit
    session,      \* the Runtime Session of each run
    from,         \* the Working Directory each request was written for
    home,         \* the Working Directory each session was opened in
    dir,          \* the Project's Working Directory, a generation
    runtime,      \* runtimeSessions: the mapping in memory
    cache,        \* the mapping in the Provider Session store's cache
    row,          \* the mapping in the provider_sessions table
    torn,         \* history: a relocation has left cache and row different
    queue,        \* the store's operations, oldest first
    deleted,      \* deletedThreadIds has the Thread
    relocating,   \* relocatingThreadIds has the Thread
    removed,      \* the Thread's rows are deleted
    status,       \* the status request of the Thread
    asking,       \* the session that status request may find rejected
    action,       \* the Compact of the Thread
    compacting,   \* its session
    quitting,     \* shutdown() is waiting for pending runs
    upheavals

runVars == <<stage, held, stopped, outcome, givenUp, session, from>>
mapVars == <<runtime, cache, row, torn>>
threadVars == <<deleted, relocating, removed, dir>>
statusVars == <<status, asking>>
actionVars == <<action, compacting>>
vars == <<runVars, home, mapVars, queue, threadVars, statusVars, actionVars,
          quitting, upheavals>>

Op(op, by, s, memory) == [op |-> op, by |-> by, session |-> s, memory |-> memory]
Known == IF runtime # None THEN runtime ELSE cache
Live == \E r \in Run : held[r] \/ stage[r] \in {"deferred", "pending"}
Free == \A r \in Run : stage[r] \in {"new", "asked", "done"} \/ r \in givenUp

Init ==
    /\ stage = [r \in Run |-> "new"] /\ held = [r \in Run |-> FALSE]
    /\ stopped = [r \in Run |-> FALSE] /\ outcome = [r \in Run |-> "none"]
    /\ givenUp = {} /\ session = [r \in Run |-> None]
    /\ from = [r \in Run |-> 0] /\ home = [s \in Session |-> 0] /\ dir = 0
    /\ runtime = None /\ cache \in {None, Old} /\ row = cache /\ torn = FALSE
    /\ queue = <<>> /\ deleted = FALSE /\ relocating = FALSE /\ removed = FALSE
    /\ status = "idle" /\ asking = None /\ action = "idle" /\ compacting = None
    /\ quitting = FALSE
    /\ upheavals = 0

-----------------------------------------------------------------------------
(* A run: chat:send, the manager's start, and the Kimi process. *)

\* The run reaches its terminal event and leaves the manager.
End(r, event) ==
    /\ stage' = [stage EXCEPT ![r] = "done"]
    /\ held' = [held EXCEPT ![r] = FALSE]
    /\ outcome' = [outcome EXCEPT ![r] = event]

\* chat:send checks that the directory exists before it asks the authority.
Ask(r) ==
    /\ stage[r] = "new"
    /\ stage' = [stage EXCEPT ![r] = "asked"]
    /\ from' = [from EXCEPT ![r] = dir]
    /\ UNCHANGED <<held, stopped, outcome, givenUp, session, home, mapVars, queue,
                   threadVars, statusVars, actionVars, quitting, upheavals>>

\* The authority refuses the request, or the directory is gone.
Refuse(r) ==
    /\ stage[r] = "asked"
    /\ stage' = [stage EXCEPT ![r] = "done"]
    /\ UNCHANGED <<held, stopped, outcome, givenUp, session, from, home, mapVars,
                   queue, threadVars, statusVars, actionVars, quitting, upheavals>>

\* A Kimi process for run r: it resumes s, or opens a session of its own.
Spawn(r, s) ==
    /\ stage' = [stage EXCEPT ![r] = IF s = None THEN "opening" ELSE "prompting"]
    /\ held' = [held EXCEPT ![r] = TRUE]
    /\ session' = [session EXCEPT ![r] = IF s = None THEN r ELSE s]
    /\ home' = IF s = None THEN [home EXCEPT ![r] = from[r]] ELSE home
    /\ UNCHANGED outcome

\* beginRun, when the store's queue is q and the mapping it reads is known.
Begin(r, q, known) ==
    /\ \/ \* a missing directory, an attachment or a transport that fails
          /\ End(r, "failed")
          /\ queue' = q /\ UNCHANGED <<session, home, runtime>>
       \/ \* historyMode append
          /\ Spawn(r, known)
          /\ queue' = q /\ UNCHANGED runtime
       \/ \* historyMode replace: the old mapping is deleted first
          /\ stage' = [stage EXCEPT ![r] = "pending"]
          /\ runtime' = None
          /\ queue' = Append(q, Op("forget", r, known, None))
          /\ UNCHANGED <<held, session, home, outcome>>

MayRun == ~deleted /\ ~relocating

Start(r) ==
    /\ stage[r] = "asked" /\ Free
    /\ CASE ~MayRun ->
              End(r, "failed") /\ UNCHANGED <<session, home, runtime, queue>>
         [] MayRun /\ status # "idle" ->
              /\ stage' = [stage EXCEPT ![r] = "deferred"]
              /\ UNCHANGED <<held, outcome, session, home, runtime, queue>>
         [] OTHER -> Begin(r, queue, Known)
    /\ UNCHANGED <<stopped, givenUp, from, cache, row, torn, threadVars, statusVars,
                   actionVars, quitting, upheavals>>

\* startDeferredRun, from the end of a status request.
Drain(q, known) ==
    \/ /\ \A r \in Run : stage[r] # "deferred"
       /\ queue' = q /\ UNCHANGED <<stage, held, outcome, session, home, runtime>>
    \/ \E r \in Run :
          /\ stage[r] = "deferred"
          /\ IF stopped[r] \/ ~MayRun
             THEN /\ End(r, IF stopped[r] THEN "stopped" ELSE "failed")
                  /\ queue' = q /\ UNCHANGED <<session, home, runtime>>
             ELSE Begin(r, q, known)

Untouched == UNCHANGED <<mapVars, queue, threadVars, statusVars, actionVars,
                         quitting, upheavals, givenUp, from, home, stopped, session>>

SessionOpened(r) ==
    /\ stage[r] = "opening"
    /\ stage' = [stage EXCEPT ![r] = "prompting"]
    /\ UNCHANGED <<held, outcome>> /\ Untouched

\* The process exits, a request fails or times out, the prompt is refused.
ProcessFails(r) ==
    /\ stage[r] \in {"opening", "prompting"}
    /\ \E event \in {"failed"} \cup (IF stopped[r] THEN {"stopped"} ELSE {}) :
          End(r, event)
    /\ Untouched

\* The prompt is answered: the session is stored before the run completes.
PromptAnswered(r) ==
    /\ stage[r] = "prompting"
    /\ IF stopped[r] \/ deleted
       THEN /\ End(r, IF stopped[r] THEN "stopped" ELSE "completed")
            /\ UNCHANGED queue
       ELSE /\ stage' = [stage EXCEPT ![r] = "saving"]
            /\ queue' = Append(queue, Op("set", r, session[r], None))
            /\ UNCHANGED <<held, outcome>>
    /\ UNCHANGED <<mapVars, threadVars, statusVars, actionVars, quitting, upheavals,
                   givenUp, from, home, stopped, session>>

\* The grace period of a stopped run ends.
StopTimeout(r) ==
    /\ stopped[r] /\ stage[r] \in {"prompting", "saving"}
    /\ End(r, "stopped")
    /\ Untouched

\* What stop(runId) does to each run it is called for.  A run that has no
\* session yet ends at once; one that has is asked to cancel and leaves the
\* manager's table before it has ended.
StopAll(S) ==
    /\ stopped' = [r \in Run |-> stopped[r] \/ (r \in S /\ stage[r] # "opening")]
    /\ held' = [r \in Run |-> held[r] /\ r \notin S]
    /\ stage' = [r \in Run |-> IF r \in S /\ stage[r] = "opening" THEN "done"
                               ELSE stage[r]]
    /\ outcome' = [r \in Run |-> IF r \in S /\ stage[r] = "opening" THEN "stopped"
                                 ELSE outcome[r]]

Stop(r) ==
    /\ held[r] \/ stage[r] \in {"pending", "deferred"}
    /\ ~stopped[r]
    /\ StopAll({r})
    /\ \/ UNCHANGED givenUp
       \/ held[r] /\ givenUp' = givenUp \cup {r}   \* failForPayloadLimit
    /\ UNCHANGED <<mapVars, queue, threadVars, statusVars, actionVars, quitting,
                   upheavals, from, home, session>>

-----------------------------------------------------------------------------
(* Status requests and Compact. *)

BeginStatus ==
    /\ MayRun /\ action = "idle" /\ status = "idle"
    /\ status' = "loading"
    /\ asking' = IF \E r \in Run : held[r] THEN None ELSE Known
    /\ UNCHANGED <<runVars, home, mapVars, queue, threadVars, actionVars, quitting,
                   upheavals>>

StatusEnds ==
    /\ status = "loading"
    /\ \/ status' = "idle" /\ asking' = None /\ Drain(queue, Known)
       \/ \* Kimi does not know the session any more
          /\ asking # None
          /\ status' = "removing" /\ runtime' = None
          /\ queue' = Append(queue, Op("forget", "status", asking, None))
          /\ UNCHANGED <<asking, stage, held, outcome, session, home>>
    /\ UNCHANGED <<stopped, givenUp, from, cache, row, torn, threadVars, actionVars,
                   quitting, upheavals>>

Compact ==
    /\ ~deleted /\ ~Live /\ action = "idle" /\ status = "idle" /\ Known # None
    /\ action' = "running" /\ compacting' = Known
    /\ UNCHANGED <<runVars, home, mapVars, queue, threadVars, statusVars, quitting,
                   upheavals>>

CompactEnds ==
    /\ action = "running"
    /\ \/ action' = "idle" /\ compacting' = None /\ UNCHANGED <<runtime, queue>>
       \/ /\ action' = "removing" /\ runtime' = None
          /\ queue' = Append(queue, Op("forget", "action", compacting, None))
          /\ UNCHANGED compacting
    /\ UNCHANGED <<runVars, home, cache, row, torn, threadVars, statusVars, quitting,
                   upheavals>>

\* The user drops the session a run could not resume.
RemoveRuntimeSession ==
    /\ Known # None /\ ~\E i \in DOMAIN queue : queue[i].by = "user"
    /\ runtime' = None
    /\ queue' = Append(queue, Op("forget", "user", Known, runtime))
    /\ UNCHANGED <<runVars, home, cache, row, torn, threadVars, statusVars, actionVars,
                   quitting, upheavals>>

-----------------------------------------------------------------------------
(* Permanent deletion of the Thread, relocation of its Project. *)

DeletionRuns == \E i \in DOMAIN queue : queue[i].op = "delete"
RelocationRuns == \E i \in DOMAIN queue : queue[i].op = "relocate"

\* deleteThreadData, and the row deletion its caller queues.
DeleteThreadData ==
    /\ upheavals < MaxUpheavals /\ ~DeletionRuns
    /\ Apart => ~RelocationRuns /\ ~removed
    /\ upheavals' = upheavals + 1
    /\ deleted' = TRUE
    /\ StopAll({r \in Run : held[r] \/ stage[r] = "pending"})
    /\ runtime' = None
    /\ queue' = Append(queue, Op("delete", "deletion", None, runtime))
    /\ UNCHANGED <<givenUp, session, from, home, cache, row, torn, relocating, removed, dir,
                   statusVars, actionVars, quitting>>

MayDetach == ~Live

\* relocate: refuses a live run, then detaches the mapping and queues the
\* transaction that moves the Project.
DetachRuntimeSessions ==
    /\ upheavals < MaxUpheavals /\ ~RelocationRuns /\ ~removed
    /\ MayDetach
    /\ Apart => ~DeletionRuns
    /\ upheavals' = upheavals + 1
    /\ relocating' = TRUE /\ runtime' = None /\ cache' = None
    /\ queue' = Append(queue, Op("relocate", "relocation", cache, runtime))
    /\ UNCHANGED <<runVars, home, row, torn, deleted, removed, dir, statusVars, actionVars,
                   quitting>>

-----------------------------------------------------------------------------
(* The store serves its oldest operation; `works' says that its            *)
(* transaction committed.                                                  *)

Head1 == Head(queue)
Rest == Tail(queue)
Ended(r) == stage[r] = "done"
Or(s, t) == IF s # None THEN s ELSE t

Complete(r) ==
    IF Ended(r) THEN UNCHANGED <<stage, held, outcome>> ELSE End(r, "completed")

\* Mutant: the deletion is not looked for again after the mapping is stored.
ServeSetUnchecked(works) ==
    /\ Head1.op = "set"
    /\ IF works THEN cache' = Head1.session /\ row' = Head1.session
                ELSE UNCHANGED <<cache, row>>
    /\ queue' = Rest
    /\ runtime' = IF works THEN Head1.session ELSE runtime
    /\ Complete(Head1.by)
    /\ UNCHANGED <<session, home, torn, deleted, relocating, removed, dir, statusVars,
                   actionVars>>

\* onCompletedSession: the mapping is stored; a Thread deleted meanwhile has
\* it removed again.
ServeSet(works) ==
    LET r == Head1.by IN
    /\ Head1.op = "set"
    /\ IF works THEN cache' = Head1.session /\ row' = Head1.session
                ELSE UNCHANGED <<cache, row>>
    /\ IF works /\ deleted
       THEN /\ queue' = Append(Rest, Op("purge", r, None, None))
            /\ UNCHANGED <<runtime, stage, held, outcome>>
       ELSE /\ queue' = Rest
            /\ runtime' = IF works THEN Head1.session ELSE runtime
            /\ Complete(r)
    /\ UNCHANGED <<session, home, torn, deleted, relocating, removed, dir, statusVars,
                   actionVars>>

ServePurge(works) ==
    /\ Head1.op = "purge"
    /\ IF works THEN cache' = None /\ row' = None ELSE UNCHANGED <<cache, row>>
    /\ queue' = Rest
    /\ Complete(Head1.by)
    /\ UNCHANGED <<runtime, session, home, torn, deleted, relocating, removed, dir,
                   statusVars, actionVars>>

\* delete(key, sessionId) leaves a newer mapping alone.
Forget(works) ==
    IF works /\ Head1.session \in {cache, None}
    THEN cache' = None /\ row' = IF Head1.session \in {row, None} THEN None ELSE row
    ELSE UNCHANGED <<cache, row>>

\* A run with historyMode replace goes on once its old mapping is gone.
ServeReplace(works) ==
    LET r == Head1.by IN
    /\ Head1.op = "forget" /\ r \in Run
    /\ Forget(works)
    /\ queue' = Rest
    /\ IF works /\ ~stopped[r]
       THEN Spawn(r, None)
       ELSE /\ End(r, IF stopped[r] THEN "stopped" ELSE "failed")
            /\ UNCHANGED <<session, home>>
    /\ UNCHANGED <<runtime, torn, deleted, relocating, removed, dir, statusVars, actionVars>>

\* Mutant: a rejected status request ends without starting the deferred run.
ServeForgetOnly(works) ==
    /\ Head1.op = "forget" /\ Head1.by \notin Run
    /\ Forget(works)
    /\ queue' = Rest
    /\ status' = IF Head1.by = "status" THEN "idle" ELSE status
    /\ action' = IF Head1.by = "action" THEN "idle" ELSE action
    /\ UNCHANGED <<runtime, asking, compacting, stage, held, outcome, session, home,
                   torn, deleted, relocating, removed, dir>>

ServeForget(works) ==
    /\ Head1.op = "forget" /\ Head1.by \notin Run
    /\ Forget(works)
    /\ \/ /\ Head1.by = "status"
          /\ status' = "idle" /\ asking' = None
          /\ Drain(Rest, IF runtime # None THEN runtime ELSE cache')
          /\ UNCHANGED actionVars
       \/ /\ Head1.by = "action"
          /\ action' = "idle" /\ compacting' = None /\ queue' = Rest
          /\ UNCHANGED <<runtime, statusVars, stage, held, outcome, session, home>>
       \/ /\ Head1.by = "user"
          /\ queue' = Rest
          /\ runtime' = IF works THEN runtime ELSE Or(Head1.memory, runtime)
          /\ UNCHANGED <<statusVars, actionVars, stage, held, outcome, session, home>>
    /\ UNCHANGED <<torn, deleted, relocating, removed, dir>>

ServeDelete(works) ==
    /\ Head1.op = "delete"
    /\ queue' = Rest
    /\ IF works
       THEN /\ removed' = TRUE /\ row' = None
            /\ cache' = IF cache = row THEN None ELSE cache
            /\ UNCHANGED <<runtime, deleted>>
       ELSE \* rollbackThreadDataDeletion
            /\ runtime' = Or(Head1.memory, runtime)
            /\ deleted' = FALSE
            /\ UNCHANGED <<removed, cache, row>>
    /\ UNCHANGED <<stage, held, outcome, session, home, torn, relocating, dir, statusVars,
                   actionVars>>

\* The transaction moves the Project only when nothing it read has changed.
ServeRelocate(works) ==
    /\ Head1.op = "relocate"
    /\ queue' = Rest
    /\ relocating' = FALSE
    /\ IF works /\ ~removed /\ row = Head1.session
       THEN /\ row' = None /\ dir' = dir + 1
            /\ UNCHANGED <<runtime, cache>>
       ELSE \* restoreRuntimeSessions
            /\ cache' = Or(Head1.session, cache)
            /\ runtime' = Or(Head1.memory, runtime)
            /\ UNCHANGED <<row, dir>>
    /\ torn' = (torn \/ cache' # row')
    /\ UNCHANGED <<stage, held, outcome, session, home, deleted, removed, statusVars,
                   actionVars>>

ServeStore ==
    /\ queue # <<>>
    /\ \E works \in {TRUE} \cup (IF Head1.op \in Faulty THEN {FALSE} ELSE {}) :
          \/ ServeSet(works)
          \/ ServePurge(works)
          \/ ServeReplace(works)
          \/ ServeForget(works)
          \/ ServeDelete(works)
          \/ ServeRelocate(works)
    /\ UNCHANGED <<stopped, givenUp, from, quitting, upheavals>>

-----------------------------------------------------------------------------
(* shutdown(), for a quit that is abandoned afterwards: pending runs are    *)
(* marked and waited for, deferred ones are dropped without an event.       *)

BeginShutdown ==
    /\ upheavals < MaxUpheavals /\ ~quitting
    /\ upheavals' = upheavals + 1
    /\ quitting' = TRUE
    /\ stopped' = [r \in Run |-> stopped[r] \/ stage[r] = "pending"]
    /\ stage' = [r \in Run |-> IF stage[r] = "deferred" THEN "done" ELSE stage[r]]
    /\ action' = IF action = "running" THEN "idle" ELSE action
    /\ compacting' = IF action = "running" THEN None ELSE compacting
    /\ UNCHANGED <<held, outcome, givenUp, session, from, home, mapVars, queue,
                   threadVars, statusVars>>

EndShutdown ==
    /\ quitting /\ \A r \in Run : stage[r] # "pending"
    /\ quitting' = FALSE
    /\ stage' = [r \in Run |-> IF held[r] THEN "done" ELSE stage[r]]
    /\ outcome' = [r \in Run |-> IF held[r] THEN "stopped" ELSE outcome[r]]
    /\ held' = [r \in Run |-> FALSE]
    /\ UNCHANGED <<stopped, givenUp, session, from, home, mapVars, queue, threadVars,
                   statusVars, actionVars, upheavals>>

-----------------------------------------------------------------------------
RunStep(r) ==
    \/ Ask(r) \/ Refuse(r) \/ Start(r) \/ SessionOpened(r) \/ ProcessFails(r)
    \/ PromptAnswered(r) \/ StopTimeout(r) \/ Stop(r)

Next ==
    \/ \E r \in Run : RunStep(r)
    \/ BeginStatus \/ StatusEnds \/ Compact \/ CompactEnds \/ RemoveRuntimeSession
    \/ DeleteThreadData \/ DetachRuntimeSessions
    \/ ServeStore \/ BeginShutdown \/ EndShutdown

\* Timers end a stop and bound a status request; the store's queue advances.
Fairness ==
    /\ \A r \in Run : WF_vars(StopTimeout(r))
    /\ WF_vars(StatusEnds)
    /\ WF_vars(ServeStore)

Spec == Init /\ [][Next]_vars /\ Fairness

-----------------------------------------------------------------------------
\* An operation of the store.
Operation == [op : Operations, by : Run \cup Others, session : Maybe, memory : Maybe]

\* Every variable keeps its shape; no directory is newer than the Project's.
TypeOK ==
    /\ stage \in [Run -> Stages] /\ outcome \in [Run -> Outcomes]
    /\ held \in [Run -> BOOLEAN] /\ stopped \in [Run -> BOOLEAN]
    /\ session \in [Run -> Maybe] /\ givenUp \subseteq Run
    /\ dir \in Nat /\ from \in [Run -> 0..dir]
    /\ home \in [Session -> 0..dir]
    /\ {runtime, cache, row, asking, compacting} \subseteq Maybe
    /\ {torn, deleted, relocating, removed, quitting} \subseteq BOOLEAN
    /\ queue \in Seq(Operation)
    /\ status \in {"idle", "loading", "removing"} /\ action \in {"idle", "running", "removing"}
    /\ upheavals \in 0..MaxUpheavals

\* Once the rows of a Thread are deleted, no Runtime Session of it is mapped,
\* although a run that was completing may store one while the deletion waits
\* (onCompletedSession checks before and after it waits).  The cache may keep one if
\* a relocation before has left it other than the row: the deletion takes out of the
\* cache what it found in the table.
DeletionLeavesNothing == removed => {runtime, row} = {None} /\ (cache = None \/ torn)

\* A Runtime Session is detached when the Project is relocated (CONTEXT.md): what
\* stays mapped was opened in the directory the Project has now.  Not what the code
\* does: it only waits for the runs the manager can still reach.
RelocationDetaches == \A s \in {runtime, cache, row} \ {None} : home[s] = dir

\* A run that was asked to stop leaves the manager: after its grace period,
\* when its old mapping is deleted, or when the status request it waits for
\* has settled.
StopSettles == \A r \in Run : stopped[r] ~> stage[r] = "done"
=============================================================================
