# A TLA+ model of Carrent

Carrent is a desktop application (Electron, TypeScript) in which a user talks to
coding agents.  A Main Process owns all shared state; any number of windows
(renderers) show it and send commands; the Kimi process does the work of a run.
This directory models the parts of it whose correctness depends on the order in
which things happen, or on two pieces of code that have to agree, checks them with
TLC and proves some of them with TLAPS.  Paths below are relative to
`src/apps/desktop/`.

## 1. Inventory

| Component | State | Operations | Interacts with | What is hard, and what makes it correct |
|---|---|---|---|---|
| Chat run authority `electron/chat/chatRunAuthority.ts` | one run per thread, index by run id, revision, queue of batched updates, accepted answers, subscribers | send, stop, respondToPermission, respondToQuestion, handleEvent, acknowledgePersistedEvents, subscribe, unsubscribe, batch timer | session manager (start, stop, answers, events), windows (published changes), App State (acknowledgement) | late events, double answers, failing answers, payload limit in the middle of anything, batches and immediate changes. Index and table agree; a request is answered once; a run that ended is final; no runtime works unseen; changes are published in order |
| Chat run coordinator `src/renderer/hooks/useChatRun.ts`, effect in `components/chat/Composer.tsx` | replica of the run table, pending requests, observers, delivered counts | subscribe/resync, apply snapshot, apply change, begin/attach/fail/reject request, observe | authority over IPC, App State (message content and event count) | snapshots overtaken by changes, gaps, double mount, requests that outlive runs, windows that close. Replicas agree and catch up; no event is lost |
| Chat IPC `electron/chat/chatIpc.ts` | none | chat:send and friends | both of the above | calls of one window are handled in order; replies and changes may overtake each other |
| Kimi ACP chat `electron/chat/kimiAcpChat.ts` with its bridge, question server and terminals | the coroutine of a run, pending requests, tool items, flags, what it opened | start, stop, shutdown, answers, messages and exit of the process, calls to the question server | session manager, Kimi process, bridge and MCP servers | a stop, an exit, a timeout or a message at every await. One terminal event; nothing opened outlives the run; nobody waits for an answer the user cannot give |
| Session manager `electron/chat/chatSessionManager.ts`, provider sessions `electron/persistence/sqliteProviderSessionStore.ts` | runtime sessions (memory, cache, table), live and deferred runs, deleted and relocating threads | start, stop, deferred start, status, compaction, forgetting, deletion and its rollback, relocation, shutdown | Kimi runs, run authority, SQLite store, deletion and relocation managers | runs that complete while their thread is deleted or relocated; three copies of a mapping |
| Thread deletion `electron/chat/threadDeletionTransaction.ts` | journal file, queue | deleteThread, recovery | SQLite store, attachment store, session manager, App State lock | three stores without a common transaction; crash or I/O failure at every step; recovery that itself fails. Deletion is all or nothing and files follow rows |
| Attachment store `electron/attachments/` | attachment files, staging and backup directories | prepare, commit and roll back a deletion; reconcile orphans | thread deletion, App State lifecycle | partial copies and renames |
| Project relocation `electron/workspace/projectDirectory.ts` | queue | relocate | session manager, store, lock | the same as deletion, without files |
| App State authority `electron/workspace/appStateAuthority.ts` | snapshot, revision, applied command ids, transaction count, queue | submit, subscribe, replaceState, adoptExternalSnapshot, setTransactionActive | SQLite store, windows, deletion, relocation | retries, stale base revisions, persistence failures, transactions that start while a command is persisted |
| App State in the renderer `src/renderer/context/AppStateContext.tsx`, quit-time flush `electron/workspace/appStateFlush.ts` | local snapshot, dirty and in-flight threads, patches | updateThreadContent, flushPendingContent, apply broadcast, flush on request | App State authority | optimistic edits against broadcasts; bounded retries; a quit that waits for windows |
| App State commands `electron/workspace/appStateCommands.ts`, `electron/persistence/sqliteAppStateCommands.ts`, `sqliteAppStateDeletion.ts`, `migrations.ts`, `src/shared/workspacePersistence.ts` | the snapshot, the rows | one reducer and one list of statements per command, the normalizer, the schema, deletion by scope | authority, store | every rule is written two or three times and has to say the same |
| SQLite lifecycle and import `electron/persistence/sqliteAppStateLifecycle.ts`, `sqliteAppStateImport.ts` | the data directory: database, JSON files, attachments, reset staging directory | initialize, import, reread, full reset and its rollback | lifecycle, recovery IPC | resets and imports interrupted half-way |
| App State lifecycle and recovery IPC `electron/workspace/appStateLifecycle.ts`, `appStateIpc.ts`, `appStateIpcGate.ts` | load result, recovery queue | startup, reread, full reset | recovery, store, authority, windows | recovery concurrent with a running deletion |
| Chat message queue `src/renderer/hooks/chatMessageQueue.ts`, its reconciliation in `context/ThreadContentContext.tsx`, and the Composer that drains it | the queue, ids that are live or spent, a steered message, messages being sent | write, steer, delete, drain at the end of a run, put back, hydrate, reconcile with App State | run coordinator (send, stop, the end of a run), App State (thread work), other windows | two copies of one queue, compared in effects that run late; messages that are in neither while a run stops or a send is answered; Composers that come and go. Nothing foreign or recovered is sent unasked, nothing is dropped, a steered message does not stay behind |
| Titles, notifications, terminals, browser, git, worktrees, settings, skills, windows, user interface | | | | see `PROJECT.json` for each |

`PROJECT.json` lists every component with its status and, under `hazards`, every
place where this code is hard to test, with the properties that cover it or the
reason why none does.

## 2. Modules

| Module | Models |
|---|---|
| `RunAuthority` | the run authority on its own: each action is one synchronous call of `createChatRunAuthority` |
| `MCRunAuthority` | symmetry and view for checking it |
| `RunReplication` | EXTENDS `RunAuthority` with the IPC channels and the coordinators of the windows |
| `MCRunReplication` | symmetry of the windows |
| `RunHandle` | abstract specification: what a run promises its user |
| `KimiAcpRun` | one run of the Kimi process; implements `RunHandle` |
| `ChatSessionManager` | the session manager for one thread, the provider session store behind it and the store's queue |
| `ThreadStore` | abstract specification: what deletion promises |
| `ThreadDeletion` | the deletion manager, the attachment store, the commit marker, the session manager's refusals, the lock and the App State lifecycle, with crashes and I/O failures; implements `ThreadStore` |
| `AppStateAuthority` | the App State authority, the SQLite store's queue, and the transactions and rereads that share them |
| `AppStateReplica` | the windows' optimistic copies of a thread, their submissions, the authority's broadcasts, and the flush before a quit |
| `MessageQueue` | one window's queue for a thread, the Composer, the coordinator's request, and the queue's copy in App State; the other windows are the environment |
| `AppStateCommands` | reducers, normalizer, statements, schema and deletion, side by side over one snapshot and one database |
| `MCAppStateCommands` | symmetry of its workspaces, projects and conversations |
| `DataDirectory` | first start, import and full reset over the files of the data directory, with crashes and failing operations |
| `RunReplicationProofs`, `MessageQueueProofs`, `AppStateAuthorityProofs`, `AppStateReplicaProofs`, `KimiAcpRunProofs`, `ChatSessionManagerProofs`, `ThreadDeletionProofs` | TLAPS proofs about the module of that name, the first also about `RunAuthority` (section 5) |
| `AppStateStoreProofs` | TLAPS proofs about `AppStateCommands` and `DataDirectory`, whose names are chosen not to clash |

How they fit together: `RunAuthority` starts and stops turns that
`ChatSessionManager` runs, one `KimiAcpRun` each; `RunReplication` is the way of their
events to the windows.  `AppStateReplica` sends the commands that
`AppStateAuthority` orders and persists and `AppStateCommands` computes.
`MessageQueue` stands on both: it asks `RunAuthority` for runs, and its copy in App
State goes the way of `AppStateReplica`.
`ThreadDeletion` and relocation take the authority's lock, detach what
`ChatSessionManager` holds, and commit rows as `AppStateCommands` says.
`DataDirectory` is what all of it finds at the next start.

### RunAuthority

`runs` is `runsByThreadId`, `threadOf` is `threadIdByRunId`, `accepted` the keys of
`acceptedQuestionResponses`, `queue` is `queuedUpdates` (the timer runs exactly
when it is not empty).  `channel[w]` holds what was published to window `w`
and not yet received; one element is one IPC message, a batch being one message
with several updates.  Three variables stand for the world behind
`options.start/stop/respondTo*`: the phase of each run's turn (`turn`), the turns
told to stop (`told`), and the responses handed to the runtime and not yet
settled (`answered`).  The runtime settles every request at most once and ends
every turn with one terminal event, as `kimiAcpChat.ts` and
`chatSessionManager.ts` make it (`KimiAcpRun`, `RunHandle`).

A run keeps its status, stop flag, event count, pending requests, and of its
events only whether one is `started` (nothing else of them influences control).
Whether a payload exceeds the 8 MiB limit is nondeterministic at every
publication: each operation has the outcome that it is published and the outcome
that `failForPayloadLimit` replaces it, and `handleEvent` has two of the
latter (the replay state would be too large, or the update).  Events are grouped by what
`handleEvent` does with them: `Output` for those that are batched, `Progress`
for those that are not.  The suppression of a `delta` that repeats the preceding
timeline message, and the compaction of events, do not change control and are
left out.

### RunReplication

Per window: `replica` is `authorityState`, `syncing` and `resync` are
`chatAuthoritySync` and `chatAuthorityResyncRequested`, `pending` is
`pendingByRequestKey`, `busy` the threads of `requestKeyByThreadId`, `observer` is
`observersByThreadId`, `delivered` is `deliveredEventCountByRunId`.  `ApplyUpdate`, `ApplySnapshot`, `DeliverEvent` and
`DeliverSnapshot` translate the functions of those names.  `stored[r]` is the
`runEventCount` of the run's message.  Applying an event stores it: the delay
with which App State persists it appears where it matters, in the smaller count
an observer may start from (`Observe`) and in what is lost when a window closes
(`Close`).  `holes` is history: the runs of which a callback was handed an event that does
not follow the one before it.  `delivered` counts what was handed out; whether the observer it was
handed to is bound to that run is `Heard`, and the count of the message it writes is `stored`.
`Ends` is `finishPendingRun` at the end of a run, which frees the thread as well.

The IPC model: changes to one window arrive in order; calls of one window are
handled in order; the reply to `subscribe` leaves one microtask after the
snapshot is taken, so that changes published later may overtake it and
changes published before may not (`behind`).  `MountTwice` is StrictMode's
mount-unmount-mount.  `Close` destroys a window with everything on its way to it;
a window mounted afterwards in its place is another one.

Left out: finalization tokens (`finalizingThreadIds`), the legacy event path
without event counts, what the callbacks write besides the count, and the reset of
the coordinator, which only tests use.  A request is identified with the run id
it draws.  React is assumed to run the Composer's effect before the next IPC
message is handled (`EffectsFlushed`); the hazard this hides is listed.

### KimiAcpRun

`phase` is the await at which `start()` is suspended, from `initialize` to the reply
of `session/prompt`; the other variables are the fields of the class.  An action
is the code between two awaits.  Callbacks race with the coroutine: messages and
exit of the process, the timeout of a request, the user's stop and answers, the
application's shutdown, and the HTTP calls of the question server.  `Complete`
translates `complete()` with everything it calls; `Dropped` is what it does to the
coroutine: a request it was waiting for is dropped from the pending table, and
the coroutine is abandoned there.

`waiting` holds the requests whose asker waits, `pending` the ones the run would take
an answer to, and `shown` is what the user has been told by events: the end of
the run, the open requests, and the state of every tool.  `RunHandle` specifies `shown` alone:
requests come and go, a tool that has run its course stays as it is, and one
terminal event leaves no request open and no tool running.

The state "completed" of a tool stands for "failed" as well.  Left out: the checklist
(deferred to-do items), plan-mode, subagent and thinking items, message
segments, file reads and writes, request ids, failures of the transport's write,
and JSON.  A resumed and a new session differ in when the session id is known,
which decides what a stop does.

### ChatSessionManager

One thread.  A Runtime Session is named by the run that opened it, and its mapping is held in
three places: `runtime` (`runtimeSessions`), `cache` (the provider session
store's) and `row` (the table).  `stage[r]` is how far a run is; `held` is
`kimiSessions`, `deleted` and `relocating` are `deletedThreadIds` and
`relocatingThreadIds`, `stopped` stands for the three sets of stopped runs.  What the
manager awaits from the store is an element of `queue`; serving it and the
code that waits for it are one step, for the reason given under `AppStateAuthority`.  `home`
and `dir` are generations of the project's directory.

A run's process is reduced to the order of what the manager sees of it:
`SessionOpened`, then the answer to the prompt, whose session is saved before the
run completes, or a failure, or the end of a stop's grace period.

`DeletionLeavesNothing` asks of all three places at once that they are empty as soon as the rows
are gone.  `torn` is history: a relocation has left cache and row different, after which a deletion
does not find the cache's entry.  `RelocationDetaches` is what `CONTEXT.md:60` says of a relocation; the
code does not keep it (section 6).  `Apart` keeps a deletion and a relocation of the same thread from
overlapping and a deletion from being repeated: each goes wrong otherwise (section 6).  Nothing
keeps either of them from meeting runs at any stage, status requests and saves.

Left out: the freshness cache of the status, known commands, the debug trace, and
the notice of an invalid mapping.  `getStatus` and `inspectStatus` are one
operation.

### ThreadDeletion

Two actors, `manager` and `lifecycle`, execute the code between two awaits one
step at a time; `actor[a].at` is where they are.  The disk is rows, commit
markers, the journal, and the files in the attachments, staging and backup
directories; `torn` marks files whose copy has not ended (`copyFile` is not
atomic, `rename` and the journal's write-and-rename are).  `lock` is
`activeTransactionCount`, `refused` is `deletedThreadIds`.  Every step that does I/O
may fail if it is listed in `Faulty`; a crash is possible between any two steps
and keeps the disk.  `retryTwice` and the two passes of `rollbackDeletion` it
makes are explicit (`attempt`), and pass 0 is the rollback `prepareDeletion`
makes itself.  Queued requests are taken one at a time; a request may repeat
threads that were deleted already.

Each thread has one attachment.  The JSON-era branch of the manager is never
taken in the Main Process (`main.ts` always wires the SQLite store).

`ThreadStore` is the promise: threads disappear together in one step, and an
attachment becomes unreadable only after its thread is gone.  The refinement
mapping takes `rows` for the threads and `Kept` for the attachments: files in the
attachments directory, and those in the directories of the operation the journal
names, which recovery can bring back.

### AppStateAuthority

`snapshot`, `revision`, `available`, `transactions` and `applied` are the
authority's variables (`activeTransactionCount`, `appliedCommands`); `requests` is
its promise chain and `working` the command it awaits.  `stored` and `jobs` are the
database and the promise chain of `sqliteAppStateStore.ts`.  `tx[m]` is where the
deletion or the relocation manager is in the code between `onActiveChange(true)` and
`onActiveChange(false)`; each manager has a queue of its own, so they may overlap.
`rereads` and `reread` are the recovery queue of `appStateIpc.ts`, which takes the
lock when an operation is queued and not when it starts.

SQLite is synchronous, and whatever awaits a job is resumed before the next job
starts: the job's promise wakes its awaiter in the same round of microtasks in
which the queue's promise is fulfilled, and the next job starts one round later.
A job and its continuation up to the next await are therefore one step
(`PersistJob` publishes, `CommitJob` adopts).  A snapshot tells threads that are
gone from those that hold edits, each edit named after its command, and a relocation
is an edit of its own.  A command names the revision its sender saw (`SeenRevisions`: the
current one, or an older one) or none.

Left out: subscribers and what is published to them (`AppStateReplica`), full reset
(`DataDirectory`), what reducers compute (`AppStateCommands`), observers, and the
lock that a deletion keeps after a failed rollback (`ThreadDeletion`).

### AppStateReplica

One thread in several windows.  `seen`, `copy`, `dirty`, `patches`, `inflight` and
`submission` are `revisionRef`, `snapshotRef` and the four maps of pending content of
`AppStateContext.tsx`; a slot of `flush` is one call of `flushPendingContent` that has not returned.
`Infinity` is `Number.POSITIVE_INFINITY`, the revision of what has not been answered yet.
Content is a set of edits.  Message edits are sent with every submission, because the whole
message list is; patches only with the next one.  The authority merges by id,
so a set union.  `down[w]` is the first-in-first-out channel to a window: broadcasts,
replies and the flush request.  The authority is reduced to revision, content,
existence and its queue; that its broadcast leaves before its reply is in `Process`.
Every submission may be refused, living thread or not (`Answers`): "refused" stands for
"unavailable" (a deletion, relocation or reread holds the lock), "invalid", "persistence-failed" and
for a call that throws, which the window treats alike.  It then gives the edit up (`Settle`): the edit
stays on screen, protected no more, until the next state replaces it.  `behind` is history: the window
is in that situation.  `Prune` are the patches that delete messages, which survive the deletion of
their thread in `pendingDeleteMessageIdsRef`.

`Quit` is `appStateFlush.ts`: ask every subscriber, wait for all or two seconds,
wait for the commands that were submitted by then, save.

Left out: thread work, whose loop is the same (`MessageQueue`), `waitForRevision`, selection, and
that a call that throws also ends the flush's loop over the other threads.

### MessageQueue

`local.queue`, `live` and `spent` are `queueByThreadId`, `liveQueuedItemIds` and
`spentQueuedItemIds`; `confirm` is `requiresConfirmation`; `local.work`, `dirty` and `waiting` are the
App State copy of the queue and its place in `dirtyWorkThreadsRef` and `inflightWorkRef`.  `composer`
holds `steerItemRef`, `wasSendingForQueueRef` and `queueDrainRequestedRef`, which are gone with the
Composer instance; `request` is the coordinator's pending request with its finalization, and
`request.mine` says that the instance that sent it is still mounted.  `flying` are the messages
handed to `handleSend` and not yet answered for.  `Shifted` is `shiftQueuedChatMessage`; the
other functions of the queue filter it by id (`Only`).  Each action is one handler, timer or effect.

The reconciliation (`Change`, `PassiveEffects`) follows React: a broadcast is rendered and its
effects run later (`due`); a change of the queue store renders synchronously, and before that
React runs the effects that are due.  The effect compares the queue of the moment with the
copy it was rendered with, and pushes after a change of the queue or syncs after a broadcast.

Revisions are abstracted: every revision is broadcast once, so a window has seen the current
one exactly if no broadcast is on its way.  The reply to an accepted
command follows its broadcast and changes nothing more, so the two are one message.  Another
window adds or takes out a message in the queue App State holds, or in the one before if
its own edits kept that copy.  `written`, `sent`, `promised` and `local.behind` are history.
A submission may be refused as stale, and is then made again (`ReceiveStale`), or for
another reason (locked, not persisted, a call that throws), and is then given up (`ReceiveRefused`):
`behind` says that this has happened and that no broadcast has replaced the copy since.

A timer of 0 ms fires before a debounce of 250 ms and before the user's next click (`NoTimer`).
Left out: editing a queued message in place and the drain it blocks, the archive's clearing, drafts,
overlapping flushes and the bound on retries (`AppStateReplica`), and errors of `chat:send`.  The
feedback to a plan is a `Compose`, and a `Delete` if the answer is refused.

### AppStateCommands

`snap` is the authority's snapshot and `rows` the database, both records of the same
fields, so that agreement is an equation.  `Process(next, Stored)` is one command:
the reducer's result `next` is normalized, an invalid one is rejected, and for a
valid one the statements `Stored` run against `rows`.  A statement whose constraint
(key, foreign key, unique index, trigger) is violated makes the transaction abort
and `failed` true.  Cascades are part of `Delete...`.  `Valid` has one conjunct per part of
`normalizeAppStateSnapshot`; `Normalized` drops remembered locations that lead nowhere, and
`Confirmed` is what reading and writing do to queued messages.
`With` and `Over` are the object spreads of the reducers (`{...x, [key]: y}` and merging by id).

Data that no constraint and no other field depends on is left out: names, paths, aliases,
defaults, configuration, pins, checklists, settings, titles typed by the user, times, promotion intents, and
thread actions.  Three reducers (`workspace:delete`, `association:remove`,
`thread:remove`) have no statements and are not used with SQLite; the deletion by
scope took their place and is modelled.

### DataDirectory

`base` and `staging` are the data directory and `.app-state-reset` in it, each a record of one
entry of every kind a reset moves: the JSON file, the attachments, the database (with
what its rows are and whether the import marker is in it) and the copies an import leaves.  `op` is
the operation, `at` where it is, `status` what the windows see.  A step that is
listed in `Faulty` may fail; the process may end between any two steps.
`had` and `wiped` are history: there was data, and a full reset has replaced it.
The names a reset has still to move and those it has moved are sets (`targets`, `staged`); they are
taken in the order of the listing and put back in the reverse one (`First`, `Latest`).
`rollbackReset` is translated as it is: its renames take their source relative to the
working directory of the process (`InDataDirectory` = FALSE: not the data
directory) and fail.

Left out: failures to close the store, the quarantine of unreadable provider sessions,
reloading the bridge and the provider after a reset, and removal that stops half-way.

## 3. Runs

| Run | Module | Question | Size |
|---|---|---|---|
| `MCRunAuthority` | MCRunAuthority | Does the authority keep its invariants through three successive runs of a thread? | 1 thread, 3 run ids, 1 permission, 1 question, 1 window, 3 events before the last |
| `MCRunReplicationWindows` | MCRunReplication | Do two windows, one of which may close, agree and are they handed every event, payload limit included? | 2 windows, 1 run id, 1 event before the last, 1 close |
| `RunReplicationCatchUp` | RunReplication | Does a development build follow one run, then the next, and always catch up? | 1 window, 2 run ids, no event before the last, 1 close, two mounts |
| `KimiAcpRun` | KimiAcpRun | Does a run implement `RunHandle`, clean up, and always end after a stop? | 1 plan review, 1 native and 1 MCP question, 1 terminal, 2 tools |
| `ChatSessionManager` | ChatSessionManager | Does anything of a thread's sessions survive its deletion, among runs, status, compaction, relocations and quit, and does every stop settle? | 2 runs, 1 upheaval, failing saves, purges, deletions and relocations |
| `ThreadDeletion` | ThreadDeletion | Is deletion atomic through failures and crashes, and does it implement `ThreadStore`? | 2 threads, 2 deletions, 3 faults, 2 crashes |
| `ThreadDeletionRestart` | ThreadDeletion | Does a restart settle whatever was left? | 1 thread, 2 deletions, 2 faults, 1 crash, 1 reread |
| `AppStateAuthority` | AppStateAuthority | Is what the authority holds what is persisted, and is each command answered, with deletions, relocations and a reread in between? | 1 thread, 2 command ids, 3 submissions, 1 remembered id, 2 transactions, 1 reread |
| `AppStateReplica` | AppStateReplica | Is an edit held until it is stored or refused, does a deleted thread stay away, does a window show what is stored, and does a quit end? | 2 windows, 1 message edit, 1 patch, 2 flushes per window, 2 attempts, 1 other command |
| `MCAppStateCommands` | MCAppStateCommands | Do reducers, statements, schema and normalizer agree? | 2 workspaces, 2 projects, 2 conversations of which 1 may become a thread, 2 turns, 1 event |
| `MessageQueue` | MessageQueue | Is a queued message sent by its own window only, and never dropped or left behind? | 1 message here, 1 elsewhere, 2 runs, 1 refused send, refused submission, unmount or reload, 1 command of another window |
| `DataDirectory` | DataDirectory | Is data lost, hidden or imported twice? | 3 faults, 2 crashes, 2 resets, from every kind of disk a release finds |

**Why the bounds are enough.**

- The run authority's threads share nothing but the
  revision and the queue, so one thread with three runs exercises replacement,
  removal, late events of a run that is two generations old, and a payload
  failure in each. One permission and one question are enough for every
  combination that `statusAfterInteraction` tells apart.  `MaxEvents` = 3 lets a
  request, its answer's failure and a new answer meet in a single run; terminal events
  are not counted against it.
- In the replication runs one event before the last can wait in the queue while an
  immediate change flushes it.  Two windows are the least that can
  disagree, and two runs the least of which one replaces the other.  `StrictMode`
  tells a development build, whose effects are mounted twice and whose first
  snapshot is always followed by a resync, from a release, which resyncs after a
  gap only: `RunReplicationCatchUp` is the one, `MCRunReplicationWindows` the other.
- Two questions of different origin and one plan review are the
  least that meet the rule of one question at a time and both outcomes of a
  review.  Ordinary permissions follow the same code as reviews up to
  what they remember, and are left out of the run.
- Two runs of a thread are one that is ending and one that starts.
  The run explores one upheaval (deletion, relocation or quit) in a behaviour.  With
  `MaxUpheavals` = 2, where a deletion may follow a relocation that left the cache behind, the
  invariant holds as well (3.56 million states), but liveness takes too long for a run that is kept.
- In the deletion runs two threads let a request stage one
  attachment and fail at the next; two deletions are what is needed for a
  journal left behind by one and found by the other; two crashes let recovery
  itself be interrupted, and the third fault exhausts `retryTwice` and hits once
  more.
- In `AppStateAuthority` one remembered id (1000 in the code) and three
  submissions let a command be repeated while it is remembered and after it was
  forgotten; two transactions let a deletion and a relocation overlap each other
  and a command, and a command of a thread that a deletion removed arrive late.
- In `AppStateReplica` two flushes of a window supersede each other; two attempts (four in the
  code) are a retry and giving up; one other command makes any submission stale.
  Beyond the kept run, `NoResurrection` and `QuitEnds` hold with a pruned message next to the patch, one
  flush per window and no other command (`Patch` = {p1, d1}, `Prune` = {d1}; 706 000 states).
- In `MessageQueue` one message of this window and one of another are the least that can
  take each other's place, as the head of the queue or as the steered one; two runs are one that
  is steered and the one that follows; one refusal of a send or of the window's queue, unmount or reload and one foreign command
  meet each of them at every step.  Refusals as stale are not bounded.
- Two workspaces that share two projects are the least in which an order is compacted,
  a project is orphaned or not, and an active workspace is succeeded. Two
  turns are a run and a later one.
- Three faults let an operation, its rollback and the next start fail; two resets let
  the second one find what the first left.

**View and symmetry.**  `MCRunAuthority` explores states that differ only in the
channels once (`Unpublished`): no guard of `RunAuthority` and none of the run's properties
reads a channel.  Run ids are interchangeable there, windows in
`MCRunReplicationWindows`, and workspaces, projects and conversations in
`MCAppStateCommands` (turns are ordered and are not); these runs check invariants and
action properties that are symmetric themselves, no liveness.

**Deadlock** is not checked: every one of these systems may stop (all run ids used and
all runs ended; all deletions made; the app saved and gone).

**What the passing runs leave out on purpose**, because the code does not keep the
property there; section 6 says what happens:

| Run | Left out | By |
|---|---|---|
| `MCRunReplicationWindows` | bounded snapshots | `Bounded` = FALSE |
| `RunReplicationCatchUp` | a second window next to two runs | one window |
| `ThreadDeletion` | failing restores, rereads during a deletion | `Faulty` without "restore", `MaxRereads` = 0 |
| `AppStateAuthority` | rereads during a transaction | `Overlap` = FALSE |
| `ChatSessionManager` | that a relocation detaches the sessions (`RelocationDetaches`); a deletion and a relocation that overlap, a repeated deletion; a failing "forget"; the cache's entry after a relocation has left it other than the row | `Apart` = TRUE, `Faulty` without "forget", `torn` in `DeletionLeavesNothing` |
| `AppStateReplica`, `MessageQueue` | an edit or a queue after its submission was refused for another reason than its age, until the next state replaces it | `GivesUp` in `EditsHeld`, `behind` in `UnprotectedAgrees` and `Reconciled` |
| `MCRunReplicationWindows` | that an observer bound to an earlier run of its thread does not write what it is handed | `NoEventSkipped` is about what is handed out |
| `MessageQueue` | a steered message whose run another window or an unmounted Composer has sent; a message the reconciliation with a broadcast drops | `promised` in `SteerKept`, the last case of `NothingDropped` |
| `DataDirectory` | a directory that cannot be listed while a reset looks for its leftovers | `Faulty` without "look" |

## 4. Fairness

- `ReplicationFairness`: the batch timer fires (`setTimeout`); the Main Process
  handles the calls it received (weak: nothing disables them); a renderer handles
  the messages it received, strongly, because a Composer may come and go in between
  and `EffectsFlushed` holds and fails in turn, while the event loop's queue is
  first in, first out and never drops a message; an effect whose condition became
  false is cleaned up.  Nothing is assumed of users, of the runtime, or of windows
  that are not open.
- `KimiAcpRun`: timers fire (the grace period of a stop, the timeouts of requests) and
  local work ends (starting the servers, preparing files, composing the prompt, saving the
  session).  The Kimi process and the user owe nothing: the process may be silent for ever.
- `ChatSessionManager`: the grace period of a stop ends, a status request ends (it is
  bounded by a timeout), and the store serves its queue.
- `ThreadDeletion`: weak fairness of `Work`, the steps the process takes by
  itself and the user starting the application again: Node runs every callback of
  an I/O operation that ended. Faults and crashes are bounded, so that the runs
  ask what happens once they stop; requests and rereads are never assumed.
- `AppStateAuthority`: weak fairness of `Process` and of `Job`: both queues
  are chains of promises that go on whether an element succeeds or fails.  Nothing
  else is assumed: a manager may stay in its transaction for ever.
- `AppStateReplica`: the Main Process serves its command queue, its timer of two
  seconds fires, and saving ends.  No window is assumed to do anything.

`DataDirectory`, `AppStateCommands` and `MessageQueue` state safety only and assume nothing.

## 5. Proofs

Eight modules hold theorems, all checked by TLAPS for every value of the constants that the
module's assumptions allow: any set of threads, runs, windows, edits or requests, any number of
failures, crashes and retries.  Together they prove the type invariant and every safety property
the runs check, except one of `RunReplication` (below).  Each proof has the same shape: an inductive
invariant `IInv` that implies the properties, one lemma per action (or per group of actions
that touch the same things) that it is preserved, and theorems that combine them.  TLC checked each `IInv` on the
module's run before it was proved (that of `RunReplication` speaks of functions over all revisions,
which TLC cannot enumerate).

| Module | Theorems, and the property each states | Assumed besides the module's assumptions |
|---|---|---|
| `RunReplicationProofs`, part 1: `RunAuthority` | `TypeCorrect`, `IndexAgrees`, `StatusAgrees` (`StatusMatchesInteractions`), `AnsweredOnce`, `AcceptedKept` (`AcceptedUntilSettled`), `OrphansStopped` (`OrphanTurnIsStopped`), `QueueInOrder` (`QueueReachesRevision`), `TerminalIsFinal` (`TerminalRunIsFinal`) | |
| `RunReplicationProofs`, part 2: `RunReplication` | `ReplicationTypeCorrect`, `ReplicasAgree` (`ReplicaAgrees`), `NothingSkipped` (`NoEventSkipped`) | `NothingSkipped` only: `~Bounded` |
| `MessageQueueProofs` | `TypeCorrect`, `OnlyOwnMessagesAutoSent` (`AutoSendsOwn`), `QueueReconciled` (`Reconciled`), `SteeredNotLeftBehind` (`SteerKept`), `NothingHeldIsDropped` (`NothingDropped`) | |
| `AppStateAuthorityProofs` | `TypeCorrect`, `CommandSeesItsState` (`NothingMovesUnderCommand`), `NoEditSlipsIn` (`TransactionSeesLastEdit`), `MemoryAgrees` (`MemoryMatchesStore`) | `MemoryAgrees` only: `~Overlap` |
| `KimiAcpRunProofs` | `TypeCorrect`, `RequestsAreSeen` (`NobodyWaitsUnseen`), `RunLeavesNothing` (`NothingOutlivesRun`), `CompletedIsContinuable` (`CompletedCanContinue`), `ImplementsRunHandle` (`KeepsPromise`) | |
| `ThreadDeletionProofs` | `TypeCorrect`, `NoWriteWhileAway` (`WritesBlockedWhileAway`), `AllOrNothing` (`SettledIsAtomic`), `ImplementsThreadStore` (`PromiseKept`) | "restore" is not in `Faulty`, `MaxRereads` = 0 |
| `AppStateReplicaProofs` | `TypeCorrect`, `NoEditLost` (`EditsHeld`), `DeletedStaysDeleted` (`NoResurrection`), `WindowsAgree` (`UnprotectedAgrees`) | |
| `ChatSessionManagerProofs` | `TypeCorrect`, `NothingIsLeft` (`DeletionLeavesNothing`) | `Apart`, "forget" is not in `Faulty` |
| `AppStateStoreProofs`, part 1: `AppStateCommands` | `CommandsInvariance`, `RestartFindsSnapshot` (`RestartLoadsSnapshot`), `NoCommandRefused` (`StoreAccepts`), `DeletionsAgree` (`DeletionMirrors`) | |
| `AppStateStoreProofs`, part 2: `DataDirectory` | `DirectoryTypeCorrect`, `DataIsKept` (`NothingLost`), `NoFalseFreshStart` (`EmptyIsFresh`), `ImportOnce` (`ImportIsFinal`) | "look" is not in `Faulty` |

Those of a module rest on its theorem `Invariance` (`[]IInv`; those of the replication on
`ReplicationInvariance`, `[]ReplicationIInv`, those about `AppStateCommands` and `DataDirectory` on
`CommandsInvariance` and `DirectoryInvariance`).  The conditions in the last column are those of the runs: without them TLC refutes the
properties (sections 3 and 6), because the code does not keep them there.  The assumptions of the modules say that
special values are none of the ordinary ones (`None`, `Absent`, `NoCommand`, `NoJournal`,
`NoBase`, `NoState`, `Infinity`), that there are finitely many threads and windows
(`RunReplication`), and that bounds are natural numbers; a bound has no other role.

**`RunAuthority`.**  The properties are not inductive one by one.  That an answered request is not
pending, for example, needs to know that no event of a run that was never
started is on its way, which in turn needs the index to agree with the table.
`IInv` adds to them that a live run's turn is active (`LiveRunIsActive`) and that a run id
whose turn has not begun is known to nobody (`UnusedRunIsFresh`).  Every action
either leaves the table alone or
ends in `replaceRun` with a new version of one run, or removes one run.
`Advance` shows, once, that replacing a run by a *well-formed* later version of
itself preserves the whole invariant if the answers, accepted responses and stops
changed along with it as they may; a lemma for each helper (`RunVariants`,
`DispatchKeepsStream`, `LimitFailureEffect` ...) shows that it returns such a
version or keeps the stream of updates in order.  `StepOK` adds that no ended run changes, so
that the action property comes out of the same steps.

**`RunReplication`.**  A window never compares its runs with the authority's: it applies an
update when the base revision fits, and a replica that lags must be right about a table that is
gone.  The invariant says that these tables exist: there is a function `h`, the table of
each revision, such that every update that may still be received, in the queue or in a channel,
leads from `h[base]` to `h[revision]` (`Past`), and that every snapshot on its way and
every replica holds the table of its revision (`Shows`).  A step of the authority prolongs
`h` without changing what anyone can still hear of (`PastGoesOn`); this is proved for each way the authority
publishes: one update, an update with a removal, or nothing.  A batch is applied by a
recursive function on its length; `StepsExist` shows, by taking the least length at which it would fail,
that the function takes one step at a time (well-founded induction over finite sets, the one
form of induction the provers can instantiate here), and
`ApplyChangeTrusted` that it leads from the table of one revision to that of another or stops at
a gap.  `Close` and the delivery of a snapshot take the greatest of a set of counts, which is why
there must be finitely many windows and threads (`GreatestNumber`).

That no event is missed is a second invariant on top of this one (`EventsIInv`).  Each update says how it
goes on from the table before it (`Follows`): a run that is published with an event counts one
more than its version before, unless it has failed; without an event it counts the same, or is
new.  A window has delivered, of every run it shows and has a target for, at least as much as the
run counts (`Shown`), so the next event is the one after what was delivered.  This has to
survive that targets come and go (what it does not say is that an observer writes what it is handed:
one that is bound to an earlier run of the thread ignores it, section 6): a request begins with an id that no run was ever sent with
(`Sent`), and an observer takes the run it is bound to as it is shown, and no other, as two runs of a
table have different threads (`Plain`).  Snapshots on their way are whole (`Sound`), which is where
`~Bounded` is needed.

**`MessageQueue`.**  What sends by itself was written here: items that are live, waiting or in
flight are the window's own until the window is loaded again (`OwnItems`).  The copy in App State
is followed through every broadcast on its way, and the window's queue agrees with the last
one it heard unless an edit, an effect that is due or an answer is still to come (`Mirrors`).  The Composer is
told of the runs in order, with none missing, and expects one answer at most (`Heard`), from which
it follows that a steered message it holds has a callback coming (`PromiseKept`).  An item that has left the
window is known as spent as long as a broadcast may bring it back (`Tombstones`), and `HandedOn`
shows for each handler that what it takes out of one place it puts into the next.  The queue is
filtered in most steps; `Only` is a recursive function for that, and what it keeps is proved by
the least length of a counterexample (`OnlyKeeps`).

**`AppStateAuthority`.**  The argument is about the store's queue: a command is handed to the
store only while nobody holds the lock, and then the queue is empty, so it stays first in it
until it is persisted (`CommandAlone`); each of the other jobs belongs to the one transaction or reread
that waits for it (`JobsAreAwaited`, `JobsAreDistinct`).  That the lock is the number of
those who hold it is part of `TypeCorrect`.  Where rereads and transactions do not
overlap, a second invariant says that what a reread has loaded is still what is stored
(`RereadIsFresh`).

**`KimiAcpRun`.**  Until the run has ended the user is shown exactly its state
(`ItemsAreShown`), and `complete()` is the only way out (`EndIsTerminal`, `PanelsAreGone`).  The
refinement of `RunHandle` then goes action by action: each is a step of the handle or changes
nothing that is shown.

**`ThreadDeletion`.**  What an operation has moved away is accounted for by the journal alone
(`FilesAccountedFor`): before the commit, every file of a thread with rows is in one of the
three places it can be in; after it, none is in the operation's two directories.  One actor works at a time
(`OneAtATime`) and the lock says so (`LockHeld`); `Progress` says for each step of the
manager and of recovery how far it has come.  Every step, failing ones and crashes included,
preserves this and is a step of `ThreadStore` or leaves rows and `Kept` alone (`StepOK`).

**`AppStateReplica`.**  A submission is under way in one place at most, as a command
in the queue or as its answer on the way back (`OnePlace`), and there it carries, or, if it was
accepted, has stored what the window still protects (`Carried`).  The messages on their way to a
subscriber end with the current state (`Heard`), so that a window with an empty channel knows it,
unless it shows what it has given up (`behind`).  `EditsHeld` is an action property: for each step that is
not `GivesUp`, what was protected and is not any more is stored (`LetsGo`), which is proved along with
the invariant (`NextOK`).

**`ChatSessionManager`.**  Cache and row are the same unless a relocation is still in the queue or
has left them different (`MappingOK`).  A relocation and a deletion are never in the queue
together, and behind a deletion nothing is stored, as the thread was marked before it was
queued (`Good`, `DeletionOK`); a save that was under way removes what it stored (`ServePurge`).

**`AppStateCommands`.**  That a restart finds the snapshot is not inductive in this form: the
constraints a statement checks have to follow from something, and what loads is normalized
once more.  `CommandsIInv` says field by field that the rows hold the snapshot (`Mirrors`), that the
snapshot is typed, valid and has no remembered location the normalizer would drop (`Settled`), and
that messages and runs have their turn's conversation (`TurnsOK`).  For each statement a
lemma says which fields it changes and what it needs to succeed (`InsertThreadIs` ...); for each
command one shows that its constraints hold *because* the normalizer has accepted the
result (`ProcessKeeps`), and that the statements leave every field as the result has it
(`Written`).  A deletion is compared field by field with the deletion of the snapshot, for each
kind of scope (`ThreadsMirrored`, `AssociationMirrored`, `WorkspaceMirrored`), and leaves a settled
snapshot again (`DeletionSettles`).  The hard part there is that orders are given again from 0: a rank among `n`
different numbers is one of 0 to `n - 1` and each is taken (`RanksContiguous`), and orders without
gaps are their own ranks (`RanksKept`), both by counting injections and surjections over finite
sets.  The sets of workspaces, projects and conversations may be infinite: a snapshot has finitely
many orders, since each command adds one.

**`DataDirectory`.**  Rows are only written with the marker (`MarkersOK`), and an import asks
the marker first (`ImportOK`), so it overwrites none.  What is staged is in its place or
in the staging directory, whose removal comes after the rollback of all of it or after the commit
of the empty database (`ResetOK`); a reset never starts over what an earlier one left.

**Only model-checked.**

- Liveness, which is out of the prover's reach: `CommandsAnswered`, `RunEnds`, `StopSettles`,
  `RestartSettles`, `QuitEnds`, `WindowsCatchUp`.
- `RequestEndsWithRun` of `RunReplication`.  With two windows and two run ids the code does not keep it
  (section 6); what makes it true for one window, that no change is missing between its replica and
  the authority, is not part of the invariant.

## 6. Where the code does not keep a property

### A relocated project resumes sessions of its old directory

`CONTEXT.md:60` says that a Runtime Session "is detached when its Thread is permanently deleted or
when the owning Project is explicitly relocated to another directory path"
(`RelocationDetaches`).  `detachRuntimeSessions` refuses to start while a run is live
(`chatSessionManager.ts:642`), but `stop` forgets a run at once (417-421) and Kimi has five
seconds to end it.  TLC refutes it with `ChatSessionManager.cfg`, `Run` = {r1}, `Faulty` = {} and
`INVARIANT RelocationDetaches` in the place of the properties.  In its trace the prompt is answered
and its session is being saved when the run is stopped; the relocation takes the mappings away and
queues behind the save, which puts the session of the old directory back into cache and memory.  The next
run of the thread resumes it.  `chat:send`, too, checks the project's directory before
it awaits (`chatIpc.ts:399-407`), so that a request made for the old directory may start
after the relocation.

### A refused edit stays on screen

`flushPendingContent` submits a thread again only if the answer is "stale".  If it is "unavailable"
(a deletion, a relocation or a reread is going on), "invalid", "persistence-failed", or the call
throws, what was in flight is cleared and nothing is marked dirty
(`AppStateContext.tsx:637-663`, and 682-695 for the queue of a thread).  The edit stays on
screen, unprotected and not stored, and the next broadcast replaces it: what the user typed, or
the output of a run, disappears.  Message edits go out again if the thread is edited before that,
patches do not.  `EditsHeld`, `UnprotectedAgrees` and `Reconciled` name this one exception (`GivesUp`,
`behind`).

### An edited message that is sent again does not take effect

`EditTakesEffect` of `AppStateCommands` says that it does; TLC refutes it in a moment with
`MCAppStateCommands.cfg`, `PROPERTY EditTakesEffect` in the place of the invariants and no
`SYMMETRY`.  The window updates the message, prunes
everything after it, appends a new placeholder for the answer, and submits all of it as one
`thread-content:update` whose `deleteMessageIds` holds the old answer.  If a run was recorded for
that message, as it is for every message sent through `onRunPrepared` or a promotion, the
reducer deletes the answer and keeps the run that names it (`appStateCommands.ts:1174`).
`normalizeAppStateSnapshot` refuses such a snapshot (`workspacePersistence.ts:935-979`), the
authority answers "invalid", and the window gives the edit up.  The comment above the
merge says that deletions happen "for ids listed in deleteMessageIds (edit-resend prune)", and
`appStateCommands.test.ts:1573` tests them without a recorded run.

### Reproduced by changing a constant

No run is kept for these; each is seen by changing a configuration as described and
running TLC.

| What happens | How to see it |
|---|---|
| A bounded snapshot loses the end of a run.  `compactReplayState` empties the events of ended runs and keeps their `eventCount`; the coordinator counts all of them as delivered, and the authority drops the run. The thread never gets the output (`useChatRun.test.ts:751` wants the terminal event replayed). | `MCRunReplicationWindows.cfg` with `Bounded` = TRUE: `NoEventSkipped` |
| A request stays pending for good: a snapshot has no rule for a pending request whose run is gone because another window's run replaced it (`useChatRun.ts:403`). | `RunReplicationCatchUp.cfg` with two windows: `RequestEndsWithRun` |
| An observer counts events it does not hear.  A snapshot or a batch that shows the thread's next run arrives before the Composer's effect has rebound the observer: `handleEvent` returns early, the events are counted as delivered all the same (`useChatRun.ts:524`), and the run's own message never gets them from this window. | `RunReplicationCatchUp.cfg` with the invariant `CountedIsStored` |
| A failing restore deletes the attachment.  `rollbackDeletion` removes the staging and backup directories although a key could not be moved back; the retry finds nothing to do and succeeds (`attachmentStore.ts:165`). | `ThreadDeletion.cfg` with "restore" in `Faulty`: `PromiseKept` |
| A torn backup replaces the original.  After a crash during the backup copy, recovery copies the partial backup over the file that was never moved (`attachmentStore.ts:190`). | `ThreadDeletion.cfg`, `MaxCrashes` = 1: `AttachmentWhole` |
| The App State lock leaks.  A deletion that could not be rolled back keeps its share of the lock; whoever recovers it later does not give it back, and every command is refused until a restart (`threadDeletionTransaction.ts:419`). | `ThreadDeletion.cfg` with `Faulty` = {"commit", "unstage"}: `LockEndsWithTransactions` |
| A reread recovers a deletion that is still running: `app-state:reread` is not queued behind the deletion manager (`appStateIpc.ts:58`). | `ThreadDeletion.cfg` with `MaxRereads` = 1: `SettledIsAtomic` |
| A reread publishes a snapshot it loaded before a deletion or relocation was committed and adopted. `appStateAuthority.ts:193-195` says that subscribers "converge on what is actually persisted". | `AppStateAuthority.cfg` with `Overlap` = TRUE: `MemoryMatchesStore` |
| A failed full reset is not rolled back.  `rollbackReset` (`sqliteAppStateLifecycle.ts:233`) renames from a path relative to the working directory; a reread or the next start then shows the old rows while the attachments are in the staging directory, though the comment at 257-258 says that a half-old state is never exposed.  A crash while staging has the same effect, and a staging directory left behind makes every later reset stay in recovery. | `DataDirectory.cfg` with `Faulty` = {"open", "stage"}, `MaxFaults` = 2, `MaxCrashes` = 0, `MaxResets` = 1: `ReadyIsWhole` |
| A directory that cannot be listed counts as empty for a full reset (`pathExists`): the only copy of what an earlier reset has set aside is removed. | `DataDirectory.cfg` with "look" in `Faulty`: `NothingLost` |
| A relocation that overlaps the deletion of its thread and fails puts the deleted thread's session back into memory; a repeated deletion that fails takes the thread off the list of deleted ones. | `ChatSessionManager.cfg` with `Apart` = FALSE: `DeletionLeavesNothing` |
| A quit loses an edit on which every window answered: a flush that is in flight when the app asks and comes back stale is retried after the window's own flush found nothing to submit; a refused one is not retried at all. `appStateFlush.ts:23-26` says that everything typed is persisted. | `AppStateReplica.cfg` with the invariant `QuitKeepsEdits` |
| A steered message stays in the Composer's hands, neither in the queue nor sent, until the next run ends: steered while a stopped or failed run is still being finalized, or while the run is one another window or an earlier Composer instance has sent, so that no callback drains it or puts it back.  `Composer.tsx:3131` says that a failed run must not swallow a steer request. | `MessageQueue.cfg` with the invariant `SteerNeverStuck` |
| A message put back (or written) between the rendering of a broadcast and its effect is dropped by `syncThreadWorkFromSnapshot`, as the copy of that broadcast does not have it. | `MessageQueue.cfg` with the property `NothingDroppedBySync` |
| A queued message is sent twice: its first flight is refused and put back while broadcasts have brought a copy of it back; the copy is steered and accepted, and before the answer is in, another window's run completes and drains the one put back. | `MessageQueue.cfg` with the invariant `AutoSendsOnce`, `MaxSends` = 6 and `MaxElsewhere` = 3; some 35 steps deep, so by simulation (`tlc -simulate`), not by search |

### Met while reading

- `thread:record-action` always fails with SQLite: `sqliteAppStateCommands.ts:672` asks for a
  `threadId` that the window does not send.
- A deletion adopts the snapshot it read from the database, in which every queued message
  waits for confirmation: it stops the queues of all threads.
- `rollbackThreadDataDeletion` of a repeated deletion takes the thread off the list of deleted
  ones; a save that was purged behind a deletion that rolls back is lost
  (`chatSessionManager.ts:299-312`, `592-615`).
- `shutdown` drops deferred runs without an event (`chatSessionManager.ts:436-437`).
- A superseded flush that comes back stale does not restore its patches
  (`AppStateContext.tsx:633`), and four stale attempts leave an edit dirty without a timer.
- `AppStateContext.tsx:275-277` expects the reply of a command before its broadcast; the
  authority broadcasts first.  `AppStateContext.tsx:459-461` says that `replaceState` does
  not broadcast; `appStateAuthority.ts:187` does.
- A comment of `threadDeletionTransaction.ts:32-34` takes a `preparing` journal for a
  deletion that rolled back; the code asks the commit marker, and has to.
- An error in the import's transaction rejects `initialize` and stops the start
  (`main.ts:663`), instead of the recovery page.
- Two windows write into the queue of one thread: `thread-work:update` replaces the whole
  queue, and the window whose update comes first loses its message, although it is live there.
- A message steered in one window is drained in another one that holds it as live, if the run
  completes before the removal has reached that window.
- A queued message that is refused by `beginRequest` or the Main Process leaves its user message and a
  "running" placeholder in the thread: `preparedPersistentRun` is never set for an external
  submit (`Composer.tsx:3156-3165`), and the retry appends both again.
- The end of a run an observer hears frees its thread (`requestKeyByThreadId`) while another request of
  the thread may have no answer yet: a second request may begin next to it (`Ends`).
- A relocation that is rolled back around a late save leaves the cache other than the table
  (`torn`); a later deletion takes out of the cache what it finds in the table, and leaves the rest.
- `scheduleContentFlush` starts its 250 ms anew at every edit: while a run streams, nothing is
  submitted until it pauses.
- A message that is steered or being sent when its window closes is lost: it is in no queue.
- A head that is being edited blocks the drain at the end of a run, and nothing retries it.
- A question that comes through the MCP server after the reply to the prompt is shown and
  answered while the run is being finished.

## 7. Plan

Done: every module of section 2, and proofs of the safety properties of all of them but one.  Next, in this order:

1. `RequestEndsWithRun` of `RunReplication` for one window, which needs that nothing is missing
   between a window's replica and the authority once its calls are handled.
2. Composition of `ChatSessionManager` with `ThreadDeletion`'s detachment and rollback, to
   replace the stand-ins each has for the other.

Abstract specifications worth stating: an atomic versioned register whose accepted
commands take effect once (for `AppStateAuthority` and its replicas), and a log of run
events each window reads a prefix of (for `RunReplication`).

## 8. Not modelled

The content of messages, prompts and events and its rendering; field formats and legacy versions of
snapshots; commands that replace a datum nothing else depends on; the wire format of the Kimi
protocol, its file requests and the output of terminals; everything that is a thin layer over Electron, git, the file
system or an external service (browser views, terminals, editors, dialogs, fonts, skills,
usage, diagnostics, notifications); titles in the background; the user interface, which is the larger
half of the source: its components keep no state that outlives them besides what `AppStateReplica`,
`MessageQueue` and `RunReplication` model.  `PROJECT.json` names each with its reason.
