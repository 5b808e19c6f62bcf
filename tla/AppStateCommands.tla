-------------------------- MODULE AppStateCommands --------------------------
(***************************************************************************)
(* The commands of App State: what a reducer makes of the snapshot in the  *)
(* Main Process (appStateCommands.ts), whether the normalizer lets the     *)
(* result through (workspacePersistence.ts), and what the same command     *)
(* does to the rows of the database (sqliteAppStateCommands.ts) under the  *)
(* constraints of its schema (migrations.ts).  Reducer and statements are  *)
(* written twice in the code, once over arrays and once in SQL, and have   *)
(* to agree.  A permanent deletion (sqliteAppStateDeletion.ts) goes the    *)
(* other way: rows first, and the snapshot is read from them.              *)
(*                                                                         *)
(* Snapshot and database have the same shape: orders of workspaces and     *)
(* associations, projects, threads, drafts, messages, runs, work (the      *)
(* queued messages of a thread), remembered locations, active workspace.   *)
(* A conversation ("Talk") is a thread id; the draft that reserves it goes *)
(* by the same id.  A turn is the run id with the ids of its two messages. *)
(* Names, paths, configuration, settings and times are left out: a command *)
(* that replaces only such a field is not modelled.                        *)
(***************************************************************************)
EXTENDS Integers, FiniteSets, Functions

CONSTANTS Workspace, Project, Talk,
          Turn,        \* a set of numbers: later turns have larger ones
          MaxProjects, \* bound on the projects added to workspaces at a time
          MaxEvents,   \* bound on the events an assistant message has seen
          MaxThreads,  \* bound on the conversations that become threads
          None

ASSUME TurnAssumption == Turn \subseteq Nat
\* A conversation, a workspace or an association is never null.
ASSUME NoneAssumption == None \notin Talk \union Workspace \union (Workspace \X Project) \union {<<>>}
ASSUME BoundsAssumption == {MaxProjects, MaxEvents, MaxThreads} \subseteq Nat

VARIABLES
  snap,     \* the authority's snapshot
  rows,     \* the database; rows.ok is FALSE only in a transaction that aborts
  home,     \* the association a conversation's draft was opened in, <<>> once deleted
  talkOf,   \* the conversation a turn belongs to
  failed    \* the database has refused a command

vars == <<snap, rows, home, talkOf, failed>>

EmptyState ==
  [workspace |-> <<>>, association |-> <<>>, project |-> {}, thread |-> <<>>,
   draft |-> <<>>, message |-> <<>>, run |-> <<>>, work |-> <<>>,
   last |-> <<>>, active |-> None]

With(f, x, y) == [z \in DOMAIN f \union {x} |-> IF z = x THEN y ELSE f[z]]
\* f, and g where f says nothing
Over(f, g) == [x \in DOMAIN f \union DOMAIN g |-> IF x \in DOMAIN f THEN f[x] ELSE g[x]]
Without(f, S) == Restrict(f, DOMAIN f \ S)
Associations(s, w) == {k \in DOMAIN s.association : k[1] = w}
OfTalks(f, C) == {x \in DOMAIN f : f[x].talk \in C}
MessagesOf(t) == {<<t, "user">>, <<t, "assistant">>}

(***************************************************************************)
(* The normalizer: it refuses a snapshot whose parts do not fit together,  *)
(* and silently drops a remembered location that leads nowhere.            *)
(***************************************************************************)
\* Orders are given without gaps, and only once.
Contiguous(f, S) == {f[x] : x \in S} = 0 .. Cardinality(S) - 1

WorkspacesFit(s) ==
  /\ Contiguous(s.workspace, DOMAIN s.workspace)
  /\ s.active \in DOMAIN s.workspace \union {None}

ProjectsFit(s) ==
  /\ \A k \in DOMAIN s.association : k[1] \in DOMAIN s.workspace
  /\ \A w \in Workspace : Contiguous(s.association, Associations(s, w))
  /\ s.project = {k[2] : k \in DOMAIN s.association}

ThreadsFit(s) == \A c \in DOMAIN s.thread : s.thread[c].at \in DOMAIN s.association

DraftsFit(s) ==
  /\ Range(s.draft) \subseteq DOMAIN s.association
  /\ \A c, d \in DOMAIN s.draft : s.draft[c] = s.draft[d] => c = d
  /\ DOMAIN s.draft \intersect DOMAIN s.thread = {}

MessagesFit(s) == \A m \in DOMAIN s.message : s.message[m].talk \in DOMAIN s.thread

RunsFit(s) ==
  \A t \in DOMAIN s.run :
    /\ s.run[t].talk \in DOMAIN s.thread
    /\ MessagesOf(t) \subseteq OfTalks(s.message, {s.run[t].talk})

WorkFits(s) == DOMAIN s.work \subseteq DOMAIN s.thread

Valid(s) ==
  /\ WorkspacesFit(s) /\ ProjectsFit(s) /\ ThreadsFit(s) /\ DraftsFit(s)
  /\ MessagesFit(s) /\ RunsFit(s) /\ WorkFits(s)

Leads(s, w) ==
  /\ w \in DOMAIN s.workspace
  /\ s.last[w] \in DOMAIN s.thread
  /\ s.thread[s.last[w]].at[1] = w
  /\ ~s.thread[s.last[w]].archived

Normalized(s) ==
  [s EXCEPT !.last = Restrict(@, {w \in DOMAIN @ : Leads(s, w)})]

\* What is written to and read from disk: every queued message waits for the user.
Confirmed(s) == [s EXCEPT !.work = [c \in DOMAIN @ |-> "confirm"]]

(***************************************************************************)
(* SQL.  A statement that violates a constraint aborts the transaction.    *)
(***************************************************************************)
Checked(db, holds) == [db EXCEPT !.ok = @ /\ holds]

InsertWorkspace(db, w, order) ==
  [Checked(db, w \notin DOMAIN db.workspace /\ order \notin Range(db.workspace))
     EXCEPT !.workspace = With(@, w, order)]

InsertProject(db, p) == [Checked(db, p \notin db.project) EXCEPT !.project = @ \union {p}]

InsertAssociation(db, k, order) ==
  [Checked(db, /\ k \notin DOMAIN db.association
               /\ k[1] \in DOMAIN db.workspace /\ k[2] \in db.project
               /\ \A l \in Associations(db, k[1]) : db.association[l] # order)
     EXCEPT !.association = With(@, k, order)]

\* The trigger threads_reserved_identity_insert.
InsertThread(db, c, thread) ==
  [Checked(db, /\ c \notin DOMAIN db.thread \union DOMAIN db.draft
               /\ thread.at \in DOMAIN db.association)
     EXCEPT !.thread = With(@, c, thread)]

\* The trigger thread_drafts_reserved_thread_insert, and one draft per association.
InsertDraft(db, c, at) ==
  [Checked(db, /\ c \notin DOMAIN db.thread \union DOMAIN db.draft
               /\ at \in DOMAIN db.association /\ at \notin Range(db.draft))
     EXCEPT !.draft = With(@, c, at)]

InsertMessages(db, messages) ==
  [Checked(db, /\ DOMAIN messages \intersect DOMAIN db.message = {}
               /\ \A m \in DOMAIN messages : messages[m].talk \in DOMAIN db.thread)
     EXCEPT !.message = Over(messages, @)]

InsertRuns(db, runs) ==
  [Checked(db, /\ DOMAIN runs \intersect DOMAIN db.run = {}
               /\ \A t \in DOMAIN runs : /\ runs[t].talk \in DOMAIN db.thread
                                         /\ MessagesOf(t) \subseteq DOMAIN db.message)
     EXCEPT !.run = Over(runs, @)]

UpdateMessages(db, messages) ==
  [db EXCEPT !.message = [m \in DOMAIN @ |-> IF m \in DOMAIN messages THEN messages[m] ELSE @[m]]]

UpdateThread(db, c, thread) ==
  [db EXCEPT !.thread = [d \in DOMAIN @ |-> IF d = c THEN thread ELSE @[d]]]

SetActive(db, w) == [db EXCEPT !.active = w]

Remember(db, w, c) ==
  [Checked(db, w \in DOMAIN db.workspace /\ c \in DOMAIN db.thread)
     EXCEPT !.last = With(@, w, c)]

DeleteDrafts(db, C) == [db EXCEPT !.draft = Without(@, C)]
DeleteRuns(db, T) == [db EXCEPT !.run = Without(@, T)]

\* ON DELETE CASCADE of thread_runs.message_id and assistant_message_id
DeleteMessages(db, M) ==
  [db EXCEPT !.message = Without(@, M),
             !.run = Without(@, {t \in DOMAIN @ : MessagesOf(t) \intersect M # {}})]

\* ON DELETE CASCADE of every table that refers to threads
DeleteThreads(db, C) ==
  [db EXCEPT !.thread = Without(@, C),
             !.message = Without(@, OfTalks(@, C)),
             !.run = Without(@, OfTalks(@, C)),
             !.work = Without(@, C),
             !.last = Without(@, {w \in DOMAIN @ : @[w] \in C})]

DeleteAssociations(db, K) ==
  [Checked(db, /\ \A c \in DOMAIN db.thread : db.thread[c].at \notin K
               /\ Range(db.draft) \intersect K = {})
     EXCEPT !.association = Without(@, K)]

\* mutant of DeleteOrphans: a project another workspace shows goes too
DeleteOrphansUnchecked(db, P) == [db EXCEPT !.project = @ \ P]

\* Only a project without an association is deleted.
DeleteOrphans(db, P) ==
  [db EXCEPT !.project = @ \ {p \in P : \A k \in DOMAIN db.association : k[2] # p}]

DeleteWorkspace(db, w) ==
  [db EXCEPT !.workspace = Without(@, {w}), !.last = Without(@, {w})]

\* Orders are moved out of the way and given again from 0.
Reindexed(orders, S) ==
  [x \in DOMAIN orders |->
     IF x \in S THEN Cardinality({y \in S : orders[y] < orders[x]}) ELSE orders[x]]

\* What a start, a reread or a deletion reads from the database.
Load(db) == Confirmed(Normalized([field \in DOMAIN EmptyState |-> db[field]]))

(***************************************************************************)
(* appStateAuthority.ts process: a reducer's result is refused, dropped by *)
(* the database, or published.  Stored(after) are the statements.          *)
(***************************************************************************)
\* One step of snapshot and database together, or the database's refusal
Become(after, db) ==
  IF db.ok THEN snap' = after /\ rows' = db /\ UNCHANGED failed
           ELSE failed' = TRUE /\ UNCHANGED <<snap, rows>>

Process(next, Stored(_)) ==
  IF next # snap /\ Valid(next)
  THEN Become(Normalized(next), Stored(Normalized(next)))
  ELSE UNCHANGED <<snap, rows, failed>>

(***************************************************************************)
(* Workspaces and projects                                                 *)
(***************************************************************************)
\* The payload brings the next order, at most one new project and its association.
CreateWorkspace(w, P) ==
  LET order == Cardinality(DOMAIN snap.workspace)
      next == [snap EXCEPT !.workspace = With(@, w, order),
                           !.project = @ \union P,
                           !.association = Over([k \in {w} \X P |-> 0], @),
                           !.active = w]
      WithProject(db) == IF P \subseteq snap.project THEN db
                         ELSE InsertProject(db, CHOOSE p \in P : TRUE)
      WithAssociation(db) == IF P = {} THEN db
                             ELSE InsertAssociation(db, <<w, CHOOSE p \in P : TRUE>>, 0)
      Stored(after) == SetActive(WithAssociation(WithProject(InsertWorkspace(rows, w, after.workspace[w]))), w)
  IN  /\ w \notin DOMAIN snap.workspace
      /\ Cardinality(P) + Cardinality(DOMAIN snap.association) <= MaxProjects
      /\ Process(next, Stored)
      /\ UNCHANGED <<home, talkOf>>

\* A project is known already (by its directory) or new.
AddProject(w, p) ==
  LET order == Cardinality(Associations(snap, w))
      next == [snap EXCEPT !.project = @ \union {p},
                           !.association = With(@, <<w, p>>, order)]
      Stored(after) ==
        InsertAssociation(IF p \in snap.project THEN rows ELSE InsertProject(rows, p),
                          <<w, p>>, after.association[<<w, p>>])
  IN  /\ w \in DOMAIN snap.workspace
      /\ <<w, p>> \notin DOMAIN snap.association
      /\ Cardinality(DOMAIN snap.association) < MaxProjects
      /\ Process(next, Stored)
      /\ UNCHANGED <<home, talkOf>>

SelectWorkspace(w) ==
  LET Stored(after) == SetActive(rows, w)
  IN  /\ w \in DOMAIN snap.workspace /\ w # snap.active
      /\ Process([snap EXCEPT !.active = w], Stored)
      /\ UNCHANGED <<home, talkOf>>

RememberThreadLocation(c) ==
  LET w == snap.thread[c].at[1]
      Stored(after) == SetActive(Remember(rows, w, after.last[w]), w)
  IN  /\ c \in DOMAIN snap.thread /\ ~snap.thread[c].archived
      /\ snap.active = w /\ w \in DOMAIN snap.last => snap.last[w] # c
      /\ Process([snap EXCEPT !.active = w, !.last = With(@, w, c)], Stored)
      /\ UNCHANGED <<home, talkOf>>

(***************************************************************************)
(* Drafts                                                                  *)
(***************************************************************************)
\* Get or create: one draft per association.
OpenThreadDraft(c, at) ==
  LET next == IF at \in Range(snap.draft) THEN snap
              ELSE [snap EXCEPT !.draft = With(@, c, at)]
      Stored(after) == InsertDraft(rows, c, after.draft[c])
  IN  /\ at \in DOMAIN snap.association
      /\ home[c] = None
      /\ Process(next, Stored)
      /\ home' = [home EXCEPT ![c] = at]
      /\ UNCHANGED talkOf

DiscardThreadDraft(c) ==
  LET Stored(after) == DeleteDrafts(rows, {c})
  IN  /\ c \in DOMAIN snap.draft
      /\ Process([snap EXCEPT !.draft = Without(@, {c})], Stored)
      /\ UNCHANGED <<home, talkOf>>

\* Turns are numbered in the order they begin in.
Fresh(t) == talkOf[t] = None /\ \A u \in Turn : u < t => talkOf[u] # None

\* The user's message and the assistant's placeholder of a turn
FirstMessages(c, t) == [m \in MessagesOf(t) |-> [talk |-> c, events |-> 0]]

NewThread(at) == [at |-> at, title |-> "fallback", archived |-> FALSE]

\* mutant of PromoteThreadDraft: the thread is inserted before its draft is deleted
PromoteThreadDraftInserting(c, t) ==
  LET next == IF c \in DOMAIN snap.thread THEN snap
              ELSE [snap EXCEPT !.thread = With(@, c, NewThread(snap.draft[c])),
                                !.draft = Without(@, {c}),
                                !.message = Over(FirstMessages(c, t), @),
                                !.run = With(@, t, [talk |-> c])]
      Stored(after) == DeleteDrafts(InsertThread(rows, c, after.thread[c]), {c})
  IN  /\ c \in DOMAIN snap.draft \union DOMAIN snap.thread
      /\ Fresh(t)
      /\ Process(next, Stored)
      /\ talkOf' = [talkOf EXCEPT ![t] = c]
      /\ UNCHANGED home

\* A second promotion of the same draft finds the thread and creates nothing.
PromoteThreadDraft(c, t) ==
  LET next == IF c \in DOMAIN snap.thread THEN snap
              ELSE [snap EXCEPT !.thread = With(@, c, NewThread(snap.draft[c])),
                                !.draft = Without(@, {c}),
                                !.message = Over(FirstMessages(c, t), @),
                                !.run = With(@, t, [talk |-> c])]
      Stored(after) ==
        LET db == DeleteDrafts(rows, {c})
        IN  IF c \in DOMAIN db.thread THEN db
            ELSE InsertRuns(InsertMessages(InsertThread(db, c, after.thread[c]),
                                           Restrict(after.message, OfTalks(after.message, {c}))),
                            [u \in {t} |-> [talk |-> c]])
  IN  /\ c \in DOMAIN snap.draft \union DOMAIN snap.thread
      /\ Fresh(t)
      /\ Cardinality((Range(talkOf) \union {c}) \ {None}) <= MaxThreads
      /\ Process(next, Stored)
      /\ talkOf' = [talkOf EXCEPT ![t] = IF next = snap THEN @ ELSE c]
      /\ UNCHANGED home

\* The promotion's window could not send: the draft comes back, and what the
\* thread has got since goes with it.
RollbackThreadDraftPromotion(c) ==
  LET next == IF c \in DOMAIN snap.draft THEN snap
              ELSE [snap EXCEPT !.thread = Without(@, {c}),
                                !.draft = With(@, c, home[c]),
                                !.message = Without(@, OfTalks(@, {c})),
                                !.run = Without(@, OfTalks(@, {c})),
                                !.work = Without(@, {c})]
      Stored(after) == InsertDraft(DeleteThreads(rows, {c}), c, after.draft[c])
  IN  /\ \E t \in Turn : talkOf[t] = c
      /\ home[c] \in DOMAIN snap.association
      /\ Process(next, Stored)
      /\ UNCHANGED <<home, talkOf>>

(***************************************************************************)
(* Threads                                                                 *)
(***************************************************************************)
\* The messages may be there already: the window flushes its edits first.
RecordThreadRun(c, t) ==
  LET next == [snap EXCEPT !.message = Over(@, FirstMessages(c, t)),
                           !.run = With(@, t, [talk |-> c])]
      Stored(after) ==
        UpdateThread(InsertRuns(InsertMessages(rows, Without(after.message, DOMAIN snap.message)),
                                Without(after.run, DOMAIN snap.run)),
                     c, after.thread[c])
  IN  /\ c \in DOMAIN snap.thread /\ ~snap.thread[c].archived
      /\ (Fresh(t) \/ talkOf[t] = c) /\ t \notin DOMAIN snap.run
      /\ Process(next, Stored)
      /\ talkOf' = [talkOf EXCEPT ![t] = c]
      /\ UNCHANGED home

RollbackThreadRun(c, t) ==
  LET next == [snap EXCEPT !.message = Without(@, MessagesOf(t)), !.run = Without(@, {t})]
      Stored(after) ==
        UpdateThread(DeleteRuns(DeleteMessages(rows, DOMAIN snap.message \ DOMAIN after.message),
                                DOMAIN snap.run \ DOMAIN after.run),
                     c, after.thread[c])
  IN  /\ c \in DOMAIN snap.thread
      /\ talkOf[t] = c
      /\ Process(next, Stored)
      /\ UNCHANGED <<home, talkOf>>

ReplaceThread(c, thread) ==
  LET Stored(after) == UpdateThread(rows, c, after.thread[c])
  IN  /\ Process([snap EXCEPT !.thread[c] = thread], Stored)
      /\ UNCHANGED <<home, talkOf>>

\* mutant of ArchiveThread: the remembered location stays in the database
ArchiveThreadStillRemembered(c) ==
  LET At(last) == {w \in DOMAIN last : w = snap.thread[c].at[1] /\ last[w] = c}
      Stored(after) == UpdateThread(rows, c, after.thread[c])
  IN  /\ c \in DOMAIN snap.thread /\ ~snap.thread[c].archived
      /\ Process([snap EXCEPT !.thread[c].archived = TRUE, !.last = Without(@, At(@))], Stored)
      /\ UNCHANGED <<home, talkOf>>

\* An archived thread is not the location a workspace returns to.
ArchiveThread(c) ==
  LET At(last) == {w \in DOMAIN last : w = snap.thread[c].at[1] /\ last[w] = c}
      Stored(after) ==
        [UpdateThread(rows, c, after.thread[c]) EXCEPT !.last = Without(@, At(snap.last))]
  IN  /\ c \in DOMAIN snap.thread /\ ~snap.thread[c].archived
      /\ Process([snap EXCEPT !.thread[c].archived = TRUE, !.last = Without(@, At(@))], Stored)
      /\ UNCHANGED <<home, talkOf>>

RestoreThread(c) ==
  /\ c \in DOMAIN snap.thread /\ snap.thread[c].archived
  /\ ReplaceThread(c, [snap.thread[c] EXCEPT !.archived = FALSE])

\* Only the title the thread was promoted with gives way to a generated one.
SetAutomaticThreadTitle(c) ==
  /\ c \in DOMAIN snap.thread /\ ~snap.thread[c].archived
  /\ snap.thread[c].title = "fallback"
  /\ ReplaceThread(c, [snap.thread[c] EXCEPT !.title = "automatic"])

UpdateThreadWork(c, work) ==
  LET next == [snap EXCEPT !.work = IF work = None THEN Without(@, {c}) ELSE With(@, c, work)]
      Stored(after) == [rows EXCEPT !.work = IF c \in DOMAIN after.work
                                             THEN With(@, c, "confirm") ELSE Without(@, {c})]
  IN  /\ c \in DOMAIN snap.thread
      /\ Process(next, Stored)
      /\ UNCHANGED <<home, talkOf>>

(***************************************************************************)
(* thread-content:update merges messages by id and deletes those it names. *)
(***************************************************************************)
\* A window's copy of a run's answer never takes the stored one back.
Reconciled(m, message) ==
  IF m \notin DOMAIN snap.message \/ m[2] = "user" \/ m[1] \notin DOMAIN snap.run
  THEN message
  ELSE LET existing == snap.message[m]
       IN  IF message.events > existing.events THEN message ELSE existing

UpdateThreadContent(c, messages, deleteIds) ==
  LET kept == Without(messages, deleteIds)
      next == [snap EXCEPT !.message =
                 Over([m \in DOMAIN kept |-> Reconciled(m, kept[m])], Without(@, deleteIds))]
      Stored(after) ==
        LET own == OfTalks(snap.message, {c})
            now == Restrict(after.message, OfTalks(after.message, {c}))
        IN  UpdateMessages(InsertMessages(DeleteMessages(rows, own \ DOMAIN now),
                                          Without(now, own)),
                           now)
  IN  /\ c \in DOMAIN snap.thread
      /\ Process(next, Stored)

\* A window sends its copy of an answer, which may be older than the stored one.
StreamMessage(c, t) ==
  \E events \in 0 .. MaxEvents :
    /\ Fresh(t) \/ talkOf[t] = c
    /\ UpdateThreadContent(c,
         [m \in MessagesOf(t) |-> [talk |-> c, events |-> IF m[2] = "user" THEN 0 ELSE events]], {})
    /\ talkOf' = [talkOf EXCEPT ![t] = c]
    /\ UNCHANGED home

\* The run was refused before it was recorded: its messages go again.
RemoveMessages(c, t) ==
  /\ talkOf[t] = c /\ t \notin DOMAIN snap.run
  /\ UpdateThreadContent(c, <<>>, MessagesOf(t))
  /\ UNCHANGED <<home, talkOf>>

\* An edited message is sent again: everything after it goes, and a new answer starts.
EditAndResend(c, t, u) ==
  LET after == {m \in OfTalks(snap.message, {c}) : m[1] > t} \union {<<t, "assistant">>}
  IN  /\ <<t, "user">> \in OfTalks(snap.message, {c})
      /\ Fresh(u)
      /\ UpdateThreadContent(c,
           [m \in {<<u, "assistant">>} |-> [talk |-> c, events |-> 0]], after)
      /\ talkOf' = [talkOf EXCEPT ![u] = c]
      /\ UNCHANGED home

(***************************************************************************)
(* Permanent deletion of a thread, an association or a workspace: once as  *)
(* a reducer (chat.ts applyThreadDeletionToAppState), once in SQL.         *)
(***************************************************************************)
Scope == [kind : {"threads"}, talk : Talk]
         \union [kind : {"association"}, at : Workspace \X Project]
         \union [kind : {"workspace"}, id : Workspace]

\* The associations a scope takes with it
Covered(s, scope) ==
  CASE scope.kind = "threads" -> {}
    [] scope.kind = "association" -> {scope.at} \intersect DOMAIN s.association
    [] scope.kind = "workspace" -> Associations(s, scope.id)

\* The window names the threads and the reserved threads it sees in the scope.
Named(s, scope) ==
  IF scope.kind = "threads" THEN {scope.talk}
  ELSE {c \in DOMAIN s.thread : s.thread[c].at \in Covered(s, scope)}
       \union {c \in DOMAIN s.draft : s.draft[c] \in Covered(s, scope)}

\* The next workspace, or else the one before, or none
Neighbour(orders, w) ==
  LET At(i) == {v \in DOMAIN orders : orders[v] = i}
      beside == IF At(orders[w] + 1) # {} THEN At(orders[w] + 1) ELSE At(orders[w] - 1)
  IN  IF beside = {} THEN None ELSE CHOOSE v \in beside : TRUE

ApplyThreadDeletion(s, scope) ==
  LET C == Named(s, scope)
      K == Covered(s, scope)
      gone == IF scope.kind = "workspace" THEN {scope.id} ELSE {}
      kept == Without(s.association, K)
  IN  [s EXCEPT
         !.thread = Without(@, C), !.draft = Without(@, C), !.work = Without(@, C),
         !.message = Without(@, OfTalks(@, C)), !.run = Without(@, OfTalks(@, C)),
         !.last = Restrict(@, {w \in DOMAIN @ \ gone : @[w] \notin C}),
         !.association = IF scope.kind = "association"
                         THEN Reindexed(kept, {k \in DOMAIN kept : k[1] = scope.at[1]}) ELSE kept,
         !.project = {p \in @ : K = {} \/ \E k \in DOMAIN kept : k[2] = p},
         !.workspace = Reindexed(Without(@, gone), DOMAIN @ \ gone),
         !.active = IF @ \in gone THEN Neighbour(s.workspace, @) ELSE @]

DeleteAssociationScope(db, at) ==
  LET without == DeleteAssociations([db EXCEPT !.draft = Restrict(@, {c \in DOMAIN @ : @[c] # at})], {at})
  IN  DeleteOrphans([without EXCEPT !.association = Reindexed(@, Associations(without, at[1]))], {at[2]})

DeleteWorkspaceScope(db, w) ==
  LET K == Associations(db, w)
      drafts == [db EXCEPT !.draft = Restrict(@, {c \in DOMAIN @ : @[c] \notin K})]
      without == DeleteOrphans(DeleteAssociations(drafts, K), {k[2] : k \in K})
  IN  [DeleteWorkspace(without, w) EXCEPT
         !.workspace = Reindexed(@, DOMAIN @),
         !.active = IF @ = w THEN Neighbour(db.workspace, w) ELSE @]

DeleteThreadsFromAppState(scope) ==
  LET C == Named(rows, scope)
      db == DeleteDrafts(DeleteThreads(rows, C), C)
  IN  CASE scope.kind = "threads" -> db
        [] scope.kind = "association" -> DeleteAssociationScope(db, scope.at)
        [] scope.kind = "workspace" -> DeleteWorkspaceScope(db, scope.id)

Exists(scope) ==
  CASE scope.kind = "threads" -> scope.talk \in DOMAIN snap.thread \union DOMAIN snap.draft
    [] scope.kind = "association" -> scope.at \in DOMAIN snap.association
    [] scope.kind = "workspace" -> scope.id \in DOMAIN snap.workspace

\* The rows a deletion leaves must load, or its transaction aborts.
Delete(scope) ==
  LET db == DeleteThreadsFromAppState(scope)
      after == Load(db)
  IN  /\ Exists(scope)
      /\ Become(after, Checked(db, Valid(after)))
      /\ home' = [c \in Talk |-> IF home[c] \in Covered(snap, scope) THEN <<>> ELSE home[c]]
      /\ UNCHANGED talkOf

\* The process stops; the next one reads the database.
Restart ==
  /\ snap' = Load(rows)
  /\ UNCHANGED <<rows, home, talkOf, failed>>

Init ==
  /\ snap = EmptyState
  /\ rows = [field \in DOMAIN EmptyState \union {"ok"} |->
               IF field = "ok" THEN TRUE ELSE EmptyState[field]]
  /\ home = [c \in Talk |-> None]
  /\ talkOf = [t \in Turn |-> None]
  /\ failed = FALSE

Workspaces ==
  \/ \E w \in Workspace, P \in {{}} \union {{p} : p \in Project} : CreateWorkspace(w, P)
  \/ \E w \in Workspace, p \in Project : AddProject(w, p)
  \/ \E w \in Workspace : SelectWorkspace(w)
  \/ \E c \in Talk : RememberThreadLocation(c)

Drafts ==
  \/ \E c \in Talk, at \in Workspace \X Project : OpenThreadDraft(c, at)
  \/ \E c \in Talk : DiscardThreadDraft(c) \/ RollbackThreadDraftPromotion(c)
  \/ \E c \in Talk, t \in Turn : PromoteThreadDraft(c, t)

Threads ==
  \/ \E c \in Talk, t \in Turn : RecordThreadRun(c, t) \/ RollbackThreadRun(c, t)
  \/ \E c \in Talk : \/ ArchiveThread(c) \/ RestoreThread(c)
                      \/ SetAutomaticThreadTitle(c)
  \/ \E c \in Talk, work \in {None, "auto"} : UpdateThreadWork(c, work)

Content ==
  \/ \E c \in Talk, t \in Turn : StreamMessage(c, t) \/ RemoveMessages(c, t)
  \/ \E c \in Talk, t, u \in Turn : EditAndResend(c, t, u)

Next == Workspaces \/ Drafts \/ Threads \/ Content \/ Restart
        \/ \E scope \in Scope : Delete(scope)

Spec == Init /\ [][Next]_vars

(***************************************************************************)
(* A restart finds what the windows saw: reducers and statements agree on  *)
(* every command, cascades, triggers and silent normalization included.    *)
(***************************************************************************)
RestartLoadsSnapshot == Load(rows) = Confirmed(snap)

(***************************************************************************)
(* What a reducer and the normalizer let through never violates a          *)
(* constraint of the schema, and a deletion never leaves rows that the     *)
(* normalizer refuses.                                                     *)
(***************************************************************************)
StoreAccepts == ~failed

(***************************************************************************)
(* The row-level deletion leaves what the deletion of the snapshot would   *)
(* have left, orders, orphaned projects, remembered locations and the next *)
(* active workspace included.                                              *)
(***************************************************************************)
DeletionMirrors ==
  \A scope \in Scope :
    Exists(scope) => Load(DeleteThreadsFromAppState(scope))
                       = Confirmed(Normalized(ApplyThreadDeletion(snap, scope)))

(***************************************************************************)
(* An edited message that is sent again takes the messages after it away.  *)
(***************************************************************************)
EditTakesEffect ==
  [][\A c \in Talk, t, u \in Turn :
       EditAndResend(c, t, u) => <<u, "assistant">> \in DOMAIN snap'.message]_vars

=============================================================================
