------------------------- MODULE AppStateStoreProofs -------------------------
(***************************************************************************)
(* Proofs about what App State keeps on disk: part 1 about the commands    *)
(* (AppStateCommands), part 2 about the data directory (DataDirectory).    *)
(* The two parts share nothing but this file.                              *)
(*                                                                         *)
(* Part 1, for every set of workspaces, projects, conversations and turns: *)
(* what a reducer writes into the snapshot and what its statements write   *)
(* into the database stay the same.  The invariant says so field by field  *)
(* (Mirrors), and that the snapshot is one the normalizer lets through and *)
(* would not change any more (Settled).  The schema then has no reason to  *)
(* refuse a command: each constraint a statement checks follows from the   *)
(* normalizer having accepted the result.                                  *)
(*                                                                         *)
(* Part 2, for every number of failures, crashes and resets, and wherever  *)
(* the process was started: the user's data is never lost, an empty App    *)
(* State is a fresh one, and an import is final.  The argument follows the *)
(* marker and the staging directory.  Rows are only ever written with the  *)
(* marker, so an import, which asks the marker first, overwrites none; and *)
(* a reset only removes the staging directory once everything in it is     *)
(* back in its place or the empty database has replaced it.  It starts     *)
(* without one, unless the data directory could not be listed: this is the *)
(* one failure the theorems leave out.                                     *)
(***************************************************************************)
EXTENDS AppStateCommands, DataDirectory, FiniteSetTheorems, TLAPS

(***************************************************************************)
(* Part 1: AppStateCommands                                                *)
(***************************************************************************)
Fields == {"workspace", "association", "project", "thread", "draft", "message", "run", "work",
           "last", "active"}

\* The functions from a part of S.
Partial(S, T) == UNION {[D -> T] : D \in SUBSET S}

ThreadRecord ==
  [at : Workspace \X Project, title : {"fallback", "automatic"}, archived : BOOLEAN]
MessageIds == Turn \X {"user", "assistant"}
MessageRecord == [talk : Talk, events : Nat]

Snapshots ==
  [workspace   : Partial(Workspace, Nat),
   association : Partial(Workspace \X Project, Nat),
   project     : SUBSET Project,
   thread      : Partial(Talk, ThreadRecord),
   draft       : Partial(Talk, Workspace \X Project),
   message     : Partial(MessageIds, MessageRecord),
   run         : Partial(Turn, [talk : Talk]),
   work        : Partial(Talk, {"auto", "confirm"}),
   last        : Partial(Workspace, Talk),
   active      : Workspace \cup {None}]

Typed(s) ==
  /\ s \in Snapshots
  /\ IsFiniteSet(DOMAIN s.workspace) /\ IsFiniteSet(DOMAIN s.association)

IsDatabase(db) == db = [field \in Fields \cup {"ok"} |-> db[field]]

\* The rows hold the snapshot, and no queued message that is sent by itself.
Mirrors(db, s) ==
  /\ IsDatabase(db) /\ db.ok
  /\ db.workspace = s.workspace /\ db.association = s.association /\ db.project = s.project
  /\ db.thread = s.thread /\ db.draft = s.draft /\ db.message = s.message /\ db.run = s.run
  /\ db.work = [c \in DOMAIN s.work |-> "confirm"]
  /\ db.last = s.last /\ db.active = s.active

Settled(s) == Typed(s) /\ Valid(s) /\ \A w \in DOMAIN s.last : Leads(s, w)

Consistent == Settled(snap) /\ Mirrors(rows, snap) /\ ~failed

HistoryOK ==
  /\ home \in [Talk -> (Workspace \X Project) \cup {None, <<>>}]
  /\ talkOf \in [Turn -> Talk \cup {None}]
  /\ \A c \in DOMAIN snap.draft \cup DOMAIN snap.thread : home[c] # None

\* Messages and runs have their turn's conversation.
TurnsOK ==
  /\ \A m \in DOMAIN snap.message : talkOf[m[1]] = snap.message[m].talk
  /\ \A t \in DOMAIN snap.run : talkOf[t] = snap.run[t].talk

CommandsIInv == Consistent /\ HistoryOK /\ TurnsOK

-----------------------------------------------------------------------------
(* Functions and snapshots. *)

LEMMA PartialIs ==
  ASSUME NEW S, NEW T, NEW f
  PROVE  f \in Partial(S, T) <=> DOMAIN f \subseteq S /\ f \in [DOMAIN f -> T]
BY DEF Partial

LEMMA NothingTyped ==
  ASSUME NEW S, NEW T
  PROVE  <<>> \in Partial(S, T) /\ DOMAIN <<>> = {}
<1>1. DOMAIN <<>> = {} /\ <<>> \in [{} -> T] OBVIOUS
<1> QED BY <1>1 DEF Partial

LEMMA WithTyped ==
  ASSUME NEW S, NEW T, NEW f \in Partial(S, T), NEW x \in S, NEW y \in T
  PROVE  With(f, x, y) \in Partial(S, T)
BY PartialIs DEF With

LEMMA OverTyped ==
  ASSUME NEW S, NEW T, NEW f \in Partial(S, T), NEW g \in Partial(S, T)
  PROVE  Over(f, g) \in Partial(S, T)
BY PartialIs DEF Over

LEMMA RestrictTyped ==
  ASSUME NEW S, NEW T, NEW f \in Partial(S, T), NEW X \in SUBSET DOMAIN f
  PROVE  Restrict(f, X) \in Partial(S, T)
BY PartialIs DEF Restrict

LEMMA WithoutTyped ==
  ASSUME NEW S, NEW T, NEW f \in Partial(S, T), NEW X
  PROVE  Without(f, X) \in Partial(S, T)
BY RestrictTyped DEF Without

\* Functions are equal that have the same domain and values.
LEMMA SameFunction ==
  ASSUME NEW S, NEW T, NEW f \in Partial(S, T), NEW g \in Partial(S, T),
         DOMAIN f = DOMAIN g, \A x \in DOMAIN f : f[x] = g[x]
  PROVE  f = g
BY PartialIs

LEMMA FieldsTyped ==
  ASSUME NEW s \in Snapshots
  PROVE  /\ s.workspace \in Partial(Workspace, Nat)
         /\ s.association \in Partial(Workspace \X Project, Nat)
         /\ s.project \in SUBSET Project
         /\ s.thread \in Partial(Talk, ThreadRecord)
         /\ s.draft \in Partial(Talk, Workspace \X Project)
         /\ s.message \in Partial(MessageIds, MessageRecord)
         /\ s.run \in Partial(Turn, [talk : Talk])
         /\ s.work \in Partial(Talk, {"auto", "confirm"})
         /\ s.last \in Partial(Workspace, Talk)
         /\ s.active \in Workspace \cup {None}
BY DEF Snapshots

LEMMA ThreadTyped ==
  ASSUME NEW s \in Snapshots, NEW c \in DOMAIN s.thread
  PROVE  s.thread[c] \in ThreadRecord
<1>1. s.thread \in [DOMAIN s.thread -> ThreadRecord] BY FieldsTyped, PartialIs
<1> QED BY <1>1

LEMMA NormalizedIs ==
  ASSUME NEW s \in Snapshots
  PROVE  /\ Normalized(s) \in Snapshots
         /\ Normalized(s).workspace = s.workspace
         /\ Normalized(s).association = s.association
         /\ Normalized(s).project = s.project
         /\ Normalized(s).thread = s.thread
         /\ Normalized(s).draft = s.draft
         /\ Normalized(s).message = s.message
         /\ Normalized(s).run = s.run
         /\ Normalized(s).work = s.work
         /\ Normalized(s).active = s.active
         /\ Normalized(s).last = Restrict(s.last, {w \in DOMAIN s.last : Leads(s, w)})
<1>1. Restrict(s.last, {w \in DOMAIN s.last : Leads(s, w)}) \in Partial(Workspace, Talk)
  BY PartialIs, s.last \in Partial(Workspace, Talk) DEF Snapshots, Restrict
<1> QED BY <1>1 DEF Snapshots, Normalized

LEMMA ValidAlike ==
  ASSUME NEW s, NEW z, Valid(s),
         s.workspace = z.workspace, s.association = z.association, s.project = z.project,
         s.thread = z.thread, s.draft = z.draft, s.message = z.message, s.run = z.run,
         DOMAIN s.work = DOMAIN z.work, s.active = z.active
  PROVE  Valid(z)
<1>1. WorkspacesFit(z) BY DEF Valid, WorkspacesFit
<1>2. ProjectsFit(z) BY DEF Valid, ProjectsFit, Associations
<1>3. ThreadsFit(z) /\ DraftsFit(z) BY DEF Valid, ThreadsFit, DraftsFit
<1>4. MessagesFit(z) /\ RunsFit(z) /\ WorkFits(z) BY DEF Valid, MessagesFit, RunsFit, WorkFits, OfTalks
<1> QED BY <1>1, <1>2, <1>3, <1>4 DEF Valid

-----------------------------------------------------------------------------
(* The statements. *)

\* new is a database that differs from db at most in S.
Alters(new, db, S) ==
  IsDatabase(new) /\ \A field \in (Fields \cup {"ok"}) \ S : new[field] = db[field]

LEMMA StaysDatabase ==
  ASSUME NEW db, IsDatabase(db), NEW x
  PROVE  /\ IsDatabase([db EXCEPT !.ok = x]) /\ IsDatabase([db EXCEPT !.workspace = x])
         /\ IsDatabase([db EXCEPT !.association = x]) /\ IsDatabase([db EXCEPT !.project = x])
         /\ IsDatabase([db EXCEPT !.thread = x]) /\ IsDatabase([db EXCEPT !.draft = x])
         /\ IsDatabase([db EXCEPT !.message = x]) /\ IsDatabase([db EXCEPT !.run = x])
         /\ IsDatabase([db EXCEPT !.work = x]) /\ IsDatabase([db EXCEPT !.last = x])
         /\ IsDatabase([db EXCEPT !.active = x])
BY DEF IsDatabase, Fields

LEMMA CheckedIs ==
  ASSUME NEW db, IsDatabase(db), NEW holds
  PROVE  /\ Alters(Checked(db, holds), db, {"ok"})
         /\ db.ok /\ holds => Checked(db, holds).ok
BY StaysDatabase DEF Alters, Checked, IsDatabase, Fields

LEMMA InsertWorkspaceIs ==
  ASSUME NEW db, IsDatabase(db), NEW w, NEW order
  PROVE  LET new == InsertWorkspace(db, w, order)
         IN  /\ Alters(new, db, {"workspace", "ok"})
             /\ new.workspace = With(db.workspace, w, order)
             /\ (/\ db.ok
                 /\ w \notin DOMAIN db.workspace
                 /\ order \notin Range(db.workspace))
                => new.ok
<1> DEFINE db1 == Checked(db, 
                     /\ w \notin DOMAIN db.workspace
                     /\ order \notin Range(db.workspace))
<1>1. /\ Alters(db1, db, {"ok"})
      /\ InsertWorkspace(db, w, order) = [db1 EXCEPT !.workspace = With(db1.workspace, w, order)]
  BY CheckedIs DEF InsertWorkspace
<1>2. (/\ db.ok
       /\ w \notin DOMAIN db.workspace
       /\ order \notin Range(db.workspace))
      => db1.ok
  BY CheckedIs
<1> HIDE DEF db1
<1> QED BY <1>1, <1>2, StaysDatabase DEF Alters, Fields, IsDatabase

LEMMA InsertProjectIs ==
  ASSUME NEW db, IsDatabase(db), NEW p
  PROVE  LET new == InsertProject(db, p)
         IN  /\ Alters(new, db, {"project", "ok"})
             /\ new.project = db.project \union {p}
             /\ (/\ db.ok
                 /\ p \notin db.project)
                => new.ok
<1> DEFINE db1 == Checked(db, 
                     /\ p \notin db.project)
<1>1. /\ Alters(db1, db, {"ok"})
      /\ InsertProject(db, p) = [db1 EXCEPT !.project = db1.project \union {p}]
  BY CheckedIs DEF InsertProject
<1>2. (/\ db.ok
       /\ p \notin db.project)
      => db1.ok
  BY CheckedIs
<1> HIDE DEF db1
<1> QED BY <1>1, <1>2, StaysDatabase DEF Alters, Fields, IsDatabase

LEMMA InsertAssociationIs ==
  ASSUME NEW db, IsDatabase(db), NEW k, NEW order
  PROVE  LET new == InsertAssociation(db, k, order)
         IN  /\ Alters(new, db, {"association", "ok"})
             /\ new.association = With(db.association, k, order)
             /\ (/\ db.ok
                 /\ k \notin DOMAIN db.association
                 /\ k[1] \in DOMAIN db.workspace
                 /\ k[2] \in db.project
                 /\ \A l \in Associations(db, k[1]) : db.association[l] # order)
                => new.ok
<1> DEFINE db1 == Checked(db, 
                     /\ k \notin DOMAIN db.association
                     /\ k[1] \in DOMAIN db.workspace
                     /\ k[2] \in db.project
                     /\ \A l \in Associations(db, k[1]) : db.association[l] # order)
<1>1. /\ Alters(db1, db, {"ok"})
      /\ InsertAssociation(db, k, order) = [db1 EXCEPT !.association = With(db1.association, k, order)]
  BY CheckedIs DEF InsertAssociation
<1>2. (/\ db.ok
       /\ k \notin DOMAIN db.association
       /\ k[1] \in DOMAIN db.workspace
       /\ k[2] \in db.project
       /\ \A l \in Associations(db, k[1]) : db.association[l] # order)
      => db1.ok
  BY CheckedIs
<1> HIDE DEF db1
<1> QED BY <1>1, <1>2, StaysDatabase DEF Alters, Fields, IsDatabase

LEMMA InsertThreadIs ==
  ASSUME NEW db, IsDatabase(db), NEW c, NEW thread
  PROVE  LET new == InsertThread(db, c, thread)
         IN  /\ Alters(new, db, {"thread", "ok"})
             /\ new.thread = With(db.thread, c, thread)
             /\ (/\ db.ok
                 /\ c \notin DOMAIN db.thread \union DOMAIN db.draft
                 /\ thread.at \in DOMAIN db.association)
                => new.ok
<1> DEFINE db1 == Checked(db, 
                     /\ c \notin DOMAIN db.thread \union DOMAIN db.draft
                     /\ thread.at \in DOMAIN db.association)
<1>1. /\ Alters(db1, db, {"ok"})
      /\ InsertThread(db, c, thread) = [db1 EXCEPT !.thread = With(db1.thread, c, thread)]
  BY CheckedIs DEF InsertThread
<1>2. (/\ db.ok
       /\ c \notin DOMAIN db.thread \union DOMAIN db.draft
       /\ thread.at \in DOMAIN db.association)
      => db1.ok
  BY CheckedIs
<1> HIDE DEF db1
<1> QED BY <1>1, <1>2, StaysDatabase DEF Alters, Fields, IsDatabase

LEMMA InsertDraftIs ==
  ASSUME NEW db, IsDatabase(db), NEW c, NEW k
  PROVE  LET new == InsertDraft(db, c, k)
         IN  /\ Alters(new, db, {"draft", "ok"})
             /\ new.draft = With(db.draft, c, k)
             /\ (/\ db.ok
                 /\ c \notin DOMAIN db.thread \union DOMAIN db.draft
                 /\ k \in DOMAIN db.association
                 /\ k \notin Range(db.draft))
                => new.ok
<1> DEFINE db1 == Checked(db, 
                     /\ c \notin DOMAIN db.thread \union DOMAIN db.draft
                     /\ k \in DOMAIN db.association
                     /\ k \notin Range(db.draft))
<1>1. /\ Alters(db1, db, {"ok"})
      /\ InsertDraft(db, c, k) = [db1 EXCEPT !.draft = With(db1.draft, c, k)]
  BY CheckedIs DEF InsertDraft
<1>2. (/\ db.ok
       /\ c \notin DOMAIN db.thread \union DOMAIN db.draft
       /\ k \in DOMAIN db.association
       /\ k \notin Range(db.draft))
      => db1.ok
  BY CheckedIs
<1> HIDE DEF db1
<1> QED BY <1>1, <1>2, StaysDatabase DEF Alters, Fields, IsDatabase

LEMMA InsertMessagesIs ==
  ASSUME NEW db, IsDatabase(db), NEW messages
  PROVE  LET new == InsertMessages(db, messages)
         IN  /\ Alters(new, db, {"message", "ok"})
             /\ new.message = Over(messages, db.message)
             /\ (/\ db.ok
                 /\ DOMAIN messages \intersect DOMAIN db.message = {}
                 /\ \A m \in DOMAIN messages : messages[m].talk \in DOMAIN db.thread)
                => new.ok
<1> DEFINE db1 == Checked(db, 
                     /\ DOMAIN messages \intersect DOMAIN db.message = {}
                     /\ \A m \in DOMAIN messages : messages[m].talk \in DOMAIN db.thread)
<1>1. /\ Alters(db1, db, {"ok"})
      /\ InsertMessages(db, messages) = [db1 EXCEPT !.message = Over(messages, db1.message)]
  BY CheckedIs DEF InsertMessages
<1>2. (/\ db.ok
       /\ DOMAIN messages \intersect DOMAIN db.message = {}
       /\ \A m \in DOMAIN messages : messages[m].talk \in DOMAIN db.thread)
      => db1.ok
  BY CheckedIs
<1> HIDE DEF db1
<1> QED BY <1>1, <1>2, StaysDatabase DEF Alters, Fields, IsDatabase

LEMMA InsertRunsIs ==
  ASSUME NEW db, IsDatabase(db), NEW runs
  PROVE  LET new == InsertRuns(db, runs)
         IN  /\ Alters(new, db, {"run", "ok"})
             /\ new.run = Over(runs, db.run)
             /\ (/\ db.ok
                 /\ DOMAIN runs \intersect DOMAIN db.run = {}
                 /\ \A t \in DOMAIN runs : /\ runs[t].talk \in DOMAIN db.thread
                                        /\ MessagesOf(t) \subseteq DOMAIN db.message)
                => new.ok
<1> DEFINE db1 == Checked(db, 
                     /\ DOMAIN runs \intersect DOMAIN db.run = {}
                     /\ \A t \in DOMAIN runs : /\ runs[t].talk \in DOMAIN db.thread
                                         /\ MessagesOf(t) \subseteq DOMAIN db.message)
<1>1. /\ Alters(db1, db, {"ok"})
      /\ InsertRuns(db, runs) = [db1 EXCEPT !.run = Over(runs, db1.run)]
  BY CheckedIs DEF InsertRuns
<1>2. (/\ db.ok
       /\ DOMAIN runs \intersect DOMAIN db.run = {}
       /\ \A t \in DOMAIN runs : /\ runs[t].talk \in DOMAIN db.thread
                               /\ MessagesOf(t) \subseteq DOMAIN db.message)
      => db1.ok
  BY CheckedIs
<1> HIDE DEF db1
<1> QED BY <1>1, <1>2, StaysDatabase DEF Alters, Fields, IsDatabase

LEMMA RememberIs ==
  ASSUME NEW db, IsDatabase(db), NEW w, NEW c
  PROVE  LET new == Remember(db, w, c)
         IN  /\ Alters(new, db, {"last", "ok"})
             /\ new.last = With(db.last, w, c)
             /\ (/\ db.ok
                 /\ w \in DOMAIN db.workspace
                 /\ c \in DOMAIN db.thread)
                => new.ok
<1> DEFINE db1 == Checked(db, 
                     /\ w \in DOMAIN db.workspace
                     /\ c \in DOMAIN db.thread)
<1>1. /\ Alters(db1, db, {"ok"})
      /\ Remember(db, w, c) = [db1 EXCEPT !.last = With(db1.last, w, c)]
  BY CheckedIs DEF Remember
<1>2. (/\ db.ok
       /\ w \in DOMAIN db.workspace
       /\ c \in DOMAIN db.thread)
      => db1.ok
  BY CheckedIs
<1> HIDE DEF db1
<1> QED BY <1>1, <1>2, StaysDatabase DEF Alters, Fields, IsDatabase

LEMMA DeleteAssociationsIs ==
  ASSUME NEW db, IsDatabase(db), NEW K
  PROVE  LET new == DeleteAssociations(db, K)
         IN  /\ Alters(new, db, {"association", "ok"})
             /\ new.association = Without(db.association, K)
             /\ (/\ db.ok
                 /\ \A c \in DOMAIN db.thread : db.thread[c].at \notin K
                 /\ Range(db.draft) \intersect K = {})
                => new.ok
<1> DEFINE db1 == Checked(db, 
                     /\ \A c \in DOMAIN db.thread : db.thread[c].at \notin K
                     /\ Range(db.draft) \intersect K = {})
<1>1. /\ Alters(db1, db, {"ok"})
      /\ DeleteAssociations(db, K) = [db1 EXCEPT !.association = Without(db1.association, K)]
  BY CheckedIs DEF DeleteAssociations
<1>2. (/\ db.ok
       /\ \A c \in DOMAIN db.thread : db.thread[c].at \notin K
       /\ Range(db.draft) \intersect K = {})
      => db1.ok
  BY CheckedIs
<1> HIDE DEF db1
<1> QED BY <1>1, <1>2, StaysDatabase DEF Alters, Fields, IsDatabase

LEMMA UpdateMessagesIs ==
  ASSUME NEW db, IsDatabase(db), NEW messages
  PROVE  LET new == UpdateMessages(db, messages)
         IN  /\ Alters(new, db, {"message"})
             /\ new.message = [m \in DOMAIN db.message |-> IF m \in DOMAIN messages THEN messages[m] ELSE db.message[m]]
BY StaysDatabase DEF UpdateMessages, Alters, Fields, IsDatabase

LEMMA UpdateThreadIs ==
  ASSUME NEW db, IsDatabase(db), NEW c, NEW thread
  PROVE  LET new == UpdateThread(db, c, thread)
         IN  /\ Alters(new, db, {"thread"})
             /\ new.thread = [d \in DOMAIN db.thread |-> IF d = c THEN thread ELSE db.thread[d]]
BY StaysDatabase DEF UpdateThread, Alters, Fields, IsDatabase

LEMMA SetActiveIs ==
  ASSUME NEW db, IsDatabase(db), NEW w
  PROVE  LET new == SetActive(db, w)
         IN  /\ Alters(new, db, {"active"})
             /\ new.active = w
BY StaysDatabase DEF SetActive, Alters, Fields, IsDatabase

LEMMA DeleteDraftsIs ==
  ASSUME NEW db, IsDatabase(db), NEW C
  PROVE  LET new == DeleteDrafts(db, C)
         IN  /\ Alters(new, db, {"draft"})
             /\ new.draft = Without(db.draft, C)
BY StaysDatabase DEF DeleteDrafts, Alters, Fields, IsDatabase

LEMMA DeleteRunsIs ==
  ASSUME NEW db, IsDatabase(db), NEW T
  PROVE  LET new == DeleteRuns(db, T)
         IN  /\ Alters(new, db, {"run"})
             /\ new.run = Without(db.run, T)
BY StaysDatabase DEF DeleteRuns, Alters, Fields, IsDatabase

LEMMA DeleteMessagesIs ==
  ASSUME NEW db, IsDatabase(db), NEW M
  PROVE  LET new == DeleteMessages(db, M)
         IN  /\ Alters(new, db, {"message", "run"})
             /\ new.message = Without(db.message, M)
             /\ new.run = Without(db.run, {t \in DOMAIN db.run : MessagesOf(t) \intersect M # {}})
BY StaysDatabase DEF DeleteMessages, Alters, Fields, IsDatabase

LEMMA DeleteThreadsIs ==
  ASSUME NEW db, IsDatabase(db), NEW C
  PROVE  LET new == DeleteThreads(db, C)
         IN  /\ Alters(new, db, {"thread", "message", "run", "work", "last"})
             /\ new.thread = Without(db.thread, C)
             /\ new.message = Without(db.message, OfTalks(db.message, C))
             /\ new.run = Without(db.run, OfTalks(db.run, C))
             /\ new.work = Without(db.work, C)
             /\ new.last = Without(db.last, {w \in DOMAIN db.last : db.last[w] \in C})
BY StaysDatabase DEF DeleteThreads, Alters, Fields, IsDatabase

LEMMA DeleteOrphansIs ==
  ASSUME NEW db, IsDatabase(db), NEW P
  PROVE  LET new == DeleteOrphans(db, P)
         IN  /\ Alters(new, db, {"project"})
             /\ new.project = db.project \ {p \in P : \A k \in DOMAIN db.association : k[2] # p}
BY StaysDatabase DEF DeleteOrphans, Alters, Fields, IsDatabase

LEMMA DeleteWorkspaceIs ==
  ASSUME NEW db, IsDatabase(db), NEW w
  PROVE  LET new == DeleteWorkspace(db, w)
         IN  /\ Alters(new, db, {"workspace", "last"})
             /\ new.workspace = Without(db.workspace, {w})
             /\ new.last = Without(db.last, {w})
BY StaysDatabase DEF DeleteWorkspace, Alters, Fields, IsDatabase

-----------------------------------------------------------------------------
(* What a command does once its result and its rows are known. *)

LEMMA LastKept ==
  ASSUME NEW s \in Snapshots, \A w \in DOMAIN s.last : Leads(s, w)
  PROVE  Normalized(s).last = s.last
<1>1. s.last \in Partial(Workspace, Talk) BY FieldsTyped
<1> QED BY <1>1, NormalizedIs, PartialIs DEF Restrict

LEMMA NormalizedSettled ==
  ASSUME NEW s, Typed(s), Valid(s)
  PROVE  Settled(Normalized(s))
<1> DEFINE n == Normalized(s)
<1>1. Typed(n) BY NormalizedIs DEF Typed
<1>2. Valid(n) BY NormalizedIs, ValidAlike DEF Typed
<1>3. /\ DOMAIN n.last = {w \in DOMAIN s.last : Leads(s, w)}
      /\ \A w \in DOMAIN n.last : n.last[w] = s.last[w]
  BY NormalizedIs DEF Restrict, Typed
<1>4. \A w \in DOMAIN n.last : Leads(n, w) BY <1>3, NormalizedIs DEF Leads, Typed
<1> QED BY <1>1, <1>2, <1>4 DEF Settled

\* The database holds what is published.
LEMMA BecomeKeeps ==
  ASSUME Consistent, NEW after, Settled(after), NEW db, Mirrors(db, after), Become(after, db)
  PROVE  Consistent' /\ snap' = after
<1>1. snap' = after /\ rows' = db /\ ~failed' BY DEF Become, Consistent, Mirrors
<1>2. Settled(snap') BY <1>1
<1>3. Mirrors(rows', snap') BY <1>1
<1> QED BY <1>1, <1>2, <1>3 DEF Consistent

LEMMA ProcessKeeps ==
  ASSUME Consistent, NEW next, Typed(next), NEW db,
         IF next # snap /\ Valid(next) THEN Become(Normalized(next), db)
                                       ELSE UNCHANGED <<snap, rows, failed>>,
         next # snap /\ Valid(next) => Mirrors(db, Normalized(next))
  PROVE  /\ Consistent'
         /\ snap' = snap \/ (next # snap /\ snap' = Normalized(next))
<1>1. CASE next # snap /\ Valid(next)
  BY <1>1, NormalizedSettled, BecomeKeeps
<1>2. CASE ~(next # snap /\ Valid(next))
  <2>1. snap' = snap /\ rows' = rows /\ failed' = failed BY <1>2
  <2>2. Settled(snap') /\ Mirrors(rows', snap') BY <2>1 DEF Consistent
  <2> QED BY <2>1, <2>2 DEF Consistent
<1> QED BY <1>1, <1>2

\* The rows have every field of a command's result but the remembered locations.
Written(db, next) ==
  /\ IsDatabase(db) /\ db.ok
  /\ db.workspace = next.workspace /\ db.association = next.association
  /\ db.project = next.project /\ db.thread = next.thread /\ db.draft = next.draft
  /\ db.message = next.message /\ db.run = next.run
  /\ db.work = [c \in DOMAIN next.work |-> "confirm"]
  /\ db.active = next.active

LEMMA MirrorsAfter ==
  ASSUME NEW next, Typed(next), NEW db, Written(db, next), db.last = Normalized(next).last
  PROVE  Mirrors(db, Normalized(next))
BY NormalizedIs DEF Mirrors, Written, Typed

\* What holds before a command.
LEMMA Before ==
  ASSUME CommandsIInv
  PROVE  /\ Settled(snap) /\ Typed(snap) /\ snap \in Snapshots
         /\ Mirrors(rows, snap) /\ IsDatabase(rows) /\ rows.ok
         /\ rows.workspace = snap.workspace /\ rows.association = snap.association
         /\ rows.project = snap.project /\ rows.thread = snap.thread /\ rows.draft = snap.draft
         /\ rows.message = snap.message /\ rows.run = snap.run
         /\ rows.work = [c \in DOMAIN snap.work |-> "confirm"]
         /\ rows.last = snap.last /\ rows.active = snap.active
BY DEF CommandsIInv, Consistent, Settled, Typed, Mirrors

\* The snapshot after a command.
LEMMA After ==
  ASSUME NEW next, Typed(next), snap' = snap \/ snap' = Normalized(next)
  PROVE  /\ snap'.thread = snap.thread \/ snap'.thread = next.thread
         /\ snap'.draft = snap.draft \/ snap'.draft = next.draft
         /\ snap'.message = snap.message \/ snap'.message = next.message
         /\ snap'.run = snap.run \/ snap'.run = next.run
<1>1. CASE snap' = snap BY <1>1
<1>2. CASE snap' = Normalized(next) BY <1>2, NormalizedIs DEF Typed
<1> QED BY <1>1, <1>2

\* A command that adds no conversation, message or run.
LEMMA HistoryKept ==
  ASSUME CommandsIInv, Consistent', UNCHANGED <<home, talkOf>>,
         DOMAIN snap'.draft \cup DOMAIN snap'.thread \subseteq DOMAIN snap.draft \cup DOMAIN snap.thread,
         \A m \in DOMAIN snap'.message :
           m \in DOMAIN snap.message /\ snap'.message[m].talk = snap.message[m].talk,
         \A t \in DOMAIN snap'.run :
           t \in DOMAIN snap.run /\ snap'.run[t].talk = snap.run[t].talk
  PROVE  CommandsIInv'
BY DEF CommandsIInv, HistoryOK, TurnsOK

\* A command that leaves drafts, threads, messages and runs alone.
LEMMA ConversationsKept ==
  ASSUME CommandsIInv, Consistent', UNCHANGED <<home, talkOf>>, NEW next \in Snapshots,
         snap' = snap \/ snap' = Normalized(next),
         next.draft = snap.draft, DOMAIN next.thread = DOMAIN snap.thread,
         next.message = snap.message, next.run = snap.run
  PROVE  CommandsIInv'
BY NormalizedIs, HistoryKept

-----------------------------------------------------------------------------
(* Workspaces and projects. *)

\* The next order is free.
LEMMA NextOrderFree ==
  ASSUME NEW f, NEW S, S \subseteq DOMAIN f, IsFiniteSet(S), Contiguous(f, S)
  PROVE  Cardinality(S) \in Nat /\ \A x \in S : f[x] # Cardinality(S)
<1>1. Cardinality(S) \in Nat BY FS_CardinalityType
<1>2. \A x \in S : f[x] \in 0 .. Cardinality(S) - 1 BY DEF Contiguous
<1> QED BY <1>1, <1>2

LEMMA AssociationsFinite ==
  ASSUME NEW s, IsFiniteSet(DOMAIN s.association), NEW w
  PROVE  IsFiniteSet(Associations(s, w))
BY FS_Subset DEF Associations

LEMMA CreateWorkspaceKeeps ==
  ASSUME CommandsIInv, NEW w \in Workspace, NEW P \in {{}} \cup {{p} : p \in Project},
         CreateWorkspace(w, P)
  PROVE  CommandsIInv'
<1> DEFINE order == Cardinality(DOMAIN snap.workspace)
           first == [k \in {w} \X P |-> 0]
           next == [snap EXCEPT !.workspace = With(@, w, order),
                                !.project = @ \cup P,
                                !.association = Over(first, @),
                                !.active = w]
           db1 == InsertWorkspace(rows, w, Normalized(next).workspace[w])
           db2 == IF P \subseteq snap.project THEN db1 ELSE InsertProject(db1, CHOOSE p \in P : TRUE)
           db3 == IF P = {} THEN db2 ELSE InsertAssociation(db2, <<w, CHOOSE p \in P : TRUE>>, 0)
           db == SetActive(db3, w)
<1>1. IF next # snap /\ Valid(next) THEN Become(Normalized(next), db)
                                    ELSE UNCHANGED <<snap, rows, failed>>
  BY DEF CreateWorkspace, Process
<1>2. w \notin DOMAIN snap.workspace /\ UNCHANGED <<home, talkOf>> BY DEF CreateWorkspace
<1>3. Settled(snap) /\ Typed(snap) /\ snap \in Snapshots BY Before
<1>4. order \in Nat /\ order \notin Range(snap.workspace)
  BY <1>3, NextOrderFree DEF Settled, Typed, Valid, WorkspacesFit, Range
<1>5. /\ next.workspace = With(snap.workspace, w, order)
      /\ next.project = snap.project \cup P
      /\ next.association = Over(first, snap.association)
      /\ next.active = w
      /\ next.thread = snap.thread /\ next.draft = snap.draft /\ next.message = snap.message
      /\ next.run = snap.run /\ next.work = snap.work /\ next.last = snap.last
  BY <1>3 DEF Snapshots
<1>6. first \in Partial(Workspace \X Project, Nat) /\ DOMAIN first = {w} \X P
  BY PartialIs
<1>7. next \in Snapshots
  <2>1. With(snap.workspace, w, order) \in Partial(Workspace, Nat) BY <1>3, <1>4, FieldsTyped, WithTyped
  <2>2. Over(first, snap.association) \in Partial(Workspace \X Project, Nat)
    BY <1>3, <1>6, FieldsTyped, OverTyped
  <2>3. snap.project \cup P \in SUBSET Project BY <1>3, FieldsTyped
  <2> QED BY <1>3, <2>1, <2>2, <2>3 DEF Snapshots
<1> HIDE DEF next, first, order
<1>8. Typed(next)
  <2>1. IsFiniteSet(DOMAIN next.workspace)
    BY <1>3, <1>5, FS_AddElement DEF Typed, With
  <2>2. IsFiniteSet({w} \X P)
    <3>1. CASE P = {} BY <3>1, FS_EmptySet, {w} \X {} = {}
    <3>2. CASE P # {}
      <4>1. PICK p \in Project : P = {p} BY <3>2
      <4>2. {w} \X P = {<<w, p>>} BY <4>1
      <4> QED BY <4>2, FS_Singleton
    <3> QED BY <3>1, <3>2
  <2>3. IsFiniteSet(({w} \X P) \cup DOMAIN snap.association)
    BY <1>3, <2>2, FS_Union DEF Typed
  <2>4. DOMAIN next.association = ({w} \X P) \cup DOMAIN snap.association
    BY <1>5, <1>6 DEF Over
  <2> QED BY <1>7, <2>1, <2>3, <2>4 DEF Typed
<1>9. Normalized(next).workspace[w] = order /\ Normalized(next).last = snap.last
  <2>1. \A v \in DOMAIN next.last : Leads(next, v)
    BY <1>3, <1>5 DEF Settled, Leads, With
  <2> QED BY <1>5, <1>7, <2>1, LastKept, NormalizedIs DEF With
<1>10. /\ Alters(db1, rows, {"workspace", "ok"}) /\ db1.ok
       /\ db1.workspace = next.workspace
  BY <1>2, <1>4, <1>5, <1>9, Before, InsertWorkspaceIs
<1> HIDE DEF db1
<1>11. db1.project = snap.project /\ IsDatabase(db1) BY <1>10, Before DEF Alters, Fields
<1>12. /\ Alters(db2, rows, {"workspace", "project", "ok"}) /\ db2.ok
       /\ db2.workspace = next.workspace /\ db2.project = next.project
  <2>1. CASE P \subseteq snap.project
    <3>1. db2 = db1 /\ snap.project \cup P = snap.project BY <2>1
    <3> HIDE DEF db2
    <3> QED BY <1>5, <1>10, <1>11, <3>1 DEF Alters, Fields
  <2>2. CASE ~(P \subseteq snap.project)
    <3>1. PICK p \in Project : P = {p} BY <2>2
    <3>2. (CHOOSE q \in P : TRUE) = p BY <3>1
    <3>3. db2 = InsertProject(db1, p) /\ p \notin db1.project BY <1>11, <2>2, <3>1, <3>2
    <3> HIDE DEF db2
    <3>4. Alters(db2, db1, {"project", "ok"}) /\ db2.project = next.project /\ db2.ok
      BY <1>5, <1>10, <1>11, <3>1, <3>3, InsertProjectIs
    <3> QED BY <1>10, <3>4 DEF Alters, Fields
  <2> QED BY <2>1, <2>2
<1> HIDE DEF db2
<1>13. db2.association = snap.association /\ IsDatabase(db2) BY <1>12, Before DEF Alters, Fields
<1>14. /\ Alters(db3, rows, {"workspace", "project", "association", "ok"}) /\ db3.ok
       /\ db3.workspace = next.workspace /\ db3.project = next.project
       /\ db3.association = next.association
  <2>1. CASE P = {}
    <3>1. next.association = snap.association
      <4>1. DOMAIN first = {} BY <1>6, <2>1
      <4>2. /\ DOMAIN next.association = DOMAIN snap.association
            /\ \A k \in DOMAIN snap.association : next.association[k] = snap.association[k]
        BY <1>5, <4>1 DEF Over
      <4> QED BY <1>3, <1>7, <4>2, FieldsTyped, SameFunction
    <3>2. db3 = db2 BY <2>1
    <3> HIDE DEF db3
    <3> QED BY <1>12, <1>13, <3>1, <3>2 DEF Alters, Fields
  <2>2. CASE P # {}
    <3>1. PICK p \in Project : P = {p} BY <2>2
    <3>2. (CHOOSE q \in P : TRUE) = p BY <3>1
    <3> DEFINE l == <<w, p>>
    <3>3. db3 = InsertAssociation(db2, l, 0) /\ l[1] = w /\ l[2] = p BY <2>2, <3>2
    <3>4. \A k \in DOMAIN snap.association : k[1] # w
      BY <1>2, <1>3 DEF Settled, Valid, ProjectsFit
    <3>5. l \notin DOMAIN db2.association /\ Associations(db2, w) = {}
      BY <1>13, <3>3, <3>4 DEF Associations
    <3>6. w \in DOMAIN db2.workspace /\ p \in db2.project BY <1>5, <1>12, <3>1 DEF With
    <3>7. With(snap.association, l, 0) = next.association
      <4>1. {w} \X P = {<<w, p>>} BY <3>1
      <4> QED BY <1>5, <4>1 DEF With, Over, first
    <3> HIDE DEF db3, l
    <3>8. /\ Alters(db3, db2, {"association", "ok"}) /\ db3.ok
          /\ db3.association = next.association
      BY <1>12, <1>13, <3>3, <3>5, <3>6, <3>7, InsertAssociationIs
    <3> QED BY <1>12, <3>8 DEF Alters, Fields
  <2> QED BY <2>1, <2>2
<1> HIDE DEF db3
<1>15. Mirrors(db, Normalized(next))
  <2>1. Alters(db, db3, {"active"}) /\ db.active = w BY <1>14, SetActiveIs DEF Alters
  <2> HIDE DEF db
  <2>2. Written(db, next) BY <1>5, <1>14, <2>1, Before DEF Alters, Fields, Written
  <2>3. db.last = Normalized(next).last BY <1>9, <1>14, <2>1, Before DEF Alters, Fields
  <2> QED BY <1>8, <2>2, <2>3, MirrorsAfter
<1> HIDE DEF db
<1>16. Consistent' /\ (snap' = snap \/ snap' = Normalized(next))
  BY <1>1, <1>8, <1>15, ProcessKeeps DEF CommandsIInv
<1> QED BY <1>2, <1>5, <1>7, <1>16, ConversationsKept

LEMMA AddProjectKeeps ==
  ASSUME CommandsIInv, NEW w \in Workspace, NEW p \in Project, AddProject(w, p)
  PROVE  CommandsIInv'
<1> DEFINE order == Cardinality(Associations(snap, w))
           k == <<w, p>>
           next == [snap EXCEPT !.project = @ \cup {p}, !.association = With(@, k, order)]
           db1 == IF p \in snap.project THEN rows ELSE InsertProject(rows, p)
           db == InsertAssociation(db1, k, Normalized(next).association[k])
<1>1. IF next # snap /\ Valid(next) THEN Become(Normalized(next), db)
                                    ELSE UNCHANGED <<snap, rows, failed>>
  BY DEF AddProject, Process
<1>2. /\ w \in DOMAIN snap.workspace /\ k \notin DOMAIN snap.association
      /\ UNCHANGED <<home, talkOf>>
  BY DEF AddProject
<1>3. Settled(snap) /\ Typed(snap) /\ snap \in Snapshots BY Before
<1>4. order \in Nat /\ \A l \in Associations(snap, w) : snap.association[l] # order
  <2>1. Associations(snap, w) \subseteq DOMAIN snap.association BY DEF Associations
  <2>2. Contiguous(snap.association, Associations(snap, w))
    BY <1>3 DEF Settled, Valid, ProjectsFit
  <2> QED BY <1>3, <2>1, <2>2, NextOrderFree, AssociationsFinite DEF Typed
<1>5. /\ next.project = snap.project \cup {p}
      /\ next.association = With(snap.association, k, order)
      /\ next.workspace = snap.workspace /\ next.active = snap.active
      /\ next.thread = snap.thread /\ next.draft = snap.draft /\ next.message = snap.message
      /\ next.run = snap.run /\ next.work = snap.work /\ next.last = snap.last
  BY <1>3 DEF Snapshots
<1>6. next \in Snapshots
  <2>1. With(snap.association, k, order) \in Partial(Workspace \X Project, Nat)
    BY <1>3, <1>4, FieldsTyped, WithTyped
  <2> QED BY <1>3, <2>1, FieldsTyped DEF Snapshots
<1>7. k[1] = w /\ k[2] = p OBVIOUS
<1> HIDE DEF next, k, order
<1>8. Typed(next) BY <1>3, <1>5, <1>6, FS_AddElement DEF Typed, With
<1>9. Normalized(next).association[k] = order /\ Normalized(next).last = snap.last
  <2>1. \A v \in DOMAIN next.last : Leads(next, v) BY <1>3, <1>5 DEF Settled, Leads
  <2> QED BY <1>5, <1>6, <2>1, LastKept, NormalizedIs DEF With
<1>10. Alters(db1, rows, {"project", "ok"}) /\ db1.ok /\ db1.project = next.project
  <2>1. CASE p \in snap.project
    <3>1. db1 = rows /\ snap.project \cup {p} = snap.project BY <2>1
    <3> HIDE DEF db1
    <3> QED BY <1>5, <3>1, Before DEF Alters, Fields
  <2>2. CASE p \notin snap.project
    BY <1>5, <2>2, Before, InsertProjectIs
  <2> QED BY <2>1, <2>2
<1> HIDE DEF db1
<1>11. Alters(db, db1, {"association", "ok"}) /\ db.ok /\ db.association = next.association
  <2>1. /\ db1.association = snap.association /\ db1.workspace = snap.workspace
        /\ p \in db1.project /\ IsDatabase(db1)
    BY <1>5, <1>10, Before DEF Alters, Fields
  <2>2. Associations(db1, w) = Associations(snap, w) BY <2>1 DEF Associations
  <2> QED BY <1>2, <1>4, <1>5, <1>7, <1>9, <1>10, <2>1, <2>2, InsertAssociationIs
<1> HIDE DEF db
<1>12. Mirrors(db, Normalized(next))
  <2>1. Written(db, next) BY <1>5, <1>10, <1>11, Before DEF Alters, Fields, Written
  <2>2. db.last = Normalized(next).last BY <1>9, <1>10, <1>11, Before DEF Alters, Fields
  <2> QED BY <1>8, <2>1, <2>2, MirrorsAfter
<1>13. Consistent' /\ (snap' = snap \/ snap' = Normalized(next))
  BY <1>1, <1>8, <1>12, ProcessKeeps DEF CommandsIInv
<1> QED BY <1>2, <1>5, <1>6, <1>13, ConversationsKept

LEMMA SelectWorkspaceKeeps ==
  ASSUME CommandsIInv, NEW w \in Workspace, SelectWorkspace(w)
  PROVE  CommandsIInv'
<1> DEFINE next == [snap EXCEPT !.active = w]
           db == SetActive(rows, w)
<1>1. IF next # snap /\ Valid(next) THEN Become(Normalized(next), db)
                                    ELSE UNCHANGED <<snap, rows, failed>>
  BY DEF SelectWorkspace, Process
<1>2. UNCHANGED <<home, talkOf>> BY DEF SelectWorkspace
<1>3. Settled(snap) /\ Typed(snap) /\ snap \in Snapshots BY Before
<1>4. /\ next.workspace = snap.workspace /\ next.association = snap.association
      /\ next.project = snap.project /\ next.active = w
      /\ next.thread = snap.thread /\ next.draft = snap.draft /\ next.message = snap.message
      /\ next.run = snap.run /\ next.work = snap.work /\ next.last = snap.last
  BY <1>3 DEF Snapshots
<1>5. Typed(next) BY <1>3 DEF Typed, Snapshots
<1> HIDE DEF next
<1>6. Normalized(next).last = snap.last
  <2>1. \A v \in DOMAIN next.last : Leads(next, v) BY <1>3, <1>4 DEF Settled, Leads
  <2> QED BY <1>4, <1>5, <2>1, LastKept DEF Typed
<1>7. Alters(db, rows, {"active"}) /\ db.active = w BY Before, SetActiveIs
<1> HIDE DEF db
<1>8. Mirrors(db, Normalized(next))
  <2>1. Written(db, next) BY <1>4, <1>7, Before DEF Alters, Fields, Written
  <2>2. db.last = Normalized(next).last BY <1>6, <1>7, Before DEF Alters, Fields
  <2> QED BY <1>5, <2>1, <2>2, MirrorsAfter
<1>9. Consistent' /\ (snap' = snap \/ snap' = Normalized(next))
  BY <1>1, <1>5, <1>8, ProcessKeeps DEF CommandsIInv
<1> QED BY <1>2, <1>4, <1>5, <1>9, ConversationsKept DEF Typed

LEMMA RememberThreadLocationKeeps ==
  ASSUME CommandsIInv, NEW c \in Talk, RememberThreadLocation(c)
  PROVE  CommandsIInv'
<1> DEFINE w == snap.thread[c].at[1]
           next == [snap EXCEPT !.active = w, !.last = With(@, w, c)]
           db1 == Remember(rows, w, Normalized(next).last[w])
           db == SetActive(db1, w)
<1>1. IF next # snap /\ Valid(next) THEN Become(Normalized(next), db)
                                    ELSE UNCHANGED <<snap, rows, failed>>
  BY DEF RememberThreadLocation, Process
<1>2. /\ c \in DOMAIN snap.thread /\ ~snap.thread[c].archived /\ UNCHANGED <<home, talkOf>>
  BY DEF RememberThreadLocation
<1>3. Settled(snap) /\ Typed(snap) /\ snap \in Snapshots BY Before
<1>4. w \in DOMAIN snap.workspace /\ w \in Workspace
  BY <1>2, <1>3, FieldsTyped, PartialIs DEF Settled, Valid, ThreadsFit, ProjectsFit
<1>5. /\ next.workspace = snap.workspace /\ next.association = snap.association
      /\ next.project = snap.project /\ next.active = w
      /\ next.thread = snap.thread /\ next.draft = snap.draft /\ next.message = snap.message
      /\ next.run = snap.run /\ next.work = snap.work /\ next.last = With(snap.last, w, c)
  BY <1>3 DEF Snapshots
<1>6. w = snap.thread[c].at[1] OBVIOUS
<1> HIDE DEF w
<1>7. Typed(next)
  <2>1. With(snap.last, w, c) \in Partial(Workspace, Talk) BY <1>3, <1>4, FieldsTyped, WithTyped
  <2> QED BY <1>3, <1>4, <2>1 DEF Typed, Snapshots
<1> HIDE DEF next
<1>8. Normalized(next).last = With(snap.last, w, c) /\ Normalized(next).last[w] = c
  <2>1. \A v \in DOMAIN next.last : Leads(next, v)
    BY <1>2, <1>3, <1>4, <1>5, <1>6 DEF Settled, Leads, With
  <2> QED BY <1>5, <1>7, <2>1, LastKept DEF Typed, With
<1>9. Alters(db1, rows, {"last", "ok"}) /\ db1.ok /\ db1.last = With(snap.last, w, c)
  BY <1>2, <1>4, <1>8, Before, RememberIs
<1> HIDE DEF db1
<1>10. Alters(db, db1, {"active"}) /\ db.active = w
  BY <1>9, SetActiveIs DEF Alters
<1> HIDE DEF db
<1>11. Mirrors(db, Normalized(next))
  <2>1. Written(db, next) BY <1>5, <1>9, <1>10, Before DEF Alters, Fields, Written
  <2>2. db.last = Normalized(next).last BY <1>8, <1>9, <1>10 DEF Alters, Fields
  <2> QED BY <1>7, <2>1, <2>2, MirrorsAfter
<1>12. Consistent' /\ (snap' = snap \/ snap' = Normalized(next))
  BY <1>1, <1>7, <1>11, ProcessKeeps DEF CommandsIInv
<1> QED BY <1>2, <1>5, <1>7, <1>12, ConversationsKept DEF Typed

-----------------------------------------------------------------------------
(* Drafts. *)

LEMMA OpenThreadDraftKeeps ==
  ASSUME CommandsIInv, NEW c \in Talk, NEW k \in Workspace \X Project, OpenThreadDraft(c, k)
  PROVE  CommandsIInv'
<1> DEFINE next == IF k \in Range(snap.draft) THEN snap ELSE [snap EXCEPT !.draft = With(@, c, k)]
           db == InsertDraft(rows, c, Normalized(next).draft[c])
<1>1. IF next # snap /\ Valid(next) THEN Become(Normalized(next), db)
                                    ELSE UNCHANGED <<snap, rows, failed>>
  BY DEF OpenThreadDraft, Process
<1>2. /\ k \in DOMAIN snap.association /\ home[c] = None
      /\ home' = [home EXCEPT ![c] = k] /\ talkOf' = talkOf
  BY DEF OpenThreadDraft
<1>3. Settled(snap) /\ Typed(snap) /\ snap \in Snapshots BY Before
<1>4. c \notin DOMAIN snap.draft \cup DOMAIN snap.thread BY <1>2 DEF CommandsIInv, HistoryOK
<1>5. /\ next = snap \/ (k \notin Range(snap.draft) /\ next.draft = With(snap.draft, c, k))
      /\ next.workspace = snap.workspace /\ next.association = snap.association
      /\ next.project = snap.project /\ next.active = snap.active
      /\ next.thread = snap.thread /\ next.message = snap.message
      /\ next.run = snap.run /\ next.work = snap.work /\ next.last = snap.last
  BY <1>3 DEF Snapshots
<1>6. Typed(next)
  <2>1. With(snap.draft, c, k) \in Partial(Talk, Workspace \X Project)
    BY <1>3, FieldsTyped, WithTyped
  <2> QED BY <1>3, <2>1 DEF Typed, Snapshots
<1> HIDE DEF next
<1>7. Normalized(next).last = snap.last /\ Normalized(next).draft = next.draft
  <2>1. \A v \in DOMAIN next.last : Leads(next, v) BY <1>3, <1>5 DEF Settled, Leads
  <2> QED BY <1>5, <1>6, <2>1, LastKept, NormalizedIs DEF Typed
<1>8. ASSUME next # snap
      PROVE  Mirrors(db, Normalized(next))
  <2>1. k \notin Range(snap.draft) /\ next.draft = With(snap.draft, c, k) BY <1>5, <1>8
  <2>2. Normalized(next).draft[c] = k BY <1>7, <2>1 DEF With
  <2>3. Alters(db, rows, {"draft", "ok"}) /\ db.ok /\ db.draft = next.draft
    BY <1>2, <1>4, <2>1, <2>2, Before, InsertDraftIs
  <2> HIDE DEF db
  <2>4. Written(db, next) BY <1>5, <2>3, Before DEF Alters, Fields, Written
  <2>5. db.last = Normalized(next).last BY <1>7, <2>3, Before DEF Alters, Fields
  <2> QED BY <1>6, <2>4, <2>5, MirrorsAfter
<1> HIDE DEF db
<1>9. Consistent' /\ (snap' = snap \/ snap' = Normalized(next))
  BY <1>1, <1>6, <1>8, ProcessKeeps DEF CommandsIInv
<1>10. /\ snap'.message = snap.message /\ snap'.run = snap.run /\ snap'.thread = snap.thread
       /\ DOMAIN snap'.draft \subseteq DOMAIN snap.draft \cup {c}
  <2>1. DOMAIN next.draft \subseteq DOMAIN snap.draft \cup {c} BY <1>5 DEF With
  <2> QED BY <1>5, <1>6, <1>9, <2>1, NormalizedIs DEF Typed
<1>11. HistoryOK' BY <1>2, <1>10, NoneAssumption DEF CommandsIInv, HistoryOK
<1>12. TurnsOK' BY <1>2, <1>10 DEF CommandsIInv, TurnsOK
<1> QED BY <1>9, <1>11, <1>12 DEF CommandsIInv

LEMMA DiscardThreadDraftKeeps ==
  ASSUME CommandsIInv, NEW c \in Talk, DiscardThreadDraft(c)
  PROVE  CommandsIInv'
<1> DEFINE next == [snap EXCEPT !.draft = Without(@, {c})]
           db == DeleteDrafts(rows, {c})
<1>1. IF next # snap /\ Valid(next) THEN Become(Normalized(next), db)
                                    ELSE UNCHANGED <<snap, rows, failed>>
  BY DEF DiscardThreadDraft, Process
<1>2. UNCHANGED <<home, talkOf>> BY DEF DiscardThreadDraft
<1>3. Settled(snap) /\ Typed(snap) /\ snap \in Snapshots BY Before
<1>4. /\ next.draft = Without(snap.draft, {c})
      /\ next.workspace = snap.workspace /\ next.association = snap.association
      /\ next.project = snap.project /\ next.active = snap.active
      /\ next.thread = snap.thread /\ next.message = snap.message
      /\ next.run = snap.run /\ next.work = snap.work /\ next.last = snap.last
  BY <1>3 DEF Snapshots
<1>5. Typed(next)
  <2>1. Without(snap.draft, {c}) \in Partial(Talk, Workspace \X Project)
    BY <1>3, FieldsTyped, WithoutTyped
  <2> QED BY <1>3, <2>1 DEF Typed, Snapshots
<1> HIDE DEF next
<1>6. Normalized(next).last = snap.last
  <2>1. \A v \in DOMAIN next.last : Leads(next, v) BY <1>3, <1>4 DEF Settled, Leads
  <2> QED BY <1>4, <1>5, <2>1, LastKept DEF Typed
<1>7. Alters(db, rows, {"draft"}) /\ db.draft = next.draft BY <1>4, Before, DeleteDraftsIs
<1> HIDE DEF db
<1>8. Mirrors(db, Normalized(next))
  <2>1. Written(db, next) BY <1>4, <1>7, Before DEF Alters, Fields, Written
  <2>2. db.last = Normalized(next).last BY <1>6, <1>7, Before DEF Alters, Fields
  <2> QED BY <1>5, <2>1, <2>2, MirrorsAfter
<1>9. Consistent' /\ (snap' = snap \/ snap' = Normalized(next))
  BY <1>1, <1>5, <1>8, ProcessKeeps DEF CommandsIInv
<1>10. /\ snap'.message = snap.message /\ snap'.run = snap.run /\ snap'.thread = snap.thread
       /\ DOMAIN snap'.draft \subseteq DOMAIN snap.draft
  <2>1. DOMAIN next.draft \subseteq DOMAIN snap.draft BY <1>4 DEF Without, Restrict
  <2> QED BY <1>4, <1>5, <1>9, <2>1, After
<1> QED BY <1>2, <1>9, <1>10, HistoryKept

\* Conversations and turns are not null; a fresh turn has no message and no run.
LEMMA FreshTurn ==
  ASSUME CommandsIInv, NEW t \in Turn, Fresh(t)
  PROVE  /\ \A m \in DOMAIN snap.message : m[1] # t
         /\ t \notin DOMAIN snap.run
<1>1. snap \in Snapshots BY Before
<1>2. \A m \in DOMAIN snap.message : snap.message[m].talk \in Talk
  <2>1. snap.message \in [DOMAIN snap.message -> MessageRecord] BY <1>1, FieldsTyped, PartialIs
  <2> QED BY <2>1 DEF MessageRecord
<1>3. \A u \in DOMAIN snap.run : snap.run[u].talk \in Talk
  <2>1. snap.run \in [DOMAIN snap.run -> [talk : Talk]] BY <1>1, FieldsTyped, PartialIs
  <2> QED BY <2>1
<1> QED BY <1>2, <1>3, NoneAssumption DEF Fresh, CommandsIInv, TurnsOK

LEMMA FirstMessagesTyped ==
  ASSUME NEW c \in Talk, NEW t \in Turn
  PROVE  /\ FirstMessages(c, t) \in Partial(MessageIds, MessageRecord)
         /\ DOMAIN FirstMessages(c, t) = MessagesOf(t)
         /\ \A m \in MessagesOf(t) : FirstMessages(c, t)[m].talk = c /\ m[1] = t
<1>1. \A m \in MessagesOf(t) : m \in MessageIds /\ m[1] = t BY DEF MessagesOf, MessageIds
<1> QED BY <1>1, PartialIs DEF FirstMessages, MessageRecord

LEMMA PromoteThreadDraftKeeps ==
  ASSUME CommandsIInv, NEW c \in Talk, NEW t \in Turn, PromoteThreadDraft(c, t)
  PROVE  CommandsIInv'
<1> DEFINE thread == NewThread(snap.draft[c])
           next == IF c \in DOMAIN snap.thread THEN snap
                   ELSE [snap EXCEPT !.thread = With(@, c, thread),
                                     !.draft = Without(@, {c}),
                                     !.message = Over(FirstMessages(c, t), @),
                                     !.run = With(@, t, [talk |-> c])]
           after == Normalized(next)
           db1 == DeleteDrafts(rows, {c})
           db2 == InsertThread(db1, c, after.thread[c])
           db3 == InsertMessages(db2, Restrict(after.message, OfTalks(after.message, {c})))
           db4 == InsertRuns(db3, [u \in {t} |-> [talk |-> c]])
           db == IF c \in DOMAIN db1.thread THEN db1 ELSE db4
<1>1. IF next # snap /\ Valid(next) THEN Become(after, db)
                                    ELSE UNCHANGED <<snap, rows, failed>>
  BY DEF PromoteThreadDraft, Process
<1>2. /\ c \in DOMAIN snap.draft \cup DOMAIN snap.thread /\ Fresh(t)
      /\ talkOf' = [talkOf EXCEPT ![t] = IF next = snap THEN @ ELSE c] /\ home' = home
  BY DEF PromoteThreadDraft
<1>3. Settled(snap) /\ Typed(snap) /\ snap \in Snapshots BY Before
<1>4. CASE c \in DOMAIN snap.thread
  <2>1. next = snap BY <1>4
  <2> HIDE DEF next
  <2>2. Consistent' /\ snap' = snap BY <1>1, <1>3, <2>1, ProcessKeeps DEF CommandsIInv
  <2>3. talkOf' = talkOf BY <1>2, <2>1 DEF CommandsIInv, HistoryOK
  <2> QED BY <1>2, <2>2, <2>3, HistoryKept
<1>5. CASE c \notin DOMAIN snap.thread
  <2>1. c \in DOMAIN snap.draft /\ snap.draft[c] \in DOMAIN snap.association
    BY <1>2, <1>3, <1>5 DEF Settled, Valid, DraftsFit, Range
  <2>2. /\ next.thread = With(snap.thread, c, thread)
        /\ next.draft = Without(snap.draft, {c})
        /\ next.message = Over(FirstMessages(c, t), snap.message)
        /\ next.run = With(snap.run, t, [talk |-> c])
        /\ next.workspace = snap.workspace /\ next.association = snap.association
        /\ next.project = snap.project /\ next.active = snap.active
        /\ next.work = snap.work /\ next.last = snap.last
    BY <1>3, <1>5 DEF Snapshots
  <2>3. thread.at = snap.draft[c] /\ thread \in ThreadRecord
    BY <1>3, <2>1, FieldsTyped, PartialIs DEF NewThread, ThreadRecord
  <2>4. Typed(next)
    <3>1. With(snap.thread, c, thread) \in Partial(Talk, ThreadRecord)
      BY <1>3, <2>3, FieldsTyped, WithTyped
    <3>2. Without(snap.draft, {c}) \in Partial(Talk, Workspace \X Project)
      BY <1>3, FieldsTyped, WithoutTyped
    <3>3. Over(FirstMessages(c, t), snap.message) \in Partial(MessageIds, MessageRecord)
      BY <1>3, FieldsTyped, FirstMessagesTyped, OverTyped
    <3>4. With(snap.run, t, [talk |-> c]) \in Partial(Turn, [talk : Talk])
      BY <1>3, FieldsTyped, WithTyped
    <3> HIDE DEF thread
    <3> QED BY <1>3, <1>5, <3>1, <3>2, <3>3, <3>4 DEF Typed, Snapshots
  <2> HIDE DEF next, thread
  <2>5. next # snap BY <1>5, <2>2 DEF With
  <2>6. /\ after.last = snap.last /\ after.thread = next.thread /\ after.message = next.message
    <3>1. \A v \in DOMAIN next.last : Leads(next, v)
      BY <1>3, <1>5, <2>2 DEF Settled, Leads, With
    <3> QED BY <2>2, <2>4, <3>1, LastKept, NormalizedIs DEF Typed
  <2>7. Mirrors(db, after)
    <3>1. Alters(db1, rows, {"draft"}) /\ db1.draft = next.draft BY <2>2, Before, DeleteDraftsIs
    <3> HIDE DEF db1
    <3>2. /\ db1.thread = snap.thread /\ IsDatabase(db1) /\ db1.ok
          /\ db1.association = snap.association
      BY <3>1, Before DEF Alters, Fields
    <3>3. db = db4 BY <1>5, <3>2
    <3>4. after.thread[c] = thread BY <2>2, <2>6 DEF With
    <3>5. c \notin DOMAIN db1.draft BY <2>2, <3>1 DEF Without, Restrict
    <3>6. Alters(db2, db1, {"thread", "ok"}) /\ db2.ok /\ db2.thread = next.thread
      BY <1>5, <2>1, <2>2, <2>3, <3>2, <3>4, <3>5, InsertThreadIs
    <3> HIDE DEF db2
    <3>7. IsDatabase(db2) /\ db2.message = snap.message
      BY <3>1, <3>6, Before DEF Alters, Fields
    <3>8. Restrict(after.message, OfTalks(after.message, {c})) = FirstMessages(c, t)
      <4>1. /\ DOMAIN after.message = MessagesOf(t) \cup DOMAIN snap.message
            /\ \A m \in MessagesOf(t) : after.message[m] = FirstMessages(c, t)[m]
            /\ \A m \in DOMAIN snap.message \ MessagesOf(t) : after.message[m] = snap.message[m]
        BY <2>2, <2>6, FirstMessagesTyped DEF Over
      <4>2. \A m \in DOMAIN snap.message : snap.message[m].talk # c
        BY <1>3, <1>5 DEF Settled, Valid, MessagesFit
      <4>3. OfTalks(after.message, {c}) = MessagesOf(t)
        BY <4>1, <4>2, FirstMessagesTyped DEF OfTalks
      <4> QED BY <4>1, <4>3, FirstMessagesTyped DEF Restrict, FirstMessages
    <3>9. /\ DOMAIN FirstMessages(c, t) \cap DOMAIN db2.message = {}
          /\ \A m \in DOMAIN FirstMessages(c, t) : FirstMessages(c, t)[m].talk \in DOMAIN db2.thread
      BY <1>2, <2>2, <3>6, <3>7, FreshTurn, FirstMessagesTyped DEF With
    <3>10. Alters(db3, db2, {"message", "ok"}) /\ db3.ok /\ db3.message = next.message
      BY <2>2, <3>6, <3>7, <3>8, <3>9, InsertMessagesIs
    <3> HIDE DEF db3
    <3>11. /\ IsDatabase(db3) /\ db3.run = snap.run /\ db3.thread = next.thread
      BY <3>1, <3>6, <3>10, Before DEF Alters, Fields
    <3> DEFINE runs == [u \in {t} |-> [talk |-> c]]
    <3>12. /\ DOMAIN runs \cap DOMAIN db3.run = {}
           /\ \A u \in DOMAIN runs : /\ runs[u].talk \in DOMAIN db3.thread
                                     /\ MessagesOf(u) \subseteq DOMAIN db3.message
      BY <1>2, <2>2, <3>10, <3>11, FreshTurn, FirstMessagesTyped DEF With, Over
    <3>13. Over(runs, snap.run) = next.run BY <2>2 DEF Over, With
    <3> HIDE DEF runs
    <3>14. Alters(db4, db3, {"run", "ok"}) /\ db4.ok /\ db4.run = next.run
      BY <3>10, <3>11, <3>12, <3>13, InsertRunsIs DEF runs
    <3> HIDE DEF db4, db
    <3>15. Written(db, next)
      BY <2>2, <3>1, <3>3, <3>6, <3>10, <3>14, Before DEF Alters, Fields, Written
    <3>16. db.last = after.last
      BY <2>6, <3>1, <3>3, <3>6, <3>10, <3>14, Before DEF Alters, Fields
    <3> QED BY <2>4, <3>15, <3>16, MirrorsAfter
  <2> HIDE DEF db
  <2>8. Consistent' /\ (snap' = snap \/ snap' = after)
    BY <1>1, <2>4, <2>7, ProcessKeeps DEF CommandsIInv
  <2>9. talkOf' = [talkOf EXCEPT ![t] = c] BY <1>2, <2>5
  <2>10. /\ snap'.message \in {snap.message, next.message} /\ snap'.run \in {snap.run, next.run}
         /\ snap'.draft \in {snap.draft, next.draft} /\ snap'.thread \in {snap.thread, next.thread}
    BY <2>4, <2>8, NormalizedIs DEF Typed
  <2>11. HistoryOK'
    BY <1>2, <2>1, <2>2, <2>9, <2>10 DEF CommandsIInv, HistoryOK, With, Without, Restrict
  <2>12. TurnsOK'
    <3>1. \A m \in DOMAIN snap'.message :
            \/ m \in DOMAIN snap.message /\ m[1] # t /\ snap'.message[m] = snap.message[m]
            \/ m[1] = t /\ snap'.message[m].talk = c
      BY <1>2, <2>2, <2>10, FreshTurn, FirstMessagesTyped DEF Over
    <3>2. \A u \in DOMAIN snap'.run :
            \/ u \in DOMAIN snap.run /\ u # t /\ snap'.run[u] = snap.run[u]
            \/ u = t /\ snap'.run[u].talk = c
      BY <1>2, <2>2, <2>10, FreshTurn DEF With
    <3>3. talkOf'[t] = c /\ \A u \in Turn \ {t} : talkOf'[u] = talkOf[u]
      BY <2>9 DEF CommandsIInv, HistoryOK
    <3>4. \A m \in DOMAIN snap.message : m[1] \in Turn BY <1>3, FieldsTyped, PartialIs DEF MessageIds
    <3>5. \A u \in DOMAIN snap.run : u \in Turn BY <1>3, FieldsTyped, PartialIs
    <3> QED BY <3>1, <3>2, <3>3, <3>4, <3>5 DEF CommandsIInv, TurnsOK
  <2> QED BY <2>8, <2>11, <2>12 DEF CommandsIInv
<1> QED BY <1>4, <1>5

LEMMA RollbackThreadDraftPromotionKeeps ==
  ASSUME CommandsIInv, NEW c \in Talk, RollbackThreadDraftPromotion(c)
  PROVE  CommandsIInv'
<1> DEFINE next == IF c \in DOMAIN snap.draft THEN snap
                   ELSE [snap EXCEPT !.thread = Without(@, {c}),
                                     !.draft = With(@, c, home[c]),
                                     !.message = Without(@, OfTalks(@, {c})),
                                     !.run = Without(@, OfTalks(@, {c})),
                                     !.work = Without(@, {c})]
           after == Normalized(next)
           db1 == DeleteThreads(rows, {c})
           db == InsertDraft(db1, c, after.draft[c])
<1>1. IF next # snap /\ Valid(next) THEN Become(after, db)
                                    ELSE UNCHANGED <<snap, rows, failed>>
  BY DEF RollbackThreadDraftPromotion, Process
<1>2. home[c] \in DOMAIN snap.association /\ UNCHANGED <<home, talkOf>>
  BY DEF RollbackThreadDraftPromotion
<1>3. Settled(snap) /\ Typed(snap) /\ snap \in Snapshots BY Before
<1>4. CASE c \in DOMAIN snap.draft
  <2>1. next = snap BY <1>4
  <2> HIDE DEF next
  <2>2. Consistent' /\ snap' = snap BY <1>1, <1>3, <2>1, ProcessKeeps DEF CommandsIInv
  <2> QED BY <1>2, <2>2, HistoryKept
<1>5. CASE c \notin DOMAIN snap.draft
  <2>1. /\ next.thread = Without(snap.thread, {c})
        /\ next.draft = With(snap.draft, c, home[c])
        /\ next.message = Without(snap.message, OfTalks(snap.message, {c}))
        /\ next.run = Without(snap.run, OfTalks(snap.run, {c}))
        /\ next.work = Without(snap.work, {c})
        /\ next.workspace = snap.workspace /\ next.association = snap.association
        /\ next.project = snap.project /\ next.active = snap.active /\ next.last = snap.last
    BY <1>3, <1>5 DEF Snapshots
  <2>2. home[c] \in Workspace \X Project BY <1>2, <1>3, FieldsTyped, PartialIs
  <2>3. Typed(next)
    <3>1. Without(snap.thread, {c}) \in Partial(Talk, ThreadRecord)
      BY <1>3, FieldsTyped, WithoutTyped
    <3>2. With(snap.draft, c, home[c]) \in Partial(Talk, Workspace \X Project)
      BY <1>3, <2>2, FieldsTyped, WithTyped
    <3>3. Without(snap.message, OfTalks(snap.message, {c})) \in Partial(MessageIds, MessageRecord)
      BY <1>3, FieldsTyped, WithoutTyped
    <3>4. Without(snap.run, OfTalks(snap.run, {c})) \in Partial(Turn, [talk : Talk])
      BY <1>3, FieldsTyped, WithoutTyped
    <3>5. Without(snap.work, {c}) \in Partial(Talk, {"auto", "confirm"})
      BY <1>3, FieldsTyped, WithoutTyped
    <3> QED BY <1>3, <1>5, <3>1, <3>2, <3>3, <3>4, <3>5 DEF Typed, Snapshots
  <2> HIDE DEF next
  <2>4. ASSUME Valid(next)
        PROVE  Mirrors(db, after)
    <3>1. after.draft = next.draft /\ after.draft[c] = home[c]
      BY <2>1, <2>3, NormalizedIs DEF Typed, With
    <3>2. home[c] \notin Range(snap.draft)
      <4>1. ASSUME NEW d \in DOMAIN snap.draft, snap.draft[d] = home[c]
            PROVE  FALSE
        <5>1. d # c BY <1>5
        <5>2. next.draft[d] = next.draft[c] /\ {c, d} \subseteq DOMAIN next.draft
          BY <2>1, <4>1, <5>1 DEF With
        <5> QED BY <2>4, <5>1, <5>2 DEF Valid, DraftsFit
      <4> QED BY <4>1 DEF Range
    <3>3. /\ Alters(db1, rows, {"thread", "message", "run", "work", "last"})
          /\ db1.thread = next.thread /\ db1.message = next.message /\ db1.run = next.run
          /\ db1.work = Without(rows.work, {c})
          /\ db1.last = Without(snap.last, {w \in DOMAIN snap.last : snap.last[w] \in {c}})
      <4>1. /\ Alters(db1, rows, {"thread", "message", "run", "work", "last"})
            /\ db1.thread = Without(rows.thread, {c})
            /\ db1.message = Without(rows.message, OfTalks(rows.message, {c}))
            /\ db1.run = Without(rows.run, OfTalks(rows.run, {c}))
            /\ db1.work = Without(rows.work, {c})
            /\ db1.last = Without(rows.last, {w \in DOMAIN rows.last : rows.last[w] \in {c}})
        BY Before, DeleteThreadsIs
      <4> HIDE DEF db1
      <4> QED BY <2>1, <4>1, Before
    <3> HIDE DEF db1
    <3>4. /\ IsDatabase(db1) /\ db1.ok /\ db1.draft = snap.draft
          /\ db1.association = snap.association
      BY <3>3, Before DEF Alters, Fields
    <3>5. c \notin DOMAIN db1.thread \cup DOMAIN db1.draft
      BY <1>5, <2>1, <3>3, <3>4 DEF Without, Restrict
    <3>6. Alters(db, db1, {"draft", "ok"}) /\ db.ok /\ db.draft = next.draft
      BY <1>2, <2>1, <3>1, <3>2, <3>4, <3>5, InsertDraftIs
    <3> HIDE DEF db
    <3>7. db1.work = [d \in DOMAIN next.work |-> "confirm"]
      BY <2>1, <3>3, Before DEF Without, Restrict
    <3>8. Written(db, next) BY <2>1, <3>3, <3>6, <3>7, Before DEF Alters, Fields, Written
    <3>9. db.last = after.last
      <4>1. {w \in DOMAIN next.last : Leads(next, w)}
              = DOMAIN snap.last \ {w \in DOMAIN snap.last : snap.last[w] \in {c}}
        BY <1>3, <2>1 DEF Settled, Leads, Without, Restrict
      <4>2. after.last = db1.last
        BY <2>1, <2>3, <3>3, <4>1, NormalizedIs DEF Typed, Without
      <4> QED BY <3>6, <4>2 DEF Alters, Fields
    <3> QED BY <2>3, <3>8, <3>9, MirrorsAfter
  <2> HIDE DEF db
  <2>5. Consistent' /\ (snap' = snap \/ snap' = after)
    BY <1>1, <2>3, <2>4, ProcessKeeps DEF CommandsIInv
  <2>6. /\ snap'.message \in {snap.message, next.message} /\ snap'.run \in {snap.run, next.run}
        /\ snap'.draft \in {snap.draft, next.draft} /\ snap'.thread \in {snap.thread, next.thread}
    BY <2>3, <2>5, NormalizedIs DEF Typed
  <2>7. home[c] # None BY <2>2, NoneAssumption
  <2>8. HistoryOK'
    BY <1>2, <2>1, <2>6, <2>7 DEF CommandsIInv, HistoryOK, With, Without, Restrict
  <2>9. TurnsOK'
    <3>1. /\ \A m \in DOMAIN snap'.message :
               m \in DOMAIN snap.message /\ snap'.message[m] = snap.message[m]
          /\ \A u \in DOMAIN snap'.run : u \in DOMAIN snap.run /\ snap'.run[u] = snap.run[u]
      <4>1. /\ \A m \in DOMAIN next.message :
                 m \in DOMAIN snap.message /\ next.message[m] = snap.message[m]
            /\ \A u \in DOMAIN next.run : u \in DOMAIN snap.run /\ next.run[u] = snap.run[u]
        BY <2>1 DEF Without, Restrict
      <4> QED BY <2>6, <4>1
    <3> QED BY <1>2, <3>1 DEF CommandsIInv, TurnsOK
  <2> QED BY <2>5, <2>8, <2>9 DEF CommandsIInv
<1> QED BY <1>4, <1>5

-----------------------------------------------------------------------------
(* Threads. *)

\* A message is one of its turn's two.
LEMMA MessageKeys ==
  ASSUME NEW s \in Snapshots, NEW t
  PROVE  /\ \A m \in DOMAIN s.message : m[1] \in Turn /\ (m[1] = t => m \in MessagesOf(t))
         /\ \A m \in MessagesOf(t) : m[1] = t
<1>1. DOMAIN s.message \subseteq Turn \X {"user", "assistant"}
  BY FieldsTyped, PartialIs DEF MessageIds
<1>2. \A m \in Turn \X {"user", "assistant"} : m = <<m[1], m[2]>> /\ m[2] \in {"user", "assistant"}
  OBVIOUS
<1> QED BY <1>1, <1>2 DEF MessagesOf

\* Writing a row that is there already.
LEMMA SameThread ==
  ASSUME NEW s \in Snapshots, NEW c \in DOMAIN s.thread
  PROVE  [d \in DOMAIN s.thread |-> IF d = c THEN s.thread[c] ELSE s.thread[d]] = s.thread
<1>1. s.thread = [d \in DOMAIN s.thread |-> s.thread[d]] BY FieldsTyped, PartialIs
<1> QED BY <1>1

LEMMA RecordThreadRunKeeps ==
  ASSUME CommandsIInv, NEW c \in Talk, NEW t \in Turn, RecordThreadRun(c, t)
  PROVE  CommandsIInv'
<1> DEFINE next == [snap EXCEPT !.message = Over(@, FirstMessages(c, t)),
                                !.run = With(@, t, [talk |-> c])]
           after == Normalized(next)
           new == Without(after.message, DOMAIN snap.message)
           db1 == InsertMessages(rows, new)
           runs == Without(after.run, DOMAIN snap.run)
           db2 == InsertRuns(db1, runs)
           db == UpdateThread(db2, c, after.thread[c])
<1>1. IF next # snap /\ Valid(next) THEN Become(after, db)
                                    ELSE UNCHANGED <<snap, rows, failed>>
  BY DEF RecordThreadRun, Process
<1>2. /\ c \in DOMAIN snap.thread /\ (Fresh(t) \/ talkOf[t] = c) /\ t \notin DOMAIN snap.run
      /\ talkOf' = [talkOf EXCEPT ![t] = c] /\ home' = home
  BY DEF RecordThreadRun
<1>3. Settled(snap) /\ Typed(snap) /\ snap \in Snapshots BY Before
<1>4. /\ next.message = Over(snap.message, FirstMessages(c, t))
      /\ next.run = With(snap.run, t, [talk |-> c])
      /\ next.workspace = snap.workspace /\ next.association = snap.association
      /\ next.project = snap.project /\ next.active = snap.active
      /\ next.thread = snap.thread /\ next.draft = snap.draft
      /\ next.work = snap.work /\ next.last = snap.last
  BY <1>3 DEF Snapshots
<1>5. Typed(next)
  <2>1. Over(snap.message, FirstMessages(c, t)) \in Partial(MessageIds, MessageRecord)
    BY <1>3, FieldsTyped, FirstMessagesTyped, OverTyped
  <2>2. With(snap.run, t, [talk |-> c]) \in Partial(Turn, [talk : Talk])
    BY <1>3, FieldsTyped, WithTyped
  <2> QED BY <1>3, <2>1, <2>2 DEF Typed, Snapshots
<1> HIDE DEF next
<1>6. /\ after.last = snap.last /\ after.thread = snap.thread
      /\ after.message = next.message /\ after.run = next.run
  <2>1. \A v \in DOMAIN next.last : Leads(next, v) BY <1>3, <1>4 DEF Settled, Leads
  <2> QED BY <1>4, <1>5, <2>1, LastKept, NormalizedIs DEF Typed
<1>7. Mirrors(db, after)
  <2>1. /\ DOMAIN new = MessagesOf(t) \ DOMAIN snap.message
        /\ \A m \in DOMAIN new : new[m] = FirstMessages(c, t)[m] /\ new[m].talk = c
    BY <1>4, <1>6, FirstMessagesTyped DEF Over, Without, Restrict
  <2>2. Over(new, snap.message) = next.message
    <3>1. next.message = [m \in DOMAIN snap.message \cup MessagesOf(t) |->
                            IF m \in DOMAIN snap.message THEN snap.message[m] ELSE FirstMessages(c, t)[m]]
      BY <1>4, FirstMessagesTyped DEF Over
    <3> HIDE DEF new
    <3> QED BY <2>1, <3>1 DEF Over
  <2>3. DOMAIN runs = {t} /\ runs[t] = [talk |-> c]
    BY <1>2, <1>4, <1>6 DEF With, Without, Restrict
  <2>4. Over(runs, snap.run) = next.run
    <3> HIDE DEF runs
    <3> QED BY <1>2, <1>4, <2>3 DEF Over, With
  <2> HIDE DEF new, runs
  <2>5. DOMAIN new \cap DOMAIN rows.message = {} /\ \A m \in DOMAIN new : new[m].talk \in DOMAIN rows.thread
    BY <1>2, <2>1, Before
  <2>6. Alters(db1, rows, {"message", "ok"}) /\ db1.ok /\ db1.message = next.message
    BY <2>2, <2>5, Before, InsertMessagesIs
  <2> HIDE DEF db1
  <2>7. IsDatabase(db1) /\ db1.run = snap.run /\ db1.thread = snap.thread
    BY <2>6, Before DEF Alters, Fields
  <2>8. /\ DOMAIN runs \cap DOMAIN db1.run = {}
        /\ \A u \in DOMAIN runs : /\ runs[u].talk \in DOMAIN db1.thread
                                  /\ MessagesOf(u) \subseteq DOMAIN db1.message
    BY <1>2, <1>4, <2>3, <2>6, <2>7, FirstMessagesTyped DEF Over
  <2>9. Alters(db2, db1, {"run", "ok"}) /\ db2.ok /\ db2.run = next.run
    BY <2>4, <2>6, <2>7, <2>8, InsertRunsIs
  <2> HIDE DEF db2
  <2>10. IsDatabase(db2) /\ db2.thread = snap.thread BY <2>7, <2>9 DEF Alters, Fields
  <2>11. Alters(db, db2, {"thread"}) /\ db.thread = snap.thread
    <3>1. /\ Alters(db, db2, {"thread"})
          /\ db.thread = [d \in DOMAIN db2.thread |-> IF d = c THEN after.thread[c] ELSE db2.thread[d]]
      BY <2>10, UpdateThreadIs
    <3> HIDE DEF db, after
    <3> QED BY <1>2, <1>3, <1>6, <2>10, <3>1, SameThread
  <2> HIDE DEF db
  <2>12. Written(db, next)
    BY <1>4, <2>6, <2>9, <2>11, Before DEF Alters, Fields, Written
  <2>13. db.last = after.last
    BY <1>6, <2>6, <2>9, <2>11, Before DEF Alters, Fields
  <2> QED BY <1>5, <2>12, <2>13, MirrorsAfter
<1> HIDE DEF db
<1>8. Consistent' /\ (snap' = snap \/ snap' = after)
  BY <1>1, <1>5, <1>7, ProcessKeeps DEF CommandsIInv
<1>9. /\ snap'.thread = snap.thread /\ snap'.draft = snap.draft
      /\ snap'.message = snap.message \/ snap'.message = next.message
      /\ snap'.run = snap.run \/ snap'.run = next.run
  BY <1>4, <1>5, <1>8, After
<1>10. HistoryOK' BY <1>2, <1>9 DEF CommandsIInv, HistoryOK
<1>11. TurnsOK'
  <2>1. \A m \in DOMAIN snap'.message :
          \/ m \in DOMAIN snap.message /\ snap'.message[m] = snap.message[m]
          \/ m[1] = t /\ snap'.message[m].talk = c
    BY <1>4, <1>9, FirstMessagesTyped DEF Over
  <2>2. \A u \in DOMAIN snap'.run :
          \/ u \in DOMAIN snap.run /\ u # t /\ snap'.run[u] = snap.run[u]
          \/ u = t /\ snap'.run[u].talk = c
    BY <1>2, <1>4, <1>9 DEF With
  <2>3. talkOf'[t] = c /\ \A u \in Turn \ {t} : talkOf'[u] = talkOf[u]
    BY <1>2 DEF CommandsIInv, HistoryOK
  <2>4. \A m \in DOMAIN snap.message : m[1] \in Turn BY <1>3, MessageKeys
  <2>5. \A u \in DOMAIN snap.run : u \in Turn BY <1>3, FieldsTyped, PartialIs
  <2>6. \A m \in DOMAIN snap.message : m[1] = t => snap.message[m].talk = c
    BY <1>2, FreshTurn DEF CommandsIInv, TurnsOK
  <2> QED BY <2>1, <2>2, <2>3, <2>4, <2>5, <2>6 DEF CommandsIInv, TurnsOK
<1> QED BY <1>8, <1>10, <1>11 DEF CommandsIInv

LEMMA RollbackThreadRunKeeps ==
  ASSUME CommandsIInv, NEW c \in Talk, NEW t \in Turn, RollbackThreadRun(c, t)
  PROVE  CommandsIInv'
<1> DEFINE next == [snap EXCEPT !.message = Without(@, MessagesOf(t)), !.run = Without(@, {t})]
           after == Normalized(next)
           M == DOMAIN snap.message \ DOMAIN after.message
           T == DOMAIN snap.run \ DOMAIN after.run
           db1 == DeleteMessages(rows, M)
           db2 == DeleteRuns(db1, T)
           db == UpdateThread(db2, c, after.thread[c])
<1>1. IF next # snap /\ Valid(next) THEN Become(after, db)
                                    ELSE UNCHANGED <<snap, rows, failed>>
  BY DEF RollbackThreadRun, Process
<1>2. c \in DOMAIN snap.thread /\ UNCHANGED <<home, talkOf>> BY DEF RollbackThreadRun
<1>3. Settled(snap) /\ Typed(snap) /\ snap \in Snapshots BY Before
<1>4. /\ next.message = Without(snap.message, MessagesOf(t))
      /\ next.run = Without(snap.run, {t})
      /\ next.workspace = snap.workspace /\ next.association = snap.association
      /\ next.project = snap.project /\ next.active = snap.active
      /\ next.thread = snap.thread /\ next.draft = snap.draft
      /\ next.work = snap.work /\ next.last = snap.last
  BY <1>3 DEF Snapshots
<1>5. Typed(next)
  <2>1. Without(snap.message, MessagesOf(t)) \in Partial(MessageIds, MessageRecord)
    BY <1>3, FieldsTyped, WithoutTyped
  <2>2. Without(snap.run, {t}) \in Partial(Turn, [talk : Talk]) BY <1>3, FieldsTyped, WithoutTyped
  <2> QED BY <1>3, <2>1, <2>2 DEF Typed, Snapshots
<1> HIDE DEF next
<1>6. /\ after.last = snap.last /\ after.thread = snap.thread
      /\ after.message = next.message /\ after.run = next.run
  <2>1. \A v \in DOMAIN next.last : Leads(next, v) BY <1>3, <1>4 DEF Settled, Leads
  <2> QED BY <1>4, <1>5, <2>1, LastKept, NormalizedIs DEF Typed
<1>7. Mirrors(db, after)
  <2>1. M = DOMAIN snap.message \cap MessagesOf(t) /\ T = DOMAIN snap.run \cap {t}
    BY <1>4, <1>6 DEF Without, Restrict
  <2> HIDE DEF M, T
  <2> DEFINE U == {u \in DOMAIN snap.run : MessagesOf(u) \cap M # {}}
  <2>2. /\ Alters(db1, rows, {"message", "run"})
        /\ db1.message = Without(snap.message, M) /\ db1.run = Without(snap.run, U)
    <3>1. /\ Alters(db1, rows, {"message", "run"})
          /\ db1.message = Without(rows.message, M)
          /\ db1.run = Without(rows.run, {u \in DOMAIN rows.run : MessagesOf(u) \cap M # {}})
      <4>1. IsDatabase(rows) BY Before
      <4> QED BY <4>1, DeleteMessagesIs, Zenon
    <3> HIDE DEF db1
    <3> QED BY <3>1, Before
  <2>3. U \subseteq {t}
    <3>1. \A m : m \in M => m[1] = t BY <1>3, <2>1, MessageKeys
    <3>2. \A u : \A m \in MessagesOf(u) : m[1] = u BY DEF MessagesOf
    <3> QED BY <3>1, <3>2
  <2>4. db1.message = next.message
    <3>1. DOMAIN snap.message \ M = DOMAIN snap.message \ MessagesOf(t) BY <2>1
    <3> HIDE DEF db1
    <3> QED BY <1>4, <2>2, <3>1 DEF Without
  <2> HIDE DEF db1
  <2>5. IsDatabase(db1) BY <2>2 DEF Alters
  <2>6. Alters(db2, db1, {"run"}) /\ db2.run = Without(db1.run, T) BY <2>5, DeleteRunsIs
  <2> HIDE DEF db2
  <2>7. db2.run = next.run
    <3>1. DOMAIN db1.run = DOMAIN snap.run \ U /\ \A u \in DOMAIN db1.run : db1.run[u] = snap.run[u]
      BY <2>2 DEF Without, Restrict
    <3>2. DOMAIN db1.run \ T = DOMAIN snap.run \ {t} BY <2>1, <2>3, <3>1
    <3>3. Without(db1.run, T) = [u \in DOMAIN snap.run \ {t} |-> snap.run[u]]
      BY <3>1, <3>2 DEF Without, Restrict
    <3> QED BY <1>4, <2>6, <3>3 DEF Without, Restrict
  <2>8. IsDatabase(db2) /\ db2.thread = snap.thread BY <2>2, <2>6, Before DEF Alters, Fields
  <2>9. Alters(db, db2, {"thread"}) /\ db.thread = snap.thread
    <3>1. /\ Alters(db, db2, {"thread"})
          /\ db.thread = [d \in DOMAIN db2.thread |-> IF d = c THEN after.thread[c] ELSE db2.thread[d]]
      BY <2>8, UpdateThreadIs
    <3> HIDE DEF db, after
    <3> QED BY <1>2, <1>3, <1>6, <2>8, <3>1, SameThread
  <2> HIDE DEF db
  <2>10. Written(db, next)
    BY <1>4, <2>2, <2>4, <2>6, <2>7, <2>9, Before DEF Alters, Fields, Written
  <2>11. db.last = after.last
    BY <1>6, <2>2, <2>6, <2>9, Before DEF Alters, Fields
  <2> QED BY <1>5, <2>10, <2>11, MirrorsAfter
<1> HIDE DEF db
<1>8. Consistent' /\ (snap' = snap \/ snap' = after)
  BY <1>1, <1>5, <1>7, ProcessKeeps DEF CommandsIInv
<1>9. /\ snap'.thread = snap.thread /\ snap'.draft = snap.draft
      /\ snap'.message = snap.message \/ snap'.message = next.message
      /\ snap'.run = snap.run \/ snap'.run = next.run
  BY <1>4, <1>5, <1>8, After
<1>10. /\ \A m \in DOMAIN next.message :
             m \in DOMAIN snap.message /\ next.message[m] = snap.message[m]
       /\ \A u \in DOMAIN next.run : u \in DOMAIN snap.run /\ next.run[u] = snap.run[u]
  BY <1>4 DEF Without, Restrict
<1>11. /\ \A m \in DOMAIN snap'.message :
             m \in DOMAIN snap.message /\ snap'.message[m].talk = snap.message[m].talk
       /\ \A u \in DOMAIN snap'.run : u \in DOMAIN snap.run /\ snap'.run[u].talk = snap.run[u].talk
  BY <1>9, <1>10
<1> QED BY <1>2, <1>8, <1>9, <1>11, HistoryKept

\* A thread is replaced by one in the same place, and remembered as before.
LEMMA ReplaceThreadKeeps ==
  ASSUME CommandsIInv, NEW c \in DOMAIN snap.thread, NEW thread,
         thread \in ThreadRecord,
         thread.at = snap.thread[c].at, thread.archived => snap.thread[c].archived,
         ReplaceThread(c, thread)
  PROVE  CommandsIInv'
<1> DEFINE next == [snap EXCEPT !.thread[c] = thread]
           after == Normalized(next)
           db == UpdateThread(rows, c, after.thread[c])
<1>1. IF next # snap /\ Valid(next) THEN Become(after, db)
                                    ELSE UNCHANGED <<snap, rows, failed>>
  BY DEF ReplaceThread, Process
<1>2. UNCHANGED <<home, talkOf>> BY DEF ReplaceThread
<1>3. Settled(snap) /\ Typed(snap) /\ snap \in Snapshots BY Before
<1>4. /\ next.thread = [snap.thread EXCEPT ![c] = thread]
      /\ next.workspace = snap.workspace /\ next.association = snap.association
      /\ next.project = snap.project /\ next.active = snap.active
      /\ next.draft = snap.draft /\ next.message = snap.message
      /\ next.run = snap.run /\ next.work = snap.work /\ next.last = snap.last
  BY <1>3 DEF Snapshots
<1>5. /\ DOMAIN next.thread = DOMAIN snap.thread /\ next.thread[c] = thread
      /\ \A d \in DOMAIN snap.thread \ {c} : next.thread[d] = snap.thread[d]
  <2>1. snap.thread = [d \in DOMAIN snap.thread |-> snap.thread[d]] BY <1>3, FieldsTyped, PartialIs
  <2> HIDE DEF next
  <2> QED BY <1>4, <2>1
<1>6. Typed(next)
  <2>1. [snap.thread EXCEPT ![c] = thread] \in Partial(Talk, ThreadRecord)
    BY <1>3, FieldsTyped, PartialIs
  <2> QED BY <1>3, <2>1 DEF Typed, Snapshots
<1> HIDE DEF next
<1>7. after.last = snap.last /\ after.thread = next.thread
  <2>1. \A v \in DOMAIN next.last : Leads(next, v) BY <1>3, <1>4, <1>5 DEF Settled, Leads
  <2> QED BY <1>4, <1>6, <2>1, LastKept, NormalizedIs DEF Typed
<1>8. Alters(db, rows, {"thread"}) /\ db.thread = next.thread
  <2>1. /\ Alters(db, rows, {"thread"})
        /\ db.thread = [d \in DOMAIN rows.thread |-> IF d = c THEN after.thread[c] ELSE rows.thread[d]]
    BY Before, UpdateThreadIs
  <2>2. next.thread = [d \in DOMAIN snap.thread |-> IF d = c THEN thread ELSE snap.thread[d]]
    BY <1>4, <1>5
  <2> HIDE DEF db, after
  <2> QED BY <1>5, <1>7, <2>1, <2>2, Before
<1> HIDE DEF db
<1>9. Mirrors(db, after)
  <2>1. Written(db, next) BY <1>4, <1>8, Before DEF Alters, Fields, Written
  <2>2. db.last = after.last BY <1>7, <1>8, Before DEF Alters, Fields
  <2> QED BY <1>6, <2>1, <2>2, MirrorsAfter
<1>10. Consistent' /\ (snap' = snap \/ snap' = after)
  BY <1>1, <1>6, <1>9, ProcessKeeps DEF CommandsIInv
<1> QED BY <1>2, <1>4, <1>5, <1>6, <1>10, ConversationsKept DEF Typed

LEMMA ArchiveThreadKeeps ==
  ASSUME CommandsIInv, NEW c \in Talk, ArchiveThread(c)
  PROVE  CommandsIInv'
<1> DEFINE At(last) == {w \in DOMAIN last : w = snap.thread[c].at[1] /\ last[w] = c}
           next == [snap EXCEPT !.thread[c].archived = TRUE, !.last = Without(@, At(@))]
           after == Normalized(next)
           db1 == UpdateThread(rows, c, after.thread[c])
           db == [db1 EXCEPT !.last = Without(@, At(snap.last))]
<1>1. IF next # snap /\ Valid(next) THEN Become(after, db)
                                    ELSE UNCHANGED <<snap, rows, failed>>
  BY DEF ArchiveThread, Process
<1>2. c \in DOMAIN snap.thread /\ UNCHANGED <<home, talkOf>> BY DEF ArchiveThread
<1>3. Settled(snap) /\ Typed(snap) /\ snap \in Snapshots BY Before
<1> DEFINE thread == [snap.thread[c] EXCEPT !.archived = TRUE]
<1>4. /\ next.thread = [snap.thread EXCEPT ![c] = thread]
      /\ next.last = Without(snap.last, At(snap.last))
      /\ next.workspace = snap.workspace /\ next.association = snap.association
      /\ next.project = snap.project /\ next.active = snap.active
      /\ next.draft = snap.draft /\ next.message = snap.message
      /\ next.run = snap.run /\ next.work = snap.work
  BY <1>3 DEF Snapshots
<1>5. thread \in ThreadRecord BY <1>2, <1>3, ThreadTyped DEF ThreadRecord
<1>6. Typed(next)
  <2>1. [snap.thread EXCEPT ![c] = thread] \in Partial(Talk, ThreadRecord)
    BY <1>3, <1>5, FieldsTyped, PartialIs
  <2>2. Without(snap.last, At(snap.last)) \in Partial(Workspace, Talk)
    BY <1>3, FieldsTyped, WithoutTyped
  <2>3. next = [snap EXCEPT !.thread = [snap.thread EXCEPT ![c] = thread],
                            !.last = Without(snap.last, At(snap.last))]
    BY <1>3 DEF Snapshots
  <2> HIDE DEF next, thread, At
  <2> QED BY <1>3, <2>1, <2>2, <2>3 DEF Typed, Snapshots
<1> HIDE DEF next, thread
<1>7. /\ DOMAIN next.thread = DOMAIN snap.thread /\ next.thread[c] = thread
      /\ \A d \in DOMAIN snap.thread \ {c} : next.thread[d] = snap.thread[d]
  <2>1. snap.thread = [d \in DOMAIN snap.thread |-> snap.thread[d]] BY <1>3, FieldsTyped, PartialIs
  <2> QED BY <1>2, <1>4, <2>1
<1>8. after.last = next.last /\ after.thread = next.thread
  <2>1. ASSUME NEW v \in DOMAIN next.last
        PROVE  Leads(next, v)
    <3>1. v \in DOMAIN snap.last /\ v \notin At(snap.last) /\ next.last[v] = snap.last[v]
      BY <1>4, <2>1 DEF Without, Restrict
    <3>2. Leads(snap, v) BY <1>3, <3>1 DEF Settled
    <3>3. next.last[v] # c BY <3>1, <3>2 DEF Leads
    <3> QED BY <1>4, <1>7, <3>1, <3>2, <3>3 DEF Leads
  <2> QED BY <1>6, <2>1, LastKept, NormalizedIs DEF Typed
<1>9. Alters(db1, rows, {"thread"}) /\ db1.thread = next.thread
  <2>1. /\ Alters(db1, rows, {"thread"})
        /\ db1.thread = [d \in DOMAIN rows.thread |-> IF d = c THEN after.thread[c] ELSE rows.thread[d]]
    BY Before, UpdateThreadIs
  <2>2. next.thread = [d \in DOMAIN snap.thread |-> IF d = c THEN thread ELSE snap.thread[d]]
    BY <1>4, <1>7
  <2> HIDE DEF db1, after
  <2> QED BY <1>7, <1>8, <2>1, <2>2, Before
<1> HIDE DEF db1, At
<1>10. Alters(db, rows, {"thread", "last"}) /\ db.thread = next.thread /\ db.last = next.last
  <2>1. IsDatabase(db1) /\ db1.last = snap.last BY <1>9, Before DEF Alters, Fields
  <2>2. IsDatabase(db) BY <2>1, StaysDatabase
  <2> QED BY <1>4, <1>9, <2>1, <2>2 DEF Alters, Fields, IsDatabase
<1> HIDE DEF db
<1>11. Mirrors(db, after)
  <2>1. Written(db, next) BY <1>4, <1>10, Before DEF Alters, Fields, Written
  <2> QED BY <1>6, <1>8, <1>10, <2>1, MirrorsAfter
<1>12. Consistent' /\ (snap' = snap \/ snap' = after)
  BY <1>1, <1>6, <1>11, ProcessKeeps DEF CommandsIInv
<1> QED BY <1>2, <1>4, <1>6, <1>7, <1>12, ConversationsKept DEF Typed

LEMMA RestoreThreadKeeps ==
  ASSUME CommandsIInv, NEW c \in Talk, RestoreThread(c)
  PROVE  CommandsIInv'
<1> DEFINE thread == [snap.thread[c] EXCEPT !.archived = FALSE]
<1>1. c \in DOMAIN snap.thread /\ ReplaceThread(c, thread) BY DEF RestoreThread
<1>2. snap \in Snapshots BY Before
<1>3. snap.thread[c] \in ThreadRecord BY <1>1, <1>2, ThreadTyped
<1>4. /\ thread \in ThreadRecord
      /\ thread.at = snap.thread[c].at /\ ~thread.archived
  BY <1>3 DEF ThreadRecord
<1> HIDE DEF thread
<1> QED BY <1>1, <1>4, ReplaceThreadKeeps

LEMMA SetAutomaticThreadTitleKeeps ==
  ASSUME CommandsIInv, NEW c \in Talk, SetAutomaticThreadTitle(c)
  PROVE  CommandsIInv'
<1> DEFINE thread == [snap.thread[c] EXCEPT !.title = "automatic"]
<1>1. c \in DOMAIN snap.thread /\ ~snap.thread[c].archived /\ ReplaceThread(c, thread)
  BY DEF SetAutomaticThreadTitle
<1>2. snap \in Snapshots BY Before
<1>3. snap.thread[c] \in ThreadRecord BY <1>1, <1>2, ThreadTyped
<1>4. /\ thread \in ThreadRecord
      /\ thread.at = snap.thread[c].at /\ ~thread.archived
  BY <1>1, <1>3 DEF ThreadRecord
<1> HIDE DEF thread
<1> QED BY <1>1, <1>4, ReplaceThreadKeeps

LEMMA UpdateThreadWorkKeeps ==
  ASSUME CommandsIInv, NEW c \in Talk, NEW work \in {None, "auto"}, UpdateThreadWork(c, work)
  PROVE  CommandsIInv'
<1> DEFINE queue == IF work = None THEN Without(snap.work, {c}) ELSE With(snap.work, c, work)
           next == [snap EXCEPT !.work = queue]
           after == Normalized(next)
           db == [rows EXCEPT !.work = IF c \in DOMAIN after.work
                                       THEN With(@, c, "confirm") ELSE Without(@, {c})]
<1>1. IF next # snap /\ Valid(next) THEN Become(after, db)
                                    ELSE UNCHANGED <<snap, rows, failed>>
  BY DEF UpdateThreadWork, Process
<1>2. UNCHANGED <<home, talkOf>> BY DEF UpdateThreadWork
<1>3. Settled(snap) /\ Typed(snap) /\ snap \in Snapshots BY Before
<1>4. /\ next.work = queue
      /\ next.workspace = snap.workspace /\ next.association = snap.association
      /\ next.project = snap.project /\ next.active = snap.active
      /\ next.thread = snap.thread /\ next.draft = snap.draft /\ next.message = snap.message
      /\ next.run = snap.run /\ next.last = snap.last
  BY <1>3 DEF Snapshots
<1>5. Typed(next)
  <2>1. queue \in Partial(Talk, {"auto", "confirm"})
    BY <1>3, FieldsTyped, WithTyped, WithoutTyped
  <2> HIDE DEF queue
  <2> QED BY <1>3, <2>1 DEF Typed, Snapshots
<1> HIDE DEF next
<1>6. after.last = snap.last /\ after.work = queue
  <2>1. \A v \in DOMAIN next.last : Leads(next, v) BY <1>3, <1>4 DEF Settled, Leads
  <2> QED BY <1>4, <1>5, <2>1, LastKept, NormalizedIs DEF Typed
<1>7. db.work = [d \in DOMAIN queue |-> "confirm"]
  <2>1. db.work = IF c \in DOMAIN queue THEN With(rows.work, c, "confirm") ELSE Without(rows.work, {c})
    BY <1>6, Before DEF IsDatabase, Fields
  <2> HIDE DEF db
  <2>2. CASE work = None
    <3>1. queue = Without(snap.work, {c}) BY <2>2
    <3> HIDE DEF queue
    <3>2. c \notin DOMAIN queue BY <3>1 DEF Without, Restrict
    <3> QED BY <2>1, <3>1, <3>2, Before DEF Without, Restrict
  <2>3. CASE work # None
    <3>1. queue = With(snap.work, c, work) BY <2>3
    <3> HIDE DEF queue
    <3>2. c \in DOMAIN queue BY <3>1 DEF With
    <3> QED BY <2>1, <3>1, <3>2, Before DEF With
  <2> QED BY <2>2, <2>3
<1>8. Alters(db, rows, {"work"})
  BY Before, StaysDatabase DEF Alters, Fields, IsDatabase
<1> HIDE DEF db, queue
<1>9. Mirrors(db, after)
  <2>1. Written(db, next) BY <1>4, <1>7, <1>8, Before DEF Alters, Fields, Written
  <2>2. db.last = after.last BY <1>6, <1>8, Before DEF Alters, Fields
  <2> QED BY <1>5, <2>1, <2>2, MirrorsAfter
<1>10. Consistent' /\ (snap' = snap \/ snap' = after)
  BY <1>1, <1>5, <1>9, ProcessKeeps DEF CommandsIInv
<1> QED BY <1>2, <1>4, <1>5, <1>10, ConversationsKept DEF Typed

-----------------------------------------------------------------------------
(* Content. *)

LEMMA ReconciledIs ==
  ASSUME NEW m, NEW message
  PROVE  \/ Reconciled(m, message) = message
         \/ m \in DOMAIN snap.message /\ Reconciled(m, message) = snap.message[m]
BY DEF Reconciled

\* What a window sends and deletes is in the conversation it names.
LEMMA UpdateThreadContentKeeps ==
  ASSUME CommandsIInv, NEW c \in Talk, NEW deleteIds,
         NEW messages \in Partial(MessageIds, MessageRecord),
         \A m \in DOMAIN messages : messages[m].talk = c,
         \A m \in DOMAIN messages \cup deleteIds :
           m \in DOMAIN snap.message => snap.message[m].talk = c,
         UpdateThreadContent(c, messages, deleteIds)
  PROVE  /\ Consistent'
         /\ snap'.thread = snap.thread /\ snap'.draft = snap.draft /\ snap'.run = snap.run
         /\ \A m \in DOMAIN snap'.message :
              \/ m \in DOMAIN snap.message /\ snap'.message[m].talk = snap.message[m].talk
              \/ m \in DOMAIN messages /\ snap'.message[m].talk = c
<1> DEFINE kept == Without(messages, deleteIds)
           sent == [m \in DOMAIN kept |-> Reconciled(m, kept[m])]
           next == [snap EXCEPT !.message = Over(sent, Without(@, deleteIds))]
           after == Normalized(next)
           own == OfTalks(snap.message, {c})
           now == Restrict(after.message, OfTalks(after.message, {c}))
           gone == own \ DOMAIN now
           db1 == DeleteMessages(rows, gone)
           new == Without(now, own)
           db2 == InsertMessages(db1, new)
           db == UpdateMessages(db2, now)
<1>1. IF next # snap /\ Valid(next) THEN Become(after, db)
                                    ELSE UNCHANGED <<snap, rows, failed>>
  BY DEF UpdateThreadContent, Process
<1>2. c \in DOMAIN snap.thread BY DEF UpdateThreadContent
<1>3. Settled(snap) /\ Typed(snap) /\ snap \in Snapshots BY Before
<1>4. /\ next.message = Over(sent, Without(snap.message, deleteIds))
      /\ next.workspace = snap.workspace /\ next.association = snap.association
      /\ next.project = snap.project /\ next.active = snap.active
      /\ next.thread = snap.thread /\ next.draft = snap.draft
      /\ next.run = snap.run /\ next.work = snap.work /\ next.last = snap.last
  BY <1>3 DEF Snapshots
<1>5. DOMAIN sent = DOMAIN messages \ deleteIds BY DEF Without, Restrict
<1>6. \A m \in DOMAIN sent : sent[m] \in MessageRecord /\ sent[m].talk = c
  <2>1. ASSUME NEW m \in DOMAIN messages \ deleteIds
        PROVE  sent[m] \in MessageRecord /\ sent[m].talk = c
    <3>1. kept[m] = messages[m] /\ sent[m] = Reconciled(m, kept[m]) BY DEF Without, Restrict
    <3>2. messages[m] \in MessageRecord BY PartialIs
    <3>3. m \in DOMAIN snap.message => snap.message[m] \in MessageRecord
      BY <1>3, FieldsTyped, PartialIs
    <3> HIDE DEF kept, sent
    <3> QED BY <3>1, <3>2, <3>3, ReconciledIs
  <2> HIDE DEF sent
  <2> QED BY <1>5, <2>1
<1>7. sent \in Partial(MessageIds, MessageRecord)
  <2>1. DOMAIN messages \subseteq MessageIds BY PartialIs
  <2>2. sent = [m \in DOMAIN sent |-> sent[m]] OBVIOUS
  <2> HIDE DEF sent
  <2> QED BY <1>5, <1>6, <2>1, <2>2, PartialIs
<1> HIDE DEF sent
<1>8. Typed(next)
  <2>1. Over(sent, Without(snap.message, deleteIds)) \in Partial(MessageIds, MessageRecord)
    BY <1>3, <1>7, FieldsTyped, WithoutTyped, OverTyped
  <2> QED BY <1>3, <2>1 DEF Typed, Snapshots
<1> HIDE DEF next
<1>9. after.last = snap.last /\ after.message = next.message
  <2>1. \A v \in DOMAIN next.last : Leads(next, v) BY <1>3, <1>4 DEF Settled, Leads
  <2> QED BY <1>4, <1>8, <2>1, LastKept, NormalizedIs DEF Typed
<1>10. /\ DOMAIN next.message = DOMAIN sent \cup (DOMAIN snap.message \ deleteIds)
       /\ \A m \in DOMAIN sent : next.message[m] = sent[m]
       /\ \A m \in (DOMAIN snap.message \ deleteIds) \ DOMAIN sent : next.message[m] = snap.message[m]
  BY <1>4 DEF Over, Without, Restrict
<1>11. ASSUME Valid(next)
       PROVE  Mirrors(db, after)
  <2>1. /\ DOMAIN now = {m \in DOMAIN next.message : next.message[m].talk = c}
        /\ \A m \in DOMAIN now : now[m] = next.message[m]
    BY <1>9 DEF Restrict, OfTalks
  <2>2. own = {m \in DOMAIN snap.message : snap.message[m].talk = c} BY DEF OfTalks
  <2> HIDE DEF now, own
  <2>3. DOMAIN now = DOMAIN sent \cup (own \ deleteIds) BY <1>6, <1>10, <2>1, <2>2
  <2>4. gone = DOMAIN snap.message \cap deleteIds BY <1>5, <2>2, <2>3
  <2> HIDE DEF gone
  <2>5. /\ Alters(db1, rows, {"message", "run"})
        /\ db1.message = Without(snap.message, deleteIds) /\ db1.run = snap.run
    <3>1. /\ Alters(db1, rows, {"message", "run"})
          /\ db1.message = Without(rows.message, gone)
          /\ db1.run = Without(rows.run, {t \in DOMAIN rows.run : MessagesOf(t) \cap gone # {}})
      <4>1. IsDatabase(rows) BY Before
      <4> QED BY <4>1, DeleteMessagesIs, Zenon
    <3> HIDE DEF db1
    <3>2. \A t \in DOMAIN snap.run : MessagesOf(t) \subseteq DOMAIN next.message
      BY <1>4, <1>11 DEF Valid, RunsFit, OfTalks
    <3>3. DOMAIN next.message \cap gone = {} BY <1>5, <1>10, <2>4
    <3>4. {t \in DOMAIN rows.run : MessagesOf(t) \cap gone # {}} = {} BY <3>2, <3>3, Before
    <3>5. DOMAIN snap.message \ gone = DOMAIN snap.message \ deleteIds BY <2>4
    <3>6. Without(snap.run, {}) = snap.run
      <4>1. snap.run = [t \in DOMAIN snap.run |-> snap.run[t]] BY <1>3, FieldsTyped, PartialIs
      <4> QED BY <4>1 DEF Without, Restrict
    <3>7. rows.message = snap.message /\ rows.run = snap.run BY Before
    <3> QED BY <3>1, <3>4, <3>5, <3>6, <3>7 DEF Without
  <2> HIDE DEF db1
  <2>6. IsDatabase(db1) /\ db1.ok /\ db1.thread = snap.thread BY <2>5, Before DEF Alters, Fields
  <2>7. DOMAIN new = DOMAIN sent \ DOMAIN snap.message /\ \A m \in DOMAIN new : new[m] = sent[m]
    <3>1. DOMAIN new = DOMAIN now \ own /\ \A m \in DOMAIN new : new[m] = now[m]
      BY DEF Without, Restrict
    <3> HIDE DEF new
    <3>2. DOMAIN now \ own = DOMAIN sent \ DOMAIN snap.message BY <1>5, <2>2, <2>3
    <3> QED BY <1>10, <2>1, <3>1, <3>2
  <2> HIDE DEF new
  <2>8. /\ DOMAIN new \cap DOMAIN db1.message = {}
        /\ \A m \in DOMAIN new : new[m].talk \in DOMAIN db1.thread
    BY <1>2, <1>6, <2>5, <2>6, <2>7 DEF Without, Restrict
  <2>9. /\ Alters(db2, db1, {"message", "ok"}) /\ db2.ok
        /\ db2.message = Over(new, Without(snap.message, deleteIds))
    BY <2>5, <2>6, <2>8, InsertMessagesIs
  <2> HIDE DEF db2
  <2>10. Alters(db, db2, {"message"}) /\ db.message = next.message
    <3>1. IsDatabase(db2) BY <2>9 DEF Alters
    <3>2. /\ Alters(db, db2, {"message"})
          /\ db.message = [m \in DOMAIN db2.message |-> IF m \in DOMAIN now THEN now[m] ELSE db2.message[m]]
      BY <3>1, UpdateMessagesIs
    <3> HIDE DEF db
    <3>3. DOMAIN db2.message = DOMAIN next.message
      BY <1>5, <1>10, <2>7, <2>9 DEF Over, Without, Restrict
    <3>4. \A m \in DOMAIN db2.message \ DOMAIN now : db2.message[m] = next.message[m]
      <4>1. ASSUME NEW m \in DOMAIN db2.message, m \notin DOMAIN now
            PROVE  db2.message[m] = next.message[m]
        <5>1. m \notin DOMAIN sent /\ m \in DOMAIN snap.message \ deleteIds /\ m \notin DOMAIN new
          BY <1>10, <2>3, <2>7, <3>3, <4>1
        <5> QED BY <1>10, <2>9, <5>1 DEF Over, Without, Restrict
      <4> QED BY <4>1
    <3>5. next.message = [m \in DOMAIN next.message |-> next.message[m]]
      BY <1>8, FieldsTyped, PartialIs DEF Typed
    <3> QED BY <2>1, <3>2, <3>3, <3>4, <3>5
  <2> HIDE DEF db
  <2>11. Written(db, next)
    BY <1>4, <2>5, <2>9, <2>10, Before DEF Alters, Fields, Written
  <2>12. db.last = after.last
    BY <1>9, <2>5, <2>9, <2>10, Before DEF Alters, Fields
  <2> QED BY <1>8, <2>11, <2>12, MirrorsAfter
<1> HIDE DEF db
<1>12. Consistent' /\ (snap' = snap \/ snap' = after)
  BY <1>1, <1>8, <1>11, ProcessKeeps DEF CommandsIInv
<1>13. /\ snap'.thread = snap.thread /\ snap'.draft = snap.draft /\ snap'.run = snap.run
       /\ snap'.message = snap.message \/ snap'.message = next.message
  BY <1>4, <1>8, <1>12, After
<1>14. \A m \in DOMAIN next.message :
         \/ m \in DOMAIN snap.message /\ next.message[m] = snap.message[m]
         \/ m \in DOMAIN messages /\ next.message[m].talk = c
  BY <1>5, <1>6, <1>10
<1> QED BY <1>12, <1>13, <1>14

\* The messages there are of a turn that may take part in a conversation are in it.
LEMMA TurnIsOf ==
  ASSUME CommandsIInv, NEW c, NEW t \in Turn, Fresh(t) \/ talkOf[t] = c
  PROVE  \A m \in MessagesOf(t) : m \in DOMAIN snap.message => snap.message[m].talk = c
<1>1. \A m \in MessagesOf(t) : m[1] = t BY DEF MessagesOf
<1> QED BY <1>1, FreshTurn DEF CommandsIInv, TurnsOK

\* A command on content that gives a turn to a conversation.
LEMMA ContentKept ==
  ASSUME CommandsIInv, Consistent', NEW c \in Talk, NEW t \in Turn, Fresh(t) \/ talkOf[t] = c,
         talkOf' = [talkOf EXCEPT ![t] = c], home' = home,
         snap'.thread = snap.thread, snap'.draft = snap.draft, snap'.run = snap.run,
         \A m \in DOMAIN snap'.message :
           \/ m \in DOMAIN snap.message /\ snap'.message[m].talk = snap.message[m].talk
           \/ m[1] = t /\ snap'.message[m].talk = c
  PROVE  CommandsIInv'
<1>1. snap \in Snapshots BY Before
<1>2. HistoryOK' BY DEF CommandsIInv, HistoryOK
<1>3. talkOf'[t] = c /\ \A u \in Turn \ {t} : talkOf'[u] = talkOf[u]
  BY DEF CommandsIInv, HistoryOK
<1>4. /\ \A m \in DOMAIN snap.message : m[1] \in Turn /\ (m[1] = t => snap.message[m].talk = c)
      /\ \A u \in DOMAIN snap.run : u \in Turn /\ (u = t => snap.run[u].talk = c)
  <2>1. \A m \in DOMAIN snap.message : m[1] \in Turn BY <1>1, MessageKeys
  <2>2. \A u \in DOMAIN snap.run : u \in Turn BY <1>1, FieldsTyped, PartialIs
  <2> QED BY <2>1, <2>2, FreshTurn DEF CommandsIInv, TurnsOK
<1>5. TurnsOK' BY <1>3, <1>4 DEF CommandsIInv, TurnsOK
<1> QED BY <1>2, <1>5 DEF CommandsIInv

LEMMA StreamMessageKeeps ==
  ASSUME CommandsIInv, NEW c \in Talk, NEW t \in Turn, StreamMessage(c, t)
  PROVE  CommandsIInv'
<1>1. PICK events \in 0 .. MaxEvents :
        /\ Fresh(t) \/ talkOf[t] = c
        /\ UpdateThreadContent(c,
             [m \in MessagesOf(t) |-> [talk |-> c, events |-> IF m[2] = "user" THEN 0 ELSE events]], {})
        /\ talkOf' = [talkOf EXCEPT ![t] = c] /\ home' = home
  BY DEF StreamMessage
<1> DEFINE messages == [m \in MessagesOf(t) |->
                          [talk |-> c, events |-> IF m[2] = "user" THEN 0 ELSE events]]
<1>2. messages \in Partial(MessageIds, MessageRecord)
  <2>1. \A m \in MessagesOf(t) : m \in MessageIds BY DEF MessagesOf, MessageIds
  <2>2. events \in Nat BY BoundsAssumption
  <2> QED BY <2>1, <2>2, PartialIs DEF MessageRecord
<1>3. DOMAIN messages = MessagesOf(t) /\ \A m \in MessagesOf(t) : messages[m].talk = c OBVIOUS
<1>4. UpdateThreadContent(c, messages, {}) BY <1>1
<1> HIDE DEF messages
<1>5. \A m \in DOMAIN messages \cup {} : m \in DOMAIN snap.message => snap.message[m].talk = c
  BY <1>1, <1>3, TurnIsOf
<1>6. /\ Consistent'
      /\ snap'.thread = snap.thread /\ snap'.draft = snap.draft /\ snap'.run = snap.run
      /\ \A m \in DOMAIN snap'.message :
           \/ m \in DOMAIN snap.message /\ snap'.message[m].talk = snap.message[m].talk
           \/ m \in DOMAIN messages /\ snap'.message[m].talk = c
  BY <1>2, <1>3, <1>4, <1>5, UpdateThreadContentKeeps
<1>7. \A m \in DOMAIN messages : m[1] = t BY <1>3 DEF MessagesOf
<1> QED BY <1>1, <1>6, <1>7, ContentKept

LEMMA RemoveMessagesKeeps ==
  ASSUME CommandsIInv, NEW c \in Talk, NEW t \in Turn, RemoveMessages(c, t)
  PROVE  CommandsIInv'
<1>1. /\ talkOf[t] = c /\ UNCHANGED <<home, talkOf>>
      /\ UpdateThreadContent(c, <<>>, MessagesOf(t))
  BY DEF RemoveMessages
<1>2. DOMAIN <<>> = {} /\ <<>> \in Partial(MessageIds, MessageRecord) BY NothingTyped
<1>3. \A m \in DOMAIN <<>> \cup MessagesOf(t) : m \in DOMAIN snap.message => snap.message[m].talk = c
  BY <1>1, <1>2, TurnIsOf
<1>4. /\ Consistent'
      /\ snap'.thread = snap.thread /\ snap'.draft = snap.draft /\ snap'.run = snap.run
      /\ \A m \in DOMAIN snap'.message :
           \/ m \in DOMAIN snap.message /\ snap'.message[m].talk = snap.message[m].talk
           \/ m \in DOMAIN <<>> /\ snap'.message[m].talk = c
  BY <1>1, <1>2, <1>3, UpdateThreadContentKeeps
<1> QED BY <1>1, <1>2, <1>4, HistoryKept

LEMMA EditAndResendKeeps ==
  ASSUME CommandsIInv, NEW c \in Talk, NEW t \in Turn, NEW u \in Turn, EditAndResend(c, t, u)
  PROVE  CommandsIInv'
<1> DEFINE deleteIds == {m \in OfTalks(snap.message, {c}) : m[1] > t} \cup {<<t, "assistant">>}
           messages == [m \in {<<u, "assistant">>} |-> [talk |-> c, events |-> 0]]
<1>1. /\ <<t, "user">> \in OfTalks(snap.message, {c}) /\ Fresh(u)
      /\ UpdateThreadContent(c, messages, deleteIds)
      /\ talkOf' = [talkOf EXCEPT ![u] = c] /\ home' = home
  BY DEF EditAndResend
<1>2. messages \in Partial(MessageIds, MessageRecord)
  <2>1. {<<u, "assistant">>} \subseteq MessageIds BY DEF MessageIds
  <2>2. [talk |-> c, events |-> 0] \in MessageRecord BY DEF MessageRecord
  <2> QED BY <2>1, <2>2, PartialIs
<1>3. DOMAIN messages = {<<u, "assistant">>} /\ \A m \in DOMAIN messages : messages[m].talk = c
  OBVIOUS
<1>4. <<u, "assistant">> \in MessagesOf(u) /\ <<t, "assistant">> \in MessagesOf(t)
  BY DEF MessagesOf
<1>5. talkOf[t] = c
  <2>1. <<t, "user">>[1] = t OBVIOUS
  <2> QED BY <1>1, <2>1 DEF CommandsIInv, TurnsOK, OfTalks
<1>6. \A m \in DOMAIN messages \cup deleteIds : m \in DOMAIN snap.message => snap.message[m].talk = c
  <2>1. \A m \in OfTalks(snap.message, {c}) : snap.message[m].talk = c BY DEF OfTalks
  <2>2. \A m \in {<<u, "assistant">>, <<t, "assistant">>} :
          m \in DOMAIN snap.message => snap.message[m].talk = c
    BY <1>1, <1>4, <1>5, TurnIsOf
  <2> HIDE DEF messages
  <2> QED BY <1>3, <2>1, <2>2
<1> HIDE DEF messages, deleteIds
<1>7. /\ Consistent'
      /\ snap'.thread = snap.thread /\ snap'.draft = snap.draft /\ snap'.run = snap.run
      /\ \A m \in DOMAIN snap'.message :
           \/ m \in DOMAIN snap.message /\ snap'.message[m].talk = snap.message[m].talk
           \/ m \in DOMAIN messages /\ snap'.message[m].talk = c
  BY <1>1, <1>2, <1>3, <1>6, UpdateThreadContentKeeps
<1>8. \A m \in DOMAIN messages : m[1] = u BY <1>3
<1> QED BY <1>1, <1>7, <1>8, ContentKept

-----------------------------------------------------------------------------
(* Orders. *)

LEMMA IntervalCounts ==
  ASSUME NEW n \in Nat
  PROVE  IsFiniteSet(0 .. n - 1) /\ Cardinality(0 .. n - 1) = n
<1>1. 0 \in Int /\ n - 1 \in Int OBVIOUS
<1>2. IsFiniteSet(0 .. n - 1) BY <1>1, FS_Interval
<1>3. Cardinality(0 .. n - 1) = IF 0 > n - 1 THEN 0 ELSE (n - 1) - 0 + 1 BY <1>1, FS_Interval
<1> QED BY <1>2, <1>3

\* n orders that are 0 to n-1 are different.
LEMMA OrdersDiffer ==
  ASSUME NEW f, NEW S, S \subseteq DOMAIN f, IsFiniteSet(S), Contiguous(f, S)
  PROVE  /\ \A x \in S : f[x] \in Nat
         /\ \A x, y \in S : f[x] = f[y] => x = y
<1> DEFINE n == Cardinality(S)
           T == 0 .. n - 1
           g == [x \in S |-> f[x]]
<1>1. n \in Nat BY FS_CardinalityType
<1> HIDE DEF n
<1>2. Cardinality(T) = n BY <1>1, IntervalCounts
<1>3. {f[x] : x \in S} = T BY DEF Contiguous, n
<1>4. g \in Surjection(S, T)
  <2>1. g \in [S -> T] BY <1>3
  <2>2. \A z \in T : \E x \in S : g[x] = z BY <1>3
  <2> QED BY <2>1, <2>2 DEF Surjection
<1>5. g \in Injection(S, T) BY <1>2, <1>4, FS_SurjSameCardinalityImpliesInj DEF n
<1>6. \A x, y \in S : g[x] = g[y] => x = y BY <1>5 DEF Injection, IsInjective
<1>7. \A x \in S : f[x] \in Nat BY <1>1, <1>3
<1> QED BY <1>6, <1>7

\* A rank among n different numbers is one of 0 to n-1, and each is a rank.
LEMMA RanksContiguous ==
  ASSUME NEW f, NEW S, S \subseteq DOMAIN f, IsFiniteSet(S),
         \A x \in S : f[x] \in Nat, \A x, y \in S : f[x] = f[y] => x = y
  PROVE  Contiguous(Reindexed(f, S), S)
<1> DEFINE n == Cardinality(S)
           T == 0 .. n - 1
           Below(x) == {y \in S : f[y] < f[x]}
           r == [x \in S |-> Cardinality(Below(x))]
<1>1. n \in Nat BY FS_CardinalityType
<1>2. IsFiniteSet(T) /\ Cardinality(T) = n BY <1>1, IntervalCounts
<1>3. \A x \in S : IsFiniteSet(Below(x)) /\ Cardinality(Below(x)) \in Nat
  BY FS_Subset, FS_CardinalityType
<1>4. \A x \in S : Cardinality(Below(x)) \in T
  <2>1. ASSUME NEW x \in S
        PROVE  Cardinality(Below(x)) \in T
    <3>1. Below(x) \subseteq S \ {x} BY <2>1
    <3>2. IsFiniteSet(S \ {x}) /\ Cardinality(S \ {x}) = n - 1 BY FS_RemoveElement
    <3>3. Cardinality(Below(x)) <= n - 1 BY <3>1, <3>2, FS_Subset
    <3> QED BY <1>1, <1>3, <3>3
  <2> QED BY <2>1
<1>5. \A x, y \in S : f[x] < f[y] => Cardinality(Below(x)) < Cardinality(Below(y))
  <2>1. ASSUME NEW x \in S, NEW y \in S, f[x] < f[y]
        PROVE  Cardinality(Below(x)) < Cardinality(Below(y))
    <3>1. Below(x) \in SUBSET Below(y) BY <2>1
    <3>2. x \in Below(y) /\ x \notin Below(x) BY <2>1
    <3>3. /\ Cardinality(Below(x)) <= Cardinality(Below(y))
          /\ Cardinality(Below(y)) = Cardinality(Below(x)) => Below(y) = Below(x)
      BY <1>3, <3>1, FS_Subset
    <3>4. Cardinality(Below(x)) \in Nat /\ Cardinality(Below(y)) \in Nat BY <1>3
    <3> HIDE DEF Below
    <3> QED BY <3>2, <3>3, <3>4
  <2> QED BY <2>1
<1> HIDE DEF n, Below
<1>6. r \in Injection(S, T)
  <2>1. r \in [S -> T] BY <1>4
  <2>2. \A x, y \in S : r[x] = r[y] => x = y
    <3>1. ASSUME NEW x \in S, NEW y \in S, x # y
          PROVE  r[x] # r[y]
      <4>1. f[x] < f[y] \/ f[y] < f[x] BY <3>1
      <4> QED BY <1>3, <1>5, <4>1
    <3> QED BY <3>1
  <2> QED BY <2>1, <2>2 DEF Injection, IsInjective
<1>7. r \in Surjection(S, T) BY <1>2, <1>6, FS_Injection DEF n
<1>8. {r[x] : x \in S} = T
  <2>1. \A z \in T : \E x \in S : r[x] = z BY <1>7 DEF Surjection
  <2>2. \A x \in S : r[x] \in T BY <1>4
  <2> HIDE DEF r
  <2> QED BY <2>1, <2>2
<1>9. \A x \in S : Reindexed(f, S)[x] = r[x] BY DEF Reindexed, Below
<1> HIDE DEF r
<1>10. {Reindexed(f, S)[x] : x \in S} = {r[x] : x \in S} BY <1>9
<1> QED BY <1>8, <1>10 DEF Contiguous, n

\* Orders without gaps are their own ranks.
LEMMA RanksKept ==
  ASSUME NEW f, f = [x \in DOMAIN f |-> f[x]], IsFiniteSet(DOMAIN f), Contiguous(f, DOMAIN f)
  PROVE  Reindexed(f, DOMAIN f) = f
<1> DEFINE S == DOMAIN f
<1>1. Cardinality(S) \in Nat BY FS_CardinalityType
<1>2. {f[x] : x \in S} = 0 .. Cardinality(S) - 1 BY DEF Contiguous
<1>3. (\A x \in S : f[x] \in Nat) /\ (\A x, y \in S : f[x] = f[y] => x = y) BY OrdersDiffer
<1>4. ASSUME NEW x \in S
      PROVE  Cardinality({y \in S : f[y] < f[x]}) = f[x]
  <2> DEFINE k == f[x]
             A == {y \in S : f[y] < k}
             T == 0 .. k - 1
             h == [y \in A |-> f[y]]
  <2>1. k \in Nat BY <1>3, <1>4
  <2> HIDE DEF k
  <2>2. IsFiniteSet(T) /\ Cardinality(T) = k BY <2>1, IntervalCounts
  <2>3. h \in Injection(A, T)
    <3>1. h \in [A -> T] BY <1>3, <2>1
    <3>2. \A y, z \in A : h[y] = h[z] => y = z BY <1>3
    <3> QED BY <3>1, <3>2 DEF Injection, IsInjective
  <2>4. h \in Surjection(A, T)
    <3>1. ASSUME NEW j \in T
          PROVE  \E y \in A : h[y] = j
      <4>1. k \in 0 .. Cardinality(S) - 1 BY <1>2, <1>4 DEF k
      <4>2. j \in 0 .. Cardinality(S) - 1 /\ j < k
        <5> HIDE DEF S
        <5> QED BY <1>1, <2>1, <4>1
      <4>3. PICK y \in S : f[y] = j BY <1>2, <4>2
      <4> QED BY <4>2, <4>3
    <3>2. h \in [A -> T] BY <2>3 DEF Injection, IsInjective
    <3> HIDE DEF h, A, T
    <3> QED BY <3>1, <3>2 DEF Surjection
  <2>5. Cardinality(A) = Cardinality(T) BY <2>2, <2>3, <2>4, FS_Injection
  <2> QED BY <2>2, <2>5 DEF k
<1>5. Reindexed(f, S) = [x \in S |-> Cardinality({y \in S : f[y] < f[x]})] BY DEF Reindexed
<1> QED BY <1>4, <1>5

-----------------------------------------------------------------------------
(* What the database loads. *)

LEMMA SameSnapshot ==
  ASSUME NEW s \in Snapshots, NEW z \in Snapshots,
         s.workspace = z.workspace, s.association = z.association, s.project = z.project,
         s.thread = z.thread, s.draft = z.draft, s.message = z.message, s.run = z.run,
         s.work = z.work, s.last = z.last, s.active = z.active
  PROVE  s = z
BY DEF Snapshots

LEMMA ConfirmedIs ==
  ASSUME NEW s \in Snapshots
  PROVE  /\ Confirmed(s) \in Snapshots
         /\ Confirmed(s).workspace = s.workspace
         /\ Confirmed(s).association = s.association
         /\ Confirmed(s).project = s.project
         /\ Confirmed(s).thread = s.thread
         /\ Confirmed(s).draft = s.draft
         /\ Confirmed(s).message = s.message
         /\ Confirmed(s).run = s.run
         /\ Confirmed(s).work = [c \in DOMAIN s.work |-> "confirm"]
         /\ Confirmed(s).last = s.last
         /\ Confirmed(s).active = s.active
<1>1. [c \in DOMAIN s.work |-> "confirm"] \in Partial(Talk, {"auto", "confirm"})
  BY FieldsTyped, PartialIs
<1> QED BY <1>1 DEF Snapshots, Confirmed

LEMMA NormalizedSame ==
  ASSUME NEW s, Settled(s)
  PROVE  Normalized(s) = s
<1>1. s \in Snapshots BY DEF Settled, Typed
<1>2. Normalized(s).last = s.last BY <1>1, LastKept DEF Settled
<1>3. Normalized(s) \in Snapshots BY <1>1, NormalizedIs
<1> DEFINE n == Normalized(s)
<1>4. /\ n.workspace = s.workspace /\ n.association = s.association /\ n.project = s.project
      /\ n.thread = s.thread /\ n.draft = s.draft /\ n.message = s.message /\ n.run = s.run
      /\ n.work = s.work /\ n.active = s.active
  BY <1>1, NormalizedIs
<1> HIDE DEF n
<1> QED BY <1>1, <1>2, <1>3, <1>4, SameSnapshot DEF n

LEMMA ConfirmedSettled ==
  ASSUME NEW s, Settled(s)
  PROVE  Settled(Confirmed(s))
<1> DEFINE z == Confirmed(s)
<1>1. s \in Snapshots BY DEF Settled, Typed
<1>2. /\ z \in Snapshots
      /\ z.workspace = s.workspace /\ z.association = s.association /\ z.project = s.project
      /\ z.thread = s.thread /\ z.draft = s.draft /\ z.message = s.message /\ z.run = s.run
      /\ DOMAIN z.work = DOMAIN s.work /\ z.last = s.last /\ z.active = s.active
  BY <1>1, ConfirmedIs
<1> HIDE DEF z
<1>3. Typed(z) BY <1>2 DEF Settled, Typed
<1>4. Valid(z) BY <1>2, ValidAlike DEF Settled
<1>5. \A w \in DOMAIN z.last : Leads(z, w) BY <1>2 DEF Settled, Leads
<1> QED BY <1>3, <1>4, <1>5 DEF Settled, z

LEMMA ConfirmedTwice ==
  ASSUME NEW s \in Snapshots
  PROVE  Confirmed(Confirmed(s)) = Confirmed(s)
<1> DEFINE z == Confirmed(s)
           y == Confirmed(z)
<1>1. z \in Snapshots /\ z.work = [c \in DOMAIN s.work |-> "confirm"] BY ConfirmedIs
<1> HIDE DEF z
<1>2. /\ y \in Snapshots
      /\ y.workspace = z.workspace /\ y.association = z.association /\ y.project = z.project
      /\ y.thread = z.thread /\ y.draft = z.draft /\ y.message = z.message /\ y.run = z.run
      /\ y.last = z.last /\ y.active = z.active
      /\ y.work = [c \in DOMAIN z.work |-> "confirm"]
  BY <1>1, ConfirmedIs
<1> HIDE DEF y
<1>3. y.work = z.work BY <1>1, <1>2
<1>4. y = z BY <1>1, <1>2, <1>3, SameSnapshot
<1> QED BY <1>4 DEF y, z

\* Rows that hold a settled snapshot load as that snapshot.
LEMMA LoadIs ==
  ASSUME NEW s, Settled(s), NEW db, Mirrors(db, s)
  PROVE  Load(db) = Confirmed(s)
<1> DEFINE z == Confirmed(s)
           r == [field \in DOMAIN EmptyState |-> db[field]]
<1>1. s \in Snapshots BY DEF Settled, Typed
<1>2. DOMAIN EmptyState = Fields BY DEF EmptyState, Fields
<1>3. r = [workspace |-> s.workspace, association |-> s.association, project |-> s.project,
           thread |-> s.thread, draft |-> s.draft, message |-> s.message, run |-> s.run,
           work |-> [c \in DOMAIN s.work |-> "confirm"], last |-> s.last, active |-> s.active]
  BY <1>2 DEF Mirrors, Fields
<1>4. z = [workspace |-> s.workspace, association |-> s.association, project |-> s.project,
           thread |-> s.thread, draft |-> s.draft, message |-> s.message, run |-> s.run,
           work |-> [c \in DOMAIN s.work |-> "confirm"], last |-> s.last, active |-> s.active]
  BY <1>1 DEF Snapshots, Confirmed
<1>5. r = z BY <1>3, <1>4
<1>6. Normalized(z) = z BY ConfirmedSettled, NormalizedSame
<1>7. Confirmed(z) = z BY <1>1, ConfirmedTwice
<1> QED BY <1>5, <1>6, <1>7 DEF Load

\* Rows do not say whether a queued message waited before.
LEMMA MirrorsConfirmed ==
  ASSUME NEW s \in Snapshots, NEW db, Mirrors(db, s)
  PROVE  Mirrors(db, Confirmed(s))
<1> DEFINE z == Confirmed(s)
<1>1. /\ z.workspace = s.workspace /\ z.association = s.association /\ z.project = s.project
      /\ z.thread = s.thread /\ z.draft = s.draft /\ z.message = s.message /\ z.run = s.run
      /\ DOMAIN z.work = DOMAIN s.work /\ z.last = s.last /\ z.active = s.active
  BY ConfirmedIs
<1> HIDE DEF z
<1>2. Mirrors(db, z) BY <1>1 DEF Mirrors
<1> QED BY <1>2 DEF z

LEMMA RestartLoads ==
  ASSUME CommandsIInv
  PROVE  RestartLoadsSnapshot
BY Before, LoadIs DEF RestartLoadsSnapshot

LEMMA RestartKeeps ==
  ASSUME CommandsIInv, Restart
  PROVE  CommandsIInv'
<1>1. snap' = Confirmed(snap) /\ rows' = rows /\ failed' = failed /\ UNCHANGED <<home, talkOf>>
  BY RestartLoads DEF Restart, RestartLoadsSnapshot
<1>2. Settled(snap') BY <1>1, Before, ConfirmedSettled
<1>3. Mirrors(rows', snap') BY <1>1, Before, MirrorsConfirmed
<1>4. Consistent' BY <1>1, <1>2, <1>3 DEF Consistent, CommandsIInv
<1>5. /\ snap'.draft = snap.draft /\ snap'.thread = snap.thread
      /\ snap'.message = snap.message /\ snap'.run = snap.run
  BY <1>1, Before, ConfirmedIs
<1> QED BY <1>1, <1>4, <1>5, HistoryKept

-----------------------------------------------------------------------------
(* The deletion of the snapshot leaves a settled snapshot. *)

GoneWorkspaces(scope) == IF scope.kind = "workspace" THEN {scope.id} ELSE {}

KeptOrders(s, scope) ==
  LET kept == Without(s.association, Covered(s, scope))
  IN  IF scope.kind = "association"
      THEN Reindexed(kept, {k \in DOMAIN kept : k[1] = scope.at[1]}) ELSE kept

LEMMA DeletionIs ==
  ASSUME NEW s \in Snapshots, NEW scope
  PROVE  LET a == ApplyThreadDeletion(s, scope)
             C == Named(s, scope)
             K == Covered(s, scope)
             gone == GoneWorkspaces(scope)
         IN  /\ a = [workspace |-> a.workspace, association |-> a.association,
                     project |-> a.project, thread |-> a.thread, draft |-> a.draft,
                     message |-> a.message, run |-> a.run, work |-> a.work,
                     last |-> a.last, active |-> a.active]
             /\ a.thread = Without(s.thread, C) /\ a.draft = Without(s.draft, C)
             /\ a.work = Without(s.work, C)
             /\ a.message = Without(s.message, OfTalks(s.message, C))
             /\ a.run = Without(s.run, OfTalks(s.run, C))
             /\ a.last = Restrict(s.last, {w \in DOMAIN s.last \ gone : s.last[w] \notin C})
             /\ a.association = KeptOrders(s, scope)
             /\ a.project = {p \in s.project : K = {} \/ \E k \in DOMAIN Without(s.association, K) : k[2] = p}
             /\ a.workspace = Reindexed(Without(s.workspace, gone), DOMAIN s.workspace \ gone)
             /\ a.active = IF s.active \in gone THEN Neighbour(s.workspace, s.active) ELSE s.active
<1> DEFINE C == Named(s, scope)
           K == Covered(s, scope)
           gone == GoneWorkspaces(scope)
           kept == Without(s.association, K)
           thread == Without(s.thread, C)
           draft == Without(s.draft, C)
           work == Without(s.work, C)
           message == Without(s.message, OfTalks(s.message, C))
           run == Without(s.run, OfTalks(s.run, C))
           last == Restrict(s.last, {w \in DOMAIN s.last \ gone : s.last[w] \notin C})
           association == KeptOrders(s, scope)
           project == {p \in s.project : K = {} \/ \E k \in DOMAIN kept : k[2] = p}
           workspace == Reindexed(Without(s.workspace, gone), DOMAIN s.workspace \ gone)
           active == IF s.active \in gone THEN Neighbour(s.workspace, s.active) ELSE s.active
<1>1. ApplyThreadDeletion(s, scope) =
        [s EXCEPT !.thread = thread, !.draft = draft, !.work = work, !.message = message,
                  !.run = run, !.last = last, !.association = association, !.project = project,
                  !.workspace = workspace, !.active = active]
  BY Zenon DEF ApplyThreadDeletion, GoneWorkspaces, KeptOrders
<1> HIDE DEF thread, draft, work, message, run, last, association, project, workspace, active
<1>2. ApplyThreadDeletion(s, scope) =
        [workspace |-> workspace, association |-> association, project |-> project,
         thread |-> thread, draft |-> draft, message |-> message, run |-> run, work |-> work,
         last |-> last, active |-> active]
  BY <1>1 DEF Snapshots
<1> QED
  BY <1>2 DEF thread, draft, work, message, run, last, association, project, workspace, active

\* What a scope covers
LEMMA ScopeIs ==
  ASSUME NEW s, Settled(s), NEW scope \in Scope
  PROVE  LET C == Named(s, scope)
             K == Covered(s, scope)
             gone == GoneWorkspaces(scope)
         IN  /\ K \subseteq DOMAIN s.association
             /\ \A c \in DOMAIN s.thread : c \notin C => s.thread[c].at \in DOMAIN s.association \ K
             /\ \A c \in DOMAIN s.draft : c \notin C => s.draft[c] \in DOMAIN s.association \ K
             /\ \A k \in DOMAIN s.association : k[1] \in gone <=> k \in K /\ scope.kind = "workspace"
             /\ \/ scope.kind = "threads" /\ gone = {} /\ K = {}
                \/ /\ scope.kind = "association" /\ gone = {} /\ scope.at \in Workspace \X Project
                   /\ K = {scope.at} \cap DOMAIN s.association
                \/ /\ scope.kind = "workspace" /\ gone = {scope.id} /\ scope.id \in Workspace
                   /\ K = Associations(s, scope.id)
<1>1. ThreadsFit(s) /\ DraftsFit(s) BY DEF Settled, Valid
<1>2. /\ \A c \in DOMAIN s.thread : s.thread[c].at \in DOMAIN s.association
      /\ \A c \in DOMAIN s.draft : s.draft[c] \in DOMAIN s.association
  BY <1>1 DEF ThreadsFit, DraftsFit, Range
<1>3. CASE scope \in [kind : {"threads"}, talk : Talk]
  <2>1. scope.kind = "threads" BY <1>3
  <2> QED BY <1>2, <2>1 DEF Named, Covered, GoneWorkspaces
<1>4. CASE scope \in [kind : {"association"}, at : Workspace \X Project]
  <2>1. scope.kind = "association" /\ scope.at \in Workspace \X Project BY <1>4
  <2>2. Covered(s, scope) = {scope.at} \cap DOMAIN s.association BY <2>1 DEF Covered
  <2> QED BY <1>2, <2>1, <2>2 DEF Named, GoneWorkspaces
<1>5. CASE scope \in [kind : {"workspace"}, id : Workspace]
  <2>1. scope.kind = "workspace" /\ scope.id \in Workspace BY <1>5
  <2>2. Covered(s, scope) = Associations(s, scope.id) BY <2>1 DEF Covered
  <2> QED BY <1>2, <2>1, <2>2 DEF Named, GoneWorkspaces, Associations
<1> QED BY <1>3, <1>4, <1>5 DEF Scope

LEMMA RanksTyped ==
  ASSUME NEW S, NEW f \in Partial(S, Nat), NEW X \in SUBSET DOMAIN f, IsFiniteSet(DOMAIN f)
  PROVE  Reindexed(f, X) \in Partial(S, Nat) /\ DOMAIN Reindexed(f, X) = DOMAIN f
<1>1. f \in [DOMAIN f -> Nat] /\ DOMAIN f \subseteq S BY PartialIs
<1>2. \A x : Cardinality({y \in X : f[y] < f[x]}) \in Nat
  BY FS_Subset, FS_CardinalityType
<1>3. DOMAIN Reindexed(f, X) = DOMAIN f BY DEF Reindexed
<1>4. \A x \in DOMAIN f : Reindexed(f, X)[x] \in Nat BY <1>1, <1>2 DEF Reindexed
<1>5. Reindexed(f, X) = [x \in DOMAIN f |-> Reindexed(f, X)[x]] BY DEF Reindexed
<1> QED BY <1>1, <1>3, <1>4, <1>5, PartialIs

LEMMA WithoutIs ==
  ASSUME NEW f, NEW X
  PROVE  /\ DOMAIN Without(f, X) = DOMAIN f \ X
         /\ \A x \in DOMAIN f \ X : Without(f, X)[x] = f[x]
BY DEF Without, Restrict

\* Orders that are contiguous in a part are so in a function that agrees there.
LEMMA ContiguousAlike ==
  ASSUME NEW f, NEW g, NEW S, Contiguous(f, S), \A x \in S : g[x] = f[x]
  PROVE  Contiguous(g, S)
BY DEF Contiguous

\* Leaving out some and ranking the rest gives orders without gaps.
LEMMA RanksAgain ==
  ASSUME NEW f, NEW S, NEW X, IsFiniteSet(S), S \subseteq DOMAIN f, Contiguous(f, S)
  PROVE  Contiguous(Reindexed(Without(f, X), S \ X), S \ X)
<1> DEFINE g == Without(f, X)
           R == S \ X
<1>1. DOMAIN g = DOMAIN f \ X /\ \A x \in R : g[x] = f[x] BY WithoutIs
<1>2. \A x \in S : f[x] \in Nat BY OrdersDiffer
<1>3. \A x, y \in S : f[x] = f[y] => x = y BY OrdersDiffer
<1>4. R \subseteq DOMAIN g /\ IsFiniteSet(R) BY <1>1, FS_Subset
<1>5. (\A x \in R : g[x] \in Nat) /\ (\A x, y \in R : g[x] = g[y] => x = y)
  BY <1>1, <1>2, <1>3
<1> HIDE DEF g, R
<1>6. Contiguous(Reindexed(g, R), R) BY <1>4, <1>5, RanksContiguous
<1> QED BY <1>6 DEF g, R

LEMMA EmptyContiguous ==
  ASSUME NEW f
  PROVE  Contiguous(f, {})
<1>1. Cardinality({}) = 0 BY FS_EmptySet
<1>2. {f[x] : x \in {}} = {} OBVIOUS
<1>3. 0 .. 0 - 1 = {} OBVIOUS
<1> QED BY <1>1, <1>2, <1>3 DEF Contiguous

LEMMA DeletionTyped ==
  ASSUME NEW s, Settled(s), NEW scope \in Scope
  PROVE  Typed(ApplyThreadDeletion(s, scope))
<1> DEFINE a == ApplyThreadDeletion(s, scope)
           C == Named(s, scope)
           K == Covered(s, scope)
           gone == GoneWorkspaces(scope)
           kept == Without(s.association, K)
           spaces == Without(s.workspace, gone)
<1>1. s \in Snapshots /\ IsFiniteSet(DOMAIN s.workspace) /\ IsFiniteSet(DOMAIN s.association)
  BY DEF Settled, Typed
<1>2. /\ s.workspace \in Partial(Workspace, Nat)
      /\ s.association \in Partial(Workspace \X Project, Nat)
  BY <1>1, FieldsTyped
<1>3. kept \in Partial(Workspace \X Project, Nat) /\ spaces \in Partial(Workspace, Nat)
  BY <1>2, WithoutTyped
<1>4. DOMAIN kept = DOMAIN s.association \ K /\ DOMAIN spaces = DOMAIN s.workspace \ gone
  BY WithoutIs
<1>5. IsFiniteSet(DOMAIN kept) /\ IsFiniteSet(DOMAIN spaces) BY <1>1, <1>4, FS_Subset
<1>6. a.workspace \in Partial(Workspace, Nat) /\ DOMAIN a.workspace = DOMAIN spaces
  <2>1. a.workspace = Reindexed(spaces, DOMAIN spaces) BY <1>1, <1>4, DeletionIs
  <2> HIDE DEF a, spaces
  <2> QED BY <1>3, <1>5, <2>1, RanksTyped
<1>7. a.association \in Partial(Workspace \X Project, Nat) /\ DOMAIN a.association = DOMAIN kept
  <2>1. a.association = IF scope.kind = "association"
                        THEN Reindexed(kept, {k \in DOMAIN kept : k[1] = scope.at[1]}) ELSE kept
    BY <1>1, DeletionIs DEF KeptOrders
  <2> HIDE DEF a, kept
  <2>2. Reindexed(kept, {k \in DOMAIN kept : k[1] = scope.at[1]}) \in Partial(Workspace \X Project, Nat)
    BY <1>3, <1>5, RanksTyped
  <2>3. DOMAIN Reindexed(kept, {k \in DOMAIN kept : k[1] = scope.at[1]}) = DOMAIN kept
    BY DEF Reindexed
  <2> QED BY <1>3, <2>1, <2>2, <2>3
<1>8. /\ a.thread \in Partial(Talk, ThreadRecord) /\ a.draft \in Partial(Talk, Workspace \X Project)
      /\ a.message \in Partial(MessageIds, MessageRecord) /\ a.run \in Partial(Turn, [talk : Talk])
      /\ a.work \in Partial(Talk, {"auto", "confirm"})
  <2>1. /\ a.thread = Without(s.thread, C) /\ a.draft = Without(s.draft, C)
        /\ a.message = Without(s.message, OfTalks(s.message, C))
        /\ a.run = Without(s.run, OfTalks(s.run, C)) /\ a.work = Without(s.work, C)
    BY <1>1, DeletionIs
  <2> HIDE DEF a, C
  <2>2. /\ s.thread \in Partial(Talk, ThreadRecord) /\ s.draft \in Partial(Talk, Workspace \X Project)
        /\ s.message \in Partial(MessageIds, MessageRecord) /\ s.run \in Partial(Turn, [talk : Talk])
        /\ s.work \in Partial(Talk, {"auto", "confirm"})
    BY <1>1, FieldsTyped
  <2>3. a.thread \in Partial(Talk, ThreadRecord) BY <2>1, <2>2, WithoutTyped
  <2>4. a.draft \in Partial(Talk, Workspace \X Project) BY <2>1, <2>2, WithoutTyped
  <2>5. a.message \in Partial(MessageIds, MessageRecord) BY <2>1, <2>2, WithoutTyped
  <2>6. a.run \in Partial(Turn, [talk : Talk]) BY <2>1, <2>2, WithoutTyped
  <2>7. a.work \in Partial(Talk, {"auto", "confirm"}) BY <2>1, <2>2, WithoutTyped
  <2> QED BY <2>3, <2>4, <2>5, <2>6, <2>7
<1>9. a.last \in Partial(Workspace, Talk)
  <2>1. a.last = Restrict(s.last, {w \in DOMAIN s.last \ gone : s.last[w] \notin C}) BY <1>1, DeletionIs
  <2>2. s.last \in Partial(Workspace, Talk) BY <1>1, FieldsTyped
  <2>3. {w \in DOMAIN s.last \ gone : s.last[w] \notin C} \in SUBSET DOMAIN s.last OBVIOUS
  <2> HIDE DEF a, C, gone
  <2> QED BY <2>1, <2>2, <2>3, RestrictTyped
<1>10. a.project \in SUBSET Project
  <2>1. a.project \subseteq s.project BY <1>1, DeletionIs
  <2> HIDE DEF a
  <2> QED BY <1>1, <2>1, FieldsTyped
<1>11. a.active \in Workspace \cup {None}
  <2>1. a.active = IF s.active \in gone THEN Neighbour(s.workspace, s.active) ELSE s.active
    BY <1>1, DeletionIs
  <2>2. Neighbour(s.workspace, s.active) \in DOMAIN s.workspace \cup {None} BY DEF Neighbour
  <2>3. DOMAIN s.workspace \subseteq Workspace BY <1>2, PartialIs
  <2>4. s.active \in Workspace \cup {None} BY <1>1, FieldsTyped
  <2> HIDE DEF a, gone
  <2> QED BY <2>1, <2>2, <2>3, <2>4
<1>12. a = [workspace |-> a.workspace, association |-> a.association,
            project |-> a.project, thread |-> a.thread, draft |-> a.draft,
            message |-> a.message, run |-> a.run, work |-> a.work,
            last |-> a.last, active |-> a.active]
  BY <1>1, DeletionIs
<1>13. a \in Snapshots
  <2> HIDE DEF a
  <2> QED BY <1>6, <1>7, <1>8, <1>9, <1>10, <1>11, <1>12 DEF Snapshots
<1> QED BY <1>5, <1>6, <1>7, <1>13 DEF Typed

\* The orders of the associations that stay
LEMMA KeptOrdersFit ==
  ASSUME NEW s, Settled(s), NEW scope \in Scope
  PROVE  LET g == KeptOrders(s, scope)
         IN  /\ DOMAIN g = DOMAIN s.association \ Covered(s, scope)
             /\ \A w \in Workspace : Contiguous(g, {k \in DOMAIN g : k[1] = w})
<1> DEFINE f == s.association
           K == Covered(s, scope)
           g == KeptOrders(s, scope)
           In(w) == {k \in DOMAIN f : k[1] = w}
           Of(w) == {k \in DOMAIN g : k[1] = w}
<1>1. IsFiniteSet(DOMAIN f) BY DEF Settled, Typed
<1>2. \A w \in Workspace : Contiguous(f, In(w))
  BY DEF Settled, Valid, ProjectsFit, Associations
<1>3. DOMAIN g = DOMAIN f \ K BY WithoutIs DEF KeptOrders, Reindexed
<1>4. \A w : Of(w) = In(w) \ K BY <1>3
<1>5. ASSUME NEW w \in Workspace PROVE Contiguous(g, Of(w))
  <2>1. CASE scope.kind = "association" /\ scope.at[1] = w
    <3> DEFINE R == {k \in DOMAIN Without(f, K) : k[1] = w}
    <3>1. R = In(w) \ K BY DEF Without, Restrict
    <3>2. g = Reindexed(Without(f, K), R) BY <2>1 DEF KeptOrders
    <3>3. IsFiniteSet(In(w)) BY <1>1, FS_Subset
    <3>4. In(w) \subseteq DOMAIN f OBVIOUS
    <3> HIDE DEF g, f, K, In, Of, R
    <3>5. Contiguous(Reindexed(Without(f, K), In(w) \ K), In(w) \ K)
      BY <1>2, <3>3, <3>4, RanksAgain
    <3> QED BY <1>4, <3>1, <3>2, <3>5
  <2>2. CASE scope.kind = "workspace" /\ scope.id = w
    <3>1. K = In(w) BY <2>2, ScopeIs DEF Associations
    <3>2. Of(w) = {} BY <1>4, <3>1
    <3> HIDE DEF g, Of
    <3> QED BY <3>2, EmptyContiguous
  <2>3. CASE ~(scope.kind = "association" /\ scope.at[1] = w) /\ ~(scope.kind = "workspace" /\ scope.id = w)
    <3>1. In(w) \cap K = {} BY <2>3, ScopeIs DEF Associations
    <3>2. Of(w) = In(w)
      <4> HIDE DEF Of, In, K
      <4> QED BY <1>4, <3>1
    <3>3. \A k \in In(w) : Without(f, K)[k] = f[k] BY <3>1 DEF Without, Restrict
    <3>4. \A k \in In(w) : k \in DOMAIN Without(f, K) BY <3>1 DEF Without, Restrict
    <3>5. \A k \in In(w) : g[k] = f[k]
      <4>1. CASE scope.kind = "association"
        <5>1. \A k \in In(w) : k[1] # scope.at[1] BY <2>3, <4>1
        <5>2. g = Reindexed(Without(f, K), {k \in DOMAIN Without(f, K) : k[1] = scope.at[1]})
          BY <4>1 DEF KeptOrders
        <5> HIDE DEF g, f, K, In
        <5> QED BY <3>3, <3>4, <5>1, <5>2 DEF Reindexed
      <4>2. CASE scope.kind # "association" BY <3>3, <4>2 DEF KeptOrders
      <4> QED BY <4>1, <4>2
    <3> HIDE DEF g, f, In, Of
    <3> QED BY <1>2, <3>2, <3>5, ContiguousAlike
  <2> QED BY <2>1, <2>2, <2>3
<1> QED BY <1>3, <1>5

\* The workspace that becomes active is another one.
LEMMA NeighbourIs ==
  ASSUME NEW f, NEW w \in DOMAIN f, f[w] \in Nat
  PROVE  Neighbour(f, w) \in (DOMAIN f \ {w}) \cup {None}
<1> DEFINE At(i) == {v \in DOMAIN f : f[v] = i}
           beside == IF At(f[w] + 1) # {} THEN At(f[w] + 1) ELSE At(f[w] - 1)
<1>1. beside \subseteq DOMAIN f \ {w} BY f[w] + 1 # f[w], f[w] - 1 # f[w]
<1>2. Neighbour(f, w) = IF beside = {} THEN None ELSE CHOOSE v \in beside : TRUE BY DEF Neighbour
<1> HIDE DEF beside
<1> QED BY <1>1, <1>2

\* What stays, and that it is unchanged
LEMMA DeletionKeeps ==
  ASSUME NEW s \in Snapshots, NEW scope
  PROVE  LET a == ApplyThreadDeletion(s, scope)
             C == Named(s, scope)
             K == Covered(s, scope)
             gone == GoneWorkspaces(scope)
         IN  /\ DOMAIN a.workspace = DOMAIN s.workspace \ gone
             /\ DOMAIN a.thread = DOMAIN s.thread \ C
             /\ \A c \in DOMAIN a.thread : a.thread[c] = s.thread[c]
             /\ DOMAIN a.draft = DOMAIN s.draft \ C
             /\ \A c \in DOMAIN a.draft : a.draft[c] = s.draft[c]
             /\ DOMAIN a.work = DOMAIN s.work \ C
             /\ DOMAIN a.message = DOMAIN s.message \ OfTalks(s.message, C)
             /\ \A m \in DOMAIN a.message : a.message[m] = s.message[m]
             /\ DOMAIN a.run = DOMAIN s.run \ OfTalks(s.run, C)
             /\ \A t \in DOMAIN a.run : a.run[t] = s.run[t]
             /\ DOMAIN a.last = {w \in DOMAIN s.last \ gone : s.last[w] \notin C}
             /\ \A w \in DOMAIN a.last : a.last[w] = s.last[w]
             /\ a.project = {p \in s.project : K = {} \/ \E k \in DOMAIN s.association \ K : k[2] = p}
<1> DEFINE a == ApplyThreadDeletion(s, scope)
           C == Named(s, scope)
           K == Covered(s, scope)
           gone == GoneWorkspaces(scope)
<1>1. /\ a.thread = Without(s.thread, C) /\ a.draft = Without(s.draft, C)
      /\ a.work = Without(s.work, C)
      /\ a.message = Without(s.message, OfTalks(s.message, C))
      /\ a.run = Without(s.run, OfTalks(s.run, C))
      /\ a.last = Restrict(s.last, {w \in DOMAIN s.last \ gone : s.last[w] \notin C})
      /\ a.project = {p \in s.project : K = {} \/ \E k \in DOMAIN Without(s.association, K) : k[2] = p}
      /\ a.workspace = Reindexed(Without(s.workspace, gone), DOMAIN s.workspace \ gone)
  BY DeletionIs
<1> HIDE DEF a, C, K, gone
<1>2. DOMAIN a.workspace = DOMAIN s.workspace \ gone BY <1>1 DEF Reindexed, Without, Restrict
<1>3. /\ DOMAIN a.thread = DOMAIN s.thread \ C
      /\ \A c \in DOMAIN a.thread : a.thread[c] = s.thread[c]
  BY <1>1 DEF Without, Restrict
<1>4. /\ DOMAIN a.draft = DOMAIN s.draft \ C
      /\ \A c \in DOMAIN a.draft : a.draft[c] = s.draft[c]
  BY <1>1 DEF Without, Restrict
<1>5. DOMAIN a.work = DOMAIN s.work \ C BY <1>1 DEF Without, Restrict
<1>6. /\ DOMAIN a.message = DOMAIN s.message \ OfTalks(s.message, C)
      /\ \A m \in DOMAIN a.message : a.message[m] = s.message[m]
  BY <1>1 DEF Without, Restrict
<1>7. /\ DOMAIN a.run = DOMAIN s.run \ OfTalks(s.run, C)
      /\ \A t \in DOMAIN a.run : a.run[t] = s.run[t]
  BY <1>1 DEF Without, Restrict
<1>8. /\ DOMAIN a.last = {w \in DOMAIN s.last \ gone : s.last[w] \notin C}
      /\ \A w \in DOMAIN a.last : a.last[w] = s.last[w]
  BY <1>1 DEF Restrict
<1>9. a.project = {p \in s.project : K = {} \/ \E k \in DOMAIN s.association \ K : k[2] = p}
  BY <1>1 DEF Without, Restrict
<1> QED BY <1>2, <1>3, <1>4, <1>5, <1>6, <1>7, <1>8, <1>9 DEF a, C, K, gone

LEMMA DeletionValid ==
  ASSUME NEW s, Settled(s), NEW scope \in Scope
  PROVE  Valid(ApplyThreadDeletion(s, scope))
<1> DEFINE a == ApplyThreadDeletion(s, scope)
           C == Named(s, scope)
           K == Covered(s, scope)
           gone == GoneWorkspaces(scope)
<1>1. s \in Snapshots /\ IsFiniteSet(DOMAIN s.workspace) /\ Valid(s) BY DEF Settled, Typed
<1>2. /\ DOMAIN a.workspace = DOMAIN s.workspace \ gone
      /\ DOMAIN a.association = DOMAIN s.association \ K
      /\ \A w \in Workspace : Contiguous(a.association, {k \in DOMAIN a.association : k[1] = w})
  <2>1. a.association = KeptOrders(s, scope) BY <1>1, DeletionIs
  <2>2. DOMAIN a.workspace = DOMAIN s.workspace \ gone BY <1>1, DeletionKeeps
  <2> HIDE DEF a, gone
  <2> QED BY <2>1, <2>2, KeptOrdersFit
<1>3. WorkspacesFit(a)
  <2>1. Contiguous(s.workspace, DOMAIN s.workspace) /\ s.active \in DOMAIN s.workspace \cup {None}
    BY <1>1 DEF Valid, WorkspacesFit
  <2>2. a.workspace = Reindexed(Without(s.workspace, gone), DOMAIN s.workspace \ gone)
    BY <1>1, DeletionIs
  <2>3. Contiguous(a.workspace, DOMAIN a.workspace)
    <3> HIDE DEF a, gone
    <3> QED BY <1>1, <1>2, <2>1, <2>2, RanksAgain
  <2>4. a.active \in DOMAIN a.workspace \cup {None}
    <3>1. a.active = IF s.active \in gone THEN Neighbour(s.workspace, s.active) ELSE s.active
      BY <1>1, DeletionIs
    <3>2. CASE s.active \in gone /\ s.active \in DOMAIN s.workspace
      <4>1. gone = {s.active} BY <3>2 DEF GoneWorkspaces
      <4>2. s.workspace[s.active] \in Nat BY <1>1, <2>1, <3>2, OrdersDiffer
      <4>3. Neighbour(s.workspace, s.active) \in (DOMAIN s.workspace \ {s.active}) \cup {None}
        BY <3>2, <4>2, NeighbourIs
      <4> HIDE DEF a, gone
      <4> QED BY <1>2, <3>1, <3>2, <4>1, <4>3
    <3>3. s.active \in gone => s.active # None BY NoneAssumption, ScopeIs
    <3>4. CASE s.active \notin gone
      <4> HIDE DEF a, gone
      <4> QED BY <1>2, <2>1, <3>1, <3>4
    <3> QED BY <2>1, <3>2, <3>3, <3>4
  <2> QED BY <2>3, <2>4 DEF WorkspacesFit
<1>4. /\ DOMAIN a.thread = DOMAIN s.thread \ C
      /\ \A c \in DOMAIN a.thread : a.thread[c] = s.thread[c]
  BY <1>1, DeletionKeeps
<1>5. /\ DOMAIN a.draft = DOMAIN s.draft \ C
      /\ \A c \in DOMAIN a.draft : a.draft[c] = s.draft[c]
  BY <1>1, DeletionKeeps
<1>6. /\ DOMAIN a.message = DOMAIN s.message \ OfTalks(s.message, C)
      /\ \A m \in DOMAIN a.message : a.message[m] = s.message[m]
  BY <1>1, DeletionKeeps
<1>7. /\ DOMAIN a.run = DOMAIN s.run \ OfTalks(s.run, C)
      /\ \A t \in DOMAIN a.run : a.run[t] = s.run[t]
  BY <1>1, DeletionKeeps
<1>8. ProjectsFit(a)
  <2>1. /\ \A k \in DOMAIN s.association : k[1] \in DOMAIN s.workspace
        /\ s.project = {k[2] : k \in DOMAIN s.association}
    BY <1>1 DEF Valid, ProjectsFit
  <2>2. \A k \in DOMAIN a.association : k[1] \in DOMAIN a.workspace
    <3>1. \A k \in DOMAIN s.association : k[1] \in gone => k \in K BY ScopeIs
    <3> HIDE DEF a, gone, K
    <3> QED BY <1>2, <2>1, <3>1
  <2>3. \A w \in Workspace : Contiguous(a.association, Associations(a, w))
    BY <1>2 DEF Associations
  <2>4. a.project = {k[2] : k \in DOMAIN a.association}
    <3>1. a.project = {p \in s.project : K = {} \/ \E k \in DOMAIN s.association \ K : k[2] = p}
      BY <1>1, DeletionKeeps
    <3> HIDE DEF a, K
    <3> QED BY <1>2, <2>1, <3>1
  <2> QED BY <2>2, <2>3, <2>4 DEF ProjectsFit
<1>9. ThreadsFit(a)
  <2>1. \A c \in DOMAIN s.thread : c \notin C => s.thread[c].at \in DOMAIN s.association \ K
    BY ScopeIs
  <2> HIDE DEF a, C, K
  <2> QED BY <1>2, <1>4, <2>1 DEF ThreadsFit
<1>10. DraftsFit(a)
  <2>1. \A c \in DOMAIN s.draft : c \notin C => s.draft[c] \in DOMAIN s.association \ K
    BY ScopeIs
  <2>2. /\ \A c, d \in DOMAIN s.draft : s.draft[c] = s.draft[d] => c = d
        /\ DOMAIN s.draft \cap DOMAIN s.thread = {}
    BY <1>1 DEF Valid, DraftsFit
  <2> HIDE DEF a, C, K
  <2> QED BY <1>2, <1>4, <1>5, <2>1, <2>2 DEF DraftsFit, Range
<1>11. MessagesFit(a)
  <2>1. \A m \in DOMAIN s.message : s.message[m].talk \in DOMAIN s.thread
    BY <1>1 DEF Valid, MessagesFit
  <2> HIDE DEF a, C
  <2> QED BY <1>4, <1>6, <2>1 DEF MessagesFit, OfTalks
<1>12. RunsFit(a)
  <2>1. \A t \in DOMAIN s.run : /\ s.run[t].talk \in DOMAIN s.thread
                                /\ MessagesOf(t) \subseteq OfTalks(s.message, {s.run[t].talk})
    BY <1>1 DEF Valid, RunsFit
  <2> HIDE DEF a, C
  <2> QED BY <1>4, <1>6, <1>7, <2>1 DEF RunsFit, OfTalks
<1>13. WorkFits(a)
  <2>1. DOMAIN a.work = DOMAIN s.work \ C BY <1>1, DeletionKeeps
  <2>2. DOMAIN s.work \subseteq DOMAIN s.thread BY <1>1 DEF Valid, WorkFits
  <2> HIDE DEF a, C
  <2> QED BY <1>4, <2>1, <2>2 DEF WorkFits
<1> QED BY <1>3, <1>8, <1>9, <1>10, <1>11, <1>12, <1>13 DEF Valid

LEMMA DeletionSettles ==
  ASSUME NEW s, Settled(s), NEW scope \in Scope
  PROVE  Settled(ApplyThreadDeletion(s, scope))
<1> DEFINE a == ApplyThreadDeletion(s, scope)
           C == Named(s, scope)
           gone == GoneWorkspaces(scope)
<1>1. s \in Snapshots BY DEF Settled, Typed
<1>2. /\ DOMAIN a.last = {w \in DOMAIN s.last \ gone : s.last[w] \notin C}
      /\ \A w \in DOMAIN a.last : a.last[w] = s.last[w]
  BY <1>1, DeletionKeeps
<1>3. /\ DOMAIN a.thread = DOMAIN s.thread \ C
      /\ \A c \in DOMAIN a.thread : a.thread[c] = s.thread[c]
  BY <1>1, DeletionKeeps
<1>4. DOMAIN a.workspace = DOMAIN s.workspace \ gone
  BY <1>1, DeletionKeeps
<1>5. \A w \in DOMAIN s.last : Leads(s, w) BY DEF Settled
<1>6. \A w \in DOMAIN a.last : Leads(a, w)
  <2> HIDE DEF a, C, gone
  <2> QED BY <1>2, <1>3, <1>4, <1>5 DEF Leads
<1> QED BY <1>6, DeletionTyped, DeletionValid DEF Settled

-----------------------------------------------------------------------------
(* The deletion of the rows leaves what the deletion of the snapshot does. *)

\* The statements every scope begins with
RowsWithout(C) == DeleteDrafts(DeleteThreads(rows, C), C)

LEMMA RowsWithoutIs ==
  ASSUME CommandsIInv, NEW scope \in Scope
  PROVE  LET db == RowsWithout(Named(snap, scope))
             a == ApplyThreadDeletion(snap, scope)
         IN  /\ IsDatabase(db) /\ db.ok
             /\ db.workspace = snap.workspace /\ db.association = snap.association
             /\ db.project = snap.project /\ db.active = snap.active
             /\ db.thread = a.thread /\ db.draft = a.draft /\ db.message = a.message
             /\ db.run = a.run /\ db.work = [c \in DOMAIN a.work |-> "confirm"]
             /\ db.last = Without(snap.last, {w \in DOMAIN snap.last : snap.last[w] \in Named(snap, scope)})
<1> DEFINE C == Named(snap, scope)
           a == ApplyThreadDeletion(snap, scope)
           db1 == DeleteThreads(rows, C)
           db == DeleteDrafts(db1, C)
<1>1. /\ IsDatabase(rows) /\ rows.ok
      /\ rows.workspace = snap.workspace /\ rows.association = snap.association
      /\ rows.project = snap.project /\ rows.thread = snap.thread /\ rows.draft = snap.draft
      /\ rows.message = snap.message /\ rows.run = snap.run
      /\ rows.work = [c \in DOMAIN snap.work |-> "confirm"]
      /\ rows.last = snap.last /\ rows.active = snap.active
      /\ snap \in Snapshots
  BY Before
<1>2. /\ Alters(db1, rows, {"thread", "message", "run", "work", "last"})
      /\ db1.thread = Without(rows.thread, C)
      /\ db1.message = Without(rows.message, OfTalks(rows.message, C))
      /\ db1.run = Without(rows.run, OfTalks(rows.run, C))
      /\ db1.work = Without(rows.work, C)
      /\ db1.last = Without(rows.last, {w \in DOMAIN rows.last : rows.last[w] \in C})
  <2> HIDE DEF C
  <2>1. IsDatabase(rows) BY <1>1
  <2> QED BY <2>1, DeleteThreadsIs
<1>3. /\ a.thread = Without(snap.thread, C) /\ a.draft = Without(snap.draft, C)
      /\ a.work = Without(snap.work, C)
      /\ a.message = Without(snap.message, OfTalks(snap.message, C))
      /\ a.run = Without(snap.run, OfTalks(snap.run, C))
  BY <1>1, DeletionIs
<1> HIDE DEF db1, a, C
<1>4. Alters(db, db1, {"draft"}) /\ db.draft = Without(db1.draft, C)
  <2>1. IsDatabase(db1) BY <1>2 DEF Alters
  <2> QED BY <2>1, DeleteDraftsIs
<1> HIDE DEF db
<1>5. db.work = [c \in DOMAIN a.work |-> "confirm"]
  <2>1. db.work = Without([c \in DOMAIN snap.work |-> "confirm"], C)
    BY <1>1, <1>2, <1>4 DEF Alters, Fields
  <2> QED BY <1>3, <2>1 DEF Without, Restrict
<1>6. /\ IsDatabase(db) /\ db.ok
      /\ db.workspace = snap.workspace /\ db.association = snap.association
      /\ db.project = snap.project /\ db.active = snap.active
      /\ db.thread = a.thread /\ db.draft = a.draft /\ db.message = a.message
      /\ db.run = a.run
      /\ db.last = Without(snap.last, {w \in DOMAIN snap.last : snap.last[w] \in C})
  BY <1>1, <1>2, <1>3, <1>4 DEF Alters, Fields
<1> QED BY <1>5, <1>6 DEF RowsWithout, db, db1, a, C

\* A deletion inside a workspace keeps the workspaces and their orders.
LEMMA WorkspacesKept ==
  ASSUME NEW s, Settled(s), NEW scope, GoneWorkspaces(scope) = {}
  PROVE  LET a == ApplyThreadDeletion(s, scope)
         IN  /\ a.workspace = s.workspace /\ a.active = s.active
             /\ a.last = Without(s.last, {w \in DOMAIN s.last : s.last[w] \in Named(s, scope)})
<1> DEFINE a == ApplyThreadDeletion(s, scope)
           C == Named(s, scope)
           gone == GoneWorkspaces(scope)
<1>1. /\ s \in Snapshots /\ IsFiniteSet(DOMAIN s.workspace)
      /\ Contiguous(s.workspace, DOMAIN s.workspace)
  BY DEF Settled, Typed, Valid, WorkspacesFit
<1>2. /\ a.workspace = Reindexed(Without(s.workspace, gone), DOMAIN s.workspace \ gone)
      /\ a.active = IF s.active \in gone THEN Neighbour(s.workspace, s.active) ELSE s.active
      /\ a.last = Restrict(s.last, {w \in DOMAIN s.last \ gone : s.last[w] \notin C})
  BY <1>1, DeletionIs
<1>3. s.workspace = [w \in DOMAIN s.workspace |-> s.workspace[w]]
  BY <1>1, FieldsTyped, PartialIs
<1> HIDE DEF a, C
<1>4. Without(s.workspace, gone) = s.workspace /\ DOMAIN s.workspace \ gone = DOMAIN s.workspace
  BY <1>3 DEF Without, Restrict
<1>5. a.workspace = s.workspace BY <1>1, <1>2, <1>3, <1>4, RanksKept
<1>6. {w \in DOMAIN s.last \ gone : s.last[w] \notin C}
        = DOMAIN s.last \ {w \in DOMAIN s.last : s.last[w] \in C}
  OBVIOUS
<1>7. a.last = Without(s.last, {w \in DOMAIN s.last : s.last[w] \in C})
  BY <1>2, <1>6 DEF Without
<1> QED BY <1>2, <1>5, <1>7 DEF a, C

LEMMA NamedInRows ==
  ASSUME CommandsIInv, NEW scope
  PROVE  Named(rows, scope) = Named(snap, scope)
BY Before DEF Named, Covered, Associations

LEMMA ThreadsMirrored ==
  ASSUME CommandsIInv, NEW scope \in Scope, scope.kind = "threads"
  PROVE  Mirrors(DeleteThreadsFromAppState(scope), ApplyThreadDeletion(snap, scope))
<1> DEFINE C == Named(snap, scope)
           a == ApplyThreadDeletion(snap, scope)
           db == RowsWithout(C)
<1>1. DeleteThreadsFromAppState(scope) = db
  BY NamedInRows DEF DeleteThreadsFromAppState, RowsWithout
<1>2. Settled(snap) /\ snap \in Snapshots BY Before
<1>3. Covered(snap, scope) = {} /\ GoneWorkspaces(scope) = {} BY DEF Covered, GoneWorkspaces
<1>4. /\ a.workspace = snap.workspace /\ a.active = snap.active
      /\ a.last = Without(snap.last, {w \in DOMAIN snap.last : snap.last[w] \in C})
  BY <1>2, <1>3, WorkspacesKept
<1>5. a.association = snap.association
  <2>1. a.association = Without(snap.association, {})
    <3>1. scope.kind # "association" OBVIOUS
    <3>2. KeptOrders(snap, scope) = Without(snap.association, {}) BY <1>3, <3>1 DEF KeptOrders
    <3> QED BY <1>2, <3>2, DeletionIs
  <2>2. snap.association = [k \in DOMAIN snap.association |-> snap.association[k]]
    BY <1>2, FieldsTyped, PartialIs
  <2> HIDE DEF a
  <2> QED BY <2>1, <2>2 DEF Without, Restrict
<1>6. a.project = snap.project
  <2>1. a.project = {p \in snap.project : TRUE} BY <1>2, <1>3, DeletionKeeps
  <2> QED BY <2>1
<1>7. /\ IsDatabase(db) /\ db.ok
      /\ db.workspace = snap.workspace /\ db.association = snap.association
      /\ db.project = snap.project /\ db.active = snap.active
      /\ db.thread = a.thread /\ db.draft = a.draft /\ db.message = a.message
      /\ db.run = a.run /\ db.work = [c \in DOMAIN a.work |-> "confirm"]
      /\ db.last = Without(snap.last, {w \in DOMAIN snap.last : snap.last[w] \in C})
  BY RowsWithoutIs
<1> HIDE DEF db, a, C
<1>8. Mirrors(db, a) BY <1>4, <1>5, <1>6, <1>7 DEF Mirrors
<1> QED BY <1>1, <1>8 DEF a

\* The associations, threads and drafts that stay
LEMMA AssociationsLeft ==
  ASSUME CommandsIInv, NEW scope \in Scope
  PROVE  LET a == ApplyThreadDeletion(snap, scope)
             K == Covered(snap, scope)
         IN  /\ DOMAIN a.association = DOMAIN snap.association \ K
             /\ \A c \in DOMAIN a.thread : a.thread[c].at \notin K
             /\ \A c \in DOMAIN a.draft : a.draft[c] \notin K
             /\ a.draft = [c \in DOMAIN a.draft |-> a.draft[c]]
             /\ snap.project = {k[2] : k \in DOMAIN snap.association}
             /\ a.project = {k[2] : k \in DOMAIN a.association}
<1> DEFINE a == ApplyThreadDeletion(snap, scope)
           K == Covered(snap, scope)
<1>1. Settled(snap) /\ snap \in Snapshots BY Before
<1>2. Valid(a) /\ a \in Snapshots BY <1>1, DeletionSettles DEF Settled, Typed
<1>3. Valid(snap) BY <1>1 DEF Settled
<1>4. a.association = KeptOrders(snap, scope) BY <1>1, DeletionIs
<1>5. DOMAIN a.association = DOMAIN snap.association \ K
  <2> HIDE DEF a
  <2> QED BY <1>1, <1>4, KeptOrdersFit
<1> HIDE DEF a, K
<1>6. /\ \A c \in DOMAIN a.thread : a.thread[c].at \in DOMAIN a.association
      /\ \A c \in DOMAIN a.draft : a.draft[c] \in DOMAIN a.association
  BY <1>2 DEF Valid, ThreadsFit, DraftsFit, Range
<1>7. a.draft = [c \in DOMAIN a.draft |-> a.draft[c]] BY <1>2, FieldsTyped, PartialIs
<1>8. /\ snap.project = {k[2] : k \in DOMAIN snap.association}
      /\ a.project = {k[2] : k \in DOMAIN a.association}
  BY <1>2, <1>3 DEF Valid, ProjectsFit
<1> QED BY <1>5, <1>6, <1>7, <1>8 DEF a, K

LEMMA RestrictAll ==
  ASSUME NEW f, f = [x \in DOMAIN f |-> f[x]], NEW X, \A x \in DOMAIN f : x \in X, X \subseteq DOMAIN f
  PROVE  Restrict(f, X) = f
<1>1. X = DOMAIN f OBVIOUS
<1> QED BY <1>1 DEF Restrict

LEMMA AssociationMirrored ==
  ASSUME CommandsIInv, NEW scope \in Scope, scope.kind = "association", Exists(scope)
  PROVE  Mirrors(DeleteThreadsFromAppState(scope), ApplyThreadDeletion(snap, scope))
<1> DEFINE C == Named(snap, scope)
           K == Covered(snap, scope)
           place == scope.at
           a == ApplyThreadDeletion(snap, scope)
           db0 == RowsWithout(C)
           db1 == [db0 EXCEPT !.draft = Restrict(@, {c \in DOMAIN @ : @[c] # place})]
           db2 == DeleteAssociations(db1, {place})
           db3 == [db2 EXCEPT !.association = Reindexed(@, Associations(db2, place[1]))]
           db4 == DeleteOrphans(db3, {place[2]})
<1>1. DeleteThreadsFromAppState(scope) = db4
  <2>1. Named(rows, scope) = C BY NamedInRows
  <2>2. scope.kind # "threads" OBVIOUS
  <2> HIDE DEF C
  <2> QED BY <2>1, <2>2, Zenon DEF DeleteThreadsFromAppState, DeleteAssociationScope, RowsWithout
<1>2. Settled(snap) /\ snap \in Snapshots BY Before
<1>3. K = {place} /\ place \in DOMAIN snap.association BY DEF Covered, Exists
<1>4. GoneWorkspaces(scope) = {} BY DEF GoneWorkspaces
<1>5. /\ a.workspace = snap.workspace /\ a.active = snap.active
      /\ a.last = Without(snap.last, {w \in DOMAIN snap.last : snap.last[w] \in C})
  BY <1>2, <1>4, WorkspacesKept
<1>6. /\ IsDatabase(db0) /\ db0.ok
      /\ db0.workspace = snap.workspace /\ db0.association = snap.association
      /\ db0.project = snap.project /\ db0.active = snap.active
      /\ db0.thread = a.thread /\ db0.draft = a.draft /\ db0.message = a.message
      /\ db0.run = a.run /\ db0.work = [c \in DOMAIN a.work |-> "confirm"]
      /\ db0.last = Without(snap.last, {w \in DOMAIN snap.last : snap.last[w] \in C})
  BY RowsWithoutIs
<1>7. /\ DOMAIN a.association = DOMAIN snap.association \ {place}
      /\ \A c \in DOMAIN a.thread : a.thread[c].at # place
      /\ \A c \in DOMAIN a.draft : a.draft[c] # place
      /\ a.draft = [c \in DOMAIN a.draft |-> a.draft[c]]
      /\ snap.project = {k[2] : k \in DOMAIN snap.association}
      /\ a.project = {k[2] : k \in DOMAIN a.association}
  BY <1>3, AssociationsLeft
<1>8. a.association = Reindexed(Without(snap.association, {place}),
                                {k \in DOMAIN Without(snap.association, {place}) : k[1] = place[1]})
  <2>1. a.association = KeptOrders(snap, scope) BY <1>2, DeletionIs
  <2> HIDE DEF a
  <2> QED BY <1>3, <2>1 DEF KeptOrders
<1> HIDE DEF db0, a, C, K
<1>9. /\ Alters(db1, db0, {"draft"}) /\ db1.draft = a.draft
  <2>1. Restrict(a.draft, {c \in DOMAIN a.draft : a.draft[c] # place}) = a.draft
    BY <1>7, RestrictAll
  <2>2. db1 = [db0 EXCEPT !.draft = a.draft] BY <1>6, <2>1
  <2> HIDE DEF db1
  <2>3. db1.draft = a.draft BY <1>6, <2>2 DEF IsDatabase, Fields
  <2> QED BY <1>6, <2>2, <2>3, StaysDatabase DEF Alters, IsDatabase, Fields
<1> HIDE DEF db1
<1>10. /\ Alters(db2, db1, {"association", "ok"}) /\ db2.ok
       /\ db2.association = Without(snap.association, {place})
  <2>1. IsDatabase(db1) /\ db1.ok /\ db1.thread = a.thread /\ db1.association = snap.association
    BY <1>6, <1>9 DEF Alters, Fields
  <2>2. \A c \in DOMAIN db1.thread : db1.thread[c].at \notin {place} BY <1>7, <2>1
  <2>3. Range(db1.draft) \cap {place} = {} BY <1>7, <1>9 DEF Range
  <2> QED BY <2>1, <2>2, <2>3, DeleteAssociationsIs
<1> HIDE DEF db2
<1>11. Alters(db3, db2, {"association"}) /\ db3.association = a.association
  <2>1. Reindexed(db2.association, Associations(db2, place[1])) = a.association
    BY <1>8, <1>10 DEF Associations
  <2>2. IsDatabase(db2) BY <1>10 DEF Alters
  <2>3. db3 = [db2 EXCEPT !.association = a.association] BY <2>1
  <2> HIDE DEF db3
  <2> QED BY <2>2, <2>3, StaysDatabase DEF Alters, IsDatabase, Fields
<1> HIDE DEF db3
<1>12. /\ Alters(db4, db3, {"project"})
       /\ db4.project = db3.project \ {p \in {place[2]} : \A k \in DOMAIN db3.association : k[2] # p}
  <2>1. IsDatabase(db3) BY <1>11 DEF Alters
  <2> QED BY <2>1, DeleteOrphansIs
<1> HIDE DEF db4
<1>13. db4.project = a.project
  <2>1. db3.project = snap.project BY <1>6, <1>9, <1>10, <1>11 DEF Alters, Fields
  <2> QED BY <1>3, <1>7, <1>11, <1>12, <2>1
<1>14. /\ IsDatabase(db4) /\ db4.ok
       /\ db4.workspace = a.workspace /\ db4.association = a.association
       /\ db4.active = a.active
       /\ db4.thread = a.thread /\ db4.draft = a.draft /\ db4.message = a.message
       /\ db4.run = a.run /\ db4.work = [c \in DOMAIN a.work |-> "confirm"]
       /\ db4.last = a.last
  BY <1>5, <1>6, <1>9, <1>10, <1>11, <1>12 DEF Alters, Fields
<1>15. Mirrors(db4, a) BY <1>13, <1>14 DEF Mirrors
<1> QED BY <1>1, <1>15 DEF a

LEMMA WorkspaceMirrored ==
  ASSUME CommandsIInv, NEW scope \in Scope, scope.kind = "workspace"
  PROVE  Mirrors(DeleteThreadsFromAppState(scope), ApplyThreadDeletion(snap, scope))
<1> DEFINE C == Named(snap, scope)
           w == scope.id
           a == ApplyThreadDeletion(snap, scope)
           db0 == RowsWithout(C)
           K == Associations(db0, w)
           db1 == [db0 EXCEPT !.draft = Restrict(@, {c \in DOMAIN @ : @[c] \notin K})]
           db2 == DeleteAssociations(db1, K)
           db3 == DeleteOrphans(db2, {k[2] : k \in K})
           db4 == DeleteWorkspace(db3, w)
           db5 == [db4 EXCEPT !.workspace = Reindexed(@, DOMAIN @),
                              !.active = IF @ = w THEN Neighbour(db0.workspace, w) ELSE @]
           C0 == {v \in DOMAIN snap.last : snap.last[v] \in C}
<1>1. DeleteThreadsFromAppState(scope) = db5
  <2>1. Named(rows, scope) = C BY NamedInRows
  <2>2. scope.kind # "threads" /\ scope.kind # "association" OBVIOUS
  <2> HIDE DEF C
  <2> QED BY <2>1, <2>2, Zenon DEF DeleteThreadsFromAppState, DeleteWorkspaceScope, RowsWithout
<1>2. Settled(snap) /\ snap \in Snapshots BY Before
<1>3. /\ IsDatabase(db0) /\ db0.ok
      /\ db0.workspace = snap.workspace /\ db0.association = snap.association
      /\ db0.project = snap.project /\ db0.active = snap.active
      /\ db0.thread = a.thread /\ db0.draft = a.draft /\ db0.message = a.message
      /\ db0.run = a.run /\ db0.work = [c \in DOMAIN a.work |-> "confirm"]
      /\ db0.last = Without(snap.last, C0)
  BY RowsWithoutIs
<1>4. GoneWorkspaces(scope) = {w} BY DEF GoneWorkspaces
<1>5. K = Covered(snap, scope)
  <2>1. Covered(snap, scope) = Associations(snap, w) BY DEF Covered
  <2> HIDE DEF db0
  <2> QED BY <1>3, <2>1 DEF Associations
<1>6. /\ DOMAIN a.association = DOMAIN snap.association \ K
      /\ \A c \in DOMAIN a.thread : a.thread[c].at \notin K
      /\ \A c \in DOMAIN a.draft : a.draft[c] \notin K
      /\ a.draft = [c \in DOMAIN a.draft |-> a.draft[c]]
      /\ snap.project = {k[2] : k \in DOMAIN snap.association}
      /\ a.project = {k[2] : k \in DOMAIN a.association}
  BY <1>5, AssociationsLeft
<1>7. a.association = Without(snap.association, K)
  <2>1. a.association = KeptOrders(snap, scope) BY <1>2, DeletionIs
  <2>2. scope.kind # "association" OBVIOUS
  <2>3. KeptOrders(snap, scope) = Without(snap.association, Covered(snap, scope))
    BY <2>2 DEF KeptOrders
  <2> QED BY <1>5, <2>1, <2>3
<1>8. /\ a.workspace = Reindexed(Without(snap.workspace, {w}), DOMAIN snap.workspace \ {w})
      /\ a.active = IF snap.active \in {w} THEN Neighbour(snap.workspace, snap.active) ELSE snap.active
      /\ a.last = Restrict(snap.last, {v \in DOMAIN snap.last \ {w} : snap.last[v] \notin C})
  BY <1>2, <1>4, DeletionIs
<1>9. K \subseteq DOMAIN snap.association
  <2> HIDE DEF db0
  <2> QED BY <1>3 DEF Associations
<1> HIDE DEF db0, a, K
<1>10. /\ Alters(db1, db0, {"draft"}) /\ db1.draft = a.draft
  <2>1. Restrict(a.draft, {c \in DOMAIN a.draft : a.draft[c] \notin K}) = a.draft
    BY <1>6, RestrictAll
  <2>2. db1 = [db0 EXCEPT !.draft = a.draft] BY <1>3, <2>1
  <2> HIDE DEF db1
  <2>3. db1.draft = a.draft BY <1>3, <2>2 DEF IsDatabase, Fields
  <2> QED BY <1>3, <2>2, <2>3, StaysDatabase DEF Alters, IsDatabase, Fields
<1> HIDE DEF db1
<1>11. /\ Alters(db2, db1, {"association", "ok"}) /\ db2.ok
       /\ db2.association = a.association
  <2>1. IsDatabase(db1) /\ db1.ok /\ db1.thread = a.thread /\ db1.association = snap.association
    BY <1>3, <1>10 DEF Alters, Fields
  <2>2. \A c \in DOMAIN db1.thread : db1.thread[c].at \notin K BY <1>6, <2>1
  <2>3. Range(db1.draft) \cap K = {} BY <1>6, <1>10 DEF Range
  <2> QED BY <1>7, <2>1, <2>2, <2>3, DeleteAssociationsIs
<1> HIDE DEF db2
<1>12. /\ Alters(db3, db2, {"project"})
       /\ db3.project = db2.project \ {p \in {k[2] : k \in K} : \A k \in DOMAIN db2.association : k[2] # p}
  <2>1. IsDatabase(db2) BY <1>11 DEF Alters
  <2> QED BY <2>1, DeleteOrphansIs
<1> HIDE DEF db3
<1>13. db3.project = a.project
  <2>1. db2.project = snap.project BY <1>3, <1>10, <1>11 DEF Alters, Fields
  <2> QED BY <1>6, <1>9, <1>11, <1>12, <2>1
<1>14. /\ Alters(db4, db3, {"workspace", "last"})
       /\ db4.workspace = Without(db3.workspace, {w}) /\ db4.last = Without(db3.last, {w})
  <2>1. IsDatabase(db3) BY <1>12 DEF Alters
  <2> QED BY <2>1, DeleteWorkspaceIs
<1> HIDE DEF db4
<1>15. /\ IsDatabase(db4) /\ db4.ok
       /\ db4.workspace = Without(snap.workspace, {w}) /\ db4.association = a.association
       /\ db4.project = a.project /\ db4.active = snap.active
       /\ db4.thread = a.thread /\ db4.draft = a.draft /\ db4.message = a.message
       /\ db4.run = a.run /\ db4.work = [c \in DOMAIN a.work |-> "confirm"]
       /\ db4.last = Without(Without(snap.last, C0), {w})
  BY <1>3, <1>10, <1>11, <1>12, <1>13, <1>14 DEF Alters, Fields
<1>16. Without(Without(snap.last, C0), {w}) = a.last
  <2>1. DOMAIN Without(snap.last, C0) = DOMAIN snap.last \ C0 BY DEF Without, Restrict
  <2>2. {v \in DOMAIN snap.last \ {w} : snap.last[v] \notin C} = (DOMAIN snap.last \ C0) \ {w}
    OBVIOUS
  <2> HIDE DEF C0
  <2> QED BY <1>8, <2>1, <2>2 DEF Without, Restrict
<1>17. Reindexed(db4.workspace, DOMAIN db4.workspace) = a.workspace
  <2>1. DOMAIN db4.workspace = DOMAIN snap.workspace \ {w} BY <1>15 DEF Without, Restrict
  <2> QED BY <1>8, <1>15, <2>1
<1>18. (IF db4.active = w THEN Neighbour(db0.workspace, w) ELSE db4.active) = a.active
  BY <1>3, <1>8, <1>15
<1>19. db5 = [[db4 EXCEPT !.workspace = a.workspace] EXCEPT !.active = a.active]
  BY <1>15, <1>17, <1>18
<1> HIDE DEF db5
<1>20. /\ IsDatabase(db5)
       /\ db5.workspace = a.workspace /\ db5.active = a.active
       /\ \A field \in (Fields \cup {"ok"}) \ {"workspace", "active"} : db5[field] = db4[field]
  BY <1>15, <1>19, StaysDatabase DEF IsDatabase, Fields
<1>21. Mirrors(db5, a) BY <1>15, <1>16, <1>20 DEF Mirrors, Fields
<1> QED BY <1>1, <1>21 DEF a

LEMMA DeletionMirrored ==
  ASSUME CommandsIInv, NEW scope \in Scope, Exists(scope)
  PROVE  Mirrors(DeleteThreadsFromAppState(scope), ApplyThreadDeletion(snap, scope))
<1>1. scope.kind \in {"threads", "association", "workspace"} BY DEF Scope
<1> QED BY <1>1, ThreadsMirrored, AssociationMirrored, WorkspaceMirrored

LEMMA DeletionLoads ==
  ASSUME CommandsIInv, NEW scope \in Scope, Exists(scope)
  PROVE  LET a == ApplyThreadDeletion(snap, scope)
         IN  /\ Settled(a) /\ Normalized(a) = a
             /\ Load(DeleteThreadsFromAppState(scope)) = Confirmed(a)
<1> DEFINE a == ApplyThreadDeletion(snap, scope)
           db == DeleteThreadsFromAppState(scope)
<1>1. Settled(a) BY Before, DeletionSettles
<1>2. Mirrors(db, a) BY DeletionMirrored
<1> HIDE DEF a, db
<1>3. Normalized(a) = a BY <1>1, NormalizedSame
<1>4. Load(db) = Confirmed(a) BY <1>1, <1>2, LoadIs
<1> QED BY <1>1, <1>3, <1>4 DEF a, db

LEMMA Mirroring ==
  ASSUME CommandsIInv
  PROVE  DeletionMirrors
BY DeletionLoads, Zenon DEF DeletionMirrors

LEMMA DeleteKeeps ==
  ASSUME CommandsIInv, NEW scope \in Scope, Delete(scope)
  PROVE  CommandsIInv'
<1> DEFINE a == ApplyThreadDeletion(snap, scope)
           db == DeleteThreadsFromAppState(scope)
           after == Confirmed(a)
           stored == Checked(db, Valid(after))
<1>1. Exists(scope) BY DEF Delete
<1>2. Settled(a) /\ Load(db) = after BY <1>1, DeletionLoads
<1>3. Mirrors(db, a) BY <1>1, DeletionMirrored
<1>4. Become(after, stored) BY <1>2 DEF Delete
<1>5. /\ home' = [c \in Talk |-> IF home[c] \in Covered(snap, scope) THEN <<>> ELSE home[c]]
      /\ talkOf' = talkOf
  BY DEF Delete
<1>6. /\ DOMAIN a.thread = DOMAIN snap.thread \ Named(snap, scope)
      /\ DOMAIN a.draft = DOMAIN snap.draft \ Named(snap, scope)
      /\ DOMAIN a.message = DOMAIN snap.message \ OfTalks(snap.message, Named(snap, scope))
      /\ \A m \in DOMAIN a.message : a.message[m] = snap.message[m]
      /\ DOMAIN a.run = DOMAIN snap.run \ OfTalks(snap.run, Named(snap, scope))
      /\ \A t \in DOMAIN a.run : a.run[t] = snap.run[t]
  BY Before, DeletionKeeps
<1> HIDE DEF a, db
<1>7. Settled(after) BY <1>2, ConfirmedSettled
<1>8. a \in Snapshots BY <1>2 DEF Settled, Typed
<1>9. /\ after.thread = a.thread /\ after.draft = a.draft
      /\ after.message = a.message /\ after.run = a.run
  BY <1>8, ConfirmedIs
<1>10. Mirrors(db, after) BY <1>3, <1>8, MirrorsConfirmed
<1> HIDE DEF after
<1>11. Mirrors(stored, after)
  <2>1. IsDatabase(db) /\ db.ok BY <1>10 DEF Mirrors
  <2>2. Alters(stored, db, {"ok"}) /\ stored.ok BY <1>7, <2>1, CheckedIs DEF Settled
  <2> HIDE DEF stored
  <2> QED BY <1>10, <2>2 DEF Mirrors, Alters, Fields
<1>12. Consistent' /\ snap' = after
  <2>1. Consistent BY DEF CommandsIInv
  <2> HIDE DEF stored
  <2> QED BY <1>4, <1>7, <1>11, <2>1, BecomeKeeps
<1>13. HistoryOK'
  <2>1. HistoryOK BY DEF CommandsIInv
  <2>2. <<>> # None BY NoneAssumption
  <2>3. home' \in [Talk -> (Workspace \X Project) \cup {None, <<>>}] BY <1>5, <2>1 DEF HistoryOK
  <2>4. \A c \in Talk : home[c] # None => home'[c] # None
    BY <1>5, <2>2
  <2>5. DOMAIN snap.thread \subseteq Talk /\ DOMAIN snap.draft \subseteq Talk
    BY Before, FieldsTyped, PartialIs
  <2>6. DOMAIN snap'.draft \cup DOMAIN snap'.thread \subseteq DOMAIN snap.draft \cup DOMAIN snap.thread
    BY <1>6, <1>9, <1>12
  <2>7. \A c \in DOMAIN snap'.draft \cup DOMAIN snap'.thread : home'[c] # None
    BY <2>1, <2>4, <2>5, <2>6 DEF HistoryOK
  <2>8. talkOf' \in [Turn -> Talk \cup {None}] BY <1>5, <2>1 DEF HistoryOK
  <2> QED BY <2>3, <2>7, <2>8 DEF HistoryOK
<1>14. TurnsOK'
  <2>1. TurnsOK BY DEF CommandsIInv
  <2> QED BY <1>5, <1>6, <1>9, <1>12, <2>1 DEF TurnsOK
<1> QED BY <1>12, <1>13, <1>14 DEF CommandsIInv

-----------------------------------------------------------------------------
(* The invariant holds from the empty snapshot on. *)

LEMMA CommandsInitially == Init => CommandsIInv
<1> SUFFICES ASSUME Init PROVE CommandsIInv OBVIOUS
<1> DEFINE db == [field \in DOMAIN EmptyState \union {"ok"} |->
                    IF field = "ok" THEN TRUE ELSE EmptyState[field]]
<1>1. /\ snap = EmptyState /\ rows = db /\ ~failed
      /\ home = [c \in Talk |-> None] /\ talkOf = [t \in Turn |-> None]
  BY DEF Init
<1>2. /\ snap.workspace = <<>> /\ snap.association = <<>> /\ snap.project = {}
      /\ snap.thread = <<>> /\ snap.draft = <<>> /\ snap.message = <<>> /\ snap.run = <<>>
      /\ snap.work = <<>> /\ snap.last = <<>> /\ snap.active = None
  BY <1>1 DEF EmptyState
<1>3. DOMAIN <<>> = {} BY NothingTyped
<1>4. snap \in Snapshots
  <2>1. /\ <<>> \in Partial(Workspace, Nat) /\ <<>> \in Partial(Workspace \X Project, Nat)
        /\ <<>> \in Partial(Talk, ThreadRecord) /\ <<>> \in Partial(Talk, Workspace \X Project)
        /\ <<>> \in Partial(MessageIds, MessageRecord) /\ <<>> \in Partial(Turn, [talk : Talk])
        /\ <<>> \in Partial(Talk, {"auto", "confirm"}) /\ <<>> \in Partial(Workspace, Talk)
    BY NothingTyped
  <2> QED BY <1>1, <2>1 DEF Snapshots, EmptyState
<1>5. Typed(snap) BY <1>2, <1>3, <1>4, FS_EmptySet DEF Typed
<1>6. Valid(snap)
  <2>1. \A f : Contiguous(f, {}) BY EmptyContiguous
  <2>2. WorkspacesFit(snap) BY <1>2, <1>3, <2>1 DEF WorkspacesFit
  <2>3. ProjectsFit(snap)
    <3>1. \A w : Associations(snap, w) = {} BY <1>2, <1>3 DEF Associations
    <3>2. snap.project = {k[2] : k \in DOMAIN snap.association} BY <1>2, <1>3
    <3>3. \A k \in DOMAIN snap.association : k[1] \in DOMAIN snap.workspace BY <1>2, <1>3
    <3>4. \A w \in Workspace : Contiguous(snap.association, Associations(snap, w)) BY <2>1, <3>1
    <3> QED BY <3>2, <3>3, <3>4 DEF ProjectsFit
  <2>4. ThreadsFit(snap) /\ MessagesFit(snap) /\ RunsFit(snap) /\ WorkFits(snap)
    BY <1>2, <1>3 DEF ThreadsFit, MessagesFit, RunsFit, WorkFits
  <2>5. DraftsFit(snap) BY <1>2, <1>3 DEF DraftsFit, Range
  <2> QED BY <2>2, <2>3, <2>4, <2>5 DEF Valid
<1>7. Settled(snap) BY <1>2, <1>3, <1>5, <1>6 DEF Settled
<1>8. Mirrors(rows, snap)
  <2>1. DOMAIN EmptyState = Fields BY DEF EmptyState, Fields
  <2>2. db.ok /\ \A field \in Fields : db[field] = EmptyState[field] BY <2>1 DEF Fields
  <2>3. IsDatabase(db) BY <2>1 DEF IsDatabase
  <2>4. [c \in DOMAIN snap.work |-> "confirm"] = snap.work BY <1>2, <1>3
  <2> HIDE DEF db
  <2> QED BY <1>1, <2>2, <2>3, <2>4 DEF Mirrors, Fields
<1>9. HistoryOK BY <1>1, <1>2, <1>3 DEF HistoryOK
<1>10. TurnsOK BY <1>2, <1>3 DEF TurnsOK
<1> QED BY <1>1, <1>7, <1>8, <1>9, <1>10 DEF CommandsIInv, Consistent

LEMMA CommandsInductive == CommandsIInv /\ [Next]_vars => CommandsIInv'
<1> SUFFICES ASSUME CommandsIInv, [Next]_vars PROVE CommandsIInv' OBVIOUS
<1>1. CASE Workspaces
  <2>1. ASSUME NEW w \in Workspace, NEW P \in {{}} \union {{p} : p \in Project}, CreateWorkspace(w, P)
        PROVE  CommandsIInv'
    BY <2>1, CreateWorkspaceKeeps
  <2>2. ASSUME NEW w \in Workspace, NEW p \in Project, AddProject(w, p)
        PROVE  CommandsIInv'
    BY <2>2, AddProjectKeeps
  <2>3. ASSUME NEW w \in Workspace, SelectWorkspace(w)
        PROVE  CommandsIInv'
    BY <2>3, SelectWorkspaceKeeps
  <2>4. ASSUME NEW c \in Talk, RememberThreadLocation(c)
        PROVE  CommandsIInv'
    BY <2>4, RememberThreadLocationKeeps
  <2> QED BY <1>1, <2>1, <2>2, <2>3, <2>4 DEF Workspaces
<1>2. CASE Drafts
  <2>1. ASSUME NEW c \in Talk, NEW k \in Workspace \X Project, OpenThreadDraft(c, k)
        PROVE  CommandsIInv'
    BY <2>1, OpenThreadDraftKeeps
  <2>2. ASSUME NEW c \in Talk, DiscardThreadDraft(c)
        PROVE  CommandsIInv'
    BY <2>2, DiscardThreadDraftKeeps
  <2>3. ASSUME NEW c \in Talk, RollbackThreadDraftPromotion(c)
        PROVE  CommandsIInv'
    BY <2>3, RollbackThreadDraftPromotionKeeps
  <2>4. ASSUME NEW c \in Talk, NEW t \in Turn, PromoteThreadDraft(c, t)
        PROVE  CommandsIInv'
    BY <2>4, PromoteThreadDraftKeeps
  <2> QED BY <1>2, <2>1, <2>2, <2>3, <2>4 DEF Drafts
<1>3. CASE Threads
  <2>1. ASSUME NEW c \in Talk, NEW t \in Turn, RecordThreadRun(c, t)
        PROVE  CommandsIInv'
    BY <2>1, RecordThreadRunKeeps
  <2>2. ASSUME NEW c \in Talk, NEW t \in Turn, RollbackThreadRun(c, t)
        PROVE  CommandsIInv'
    BY <2>2, RollbackThreadRunKeeps
  <2>3. ASSUME NEW c \in Talk, ArchiveThread(c)
        PROVE  CommandsIInv'
    BY <2>3, ArchiveThreadKeeps
  <2>4. ASSUME NEW c \in Talk, RestoreThread(c)
        PROVE  CommandsIInv'
    BY <2>4, RestoreThreadKeeps
  <2>5. ASSUME NEW c \in Talk, SetAutomaticThreadTitle(c)
        PROVE  CommandsIInv'
    BY <2>5, SetAutomaticThreadTitleKeeps
  <2>6. ASSUME NEW c \in Talk, NEW work \in {None, "auto"}, UpdateThreadWork(c, work)
        PROVE  CommandsIInv'
    BY <2>6, UpdateThreadWorkKeeps
  <2> QED BY <1>3, <2>1, <2>2, <2>3, <2>4, <2>5, <2>6 DEF Threads
<1>4. CASE Content
  <2>1. ASSUME NEW c \in Talk, NEW t \in Turn, StreamMessage(c, t)
        PROVE  CommandsIInv'
    BY <2>1, StreamMessageKeeps
  <2>2. ASSUME NEW c \in Talk, NEW t \in Turn, RemoveMessages(c, t)
        PROVE  CommandsIInv'
    BY <2>2, RemoveMessagesKeeps
  <2>3. ASSUME NEW c \in Talk, NEW t \in Turn, NEW u \in Turn, EditAndResend(c, t, u)
        PROVE  CommandsIInv'
    BY <2>3, EditAndResendKeeps
  <2> QED BY <1>4, <2>1, <2>2, <2>3 DEF Content
<1>5. CASE Restart BY <1>5, RestartKeeps
<1>6. ASSUME NEW scope \in Scope, Delete(scope)
      PROVE  CommandsIInv'
  BY <1>6, DeleteKeeps
<1>7. CASE UNCHANGED vars
  BY <1>7 DEF vars, CommandsIInv, Consistent, Settled, Typed, Valid, WorkspacesFit, ProjectsFit,
     ThreadsFit, DraftsFit, MessagesFit, RunsFit, WorkFits, Leads, Mirrors, IsDatabase, HistoryOK,
     TurnsOK, Associations, OfTalks
<1> QED BY <1>1, <1>2, <1>3, <1>4, <1>5, <1>6, <1>7 DEF Next

\* Whatever the sets of workspaces, projects, conversations and turns, snapshot and
\* database hold the same state, and it is one the normalizer accepts unchanged.
THEOREM CommandsInvariance == Spec => []CommandsIInv
BY CommandsInitially, CommandsInductive, PTL DEF Spec

\* A restart finds what the windows saw (appStateCommands.ts against
\* sqliteAppStateCommands.ts, for every command).
THEOREM RestartFindsSnapshot == Spec => []RestartLoadsSnapshot
BY CommandsInvariance, RestartLoads, PTL

\* The schema refuses no command the reducers and the normalizer let through, and
\* no deletion leaves rows that do not load.
THEOREM NoCommandRefused == Spec => []StoreAccepts
<1>1. CommandsIInv => StoreAccepts BY DEF CommandsIInv, Consistent, StoreAccepts
<1> QED BY <1>1, CommandsInvariance, PTL

\* Deleting the rows of a thread, an association or a workspace leaves what
\* deleting them in the snapshot would.
THEOREM DeletionsAgree == Spec => []DeletionMirrors
BY CommandsInvariance, Mirroring, PTL

-----------------------------------------------------------------------------
(***************************************************************************)
(* Part 2: DataDirectory                                                   *)
(***************************************************************************)
(* The inductive invariant. *)

\* The steps of an initialization, and those of a reset that may still be rolled back.
Initializing == {"open", "marker", "read", "evidence", "copy", "import", "rename", "reconcile"}
Undoable == {"collect", "stage", "fresh", "write", "rollback"}

\* Rows are written with the marker, which a database without rows only has when there
\* was nothing to import, or after a reset.
Marked(d) == d.database # Absent /\ d.database.rows # "empty" => d.database.marker
FreshMark(d) == d.database # Absent /\ d.database.marker /\ d.database.rows = "empty"

MarkersOK ==
    /\ Marked(base)
    /\ FreshMark(base) => wiped \/ ~had
    /\ staging # Absent => Marked(staging)

\* What the import knows of the directory where it is.
ImportOK ==
    /\ status = "ready" => at = "idle"
    /\ status = "ready" \/ at \in (Initializing \ {"open"}) \cup {"write", "cleanup"} => base.database # Absent
    /\ status = "ready" \/ at \in {"rename", "reconcile", "cleanup"} => base.database.marker
    /\ at \in {"read", "evidence", "copy", "import"} => ~base.database.marker
    /\ at = "evidence" => base.json = Absent
    /\ at = "rename" => base.database.rows # "empty"

\* The staging directory has the staged entries, and besides only what could not be moved
\* back; their places are free, or taken by a database without anything in it.
StagedOK ==
    /\ ~damaged /\ staging # Absent => \A e \in Entries : staging[e] # Absent => e \in staged
    /\ staged # {} => staging # Absent
    /\ \A e \in staged : /\ staging[e] # Absent
                         /\ base[e] = Absent \/ (e = "database" /\ base.database = EmptyDatabase)
    /\ "database" \in staged /\ FreshMark(staging) => wiped \/ ~had

ResetOK ==
    /\ at \in {"look", "clear", "collect", "stage", "fresh", "write"} => ~damaged
    /\ at = "clear" => staging = Absent
    /\ at \in {"collect", "stage", "fresh", "write"} => staging # Absent
    /\ at \in {"look", "clear", "collect"} => staged = {}
    /\ at = "stage" => targets \cap staged = {} /\ \A e \in targets : Present(e)
    /\ at \in Undoable => StagedOK
    /\ at = "cleanup" => wiped

DirectoryIInv == TypeOK /\ MarkersOK /\ ImportOK /\ ResetOK /\ NothingLost

-----------------------------------------------------------------------------
LEMMA DirectoryConstants ==
    /\ Absent # "data" /\ Absent # "malformed" /\ Absent \notin Databases /\ Absent \notin Directories
    /\ EmptyDatabase \in Databases /\ EmptyDirectory \in Directories
    /\ EmptyDirectory.json = Absent /\ EmptyDirectory.attachments = Absent
    /\ EmptyDirectory.database = Absent /\ EmptyDirectory.copies = Absent
    /\ EmptyDatabase.rows = "empty" /\ ~EmptyDatabase.marker
BY DataDirectoryAssumption DEF Databases, Database, EmptyDatabase, Rows, Directories, EmptyDirectory

\* The user's data, with the directories one by one.
LEMMA Holding ==
    ASSUME NEW b \in Directories, NEW s, s # Absent => s \in Directories
    PROVE  /\ (\E d \in {b, s} : d # Absent /\ HasRows(d)) <=> HasRows(b) \/ (s # Absent /\ HasRows(s))
           /\ (\E d \in {b, s} : d # Absent /\ d.attachments # Absent)
                 <=> b.attachments # Absent \/ (s # Absent /\ s.attachments # Absent)
BY DirectoryConstants

\* A step keeps the counters, or counts one failure.
LEMMA DirectoryCounted ==
    ASSUME TypeOK, NEW step, UNCHANGED counters \/ Fault(step)
    PROVE  faults' \in 0..MaxFaults /\ crashes' \in 0..MaxCrashes /\ resets' \in 0..MaxResets
BY DataDirectoryAssumption DEF TypeOK, Fault, counters

\* A step that leaves the files, what there has been of the user's, and the places of a
\* reset that may be undone.
LEMMA SameFiles ==
    ASSUME DirectoryIInv, UNCHANGED <<files, had, wiped>>
    PROVE  MarkersOK' /\ NothingLost'
<1>1. base' = base /\ staging' = staging /\ had' = had /\ wiped' = wiped  BY DEF files
<1> QED  BY <1>1 DEF DirectoryIInv, MarkersOK, NothingLost, Marked, FreshMark

LEMMA StartStep == ASSUME DirectoryIInv, Start \/ Reread PROVE DirectoryIInv'
<1>1. TypeOK'  BY DEF DirectoryIInv, TypeOK, Start, Reread, files, counters, Steps
<1>2. ImportOK'  BY DEF DirectoryIInv, Start, Reread, ImportOK, Initializing
<1>3. ResetOK'  BY DEF Start, Reread, ResetOK, Undoable
<1> QED  BY <1>1, <1>2, <1>3, SameFiles DEF DirectoryIInv, Start, Reread

LEMMA OpenStep == ASSUME DirectoryIInv, Open PROVE DirectoryIInv'
<1>1. /\ TypeOK /\ at = "open" /\ staging' = staging /\ had' = had /\ wiped' = wiped
      /\ UNCHANGED <<op, reloaded, targets, staged, damaged>> /\ connected' \in BOOLEAN
      /\ base \in Directories
  BY DEF DirectoryIInv, TypeOK, Open, Goto, Conclude
<1>2. \/ base' = base
      \/ base.database = Absent /\ base' = [base EXCEPT !.database = EmptyDatabase]
  BY DEF Open, Present
<1>3. /\ base' \in Directories /\ base'.json = base.json /\ base'.attachments = base.attachments
      /\ base'.database = base.database \/ (base.database = Absent /\ base'.database = EmptyDatabase)
  <2>1. CASE base.database = Absent /\ base' = [base EXCEPT !.database = EmptyDatabase]
    BY <1>1, <2>1, DirectoryConstants DEF Directories
  <2> QED  BY <1>1, <1>2, <2>1
<1>4. (at' = "marker" /\ status' = status /\ base'.database # Absent) \/ (at' = "idle" /\ status' = "recovery" /\ base' = base)
  <2>1. CASE Goto("marker") /\ base' = IF Present("database") THEN base ELSE [base EXCEPT !.database = EmptyDatabase]
    BY <1>1, <1>2, <1>3, <2>1, DirectoryConstants DEF Goto, Present
  <2>2. CASE Conclude("recovery") /\ base' = base  BY <2>2 DEF Conclude
  <2> QED  BY <2>1, <2>2 DEF Open
<1>5. faults' \in 0..MaxFaults /\ crashes' \in 0..MaxCrashes /\ resets' \in 0..MaxResets
  BY <1>1, DirectoryCounted DEF Open
<1>6. TypeOK'  BY <1>1, <1>3, <1>4, <1>5 DEF TypeOK, Steps
<1>7. MarkersOK'
  BY <1>1, <1>3, DirectoryConstants DEF DirectoryIInv, MarkersOK, Marked, FreshMark
<1>8. ImportOK'  BY <1>1, <1>4 DEF DirectoryIInv, ImportOK, Initializing
<1>9. ResetOK'  BY <1>4 DEF ResetOK, Undoable
<1>10. HasRows(base) => HasRows(base')  BY <1>3 DEF HasRows
<1>11. NothingLost'
  BY <1>1, <1>3, <1>10, Holding DEF DirectoryIInv, NothingLost, TypeOK
<1> QED  BY <1>6, <1>7, <1>8, <1>9, <1>11 DEF DirectoryIInv

LEMMA CheckStep == ASSUME DirectoryIInv, CheckMarker PROVE DirectoryIInv'
<1>1. TypeOK /\ at = "marker" /\ UNCHANGED <<files, connected, counters, had, wiped>> /\ op' = op /\ damaged' = damaged
      /\ targets' = targets /\ staged' = staged
  BY DEF DirectoryIInv, CheckMarker, Goto, Conclude, Loaded
<1>2. \/ at' = "read" /\ status' = status /\ reloaded' = reloaded /\ ~base.database.marker
      \/ at' = "idle" /\ status' = "recovery" /\ reloaded' = reloaded
      \/ at' \in {"reconcile", "marker"} /\ status' = status /\ reloaded' = TRUE /\ base.database.marker
  BY DEF CheckMarker, Goto, Conclude, Loaded
<1>3. TypeOK'  BY <1>1, <1>2 DEF TypeOK, files, counters, Steps
<1>4. ImportOK'  BY <1>1, <1>2 DEF DirectoryIInv, ImportOK, Initializing, files
<1>5. ResetOK'  BY <1>2 DEF ResetOK, Undoable
<1> QED  BY <1>1, <1>3, <1>4, <1>5, SameFiles DEF DirectoryIInv

LEMMA ReadStep == ASSUME DirectoryIInv, ReadJson PROVE DirectoryIInv'
<1>1. TypeOK /\ at = "read" /\ UNCHANGED <<files, connected, had, wiped>> /\ op' = op /\ damaged' = damaged
      /\ targets' = targets /\ staged' = staged /\ reloaded' = reloaded
  BY DEF DirectoryIInv, ReadJson, Goto, Conclude
<1>2. \/ at' = "evidence" /\ status' = status /\ base.json = Absent
      \/ at' = "copy" /\ status' = status
      \/ at' = "idle" /\ status' = "recovery"
  BY DEF ReadJson, Goto, Conclude
<1>3. faults' \in 0..MaxFaults /\ crashes' \in 0..MaxCrashes /\ resets' \in 0..MaxResets
  BY <1>1, DirectoryCounted DEF ReadJson
<1>4. TypeOK'  BY <1>1, <1>2, <1>3 DEF TypeOK, files, Steps
<1>5. ImportOK'  BY <1>1, <1>2 DEF DirectoryIInv, ImportOK, Initializing, files
<1>6. ResetOK'  BY <1>2 DEF ResetOK, Undoable
<1> QED  BY <1>1, <1>4, <1>5, <1>6, SameFiles DEF DirectoryIInv

\* A fresh install is one: there is nothing of the user's in either directory.
LEMMA EvidenceStep == ASSUME DirectoryIInv, InspectEvidence PROVE DirectoryIInv'
<1>1. TypeOK /\ at = "evidence" /\ UNCHANGED <<staging, connected, had, wiped>> /\ op' = op /\ damaged' = damaged
      /\ targets' = targets /\ staged' = staged /\ base \in Directories /\ base.json = Absent
      /\ base.database # Absent /\ ~base.database.marker
  BY DEF DirectoryIInv, InspectEvidence, Goto, Conclude, Loaded, Reject, TypeOK, ImportOK, Initializing
<1>2. \/ /\ at' = "idle" /\ status' \in {"recovery", "failed", status} /\ reloaded' = reloaded /\ base' = base
         /\ status' = "ready" => status = "ready"
      \/ /\ at' \in {"reconcile", "marker"} /\ status' = status /\ reloaded' = TRUE
         /\ ~Evidence /\ base.database = EmptyDatabase /\ base' = [base EXCEPT !.database.marker = TRUE]
  BY DEF InspectEvidence, Goto, Conclude, Loaded, Reject
<1>3. faults' \in 0..MaxFaults /\ crashes' \in 0..MaxCrashes /\ resets' \in 0..MaxResets
  BY <1>1, DirectoryCounted DEF InspectEvidence
<1>4. CASE base' = base /\ at' = "idle"
  <2>1. TypeOK'  BY <1>1, <1>2, <1>3, <1>4 DEF TypeOK, Steps
  <2>2. ImportOK'  BY <1>1, <1>2, <1>4 DEF DirectoryIInv, ImportOK, Initializing
  <2>3. ResetOK'  BY <1>4 DEF ResetOK, Undoable
  <2> QED  BY <1>1, <1>4, <2>1, <2>2, <2>3, SameFiles DEF DirectoryIInv, files
<1>5. CASE /\ at' \in {"reconcile", "marker"} /\ status' = status /\ reloaded' = TRUE
           /\ ~Evidence /\ base.database = EmptyDatabase /\ base' = [base EXCEPT !.database.marker = TRUE]
  <2>1. /\ base' \in Directories /\ base'.database \in Databases /\ base'.database.rows = "empty" /\ base'.database.marker
        /\ base'.json = base.json /\ base'.attachments = base.attachments
    BY <1>1, <1>5, DirectoryConstants DEF Directories, Databases
  <2>2. staging = Absent /\ ~HasRows(base)
    BY <1>1, <1>5, DirectoryConstants DEF Evidence, HasRows
  <2>3. wiped \/ ~had
    BY <1>1, <2>2, Holding DEF DirectoryIInv, NothingLost, TypeOK
  <2>4. TypeOK'  BY <1>1, <1>3, <1>5, <2>1 DEF TypeOK, Steps
  <2>5. MarkersOK'  BY <1>1, <2>1, <2>2, <2>3 DEF MarkersOK, Marked, FreshMark
  <2>6. ImportOK'  BY <1>1, <1>5, <2>1, DirectoryConstants DEF DirectoryIInv, ImportOK, Initializing
  <2>7. ResetOK'  BY <1>5 DEF ResetOK, Undoable
  <2>8. NothingLost'  BY <1>1, <2>3 DEF NothingLost
  <2> QED  BY <2>4, <2>5, <2>6, <2>7, <2>8 DEF DirectoryIInv
<1> QED  BY <1>2, <1>4, <1>5

LEMMA CopyStep == ASSUME DirectoryIInv, CopySource PROVE DirectoryIInv'
<1>1. TypeOK /\ at = "copy" /\ UNCHANGED <<staging, connected, had, wiped>> /\ op' = op /\ damaged' = damaged
      /\ targets' = targets /\ staged' = staged /\ reloaded' = reloaded /\ base \in Directories
  BY DEF DirectoryIInv, CopySource, Goto, Conclude, TypeOK
<1>2. \/ at' = "import" /\ status' = status /\ base' = [base EXCEPT !.copies = "data"]
      \/ at' = "idle" /\ status' = "recovery" /\ base' = base
  BY DEF CopySource, Goto, Conclude
<1>3. faults' \in 0..MaxFaults /\ crashes' \in 0..MaxCrashes /\ resets' \in 0..MaxResets
  BY <1>1, DirectoryCounted DEF CopySource
<1>4. /\ base' \in Directories /\ base'.json = base.json /\ base'.attachments = base.attachments
      /\ base'.database = base.database
  BY <1>1, <1>2 DEF Directories
<1>5. TypeOK'  BY <1>1, <1>2, <1>3, <1>4 DEF TypeOK, Steps
<1>6. MarkersOK'  BY <1>1, <1>4 DEF DirectoryIInv, MarkersOK, Marked, FreshMark
<1>7. ImportOK'  BY <1>1, <1>2, <1>4 DEF DirectoryIInv, ImportOK, Initializing
<1>8. ResetOK'  BY <1>2 DEF ResetOK, Undoable
<1>9. NothingLost'
  BY <1>1, <1>4, Holding DEF DirectoryIInv, NothingLost, TypeOK, HasRows
<1> QED  BY <1>5, <1>6, <1>7, <1>8, <1>9 DEF DirectoryIInv

LEMMA ImportStep == ASSUME DirectoryIInv, Import PROVE DirectoryIInv'
<1>1. TypeOK /\ at = "import" /\ UNCHANGED <<staging, connected, had, wiped>> /\ op' = op /\ damaged' = damaged
      /\ targets' = targets /\ staged' = staged /\ reloaded' = reloaded /\ base \in Directories
  BY DEF DirectoryIInv, Import, Goto, Conclude, Reject, TypeOK
<1>2. \/ at' = "rename" /\ status' = status /\ base' = [base EXCEPT !.database = Database("imported", TRUE)]
      \/ /\ at' = "idle" /\ status' \in {"failed", status} /\ base' = base
         /\ status' = "ready" => status = "ready"
  BY DEF Import, Goto, Conclude, Reject
<1>3. faults' \in 0..MaxFaults /\ crashes' \in 0..MaxCrashes /\ resets' \in 0..MaxResets
  BY <1>1, DirectoryCounted DEF Import
<1>4. CASE base' = base /\ at' = "idle"
  <2>1. TypeOK'  BY <1>1, <1>2, <1>3, <1>4 DEF TypeOK, Steps
  <2>2. ImportOK'  BY <1>1, <1>2, <1>4 DEF DirectoryIInv, ImportOK, Initializing
  <2>3. ResetOK'  BY <1>4 DEF ResetOK, Undoable
  <2> QED  BY <1>1, <1>4, <2>1, <2>2, <2>3, SameFiles DEF DirectoryIInv, files
<1>5. CASE at' = "rename" /\ status' = status /\ base' = [base EXCEPT !.database = Database("imported", TRUE)]
  <2>1. /\ base' \in Directories /\ base'.database \in Databases /\ base'.database.rows = "imported" /\ base'.database.marker
        /\ base'.json = base.json /\ base'.attachments = base.attachments
    BY <1>1, <1>5 DEF Directories, Databases, Database, Rows
  <2>2. HasRows(base')  BY <2>1, DirectoryConstants DEF HasRows
  <2>3. TypeOK'  BY <1>1, <1>3, <1>5, <2>1 DEF TypeOK, Steps
  <2>4. MarkersOK'  BY <1>1, <2>1 DEF DirectoryIInv, MarkersOK, Marked, FreshMark
  <2>5. ImportOK'  BY <1>1, <1>5, <2>1, DirectoryConstants DEF DirectoryIInv, ImportOK, Initializing
  <2>6. ResetOK'  BY <1>5 DEF ResetOK, Undoable
  <2>7. NothingLost'  BY <1>1, <2>1, <2>2, Holding DEF DirectoryIInv, NothingLost, TypeOK
  <2> QED  BY <2>3, <2>4, <2>5, <2>6, <2>7 DEF DirectoryIInv
<1> QED  BY <1>2, <1>4, <1>5

LEMMA RenameStep == ASSUME DirectoryIInv, RenameSource PROVE DirectoryIInv'
<1>1. TypeOK /\ at = "rename" /\ UNCHANGED <<staging, connected, had, wiped>> /\ op' = op /\ damaged' = damaged
      /\ targets' = targets /\ staged' = staged /\ reloaded' = TRUE /\ base \in Directories
      /\ at' \in {"reconcile", "marker"} /\ status' = status
      /\ base.database # Absent /\ base.database.marker /\ base.database.rows # "empty"
  BY DEF DirectoryIInv, RenameSource, Loaded, TypeOK, ImportOK, Initializing
<1>2. base' = [base EXCEPT !.json = Absent, !.copies = "data"] \/ base' = base
  BY DEF RenameSource
<1>3. faults' \in 0..MaxFaults /\ crashes' \in 0..MaxCrashes /\ resets' \in 0..MaxResets
  BY <1>1, DirectoryCounted DEF RenameSource
<1>4. base' \in Directories /\ base'.attachments = base.attachments /\ base'.database = base.database
  BY <1>1, <1>2 DEF Directories
<1>5. TypeOK'  BY <1>1, <1>3, <1>4 DEF TypeOK, Steps
<1>6. MarkersOK'  BY <1>1, <1>4 DEF DirectoryIInv, MarkersOK, Marked, FreshMark
<1>7. ImportOK'  BY <1>1, <1>4 DEF DirectoryIInv, ImportOK, Initializing
<1>8. ResetOK'  BY <1>1 DEF ResetOK, Undoable
<1>9. HasRows(base')  BY <1>1, <1>4 DEF HasRows
<1>10. NothingLost'
  BY <1>1, <1>4, <1>9, Holding DEF DirectoryIInv, NothingLost, TypeOK
<1> QED  BY <1>5, <1>6, <1>7, <1>8, <1>10 DEF DirectoryIInv

LEMMA ReconcileStep == ASSUME DirectoryIInv, Reconcile PROVE DirectoryIInv'
<1>1. TypeOK /\ at = "reconcile" /\ UNCHANGED <<staging, connected, had, wiped>> /\ op' = op /\ damaged' = damaged
      /\ targets' = targets /\ staged' = staged /\ reloaded' = reloaded /\ base \in Directories
      /\ at' = "idle" /\ status' = "ready" /\ base.database # Absent /\ base.database.marker
  BY DEF DirectoryIInv, Reconcile, Conclude, TypeOK, ImportOK, Initializing
<1>2. base' = base \/ (base.database.rows = "empty" /\ base' = [base EXCEPT !.attachments = Absent])
  BY DEF Reconcile
<1>3. faults' \in 0..MaxFaults /\ crashes' \in 0..MaxCrashes /\ resets' \in 0..MaxResets
  BY <1>1, DirectoryCounted DEF Reconcile
<1>4. /\ base' \in Directories /\ base'.json = base.json /\ base'.database = base.database
      /\ base'.attachments = base.attachments \/ base.database.rows = "empty"
  BY <1>1, <1>2 DEF Directories
<1>5. TypeOK'  BY <1>1, <1>3, <1>4 DEF TypeOK, Steps
<1>6. MarkersOK'  BY <1>1, <1>4 DEF DirectoryIInv, MarkersOK, Marked, FreshMark
<1>7. ImportOK'  BY <1>1, <1>4 DEF DirectoryIInv, ImportOK, Initializing
<1>8. ResetOK'  BY <1>1 DEF ResetOK, Undoable
<1>9. base.database.rows = "empty" => wiped \/ ~had  BY <1>1 DEF DirectoryIInv, MarkersOK, FreshMark
<1>10. HasRows(base') <=> HasRows(base)  BY <1>4 DEF HasRows
<1>11. NothingLost'
  BY <1>1, <1>4, <1>9, <1>10, Holding DEF DirectoryIInv, NothingLost, TypeOK
<1> QED  BY <1>5, <1>6, <1>7, <1>8, <1>11 DEF DirectoryIInv

LEMMA FullResetStep == ASSUME DirectoryIInv, FullReset PROVE DirectoryIInv'
<1>1. TypeOK /\ at' = "look" /\ connected' = FALSE /\ staged' = {} /\ targets' = {} /\ damaged' = FALSE
      /\ op' = "full-reset" /\ resets < MaxResets /\ resets' = resets + 1 /\ status = "recovery"
      /\ UNCHANGED <<files, status, reloaded, faults, crashes, had, wiped>>
  BY DEF DirectoryIInv, FullReset
<1>2. resets' \in 0..MaxResets  BY <1>1, DataDirectoryAssumption DEF TypeOK
<1>3. TypeOK'  BY <1>1, <1>2 DEF TypeOK, Steps, files
<1>4. ImportOK'  BY <1>1 DEF ImportOK, Initializing
<1>5. ResetOK'  BY <1>1 DEF ResetOK, Undoable
<1> QED  BY <1>1, <1>3, <1>4, <1>5, SameFiles DEF DirectoryIInv

LEMMA LookStep == ASSUME DirectoryIInv, "look" \notin Faulty, LookForLeftover PROVE DirectoryIInv'
<1>1. TypeOK /\ at = "look" /\ UNCHANGED <<files, connected, counters, had, wiped>> /\ op' = op /\ damaged' = damaged
      /\ targets' = targets /\ staged' = staged /\ reloaded' = reloaded /\ staged = {}
  BY DEF DirectoryIInv, LookForLeftover, Goto, Conclude, Fault, ResetOK
<1>2. \/ at' = "clear" /\ status' = status /\ staging = Absent
      \/ at' = "idle" /\ status' = "recovery"
  BY DEF LookForLeftover, Goto, Conclude, Fault
<1>3. TypeOK'  BY <1>1, <1>2 DEF TypeOK, files, counters, Steps
<1>4. ImportOK'  BY <1>1, <1>2 DEF DirectoryIInv, ImportOK, Initializing, files
<1>5. at' = "clear" => ~damaged
  BY <1>1, <1>2 DEF DirectoryIInv, ResetOK
<1>6. ResetOK'  BY <1>1, <1>2, <1>5 DEF ResetOK, Undoable, files
<1> QED  BY <1>1, <1>3, <1>4, <1>6, SameFiles DEF DirectoryIInv

LEMMA ClearStep == ASSUME DirectoryIInv, ClearStaging PROVE DirectoryIInv'
<1>1. TypeOK /\ at = "clear" /\ UNCHANGED <<base, connected, had, wiped>> /\ op' = op /\ damaged' = damaged
      /\ targets' = targets /\ staged' = staged /\ reloaded' = reloaded /\ staged = {} /\ ~damaged
      /\ status' = status /\ status # "ready" /\ staging = Absent /\ base \in Directories
  BY DEF DirectoryIInv, TypeOK, ClearStaging, Goto, ResetOK, ImportOK
<1>2. (at' = "collect" /\ staging' = EmptyDirectory) \/ (at' = "rollback" /\ staging' = staging)
  BY DEF ClearStaging, Goto
<1>3. faults' \in 0..MaxFaults /\ crashes' \in 0..MaxCrashes /\ resets' \in 0..MaxResets
  BY <1>1, DirectoryCounted DEF ClearStaging
<1>4. TypeOK'  BY <1>1, <1>2, <1>3, DirectoryConstants DEF TypeOK, Steps
<1>5. MarkersOK'  BY <1>1, <1>2, DirectoryConstants DEF DirectoryIInv, MarkersOK, Marked, FreshMark
<1>6. ImportOK'  BY <1>1, <1>2 DEF ImportOK, Initializing
<1>7. \A e \in Entries : EmptyDirectory[e] = Absent  BY DEF Entries, EmptyDirectory
<1>8. ResetOK'  BY <1>1, <1>2, <1>7, DirectoryConstants DEF ResetOK, Undoable, StagedOK
<1>9. NothingLost'
  BY <1>1, <1>2, Holding, DirectoryConstants DEF DirectoryIInv, NothingLost
<1> QED  BY <1>4, <1>5, <1>6, <1>8, <1>9 DEF DirectoryIInv

LEMMA CollectStep == ASSUME DirectoryIInv, CollectResetTargets PROVE DirectoryIInv'
<1>1. TypeOK /\ at = "collect" /\ UNCHANGED <<files, connected, had, wiped>> /\ op' = op /\ damaged' = damaged
      /\ staged' = staged /\ reloaded' = reloaded /\ staged = {} /\ ~damaged /\ staging # Absent
      /\ status' = status /\ status # "ready" /\ at' = "stage" /\ StagedOK
  BY DEF DirectoryIInv, CollectResetTargets, ResetOK, ImportOK, Undoable
<1>2. targets' \subseteq {e \in Entries : Present(e)}  BY DEF CollectResetTargets
<1>3. faults' \in 0..MaxFaults /\ crashes' \in 0..MaxCrashes /\ resets' \in 0..MaxResets
  BY <1>1, DirectoryCounted DEF CollectResetTargets
<1>4. TypeOK'  BY <1>1, <1>2, <1>3 DEF TypeOK, Steps, files
<1>5. ImportOK'  BY <1>1 DEF ImportOK, Initializing
<1>6. StagedOK'  BY <1>1 DEF StagedOK, files, FreshMark
<1>7. ResetOK'  BY <1>1, <1>2, <1>6 DEF ResetOK, Undoable, Present, files
<1> QED  BY <1>1, <1>4, <1>5, <1>7, SameFiles DEF DirectoryIInv

\* What a directory holds of the user's, entry by entry.
LEMMA Held ==
    ASSUME NEW d \in Directories
    PROVE  /\ Entries = {"json", "attachments", "database", "copies"}
           /\ HasRows(d) <=> d["json"] # Absent \/ (d["database"] # Absent /\ d["database"].rows # "empty")
           /\ Marked(d) <=> (d["database"] # Absent /\ d["database"].rows # "empty" => d["database"].marker)
           /\ FreshMark(d) <=> d["database"] # Absent /\ d["database"].marker /\ d["database"].rows = "empty"
           /\ d.attachments = d["attachments"] /\ d.database = d["database"] /\ d.json = d["json"]
BY DEF Entries, HasRows, Marked, FreshMark

LEMMA StageStep == ASSUME DirectoryIInv, StageNext PROVE DirectoryIInv'
<1>1. TypeOK /\ at = "stage" /\ UNCHANGED <<connected, had, wiped>> /\ op' = op /\ damaged' = damaged
      /\ reloaded' = reloaded /\ ~damaged /\ staging # Absent /\ StagedOK
      /\ status' = status /\ status # "ready" /\ base \in Directories /\ staging \in Directories
      /\ targets \subseteq Entries /\ staged \subseteq Entries
      /\ targets \cap staged = {} /\ \A e \in targets : Present(e)
  BY DEF DirectoryIInv, TypeOK, StageNext, ResetOK, ImportOK, Undoable, Goto
<1>2. faults' \in 0..MaxFaults /\ crashes' \in 0..MaxCrashes /\ resets' \in 0..MaxResets
  BY <1>1, DirectoryCounted DEF StageNext
<1>3. CASE at' \in {"fresh", "rollback"} /\ UNCHANGED <<files, targets, staged>>
  <2>1. TypeOK'  BY <1>1, <1>2, <1>3 DEF TypeOK, Steps, files
  <2>2. ImportOK'  BY <1>1, <1>3 DEF ImportOK, Initializing
  <2>3. StagedOK'  BY <1>1, <1>3 DEF StagedOK, files, FreshMark
  <2>4. ResetOK'  BY <1>1, <1>3, <2>3 DEF ResetOK, Undoable, files
  <2> QED  BY <1>1, <1>3, <2>1, <2>2, <2>4, SameFiles DEF DirectoryIInv
<1>4. ASSUME NEW e \in targets,
             base' = [base EXCEPT ![e] = Absent], staging' = [staging EXCEPT ![e] = base[e]],
             staged' = staged \cup {e}, targets' = targets \ {e}, at' = at
      PROVE  DirectoryIInv'
  <2>1. e \in Entries /\ e \notin staged /\ base[e] # Absent  BY <1>1 DEF Present
  <2>2. /\ base' \in Directories /\ staging' \in Directories
        /\ \A f \in Entries : /\ base'[f] = IF f = e THEN Absent ELSE base[f]
                              /\ staging'[f] = IF f = e THEN base[f] ELSE staging[f]
    <3>1. CASE e = "json"  BY <1>1, <1>4, <2>1, <3>1, DirectoryConstants DEF Directories, Entries
    <3>2. CASE e = "attachments"  BY <1>1, <1>4, <2>1, <3>2, DirectoryConstants DEF Directories, Entries
    <3>3. CASE e = "database"  BY <1>1, <1>4, <2>1, <3>3, DirectoryConstants DEF Directories, Entries
    <3>4. CASE e = "copies"  BY <1>1, <1>4, <2>1, <3>4, DirectoryConstants DEF Directories, Entries
    <3> QED  BY <2>1, <3>1, <3>2, <3>3, <3>4 DEF Entries
  <2>3. staging' # Absent /\ staging[e] = Absent  BY <1>1, <2>1, <2>2, DirectoryConstants DEF StagedOK
  <2>4. TypeOK'  BY <1>1, <1>2, <1>4, <2>2 DEF TypeOK, Steps
  <2>5. /\ Marked(base') /\ Marked(staging')
        /\ FreshMark(base') => wiped \/ ~had
        /\ "database" \in staged' /\ FreshMark(staging') => wiped \/ ~had
    <3>1. Marked(base) /\ Marked(staging) /\ (FreshMark(base) => wiped \/ ~had)
          /\ ("database" \in staged /\ FreshMark(staging) => wiped \/ ~had)
      BY <1>1 DEF DirectoryIInv, MarkersOK, StagedOK
    <3>2. "database" \in Entries  BY DEF Entries
    <3>3. CASE e = "database"
      <4>1. base'["database"] = Absent /\ staging'["database"] = base["database"]
        BY <2>2, <3>2, <3>3
      <4>2. Marked(base') /\ Marked(staging')  BY <1>1, <2>1, <2>2, <3>1, <4>1, Held
      <4>3. FreshMark(base') => wiped \/ ~had  BY <1>1, <2>1, <2>2, <3>1, <3>3, <4>1, Held
      <4>4. FreshMark(staging') => wiped \/ ~had  BY <1>1, <2>1, <2>2, <3>1, <4>1, Held
      <4> QED  BY <4>2, <4>3, <4>4
    <3>4. CASE e # "database"
      <4>1. base'["database"] = base["database"] /\ staging'["database"] = staging["database"]
        BY <2>2, <3>2, <3>4
      <4> QED  BY <1>1, <1>4, <2>1, <2>2, <3>1, <3>4, <4>1, Held
    <3> QED  BY <3>3, <3>4
  <2>6. MarkersOK'  BY <1>1, <2>5 DEF MarkersOK, Marked, FreshMark
  <2>7. ImportOK'  BY <1>1, <1>4 DEF ImportOK, Initializing
  <2>8. StagedOK'
    <3>1. \A f \in Entries : staging'[f] # Absent => f \in staged'
      BY <1>1, <1>4, <2>2 DEF StagedOK
    <3>2. \A f \in staged' : /\ staging'[f] # Absent
                             /\ base'[f] = Absent \/ (f = "database" /\ base'["database"] = EmptyDatabase)
      BY <1>1, <1>4, <2>1, <2>2 DEF StagedOK
    <3> QED  BY <1>1, <2>3, <2>5, <3>1, <3>2 DEF StagedOK, FreshMark
  <2>9. ResetOK'
    <3>1. \A f \in targets' : base'[f] # Absent  BY <1>1, <1>4, <2>2 DEF Present
    <3> QED  BY <1>1, <1>4, <2>1, <2>3, <2>8, <3>1 DEF ResetOK, Undoable, Present
  <2>10. NothingLost'
    <3>1. HasRows(base) \/ HasRows(staging) => HasRows(base') \/ HasRows(staging')
      BY <1>1, <2>1, <2>2, <2>3, Held
    <3>2. base.attachments # Absent \/ staging.attachments # Absent => base'.attachments # Absent \/ staging'.attachments # Absent
      BY <1>1, <2>1, <2>2, <2>3, Held
    <3> QED  BY <1>1, <2>2, <2>3, <3>1, <3>2, Holding DEF DirectoryIInv, NothingLost
  <2> QED  BY <2>4, <2>6, <2>7, <2>9, <2>10 DEF DirectoryIInv
<1> QED  BY <1>1, <1>3, <1>4 DEF StageNext, Goto

LEMMA OpenFreshStep == ASSUME DirectoryIInv, OpenFresh PROVE DirectoryIInv'
<1>1. TypeOK /\ at = "fresh" /\ UNCHANGED <<staging, had, wiped>> /\ op' = op /\ damaged' = damaged
      /\ reloaded' = reloaded /\ ~damaged /\ staging # Absent /\ StagedOK /\ targets' = targets /\ staged' = staged
      /\ status' = status /\ status # "ready" /\ base \in Directories /\ staging \in Directories
      /\ connected' \in BOOLEAN
  BY DEF DirectoryIInv, TypeOK, OpenFresh, ResetOK, ImportOK, Undoable, Goto
<1>2. faults' \in 0..MaxFaults /\ crashes' \in 0..MaxCrashes /\ resets' \in 0..MaxResets
  BY <1>1, DirectoryCounted DEF OpenFresh
<1>3. \/ base' = base /\ (at' = "rollback" \/ (at' = "write" /\ base.database # Absent))
      \/ base.database = Absent /\ base' = [base EXCEPT !.database = EmptyDatabase] /\ at' = "write"
  BY DEF OpenFresh, Goto, Present
<1>4. CASE base' = base
  <2>1. at' = "rollback" \/ (at' = "write" /\ base.database # Absent)
    BY <1>1, <1>3, <1>4, DirectoryConstants DEF Directories
  <2>2. TypeOK'  BY <1>1, <1>2, <1>4, <2>1 DEF TypeOK, Steps
  <2>3. ImportOK'  BY <1>1, <1>4, <2>1 DEF ImportOK, Initializing
  <2>4. StagedOK'  BY <1>1, <1>4 DEF StagedOK, FreshMark
  <2>5. ResetOK'  BY <1>1, <2>1, <2>4 DEF ResetOK, Undoable
  <2> QED  BY <1>1, <1>4, <2>2, <2>3, <2>5, SameFiles DEF DirectoryIInv, files
<1>5. CASE base.database = Absent /\ base' = [base EXCEPT !.database = EmptyDatabase] /\ at' = "write"
  <2>1. /\ base' \in Directories /\ base'.database = EmptyDatabase
        /\ base'.json = base.json /\ base'.attachments = base.attachments /\ base'.copies = base.copies
    BY <1>1, <1>5, DirectoryConstants DEF Directories
  <2>2. TypeOK'  BY <1>1, <1>2, <1>5, <2>1 DEF TypeOK, Steps
  <2>3. MarkersOK'  BY <1>1, <1>5, <2>1, DirectoryConstants DEF DirectoryIInv, MarkersOK, Marked, FreshMark
  <2>4. ImportOK'  BY <1>1, <1>5, <2>1, DirectoryConstants DEF ImportOK, Initializing
  <2>5. \A e \in Entries : e # "database" => base'[e] = base[e]  BY <2>1 DEF Entries
  <2>6. staged \subseteq Entries  BY <1>1 DEF TypeOK
  <2>7. StagedOK'  BY <1>1, <2>1, <2>5, <2>6 DEF StagedOK, FreshMark
  <2>8. ResetOK'  BY <1>1, <1>5, <2>7 DEF ResetOK, Undoable
  <2>9. HasRows(base) => HasRows(base')  BY <1>5, <2>1 DEF HasRows
  <2>10. NothingLost'  BY <1>1, <2>1, <2>9, Holding DEF DirectoryIInv, NothingLost
  <2> QED  BY <2>2, <2>3, <2>4, <2>8, <2>10 DEF DirectoryIInv
<1> QED  BY <1>3, <1>4, <1>5

LEMMA WriteStep == ASSUME DirectoryIInv, WriteFresh PROVE DirectoryIInv'
<1>1. TypeOK /\ at = "write" /\ UNCHANGED <<staging, had>> /\ op' = op /\ damaged' = damaged
      /\ reloaded' = reloaded /\ ~damaged /\ staging # Absent /\ StagedOK /\ targets' = targets /\ staged' = staged
      /\ status' = status /\ status # "ready" /\ base \in Directories /\ staging \in Directories
      /\ connected' \in BOOLEAN
  BY DEF DirectoryIInv, TypeOK, WriteFresh, ResetOK, ImportOK, Undoable, Goto
<1>2. faults' \in 0..MaxFaults /\ crashes' \in 0..MaxCrashes /\ resets' \in 0..MaxResets
  BY <1>1, DirectoryCounted DEF WriteFresh
<1>3. CASE at' = "rollback" /\ base' = base /\ wiped' = wiped
  <2>1. TypeOK'  BY <1>1, <1>2, <1>3 DEF TypeOK, Steps
  <2>2. ImportOK'  BY <1>1, <1>3 DEF ImportOK, Initializing
  <2>3. StagedOK'  BY <1>1, <1>3 DEF StagedOK, FreshMark
  <2>4. ResetOK'  BY <1>1, <1>3, <2>3 DEF ResetOK, Undoable
  <2> QED  BY <1>1, <1>3, <2>1, <2>2, <2>4, SameFiles DEF DirectoryIInv, files
<1>4. CASE at' = "cleanup" /\ wiped' = TRUE /\ base' = [base EXCEPT !.database = Database("empty", TRUE)]
  <2>1. /\ base' \in Directories /\ base'.database \in Databases /\ base'.database.rows = "empty" /\ base'.database.marker
    BY <1>1, <1>4 DEF Directories, Databases, Database, Rows
  <2>2. TypeOK'  BY <1>1, <1>2, <1>4, <2>1 DEF TypeOK, Steps
  <2>3. MarkersOK'  BY <1>1, <1>4, <2>1 DEF DirectoryIInv, MarkersOK, Marked, FreshMark
  <2>4. ImportOK'  BY <1>1, <1>4, <2>1, DirectoryConstants DEF ImportOK, Initializing
  <2>5. ResetOK'  BY <1>4 DEF ResetOK, Undoable
  <2>6. NothingLost'  BY <1>4 DEF NothingLost
  <2> QED  BY <2>2, <2>3, <2>4, <2>5, <2>6 DEF DirectoryIInv
<1> QED  BY <1>3, <1>4 DEF WriteFresh, Goto

\* What goes back finds its place free, and the staging directory goes when it is empty.
LEMMA RollbackStep == ASSUME DirectoryIInv, RollbackReset PROVE DirectoryIInv'
<1>1. TypeOK /\ at = "rollback" /\ UNCHANGED <<connected, had, wiped>> /\ op' = op
      /\ reloaded' = reloaded /\ StagedOK /\ targets' = targets
      /\ status # "ready" /\ base \in Directories /\ (staging # Absent => staging \in Directories)
      /\ staged \subseteq Entries
  BY DEF DirectoryIInv, TypeOK, RollbackReset, ResetOK, ImportOK, Undoable, Conclude
<1>2. faults' \in 0..MaxFaults /\ crashes' \in 0..MaxCrashes /\ resets' \in 0..MaxResets
  BY <1>1, DirectoryCounted DEF RollbackReset
<1>3. CASE /\ staged = {} /\ at' = "idle" /\ status' = "recovery" /\ base' = base /\ staged' = staged /\ damaged' = damaged
           /\ staging' = staging \/ (~damaged /\ staging' = Absent)
  <2>1. TypeOK'  BY <1>1, <1>2, <1>3 DEF TypeOK, Steps
  <2>2. MarkersOK'  BY <1>1, <1>3 DEF DirectoryIInv, MarkersOK, Marked, FreshMark
  <2>3. ImportOK'  BY <1>3 DEF ImportOK, Initializing
  <2>4. ResetOK'  BY <1>3 DEF ResetOK, Undoable
  <2>5. staging' # staging /\ staging # Absent => ~HasRows(staging) /\ staging.attachments = Absent
    BY <1>1, <1>3, Held DEF StagedOK
  <2>6. NothingLost'  BY <1>1, <1>3, <2>5, Holding DEF DirectoryIInv, NothingLost
  <2> QED  BY <2>1, <2>2, <2>3, <2>4, <2>6 DEF DirectoryIInv
<1>4. ASSUME NEW e \in staged, staged' = staged \ {e}, damaged' = TRUE, UNCHANGED files,
             at' = at, status' = status
      PROVE  DirectoryIInv'
  <2>1. TypeOK'  BY <1>1, <1>2, <1>4 DEF TypeOK, Steps, files
  <2>2. ImportOK'  BY <1>1, <1>4 DEF ImportOK, Initializing
  <2>3. StagedOK'  BY <1>1, <1>4 DEF StagedOK, FreshMark, files
  <2>4. ResetOK'  BY <1>1, <1>4, <2>3 DEF ResetOK, Undoable
  <2> QED  BY <1>1, <1>4, <2>1, <2>2, <2>4, SameFiles DEF DirectoryIInv
<1>5. ASSUME NEW e \in staged, staged' = staged \ {e}, damaged' = damaged, at' = at, status' = status,
             base' = [base EXCEPT ![e] = staging[e]], staging' = [staging EXCEPT ![e] = Absent]
      PROVE  DirectoryIInv'
  <2>1. e \in Entries /\ staging # Absent /\ staging \in Directories /\ staging[e] # Absent
        /\ (base[e] = Absent \/ (e = "database" /\ base["database"] = EmptyDatabase))
    BY <1>1 DEF StagedOK
  <2>2. /\ base' \in Directories /\ staging' \in Directories
        /\ \A f \in Entries : /\ base'[f] = IF f = e THEN staging[f] ELSE base[f]
                              /\ staging'[f] = IF f = e THEN Absent ELSE staging[f]
    <3>1. CASE e = "json"  BY <1>1, <1>5, <2>1, <3>1, DirectoryConstants DEF Directories, Entries
    <3>2. CASE e = "attachments"  BY <1>1, <1>5, <2>1, <3>2, DirectoryConstants DEF Directories, Entries
    <3>3. CASE e = "database"  BY <1>1, <1>5, <2>1, <3>3, DirectoryConstants DEF Directories, Entries
    <3>4. CASE e = "copies"  BY <1>1, <1>5, <2>1, <3>4, DirectoryConstants DEF Directories, Entries
    <3> QED  BY <2>1, <3>1, <3>2, <3>3, <3>4 DEF Entries
  <2>3. staging' # Absent  BY <2>2, DirectoryConstants
  <2>4. TypeOK'  BY <1>1, <1>2, <1>5, <2>2 DEF TypeOK, Steps
  <2>5. /\ Marked(base') /\ Marked(staging')
        /\ FreshMark(base') => wiped \/ ~had
        /\ "database" \in staged' /\ FreshMark(staging') => wiped \/ ~had
    <3>1. Marked(base) /\ Marked(staging) /\ (FreshMark(base) => wiped \/ ~had)
          /\ ("database" \in staged /\ FreshMark(staging) => wiped \/ ~had)
      BY <1>1, <2>1 DEF DirectoryIInv, MarkersOK, StagedOK
    <3>2. "database" \in Entries  BY DEF Entries
    <3>3. CASE e = "database"
      <4>1. base'["database"] = staging["database"] /\ staging'["database"] = Absent
        BY <2>2, <3>2, <3>3
      <4>2. Marked(base') /\ Marked(staging')  BY <1>1, <2>1, <2>2, <3>1, <4>1, Held
      <4>3. FreshMark(base') => wiped \/ ~had  BY <1>1, <2>1, <2>2, <3>1, <3>3, <4>1, Held
      <4>4. FreshMark(staging') => wiped \/ ~had  BY <1>1, <2>1, <2>2, <3>1, <4>1, Held
      <4> QED  BY <4>2, <4>3, <4>4
    <3>4. CASE e # "database"
      <4>1. base'["database"] = base["database"] /\ staging'["database"] = staging["database"]
        BY <2>2, <3>2, <3>4
      <4> QED  BY <1>1, <1>5, <2>1, <2>2, <3>1, <3>4, <4>1, Held
    <3> QED  BY <3>3, <3>4
  <2>6. MarkersOK'  BY <1>1, <2>5 DEF MarkersOK, Marked, FreshMark
  <2>7. ImportOK'  BY <1>1, <1>5 DEF ImportOK, Initializing
  <2>8. StagedOK'
    <3>1. ~damaged' => \A f \in Entries : staging'[f] # Absent => f \in staged'
      BY <1>1, <1>5, <2>1, <2>2 DEF StagedOK
    <3>2. \A f \in staged' : /\ staging'[f] # Absent
                             /\ base'[f] = Absent \/ (f = "database" /\ base'["database"] = EmptyDatabase)
      BY <1>1, <1>5, <2>1, <2>2 DEF StagedOK
    <3> QED  BY <1>1, <2>3, <2>5, <3>1, <3>2 DEF StagedOK, FreshMark
  <2>9. ResetOK'  BY <1>1, <1>5, <2>8 DEF ResetOK, Undoable
  <2>10. NothingLost'
    <3>1. HasRows(base) \/ HasRows(staging) => HasRows(base') \/ HasRows(staging')
      BY <1>1, <2>1, <2>2, Held, DirectoryConstants
    <3>2. base.attachments # Absent \/ staging.attachments # Absent => base'.attachments # Absent \/ staging'.attachments # Absent
      BY <1>1, <2>1, <2>2, Held
    <3> QED  BY <1>1, <2>1, <2>2, <2>3, <3>1, <3>2, Holding DEF DirectoryIInv, NothingLost
  <2> QED  BY <2>4, <2>6, <2>7, <2>9, <2>10 DEF DirectoryIInv
<1>6. CASE staged = {} /\ Conclude("recovery")
  BY <1>1, <1>3, <1>6 DEF RollbackReset, Conclude
<1>7. ASSUME NEW e \in staged, staged' = staged \ {e},
             \/ /\ base' = [base EXCEPT ![e] = staging[e]]
                /\ staging' = [staging EXCEPT ![e] = Absent]
                /\ UNCHANGED damaged
             \/ damaged' = TRUE /\ UNCHANGED files,
             UNCHANGED <<status, op, at, reloaded, targets>>
      PROVE  DirectoryIInv'
  BY <1>4, <1>5, <1>7
<1> QED  BY <1>6, <1>7 DEF RollbackReset

LEMMA CleanUpStep == ASSUME DirectoryIInv, CleanUp PROVE DirectoryIInv'
<1>1. TypeOK /\ at = "cleanup" /\ UNCHANGED <<base, connected, had, wiped>> /\ op' = op /\ damaged' = damaged
      /\ targets' = targets /\ staged' = staged /\ reloaded' = reloaded /\ wiped
      /\ at' = "idle" /\ status' \in {"ready", "recovery"} /\ base.database # Absent /\ base.database.marker
      /\ staging' \in {staging, Absent}
  BY DEF DirectoryIInv, CleanUp, Conclude, TypeOK, ImportOK, ResetOK
<1>2. faults' \in 0..MaxFaults /\ crashes' \in 0..MaxCrashes /\ resets' \in 0..MaxResets
  BY <1>1, DirectoryCounted DEF CleanUp
<1>3. TypeOK'  BY <1>1, <1>2 DEF TypeOK, Steps
<1>4. MarkersOK'  BY <1>1 DEF DirectoryIInv, MarkersOK, Marked, FreshMark
<1>5. ImportOK'  BY <1>1 DEF ImportOK, Initializing
<1>6. ResetOK'  BY <1>1 DEF ResetOK, Undoable
<1>7. NothingLost'  BY <1>1 DEF NothingLost
<1> QED  BY <1>3, <1>4, <1>5, <1>6, <1>7 DEF DirectoryIInv

LEMMA WorkStep == ASSUME DirectoryIInv, Work PROVE DirectoryIInv'
<1>1. TypeOK /\ at = "idle" /\ UNCHANGED <<staging, connected, status, operation, counters>> /\ at' = at
      /\ status = "ready" /\ had' = TRUE /\ wiped' = FALSE /\ base \in Directories
      /\ base.database # Absent /\ base.database.marker
      /\ base' = [base EXCEPT !.database.rows = "edited", !.attachments = "data"]
  BY DEF DirectoryIInv, Work, TypeOK, ImportOK, operation
<1>2. base.database \in Databases  BY <1>1, DirectoryConstants DEF Directories
<1>3. /\ base' \in Directories /\ base'.database \in Databases /\ base'.database.rows = "edited" /\ base'.database.marker
      /\ base'.attachments = "data"
  BY <1>1, <1>2 DEF Directories, Databases, Rows
<1>4. TypeOK'  BY <1>1, <1>3 DEF TypeOK, operation, counters
<1>5. MarkersOK'  BY <1>1, <1>3 DEF DirectoryIInv, MarkersOK, Marked, FreshMark
<1>6. ImportOK'  BY <1>1, <1>3, DirectoryConstants DEF ImportOK, Initializing
<1>7. ResetOK'  BY <1>1 DEF ResetOK, Undoable
<1>8. HasRows(base') /\ base'.attachments # Absent  BY <1>3, DirectoryConstants DEF HasRows
<1>9. NothingLost'  BY <1>1, <1>3, <1>8, Holding DEF DirectoryIInv, NothingLost, TypeOK
<1> QED  BY <1>4, <1>5, <1>6, <1>7, <1>9 DEF DirectoryIInv

LEMMA CrashStep == ASSUME DirectoryIInv, Crash PROVE DirectoryIInv'
<1>1. TypeOK /\ at' = "idle" /\ status' = "down" /\ connected' = FALSE /\ crashes < MaxCrashes /\ crashes' = crashes + 1
      /\ UNCHANGED <<files, op, reloaded, targets, staged, damaged, faults, resets, had, wiped>>
  BY DEF DirectoryIInv, Crash
<1>2. crashes' \in 0..MaxCrashes  BY <1>1, DataDirectoryAssumption DEF TypeOK
<1>3. TypeOK'  BY <1>1, <1>2 DEF TypeOK, Steps, files
<1>4. ImportOK'  BY <1>1 DEF ImportOK, Initializing
<1>5. ResetOK'  BY <1>1 DEF ResetOK, Undoable
<1> QED  BY <1>1, <1>3, <1>4, <1>5, SameFiles DEF DirectoryIInv

-----------------------------------------------------------------------------
(* The theorems *)

LEMMA DirectoryInitially == DirectoryInit => DirectoryIInv
<1> SUFFICES ASSUME DirectoryInit PROVE DirectoryIInv  OBVIOUS
<1>1. base \in Directories /\ (base # EmptyDirectory => HasRows(base) /\ base.attachments # Absent)
      /\ (base.database # Absent => base.database.marker /\ base.database.rows # "empty")
  <2>1. CASE base = EmptyDirectory  BY <2>1, DirectoryConstants
  <2>2. ASSUME NEW json \in {"data", "malformed"}, base = [EmptyDirectory EXCEPT !.json = json, !.attachments = "data"]
        PROVE  base \in Directories /\ HasRows(base) /\ base.attachments # Absent /\ base.database = Absent
    BY <2>2, DirectoryConstants DEF EmptyDirectory, Directories, HasRows
  <2>3. ASSUME NEW contents \in {"edited", "invalid"}, NEW copies \in {Absent, "data"},
               base = [EmptyDirectory EXCEPT !.database = Database(contents, TRUE), !.attachments = "data", !.copies = copies]
        PROVE  base \in Directories /\ HasRows(base) /\ base.attachments # Absent /\ base.database.marker
               /\ base.database.rows # "empty"
    <3>1. Database(contents, TRUE) \in Databases /\ Database(contents, TRUE) # Absent
          /\ Database(contents, TRUE).rows = contents /\ Database(contents, TRUE).marker
      <4>1. Database(contents, TRUE) \in Databases
        BY <2>3 DEF Database, Databases, Rows
      <4>2. Database(contents, TRUE).rows = contents /\ Database(contents, TRUE).marker
        BY DEF Database
      <4> QED  BY <4>1, <4>2, DirectoryConstants
    <3> QED  BY <2>3, <3>1, DirectoryConstants DEF EmptyDirectory, Directories, HasRows
  <2> QED  BY <2>1, <2>2, <2>3, DirectoryConstants DEF DirectoryInit, Disk
<1>2. TypeOK
  <2>1. had \in BOOLEAN
    <3>1. CASE base = EmptyDirectory  BY <3>1 DEF DirectoryInit
    <3>2. CASE base # EmptyDirectory  BY <3>2 DEF DirectoryInit
    <3> QED  BY <3>1, <3>2
  <2>2. {connected, reloaded, damaged, had, wiped} \subseteq BOOLEAN  BY <2>1 DEF DirectoryInit
  <2>3. faults \in 0..MaxFaults /\ crashes \in 0..MaxCrashes /\ resets \in 0..MaxResets
    BY DataDirectoryAssumption DEF DirectoryInit
  <2>4. targets \subseteq Entries /\ staged \subseteq Entries  BY DEF DirectoryInit
  <2>5. op \in {"startup", "reread", "full-reset"} /\ at \in Steps  BY DEF DirectoryInit, Steps
  <2>6. status \in {"down", "starting", "ready", "recovery", "failed"} /\ staging = Absent  BY DEF DirectoryInit
  <2> QED  BY <1>1, <2>2, <2>3, <2>4, <2>5, <2>6 DEF TypeOK
<1>3. MarkersOK  BY <1>1 DEF DirectoryInit, MarkersOK, Marked, FreshMark
<1>4. ImportOK  BY DEF DirectoryInit, ImportOK, Initializing
<1>5. ResetOK  BY DEF DirectoryInit, ResetOK, Undoable
<1>6. NothingLost  BY <1>1, Holding, DirectoryConstants DEF DirectoryInit, NothingLost
<1> QED  BY <1>2, <1>3, <1>4, <1>5, <1>6 DEF DirectoryIInv

LEMMA DirectoryInductive == ASSUME "look" \notin Faulty, DirectoryIInv, [DirectoryNext]_directoryVars PROVE DirectoryIInv'
<1>1. CASE Initialize
  BY <1>1, OpenStep, CheckStep, ReadStep, EvidenceStep, CopyStep, ImportStep, RenameStep, ReconcileStep DEF Initialize
<1>2. CASE Resetting
  BY <1>2, LookStep, ClearStep, CollectStep, StageStep, OpenFreshStep, WriteStep, RollbackStep, CleanUpStep DEF Resetting
<1>3. CASE Start \/ Reread \/ FullReset \/ Work \/ Crash
  BY <1>3, StartStep, FullResetStep, WorkStep, CrashStep
<1>4. CASE UNCHANGED directoryVars
  <2>1. TypeOK'  BY <1>4 DEF DirectoryIInv, TypeOK, directoryVars, files, operation, counters
  <2>2. ImportOK'  BY <1>4 DEF DirectoryIInv, ImportOK, directoryVars, files, operation
  <2>3. ResetOK'  BY <1>4 DEF DirectoryIInv, ResetOK, StagedOK, FreshMark, Present, directoryVars, files, operation
  <2> QED  BY <1>4, <2>1, <2>2, <2>3, SameFiles DEF DirectoryIInv, directoryVars
<1> QED  BY <1>1, <1>2, <1>3, <1>4 DEF DirectoryNext

\* What the other theorems rest on, where the leftover of a reset is always seen.
THEOREM DirectoryInvariance == ASSUME "look" \notin Faulty PROVE DirectorySpec => []DirectoryIInv
<1>1. DirectoryInit => DirectoryIInv  BY DirectoryInitially
<1>2. DirectoryIInv /\ [DirectoryNext]_directoryVars => DirectoryIInv'  BY DirectoryInductive
<1> QED  BY <1>1, <1>2, PTL DEF DirectorySpec

\* The files and the operation keep their shape.
THEOREM DirectoryTypeCorrect == ASSUME "look" \notin Faulty PROVE DirectorySpec => []TypeOK
<1>1. DirectoryIInv => TypeOK  BY DEF DirectoryIInv
<1> QED  BY <1>1, DirectoryInvariance, PTL

\* Whatever fails, and wherever the process ends: until a full reset has committed, the
\* user's data is in its place or in the staging directory (fullReset, rollbackReset).
THEOREM DataIsKept == ASSUME "look" \notin Faulty PROVE DirectorySpec => []NothingLost
<1>1. DirectoryIInv => NothingLost  BY DEF DirectoryIInv
<1> QED  BY <1>1, DirectoryInvariance, PTL

\* What comes up empty is a first start or was reset: the remains of an interrupted reset
\* or import are not mistaken for a fresh install (initializeSqliteAppState).
THEOREM NoFalseFreshStart == ASSUME "look" \notin Faulty PROVE DirectorySpec => []EmptyIsFresh
<1>1. DirectoryIInv => EmptyIsFresh
  BY DEF DirectoryIInv, ImportOK, MarkersOK, FreshMark, EmptyIsFresh
<1> QED  BY <1>1, DirectoryInvariance, PTL

LEMMA ImportStepIsFinal ==
    ASSUME DirectoryIInv, [DirectoryNext]_directoryVars, base.database # Absent, base.database.rows = "edited", base'.database # Absent
    PROVE  base'.database.rows = "edited"
<1>1. base \in Directories /\ base.database.marker /\ base.database \in Databases
  BY DirectoryConstants DEF DirectoryIInv, TypeOK, MarkersOK, Marked, Directories
<1>2. CASE base' = base  BY <1>2
<1>3. CASE Open \/ OpenFresh  BY <1>3 DEF Open, OpenFresh, Present
<1>4. CASE InspectEvidence
  BY <1>1, <1>4 DEF InspectEvidence, Directories, EmptyDatabase, Database
<1>5. CASE CopySource \/ RenameSource \/ Reconcile
  BY <1>1, <1>5 DEF CopySource, RenameSource, Reconcile, Directories
<1>6. CASE Import
  BY <1>1, <1>6 DEF Import, DirectoryIInv, ImportOK
<1>7. CASE StageNext
  <2>1. CASE base' = base  BY <2>1
  <2>2. ASSUME NEW e \in targets, base' = [base EXCEPT ![e] = Absent] PROVE base'.database.rows = "edited"
    <3>1. e \in Entries  BY DEF DirectoryIInv, TypeOK
    <3>2. CASE e = "database"  BY <1>1, <2>2, <3>2 DEF Directories
    <3>3. CASE e # "database"  BY <1>1, <2>2, <3>3 DEF Directories
    <3> QED  BY <3>2, <3>3
  <2> QED  BY <1>7, <2>1, <2>2 DEF StageNext, files
<1>8. CASE WriteFresh
  BY <1>1, <1>8 DEF WriteFresh
<1>9. CASE RollbackReset
  <2>1. CASE base' = base  BY <2>1
  <2>2. ASSUME NEW e \in staged, at = "rollback", base' = [base EXCEPT ![e] = staging[e]]
        PROVE  base'.database.rows = "edited"
    <3>1. base[e] = Absent \/ (e = "database" /\ base.database = EmptyDatabase)
      BY <2>2 DEF DirectoryIInv, ResetOK, Undoable, StagedOK
    <3>2. e # "database"  BY <3>1, DirectoryConstants
    <3> QED  BY <1>1, <2>2, <3>2 DEF Directories
  <2> QED  BY <1>9, <2>1, <2>2 DEF RollbackReset, files
<1>10. CASE Work
  BY <1>1, <1>10 DEF Work, Directories, Databases
<1> QED
  BY <1>2, <1>3, <1>4, <1>5, <1>6, <1>7, <1>8, <1>9, <1>10
     DEF DirectoryNext, Initialize, Resetting, Start, Reread, CheckMarker, ReadJson, FullReset, LookForLeftover, ClearStaging,
         CollectResetTargets, CleanUp, Crash, files, directoryVars

\* What the user wrote is not overwritten by an import, nor by anything else that leaves
\* the database where it is.
THEOREM ImportOnce == ASSUME "look" \notin Faulty PROVE DirectorySpec => ImportIsFinal
<1>1. DirectoryIInv /\ [DirectoryNext]_directoryVars =>
        (base.database # Absent /\ base.database.rows = "edited" /\ base'.database # Absent => base'.database.rows = "edited")
  BY ImportStepIsFinal
<1> QED  BY <1>1, DirectoryInvariance, PTL DEF DirectorySpec, ImportIsFinal

=============================================================================
