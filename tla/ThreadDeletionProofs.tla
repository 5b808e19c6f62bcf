------------------------ MODULE ThreadDeletionProofs ------------------------
(***************************************************************************)
(* Proofs about ThreadDeletion for every set of threads, every number of   *)
(* deletions, failing steps and crashes: a deletion is atomic, and         *)
(* ThreadDeletion implements ThreadStore.                                  *)
(*                                                                         *)
(* What an operation has moved away is accounted for by the journal alone: *)
(* before the commit the files of the threads with rows are in one of its  *)
(* three places, after it none of them is in its own two.  Everything else *)
(* says how far the actor that works on the operation has come.            *)
(*                                                                         *)
(* Two things are assumed, as in the run that checks these properties:     *)
(* moving one file back does not fail ("restore"), and no window asks for  *)
(* a reread while another deletes a thread.                                *)
(***************************************************************************)
EXTENDS ThreadDeletion, TLAPS

Actor == {"manager", "lifecycle"}
Resting == {"idle", "off"}

\* The deletion is past its commit: its marker is in the database, or its journal
\* says so.
Committed == journal.phase = "committed" \/ journal.op \in marker

\* What the operation of the journal keeps in its own directories.
Away == staged[journal.op] \cup backup[journal.op]

\* Without a journal nothing is away; with one, only its operation has moved files,
\* and all of them are accounted for.
FilesAccountedFor ==
    IF journal = NoJournal
    THEN /\ store = rows /\ marker = {}
         /\ \A op \in Operation : staged[op] = {} /\ backup[op] = {}
    ELSE /\ marker \subseteq {journal.op}
         /\ \A op \in Operation \ {journal.op} : staged[op] = {} /\ backup[op] = {}
         /\ IF Committed THEN store = rows /\ Away \cap rows = {} ELSE rows = store \cup Away

\* Startup is over before anything is deleted, and nothing is reread.
OneAtATime ==
    /\ rereads = 0
    /\ actor["lifecycle"].job = "startup" /\ actor["lifecycle"].at \notin Deleting
    /\ actor["manager"].job \in {"recover", "delete"}
    /\ actor["manager"].at \notin {"off", "reload", "reconcile"}
    /\ actor["manager"].at # "idle" => actor["lifecycle"].at = "idle"

\* The manager holds the lock while it works, and keeps it when it leaves a file
\* of a thread away.
LockHeld ==
    /\ actor["manager"].at # "idle" => lock > 0
    /\ actor["lifecycle"].at = "idle" /\ actor["manager"].at = "idle" /\ lock = 0 => rows \subseteq store

\* A deletion was asked for while a journal could still be written.
RoomForJournal ==
    /\ actor["manager"].at # "idle" /\ actor["manager"].job = "recover" => operations < MaxDeletions
    /\ actor["manager"].at \in {"load", "check", "begin"} => actor["manager"].job = "recover"
    /\ actor["manager"].at \in Deleting \ {"begin"} => actor["manager"].job = "delete"

\* An actor works on the operation of the journal, or there is none.
OnTheJournal(a) ==
    /\ actor[a].at \in (Recovering \ {"load"}) \cup (Deleting \ {"begin"}) =>
          journal # NoJournal /\ actor[a].op = journal.op
    /\ actor[a].at \in {"begin", "reload", "reconcile"} => journal = NoJournal
    /\ actor[a].at = "reconcile" => actor[a].todo = rows

\* A deletion is finished only after its commit, files before marker before journal.
WhileFinishing(a) ==
    /\ actor[a].at \in Finishing => store = rows /\ Away \cap rows = {}
    /\ actor[a].at = "discardBackup" => staged[journal.op] = {}
    /\ actor[a].at \in {"unmark", "clearFinished"} => Away = {}
    /\ actor[a].at = "clearFinished" => marker = {}

\* A deletion is rolled back only before its commit, and its directories go only
\* after their files are back.
WhileRollingBack(a) ==
    /\ actor[a].at \in RollingBack \cup {"check"} => journal.phase = "preparing"
    /\ actor[a].at \in RollingBack => journal.op \notin marker
    /\ actor[a].at \in {"restore", "restoring"} => Away \subseteq store \cup actor[a].todo
    /\ actor[a].at \in {"unstage", "unbackup"} => Away \subseteq store
    /\ actor[a].at = "unbackup" /\ ~actor[a].erred => staged[journal.op] = {}
    /\ actor[a].at = "clear" => Away = {}

\* Files are moved away before the commit, all of the threads to be deleted and
\* of no other.
WhileDeleting(a) ==
    LET me == actor[a]
    IN  /\ me.at \in Deleting \ {"begin", "record"} =>
              /\ journal.phase = "preparing" /\ journal.op \notin marker
              /\ Away \subseteq me.target
        /\ me.at \in {"copy", "copying", "stage"} =>
              /\ me.todo \subseteq me.target
              /\ me.target # {} => {<<"staged", me.op>>, <<"backup", me.op>>} \subseteq dirs
        /\ me.at = "copy" => me.target \cap store \subseteq me.todo
        /\ me.at \in {"copying", "stage"} =>
              me.key \in me.target /\ me.target \cap store \subseteq me.todo \cup {me.key}
        /\ me.at \in {"detach", "commit"} => me.target \cap store = {}
        /\ me.at = "record" => journal.op \in marker

Progress(a) == OnTheJournal(a) /\ WhileFinishing(a) /\ WhileRollingBack(a) /\ WhileDeleting(a)

\* The inductive invariant.
IInv ==
    /\ TypeOK
    /\ FilesAccountedFor
    /\ OneAtATime
    /\ LockHeld
    /\ RoomForJournal
    /\ \A a \in Actor : Progress(a)

\* What a step preserves, and the step of ThreadStore that it is.
StepOK == IInv' /\ [Promise!Next]_<<rows, Kept>>

\* Where an actor that works can get to.
MayBe(a, r) ==
    /\ r \in Whereabouts /\ r.at \notin Resting
    /\ IF a = "manager"
       THEN /\ r.job \in {"recover", "delete"} /\ r.at \notin {"reload", "reconcile"}
            /\ r.job = "recover" => operations < MaxDeletions
            /\ r.at \in {"load", "check", "begin"} => r.job = "recover"
            /\ r.at \in Deleting \ {"begin"} => r.job = "delete"
       ELSE r.job = "startup" /\ r.at \notin Deleting

-----------------------------------------------------------------------------
(* Who works and who rests *)

\* Nothing is asked of an actor that rests.
LEMMA Rests ==
    ASSUME NEW a, actor'[a].at \in Resting
    PROVE  Progress(a)'
BY DEF Progress, OnTheJournal, WhileFinishing, WhileRollingBack, WhileDeleting, Resting,
       Recovering, Deleting, Finishing, RollingBack

\* An actor that works may be where it is.
LEMMA Works_MayBe ==
    ASSUME IInv, NEW a \in Actor, actor[a].at \notin Resting
    PROVE  MayBe(a, actor[a])
BY DEF IInv, TypeOK, OneAtATime, RoomForJournal, MayBe, Actor, Resting

\* While one actor works the other rests: it stays there when the first goes on.
LEMMA GoesOn ==
    ASSUME IInv, NEW a \in Actor, actor[a].at \notin Resting,
           NEW r, MayBe(a, r), actor' = [actor EXCEPT ![a] = r],
           UNCHANGED <<lock, operations, rereads>>
    PROVE  /\ actor' \in [Actor -> Whereabouts] /\ actor'[a] = r
           /\ \A b \in Actor \ {a} : Progress(b)'
           /\ OneAtATime' /\ LockHeld' /\ RoomForJournal'
<1>1. actor \in [Actor -> Whereabouts]  BY DEF IInv, TypeOK, Actor
<1>2. /\ actor' \in [Actor -> Whereabouts] /\ actor'[a] = r
      /\ \A b \in Actor \ {a} : actor'[b] = actor[b]
  BY <1>1 DEF MayBe
<1>3. \A b \in Actor \ {a} : actor[b].at \in Resting  BY DEF IInv, OneAtATime, Actor, Resting
<1>4. \A b \in Actor \ {a} : Progress(b)'  BY <1>2, <1>3, Rests
<1>5. OneAtATime'  BY <1>2 DEF IInv, OneAtATime, MayBe, Actor, Resting
<1>6. LockHeld'  BY <1>2 DEF IInv, OneAtATime, LockHeld, MayBe, Actor, Resting
<1>7. RoomForJournal'  BY <1>2, <1>3 DEF IInv, RoomForJournal, OneAtATime, MayBe, Actor, Resting, Deleting
<1> QED  BY <1>2, <1>4, <1>5, <1>6, <1>7

\* An actor that gives its work up: the manager may release the lock only when no
\* file of a thread is away.
LEMMA GivesUp ==
    ASSUME IInv, NEW a \in Actor, actor[a].at \notin Resting,
           \/ Abandon(a)
           \/ a = "manager" /\ Release(a) /\ rows' \subseteq store',
           UNCHANGED <<operations, rereads>>
    PROVE  /\ actor' \in [Actor -> Whereabouts] /\ lock' \in Nat
           /\ \A b \in Actor : Progress(b)'
           /\ OneAtATime' /\ LockHeld' /\ RoomForJournal'
<1>1. actor \in [Actor -> Whereabouts] /\ lock \in Nat  BY DEF IInv, TypeOK, Actor
<1>2. a = "lifecycle" => actor[a].job = "startup"  BY DEF IInv, OneAtATime
<1>3. \A s \in Resting : Leave(a, s) =>
          /\ actor' \in [Actor -> Whereabouts] /\ actor'[a].at = s /\ actor'[a].job = actor[a].job
          /\ \A b \in Actor \ {a} : actor'[b] = actor[b]
  BY <1>1 DEF Leave, Place, Whereabouts, Step, Resting
<1>4. PICK s \in Resting : Leave(a, s) /\ s = IF a = "manager" THEN "idle" ELSE "off"
  BY <1>2 DEF Abandon, Release, Resting, Actor
<1>5. /\ actor' \in [Actor -> Whereabouts] /\ actor'[a].at = s /\ actor'[a].job = actor[a].job
      /\ \A b \in Actor \ {a} : actor'[b] = actor[b]
  BY <1>3, <1>4
<1>6. \A b \in Actor \ {a} : actor[b].at \in Resting  BY DEF IInv, OneAtATime, Actor, Resting
<1>7. \A b \in Actor : Progress(b)'  BY <1>4, <1>5, <1>6, Rests
<1>8. OneAtATime'
  BY <1>4, <1>5 DEF IInv, OneAtATime, Actor, Resting, Deleting
<1>9. lock' \in Nat /\ LockHeld'
  <2>1. CASE a = "manager"
    <3>1. lock > 0  BY <2>1 DEF IInv, LockHeld, Resting
    <3>2. actor'["manager"].at = "idle"  BY <2>1, <1>4, <1>5
    <3>3. CASE lock' = lock  BY <1>1, <3>1, <3>2, <3>3 DEF LockHeld
    <3>4. CASE lock' = lock - 1 /\ rows' \subseteq store'  BY <1>1, <3>1, <3>2, <3>4 DEF LockHeld
    <3> QED  BY <2>1, <3>3, <3>4 DEF Abandon, Release
  <2>2. CASE a = "lifecycle"
    <3>1. lock' = lock /\ actor'["lifecycle"].at = "off" /\ actor'["manager"] = actor["manager"]
      BY <2>2, <1>2, <1>4, <1>5 DEF Abandon, Actor
    <3>2. actor["manager"].at = "idle"  BY <2>2 DEF IInv, OneAtATime, Resting
    <3> QED  BY <1>1, <3>1, <3>2 DEF LockHeld
  <2> QED  BY <2>1, <2>2 DEF Actor
<1>10. RoomForJournal'
  <2>1. actor'["manager"].at = "idle"
    BY <1>4, <1>5 DEF IInv, OneAtATime, Actor, Resting
  <2> QED  BY <2>1 DEF RoomForJournal, Deleting
<1> QED  BY <1>5, <1>7, <1>8, <1>9, <1>10

-----------------------------------------------------------------------------
(* Steps that leave the disk alone *)

LEMMA FaultIsCounted ==
    ASSUME IInv, NEW s, Works \/ Fails(s)
    PROVE  faults' \in Nat
BY DEF IInv, TypeOK, Works, Fails

\* An actor goes on, and where it gets to fits what is on the disk.
LEMMA Walks ==
    ASSUME IInv, NEW a \in Actor, actor[a].at \notin Resting,
           NEW r, MayBe(a, r), actor' = [actor EXCEPT ![a] = r],
           UNCHANGED <<disk, lock, counts>>,
           refused' \in SUBSET Thread, faults' \in Nat, Progress(a)'
    PROVE  StepOK
<1>1. UNCHANGED <<lock, operations, rereads, crashes>>  BY DEF counts
<1>2. UNCHANGED <<rows, marker, journal, store, staged, backup, dirs, torn>>  BY DEF disk
<1>3. /\ actor' \in [Actor -> Whereabouts]
      /\ \A b \in Actor \ {a} : Progress(b)'
      /\ OneAtATime' /\ LockHeld' /\ RoomForJournal'
  BY <1>1, GoesOn
<1>4. TypeOK'  BY <1>1, <1>2, <1>3 DEF IInv, TypeOK, Actor
<1>5. FilesAccountedFor'  BY <1>2 DEF IInv, FilesAccountedFor, Committed, Away
<1>6. UNCHANGED <<rows, Kept>>  BY <1>2 DEF Kept
<1> QED  BY <1>3, <1>4, <1>5, <1>6 DEF StepOK, IInv

\* An actor gives its work up without another step on the disk.
LEMMA Quits ==
    ASSUME IInv, NEW a \in Actor, actor[a].at \notin Resting,
           \/ Abandon(a)
           \/ a = "manager" /\ Release(a) /\ rows \subseteq store,
           UNCHANGED <<disk, refused, counts>>, faults' \in Nat
    PROVE  StepOK
<1>1. UNCHANGED <<refused, operations, rereads, crashes>>  BY DEF counts
<1>2. UNCHANGED <<rows, marker, journal, store, staged, backup, dirs, torn>>  BY DEF disk
<1>3. /\ actor' \in [Actor -> Whereabouts] /\ lock' \in Nat
      /\ \A b \in Actor : Progress(b)'
      /\ OneAtATime' /\ LockHeld' /\ RoomForJournal'
  BY <1>1, <1>2, GivesUp
<1>4. TypeOK'  BY <1>1, <1>2, <1>3 DEF IInv, TypeOK, Actor
<1>5. FilesAccountedFor'  BY <1>2 DEF IInv, FilesAccountedFor, Committed, Away
<1>6. UNCHANGED <<rows, Kept>>  BY <1>2 DEF Kept
<1> QED  BY <1>3, <1>4, <1>5, <1>6 DEF StepOK, IInv

\* The operation of a journal is one, and its phase is one of two.
LEMMA JournalType ==
    ASSUME IInv, journal # NoJournal
    PROVE  journal.op \in Operation /\ journal.phase \in {"preparing", "committed"}
BY DEF IInv, TypeOK, Journal

LEMMA LoadJournalOK ==
    ASSUME IInv, NEW a \in Actor, LoadJournal(a)
    PROVE  StepOK
<1> USE DEF Finishing, RollingBack, Recovering, Deleting, Step, Resting
<1>1. At(a, "load") /\ UNCHANGED <<disk, refused, counts>> /\ actor[a].at \notin Resting
  BY DEF LoadJournal, At
<1>2. faults' \in Nat  BY FaultIsCounted DEF LoadJournal
<1>3. MayBe(a, actor[a])  BY <1>1, Works_MayBe
<1>4. refused' \in SUBSET Thread  BY <1>1 DEF IInv, TypeOK
<1>5. UNCHANGED <<rows, marker, journal, store, staged, backup, dirs, torn>>  BY <1>1 DEF disk
<1>6. actor \in [Actor -> Whereabouts]  BY DEF IInv, TypeOK, Actor
<1>7. CASE Abandon(a)  BY <1>1, <1>2, <1>7, Quits
<1>8. CASE journal = NoJournal /\ Recovered(a)
  <2> DEFINE r == [actor[a] EXCEPT !.at = IF a = "manager" THEN "begin" ELSE "reload"]
  <2>1. actor' = [actor EXCEPT ![a] = r] /\ UNCHANGED lock  BY <1>8 DEF Recovered, Move
  <2>2. MayBe(a, r)  BY <1>1, <1>3 DEF MayBe, Whereabouts, At, Actor
  <2>3. actor'[a] = r  BY <2>1, <1>6
  <2>4. Progress(a)'
    BY <1>5, <1>6, <1>8, <2>3 DEF Progress, OnTheJournal, WhileFinishing, WhileRollingBack, WhileDeleting
  <2> QED  BY <1>1, <1>2, <1>4, <2>1, <2>2, <2>4, Walks
<1>9. CASE /\ journal # NoJournal
           /\ actor' = [actor EXCEPT ![a].op = journal.op, ![a].attempt = 1,
                           ![a].at = IF journal.phase = "committed" THEN "discard" ELSE "check"]
           /\ UNCHANGED lock
  <2> DEFINE s == IF journal.phase = "committed" THEN "discard" ELSE "check"
             r == [actor[a] EXCEPT !.op = journal.op, !.attempt = 1, !.at = s]
  <2>1. actor' = [actor EXCEPT ![a] = r]  BY <1>9, <1>6
  <2>2. journal.op \in Operation /\ journal.phase \in {"preparing", "committed"}  BY <1>9, JournalType
  <2>3. MayBe(a, r)
    <3>1. s \in {"discard", "check"} /\ s \in Step  OBVIOUS
    <3>2. actor[a] \in Whereabouts /\ 1 \in 0..2  BY <1>6
    <3> HIDE DEF s
    <3>3. r \in Whereabouts /\ r.job = actor[a].job /\ r.at \in {"discard", "check"}
      BY <2>2, <3>1, <3>2 DEF Whereabouts
    <3> HIDE DEF r
    <3> QED  BY <1>1, <1>3, <3>3 DEF MayBe, At
  <2>4. actor'[a] = r  BY <2>1, <1>6
  <2>5. r.op = journal.op /\ r.at = IF journal.phase = "committed" THEN "discard" ELSE "check"
    BY <1>6 DEF Whereabouts
  <2>6. journal.phase = "committed" => store = rows /\ Away \cap rows = {}
    BY <1>9 DEF IInv, FilesAccountedFor, Committed
  <2>7. Away' = Away  BY <1>5 DEF Away
  <2> HIDE DEF r
  <2>8. Progress(a)'
    BY <1>5, <1>9, <2>2, <2>4, <2>5, <2>6, <2>7 DEF Progress, OnTheJournal, WhileFinishing, WhileRollingBack, WhileDeleting
  <2> QED  BY <1>1, <1>2, <1>4, <1>9, <2>1, <2>3, <2>8, Walks
<1> QED  BY <1>7, <1>8, <1>9 DEF LoadJournal

LEMMA CheckMarkerOK ==
    ASSUME IInv, NEW a \in Actor, CheckMarker(a)
    PROVE  StepOK
<1> USE DEF Finishing, RollingBack, Recovering, Deleting, Step, Resting
<1>1. At(a, "check") /\ UNCHANGED <<disk, refused, counts>> /\ actor[a].at \notin Resting
  BY DEF CheckMarker, At
<1>2. faults' \in Nat  BY FaultIsCounted DEF CheckMarker
<1>3. MayBe(a, actor[a])  BY <1>1, Works_MayBe
<1>4. refused' \in SUBSET Thread  BY <1>1 DEF IInv, TypeOK
<1>5. UNCHANGED <<rows, marker, journal, store, staged, backup, dirs, torn>>  BY <1>1 DEF disk
<1>6. actor \in [Actor -> Whereabouts]  BY DEF IInv, TypeOK, Actor
<1>7. CASE Abandon(a)  BY <1>1, <1>2, <1>7, Quits
<1>8. CASE /\ Move(a, IF actor[a].op \in marker THEN "discard" ELSE "list")
           /\ UNCHANGED lock
  <2> DEFINE s == IF actor[a].op \in marker THEN "discard" ELSE "list"
             r == [actor[a] EXCEPT !.at = s]
  <2>1. actor' = [actor EXCEPT ![a] = r]  BY <1>8 DEF Move
  <2>2. MayBe(a, r)  BY <1>1, <1>3 DEF MayBe, Whereabouts, At, Actor
  <2>3. actor'[a] = r  BY <2>1, <1>6
  <2>4. journal # NoJournal /\ actor[a].op = journal.op /\ journal.phase = "preparing"
    BY <1>1 DEF IInv, Progress, OnTheJournal, WhileRollingBack, At
  <2>5. r.op = journal.op /\ r.at = IF journal.op \in marker THEN "discard" ELSE "list"
    BY <1>6, <2>4 DEF Whereabouts
  <2>6. journal.op \in marker => store = rows /\ Away \cap rows = {}
    BY <2>4 DEF IInv, FilesAccountedFor, Committed
  <2>7. Away' = Away  BY <1>5 DEF Away
  <2> HIDE DEF r
  <2>8. Progress(a)'
    BY <1>5, <2>3, <2>4, <2>5, <2>6, <2>7 DEF Progress, OnTheJournal, WhileFinishing, WhileRollingBack, WhileDeleting
  <2> QED  BY <1>1, <1>2, <1>4, <1>8, <2>1, <2>2, <2>8, Walks
<1> QED  BY <1>7, <1>8 DEF CheckMarker

-----------------------------------------------------------------------------
(* Finishing a committed deletion *)

\* A deletion is finished, or rolled back, by whoever works on it.
LEMMA MovesOn ==
    ASSUME IInv, NEW a \in Actor, actor[a].at \notin Resting,
           NEW r \in Whereabouts, r.job = actor[a].job, r.at \in Finishing \cup RollingBack
    PROVE  MayBe(a, r)
<1> USE DEF Finishing, RollingBack, Deleting, Resting
<1>1. MayBe(a, actor[a])  BY Works_MayBe
<1>2. r.job = "delete" \/ r.job = "recover" \/ a = "lifecycle"  BY <1>1 DEF MayBe, Actor
<1> QED  BY <1>1, <1>2 DEF MayBe

\* What an actor that finishes knows about the disk.
LEMMA FinishingKnows ==
    ASSUME IInv, NEW a \in Actor, actor[a].at \in Finishing
    PROVE  /\ actor[a].at \notin Resting
           /\ journal # NoJournal /\ journal.op \in Operation /\ actor[a].op = journal.op
           /\ store = rows /\ Away \cap rows = {}
           /\ actor[a].at = "discardBackup" => staged[journal.op] = {}
           /\ actor[a].at \in {"unmark", "clearFinished"} => Away = {}
           /\ actor[a].at = "clearFinished" => marker = {}
<1> USE DEF Finishing, RollingBack, Recovering, Deleting, Resting
<1>1. Progress(a)  BY DEF IInv
<1>2. journal # NoJournal /\ actor[a].op = journal.op  BY <1>1 DEF Progress, OnTheJournal
<1> QED  BY <1>1, <1>2, JournalType DEF Progress, WhileFinishing

\* To the windows, finishing removes attachments of threads that are gone.
LEMMA RemovesAway ==
    ASSUME IInv, journal # NoJournal, store = rows, Away \cap rows = {},
           UNCHANGED <<rows, store, journal>>, Away' \subseteq Away
    PROVE  [Promise!Next]_<<rows, Kept>>
<1>1. Kept = store \cup Away /\ Kept' = store \cup Away'  BY DEF Kept, Away
<1>2. Away \subseteq Thread
  BY JournalType DEF IInv, TypeOK, Away
<1>3. Kept \ Kept' \in SUBSET Thread /\ (Kept \ Kept') \cap rows = {}
  BY <1>1, <1>2
<1>4. Promise!Remove(Kept \ Kept')
  BY <1>1, <1>3 DEF Promise!Remove
<1> QED  BY <1>3, <1>4 DEF Promise!Next

\* Finishing takes away what no thread with rows needs.
LEMMA FinishAccounts ==
    ASSUME IInv, journal # NoJournal, store = rows, Away \cap rows = {},
           UNCHANGED <<rows, store, journal>>, Away' \subseteq Away,
           \A op \in Operation \ {journal.op} : staged'[op] = staged[op] /\ backup'[op] = backup[op],
           marker' = marker \/ (marker' = marker \ {journal.op} /\ Away' = {})
    PROVE  FilesAccountedFor'
<1>1. marker' \subseteq {journal.op}  BY DEF IInv, FilesAccountedFor
<1>2. \A op \in Operation \ {journal.op} : staged'[op] = {} /\ backup'[op] = {}
  BY DEF IInv, FilesAccountedFor
<1>3. IF Committed' THEN store' = rows' /\ Away' \cap rows' = {} ELSE rows' = store' \cup Away'
  <2>1. CASE Away' = {}  BY <2>1
  <2>2. CASE marker' = marker
    <3>1. Committed' <=> Committed  BY <2>2 DEF Committed
    <3>2. ~Committed => rows = store \cup Away  BY DEF IInv, FilesAccountedFor
    <3> QED  BY <3>1, <3>2
  <2> QED  BY <2>1, <2>2
<1> QED  BY <1>1, <1>2, <1>3 DEF FilesAccountedFor

LEMMA DiscardStagedOK ==
    ASSUME IInv, NEW a \in Actor, DiscardStaged(a)
    PROVE  StepOK
<1> USE DEF Finishing, RollingBack, Recovering, Deleting, Step, Resting
<1> DEFINE r == [actor[a] EXCEPT !.at = "discardBackup"]
<1>1. /\ actor[a].at = "discard" /\ actor' = [actor EXCEPT ![a] = r]
      /\ staged' = [staged EXCEPT ![actor[a].op] = {}]
      /\ dirs' = dirs \ {<<"staged", actor[a].op>>}
      /\ UNCHANGED <<lock, rows, marker, journal, store, backup, torn, refused, operations, crashes, rereads, faults>>
  BY DEF DiscardStaged, Finish, At, Move, Works, counts
<1>2. /\ actor[a].at \notin Resting /\ journal # NoJournal /\ journal.op \in Operation
      /\ actor[a].op = journal.op /\ store = rows /\ Away \cap rows = {}
  BY <1>1, FinishingKnows
<1>3. actor \in [Actor -> Whereabouts]  BY DEF IInv, TypeOK, Actor
<1>4. r \in Whereabouts /\ r.job = actor[a].job /\ r.at = "discardBackup" /\ r.op = actor[a].op
  BY <1>3 DEF Whereabouts
<1> HIDE DEF r
<1>5. MayBe(a, r)  BY <1>2, <1>4, MovesOn
<1>6. /\ actor' \in [Actor -> Whereabouts] /\ actor'[a] = r
      /\ \A b \in Actor \ {a} : Progress(b)'
      /\ OneAtATime' /\ LockHeld' /\ RoomForJournal'
  BY <1>1, <1>2, <1>5, GoesOn
<1>7. /\ staged \in [Operation -> SUBSET Thread] /\ staged' \in [Operation -> SUBSET Thread]
      /\ staged'[journal.op] = {}
      /\ \A op \in Operation \ {journal.op} : staged'[op] = staged[op] /\ backup'[op] = backup[op]
  BY <1>1, <1>2 DEF IInv, TypeOK
<1>8. Away' \subseteq Away  BY <1>1, <1>7 DEF Away
<1>9. TypeOK'  BY <1>1, <1>6, <1>7 DEF IInv, TypeOK, Actor
<1>10. FilesAccountedFor'  BY <1>1, <1>2, <1>7, <1>8, FinishAccounts
<1>11. Progress(a)'
  BY <1>1, <1>2, <1>4, <1>6, <1>7, <1>8 DEF Progress, OnTheJournal, WhileFinishing, WhileRollingBack, WhileDeleting
<1>12. [Promise!Next]_<<rows, Kept>>  BY <1>1, <1>2, <1>8, RemovesAway
<1> QED  BY <1>6, <1>9, <1>10, <1>11, <1>12 DEF StepOK, IInv

LEMMA DiscardBackupOK ==
    ASSUME IInv, NEW a \in Actor, DiscardBackup(a)
    PROVE  StepOK
<1> USE DEF Finishing, RollingBack, Recovering, Deleting, Step, Resting
<1> DEFINE r == [actor[a] EXCEPT !.at = "unmark"]
<1>1. /\ actor[a].at = "discardBackup" /\ actor' = [actor EXCEPT ![a] = r]
      /\ backup' = [backup EXCEPT ![actor[a].op] = {}]
      /\ dirs' = dirs \ {<<"backup", actor[a].op>>}
      /\ torn' = torn \ ({actor[a].op} \X Thread)
      /\ UNCHANGED <<lock, rows, marker, journal, store, staged, refused, operations, crashes, rereads, faults>>
  BY DEF DiscardBackup, Finish, At, Move, Works, counts
<1>2. /\ actor[a].at \notin Resting /\ journal # NoJournal /\ journal.op \in Operation
      /\ actor[a].op = journal.op /\ store = rows /\ Away \cap rows = {} /\ staged[journal.op] = {}
  BY <1>1, FinishingKnows
<1>3. actor \in [Actor -> Whereabouts]  BY DEF IInv, TypeOK, Actor
<1>4. r \in Whereabouts /\ r.job = actor[a].job /\ r.at = "unmark" /\ r.op = actor[a].op
  BY <1>3 DEF Whereabouts
<1> HIDE DEF r
<1>5. MayBe(a, r)  BY <1>2, <1>4, MovesOn
<1>6. /\ actor' \in [Actor -> Whereabouts] /\ actor'[a] = r
      /\ \A b \in Actor \ {a} : Progress(b)'
      /\ OneAtATime' /\ LockHeld' /\ RoomForJournal'
  BY <1>1, <1>2, <1>5, GoesOn
<1>7. /\ backup \in [Operation -> SUBSET Thread] /\ backup' \in [Operation -> SUBSET Thread]
      /\ backup'[journal.op] = {}
      /\ \A op \in Operation \ {journal.op} : staged'[op] = staged[op] /\ backup'[op] = backup[op]
  BY <1>1, <1>2 DEF IInv, TypeOK
<1>8. Away' = {}  BY <1>1, <1>2, <1>7 DEF Away
<1>9. TypeOK'  BY <1>1, <1>6, <1>7 DEF IInv, TypeOK, Actor
<1>10. FilesAccountedFor'  BY <1>1, <1>2, <1>7, <1>8, FinishAccounts
<1>11. Progress(a)'
  BY <1>1, <1>2, <1>4, <1>6, <1>7, <1>8 DEF Progress, OnTheJournal, WhileFinishing, WhileRollingBack, WhileDeleting
<1>12. [Promise!Next]_<<rows, Kept>>  BY <1>1, <1>2, <1>8, RemovesAway
<1> QED  BY <1>6, <1>9, <1>10, <1>11, <1>12 DEF StepOK, IInv

LEMMA UnmarkOK ==
    ASSUME IInv, NEW a \in Actor, Unmark(a)
    PROVE  StepOK
<1> USE DEF Finishing, RollingBack, Recovering, Deleting, Step, Resting
<1> DEFINE r == [actor[a] EXCEPT !.at = "clearFinished"]
<1>1. /\ actor[a].at = "unmark" /\ actor' = [actor EXCEPT ![a] = r]
      /\ marker' = marker \ {actor[a].op}
      /\ UNCHANGED <<lock, rows, journal, store, staged, backup, dirs, torn, refused, operations, crashes, rereads, faults>>
  BY DEF Unmark, Finish, At, Move, Works, counts, files
<1>2. /\ actor[a].at \notin Resting /\ journal # NoJournal /\ journal.op \in Operation
      /\ actor[a].op = journal.op /\ store = rows /\ Away \cap rows = {} /\ Away = {}
  BY <1>1, FinishingKnows
<1>3. actor \in [Actor -> Whereabouts]  BY DEF IInv, TypeOK, Actor
<1>4. r \in Whereabouts /\ r.job = actor[a].job /\ r.at = "clearFinished" /\ r.op = actor[a].op
  BY <1>3 DEF Whereabouts
<1> HIDE DEF r
<1>5. MayBe(a, r)  BY <1>2, <1>4, MovesOn
<1>6. /\ actor' \in [Actor -> Whereabouts] /\ actor'[a] = r
      /\ \A b \in Actor \ {a} : Progress(b)'
      /\ OneAtATime' /\ LockHeld' /\ RoomForJournal'
  BY <1>1, <1>2, <1>5, GoesOn
<1>7. Away' = {}  BY <1>1, <1>2 DEF Away
<1>8. marker' = {}  BY <1>1, <1>2 DEF IInv, FilesAccountedFor
<1>9. TypeOK'  BY <1>1, <1>6 DEF IInv, TypeOK, Actor
<1>10. FilesAccountedFor'  BY <1>1, <1>2, <1>7, FinishAccounts
<1>11. Progress(a)'
  BY <1>1, <1>2, <1>4, <1>6, <1>7, <1>8 DEF Progress, OnTheJournal, WhileFinishing, WhileRollingBack, WhileDeleting
<1>12. [Promise!Next]_<<rows, Kept>>  BY <1>1, <1>2, <1>7, RemovesAway
<1> QED  BY <1>6, <1>9, <1>10, <1>11, <1>12 DEF StepOK, IInv

\* The journal goes when nothing is away any more.
LEMMA Settles ==
    ASSUME IInv, NEW a \in Actor, actor[a].at \in Finishing \cup RollingBack,
           journal # NoJournal, journal.op \in Operation, Away = {}, marker = {}, store = rows,
           journal' = NoJournal, IF OwnDeletion(a) THEN Release(a) ELSE Recovered(a),
           UNCHANGED <<rows, marker, store, staged, backup, dirs, torn, refused, operations, crashes, rereads>>,
           faults' \in Nat
    PROVE  StepOK
<1> USE DEF Finishing, RollingBack, Recovering, Deleting, Step, Resting
<1>1. actor[a].at \notin Resting  OBVIOUS
<1>2. actor \in [Actor -> Whereabouts] /\ lock \in Nat  BY DEF IInv, TypeOK, Actor
<1>3. \A op \in Operation : staged[op] = {} /\ backup[op] = {}
  BY DEF IInv, FilesAccountedFor, Away
<1>4. FilesAccountedFor'  BY <1>3 DEF FilesAccountedFor
<1>5. UNCHANGED <<rows, Kept>>  BY DEF Kept, Away
<1>6. CASE OwnDeletion(a)
  <2>1. /\ actor' \in [Actor -> Whereabouts] /\ lock' \in Nat
        /\ \A b \in Actor : Progress(b)'
        /\ OneAtATime' /\ LockHeld' /\ RoomForJournal'
    BY <1>1, <1>6, GivesUp DEF OwnDeletion
  <2>2. TypeOK'  BY <2>1 DEF IInv, TypeOK, Actor
  <2> QED  BY <1>4, <1>5, <2>1, <2>2 DEF StepOK, IInv
<1>7. CASE ~OwnDeletion(a)
  <2> DEFINE s == IF a = "manager" THEN "begin" ELSE "reload"
             r == [actor[a] EXCEPT !.at = s]
  <2>1. actor' = [actor EXCEPT ![a] = r] /\ lock' = lock  BY <1>7 DEF Recovered, Move
  <2>2. r \in Whereabouts /\ r.job = actor[a].job /\ r.at = s /\ s \in {"begin", "reload"}
    BY <1>2 DEF Whereabouts
  <2>3. MayBe(a, actor[a])  BY <1>1, Works_MayBe
  <2>4. MayBe(a, r)
    <3>1. CASE a = "manager"
      <4>1. r.job = "recover" /\ operations < MaxDeletions /\ r.at = "begin"
        BY <1>7, <2>2, <2>3, <3>1 DEF OwnDeletion, MayBe
      <4> HIDE DEF r
      <4> QED  BY <2>2, <3>1, <4>1 DEF MayBe
    <3>2. CASE a = "lifecycle"
      <4>1. r.job = "startup" /\ r.at = "reload"  BY <2>2, <2>3, <3>2 DEF MayBe
      <4> HIDE DEF r
      <4> QED  BY <2>2, <3>2, <4>1 DEF MayBe
    <3> QED  BY <3>1, <3>2 DEF Actor
  <2> HIDE DEF r
  <2>5. /\ actor' \in [Actor -> Whereabouts] /\ actor'[a] = r
        /\ \A b \in Actor \ {a} : Progress(b)'
        /\ OneAtATime' /\ LockHeld' /\ RoomForJournal'
    BY <1>1, <2>1, <2>4, GoesOn
  <2>6. TypeOK'  BY <2>1, <2>5 DEF IInv, TypeOK, Actor
  <2>7. Progress(a)'
    BY <2>2, <2>5 DEF Progress, OnTheJournal, WhileFinishing, WhileRollingBack, WhileDeleting
  <2> QED  BY <1>4, <1>5, <2>5, <2>6, <2>7 DEF StepOK, IInv
<1> QED  BY <1>6, <1>7

LEMMA ClearFinishedOK ==
    ASSUME IInv, NEW a \in Actor, ClearFinished(a)
    PROVE  StepOK
<1>1. /\ actor[a].at = "clearFinished" /\ journal' = NoJournal
      /\ IF OwnDeletion(a) THEN Release(a) ELSE Recovered(a)
      /\ UNCHANGED <<rows, marker, store, staged, backup, dirs, torn, refused, operations, crashes, rereads, faults>>
  BY DEF ClearFinished, At, Works, files, counts
<1>2. actor[a].at \in Finishing  BY <1>1 DEF Finishing
<1>3. faults' \in Nat  BY <1>1 DEF IInv, TypeOK
<1> QED  BY <1>1, <1>2, <1>3, FinishingKnows, Settles

LEMMA FinishStepFailsOK ==
    ASSUME IInv, NEW a \in Actor, FinishStepFails(a)
    PROVE  StepOK
<1> USE DEF RollingBack, Recovering, Deleting, Step, Resting
<1>1. /\ actor[a].at \in Finishing /\ FinishFails(a)
      /\ UNCHANGED <<disk, refused, counts>>
  BY DEF FinishStepFails
<1>2. faults' \in Nat  BY FaultIsCounted DEF FinishStepFails
<1>3. /\ actor[a].at \notin Resting /\ journal # NoJournal /\ actor[a].op = journal.op
      /\ store = rows /\ Away \cap rows = {}
  BY <1>1, FinishingKnows
<1>4. actor \in [Actor -> Whereabouts]  BY DEF IInv, TypeOK, Actor
<1>5. CASE Abandon(a)  BY <1>1, <1>2, <1>3, <1>5, Quits
<1>6. CASE OwnDeletion(a) /\ Release(a)  BY <1>1, <1>2, <1>3, <1>6, Quits DEF OwnDeletion
<1>7. CASE actor' = [actor EXCEPT ![a].at = "discard", ![a].attempt = 2] /\ UNCHANGED lock
  <2> DEFINE r == [actor[a] EXCEPT !.at = "discard", !.attempt = 2]
  <2>1. actor' = [actor EXCEPT ![a] = r] /\ actor'[a] = r  BY <1>4, <1>7
  <2>1a. actor[a] \in Whereabouts /\ 2 \in 0..2 /\ "discard" \in Step  BY <1>4 DEF Finishing
  <2>2. r \in Whereabouts /\ r.job = actor[a].job /\ r.at = "discard" /\ r.op = actor[a].op
    BY <2>1a DEF Whereabouts
  <2> HIDE DEF r
  <2>3. MayBe(a, r)  BY <1>3, <2>2, MovesOn DEF Finishing
  <2>4. UNCHANGED <<rows, marker, journal, store, staged, backup, dirs, torn>>  BY <1>1 DEF disk
  <2>5. Away' = Away  BY <2>4 DEF Away
  <2>6. Progress(a)'
    BY <1>3, <2>1, <2>2, <2>4, <2>5
    DEF Progress, OnTheJournal, WhileFinishing, WhileRollingBack, WhileDeleting, Finishing
  <2>7. refused' \in SUBSET Thread  BY <1>1 DEF IInv, TypeOK
  <2> QED  BY <1>1, <1>2, <1>3, <1>7, <2>1, <2>3, <2>6, <2>7, Walks
<1> QED  BY <1>1, <1>5, <1>6, <1>7 DEF FinishFails

-----------------------------------------------------------------------------
(* Rolling a deletion back *)

\* What an actor that rolls back knows about the disk.
LEMMA RollingBackKnows ==
    ASSUME IInv, NEW a \in Actor, actor[a].at \in RollingBack
    PROVE  /\ actor[a].at \notin Resting
           /\ journal # NoJournal /\ journal.op \in Operation /\ actor[a].op = journal.op
           /\ journal.phase = "preparing" /\ marker = {} /\ rows = store \cup Away /\ Own(a) = Away
           /\ actor[a].at \in {"restore", "restoring"} => Away \subseteq store \cup actor[a].todo
           /\ actor[a].at \in {"unstage", "unbackup"} => Away \subseteq store
           /\ actor[a].at = "unbackup" /\ ~actor[a].erred => staged[journal.op] = {}
           /\ actor[a].at = "clear" => Away = {}
<1> USE DEF Finishing, RollingBack, Recovering, Deleting, Resting
<1>1. Progress(a)  BY DEF IInv
<1>2. journal # NoJournal /\ actor[a].op = journal.op  BY <1>1 DEF Progress, OnTheJournal
<1>3. journal.phase = "preparing" /\ journal.op \notin marker
  BY <1>1 DEF Progress, WhileRollingBack
<1>4. marker = {} /\ rows = store \cup Away
  BY <1>2, <1>3 DEF IInv, FilesAccountedFor, Committed
<1>5. Own(a) = Away  BY <1>2 DEF Own, Away
<1> QED  BY <1>1, <1>2, <1>3, <1>4, <1>5, JournalType DEF Progress, WhileRollingBack

\* Before the commit files are moved, and none is lost: nothing changes for the
\* windows.
LEMMA MovesFiles ==
    ASSUME IInv, journal # NoJournal, marker = {}, journal.phase = "preparing",
           UNCHANGED <<rows, marker, journal>>, store' \cup Away' = store \cup Away,
           \A op \in Operation \ {journal.op} : staged'[op] = staged[op] /\ backup'[op] = backup[op]
    PROVE  FilesAccountedFor' /\ UNCHANGED <<rows, Kept>>
<1>1. ~Committed /\ ~Committed'  BY DEF Committed
<1>2. rows = store \cup Away  BY <1>1 DEF IInv, FilesAccountedFor
<1>3. \A op \in Operation \ {journal.op} : staged'[op] = {} /\ backup'[op] = {}
  BY DEF IInv, FilesAccountedFor
<1>4. FilesAccountedFor'  BY <1>1, <1>2, <1>3 DEF FilesAccountedFor
<1>5. Kept = store \cup Away /\ Kept' = store' \cup Away'  BY DEF Kept, Away
<1> QED  BY <1>4, <1>5

\* A pass ends the rollback, or is followed by another, or leaves the rest to
\* recovery.
LEMMA PassEnds ==
    ASSUME IInv, NEW a \in Actor, actor[a].at \in RollingBack, NEW erred \in BOOLEAN, EndPass(a, erred)
    PROVE  \/ Abandon(a)
           \/ \E r \in Whereabouts :
                 /\ actor' = [actor EXCEPT ![a] = r] /\ UNCHANGED lock /\ MayBe(a, r)
                 /\ r.op = actor[a].op /\ r.at \in {"list", "clear"}
                 /\ r.at = "clear" => ~erred
<1> USE DEF Finishing, RollingBack, Recovering, Deleting, Step, Resting
<1>1. actor \in [Actor -> Whereabouts]  BY DEF IInv, TypeOK, Actor
<1> DEFINE pass == actor[a].attempt
           s == IF pass = 0 \/ erred THEN "list" ELSE "clear"
           n == IF pass < 2 THEN pass + 1 ELSE pass
           r == [actor[a] EXCEPT !.at = s, !.attempt = n, !.erred = FALSE]
<1>2. CASE ~(erred /\ pass = 2)
  <2>1. actor' = [actor EXCEPT ![a].at = s, ![a].attempt = n, ![a].erred = FALSE] /\ UNCHANGED lock
    BY <1>2 DEF EndPass
  <2>2. actor' = [actor EXCEPT ![a] = r]  BY <1>1, <2>1
  <2>3. pass \in 0..2  BY <1>1 DEF Whereabouts
  <2>4. n \in 0..2  BY <2>3
  <2>5. s \in {"list", "clear"} /\ (s = "clear" => ~erred)  OBVIOUS
  <2> HIDE DEF n, s, pass
  <2>6. /\ r \in Whereabouts /\ r.job = actor[a].job /\ r.op = actor[a].op /\ r.at = s
    BY <1>1, <2>4, <2>5 DEF Whereabouts
  <2> HIDE DEF r
  <2>7. MayBe(a, r)  BY <2>5, <2>6, MovesOn
  <2> QED  BY <2>1, <2>2, <2>5, <2>6, <2>7
<1> QED  BY <1>2 DEF EndPass

LEMMA ListKeysOK ==
    ASSUME IInv, NEW a \in Actor, ListKeys(a)
    PROVE  StepOK
<1>1. actor[a].at = "list" /\ UNCHANGED <<disk, refused, counts>>  BY DEF ListKeys, At
<1>2. actor[a].at \in RollingBack  BY <1>1 DEF RollingBack
<1> USE DEF Finishing, RollingBack, Recovering, Deleting, Step, Resting
<1>3. /\ journal # NoJournal /\ journal.op \in Operation /\ actor[a].op = journal.op
      /\ journal.phase = "preparing" /\ marker = {} /\ Own(a) = Away
  BY <1>2, RollingBackKnows
<1>4. faults' \in Nat  BY FaultIsCounted DEF ListKeys
<1>5. UNCHANGED <<rows, marker, journal, store, staged, backup, dirs, torn>>  BY <1>1 DEF disk
<1>6. refused' \in SUBSET Thread  BY <1>1 DEF IInv, TypeOK
<1>7. actor \in [Actor -> Whereabouts]  BY DEF IInv, TypeOK, Actor
<1>8. Away' = Away  BY <1>5 DEF Away
<1>9. CASE EndPass(a, TRUE)
  <2>1. CASE Abandon(a)  BY <1>1, <1>4, <2>1, Quits
  <2>2. ASSUME NEW r \in Whereabouts, actor' = [actor EXCEPT ![a] = r], UNCHANGED lock, MayBe(a, r),
               r.op = actor[a].op, r.at = "list"
        PROVE  StepOK
    <3>1. actor'[a] = r  BY <1>7, <2>2
    <3>2. Progress(a)'
      BY <1>3, <1>5, <2>2, <3>1 DEF Progress, OnTheJournal, WhileFinishing, WhileRollingBack, WhileDeleting
    <3> QED  BY <1>1, <1>4, <1>6, <2>2, <3>2, Walks
  <2> QED  BY <1>2, <1>9, <2>1, <2>2, PassEnds
<1>10. CASE actor' = [actor EXCEPT ![a].at = "restore", ![a].todo = Own(a)] /\ UNCHANGED lock
  <2> DEFINE r == [actor[a] EXCEPT !.at = "restore", !.todo = Away]
  <2>1. actor' = [actor EXCEPT ![a] = r] /\ actor'[a] = r  BY <1>3, <1>7, <1>10
  <2>2. Away \in SUBSET Thread  BY <1>3 DEF IInv, TypeOK, Away
  <2>3. /\ r \in Whereabouts /\ r.job = actor[a].job /\ r.op = actor[a].op
        /\ r.at = "restore" /\ r.todo = Away
    BY <1>7, <2>2 DEF Whereabouts
  <2> HIDE DEF r
  <2>4. MayBe(a, r)  BY <1>1, <2>3, MovesOn
  <2>5. Progress(a)'
    BY <1>3, <1>5, <1>8, <2>1, <2>3 DEF Progress, OnTheJournal, WhileFinishing, WhileRollingBack, WhileDeleting
  <2> QED  BY <1>1, <1>4, <1>6, <1>10, <2>1, <2>4, <2>5, Walks
<1> QED  BY <1>9, <1>10 DEF ListKeys

\* Moving a file back does not fail here: what is not yet restored is still to do.
LEMMA RestoreKeyOK ==
    ASSUME IInv, "restore" \notin Faulty, NEW a \in Actor, NEW t \in Thread, RestoreKey(a, t)
    PROVE  StepOK
<1> DEFINE op == actor[a].op
           next == [actor[a] EXCEPT !.todo = @ \ {t}]
           copying == [next EXCEPT !.at = "restoring", !.key = t]
<1>1. /\ actor[a].at = "restore" /\ t \in actor[a].todo
      /\ UNCHANGED <<rows, marker, journal, backup, dirs, lock, refused, operations, crashes, rereads, faults>>
  BY DEF RestoreKey, At, Fails, Works, memory, counts
<1>2. actor[a].at \in RollingBack  BY <1>1 DEF RollingBack
<1> USE DEF Finishing, RollingBack, Recovering, Deleting, Step, Resting
<1>3. /\ actor[a].at \notin Resting /\ journal # NoJournal /\ journal.op \in Operation
      /\ op = journal.op /\ journal.phase = "preparing" /\ marker = {} /\ Own(a) = Away
      /\ rows = store \cup Away /\ Away \subseteq store \cup actor[a].todo
  BY <1>1, <1>2, RollingBackKnows
<1>4. actor \in [Actor -> Whereabouts]  BY DEF IInv, TypeOK, Actor
<1>5. /\ staged \in [Operation -> SUBSET Thread] /\ backup \in [Operation -> SUBSET Thread]
      /\ store \subseteq Thread
  BY DEF IInv, TypeOK
<1>6. PICK r \in {next, copying} :
          /\ actor' = [actor EXCEPT ![a] = r]
          /\ \/ t \in staged[op] /\ r = next /\ store' = store \cup {t}
                /\ staged' = [staged EXCEPT ![op] = @ \ {t}] /\ torn' = torn
             \/ t \in backup[op] \ staged[op] /\ r = copying /\ store' = store \cup {t}
                /\ torn' = torn \cup {<<0, t>>} /\ staged' = staged
             \/ t \notin Away /\ r = next /\ store' = store /\ staged' = staged /\ torn' = torn
  <2>1. ~Fails("restore")  BY DEF Fails
  <2>2. [actor EXCEPT ![a] = next] = [actor EXCEPT ![a].todo = @ \ {t}]
    BY <1>4
  <2>3. [actor EXCEPT ![a] = copying] = [[actor EXCEPT ![a].todo = @ \ {t}] EXCEPT ![a].at = "restoring", ![a].key = t]
    BY <1>4
  <2> HIDE DEF next, copying
  <2> QED  BY <1>3, <2>1, <2>2, <2>3 DEF RestoreKey
<1>7. next \in Whereabouts /\ copying \in Whereabouts
  <2>1. actor[a] \in Whereabouts  BY <1>4
  <2>2. "restoring" \in Step  OBVIOUS
  <2>3. next \in Whereabouts  BY <2>1 DEF Whereabouts
  <2> HIDE DEF next
  <2>4. copying \in Whereabouts  BY <2>2, <2>3 DEF Whereabouts
  <2> QED  BY <2>3, <2>4
<1>8. /\ r \in Whereabouts /\ r.job = actor[a].job /\ r.op = op /\ r.at \in {"restore", "restoring"}
      /\ r.todo = actor[a].todo \ {t}
  <2>1. r \in Whereabouts  BY <1>6, <1>7
  <2>2. /\ next.job = actor[a].job /\ next.op = op /\ next.at = "restore"
        /\ next.todo = actor[a].todo \ {t}
    BY <1>1, <1>4 DEF Whereabouts
  <2>3. /\ copying.job = actor[a].job /\ copying.op = op /\ copying.at = "restoring"
        /\ copying.todo = actor[a].todo \ {t}
    BY <1>1, <1>4 DEF Whereabouts
  <2> HIDE DEF next, copying
  <2> QED  BY <1>6, <2>1, <2>2, <2>3
<1> HIDE DEF next, copying
<1>9. MayBe(a, r)  BY <1>3, <1>8, MovesOn
<1>10. /\ actor' \in [Actor -> Whereabouts] /\ actor'[a] = r
       /\ \A b \in Actor \ {a} : Progress(b)'
       /\ OneAtATime' /\ LockHeld' /\ RoomForJournal'
  BY <1>1, <1>3, <1>6, <1>9, GoesOn
<1>11. /\ staged' \in [Operation -> SUBSET Thread] /\ store' \subseteq Thread
       /\ \A o \in Operation \ {op} : staged'[o] = staged[o]
       /\ staged'[op] \subseteq staged[op] /\ staged[op] \ {t} \subseteq staged'[op]
       /\ store \subseteq store' /\ store' \subseteq store \cup {t}
       /\ t \in Away => t \in store'
       /\ t \notin Away => store' = store
  BY <1>3, <1>5, <1>6 DEF Away
<1>12. torn' \subseteq (Operation \cup {0}) \X Thread  BY <1>6 DEF IInv, TypeOK
<1>13. /\ Away = staged[op] \cup backup[op] /\ Away' = staged'[op] \cup backup[op]
  BY <1>1, <1>3 DEF Away
<1>14. store' \cup Away' = store \cup Away /\ Away' \subseteq store' \cup r.todo
  BY <1>3, <1>8, <1>11, <1>13
<1>15. TypeOK'  BY <1>1, <1>10, <1>11, <1>12 DEF IInv, TypeOK, Actor
<1>16. FilesAccountedFor' /\ UNCHANGED <<rows, Kept>>  BY <1>1, <1>3, <1>11, <1>14, MovesFiles
<1>17. Progress(a)'
  BY <1>1, <1>3, <1>8, <1>10, <1>14
  DEF Progress, OnTheJournal, WhileFinishing, WhileRollingBack, WhileDeleting
<1> QED  BY <1>10, <1>15, <1>16, <1>17 DEF StepOK, IInv

LEMMA RestoreEndsOK ==
    ASSUME IInv, NEW a \in Actor, RestoreEnds(a)
    PROVE  StepOK
<1> DEFINE r == [actor[a] EXCEPT !.at = "restore"]
<1>1. /\ actor[a].at = "restoring" /\ actor' = [actor EXCEPT ![a] = r] /\ torn' \subseteq torn
      /\ UNCHANGED <<rows, marker, journal, store, staged, backup, dirs, lock, refused, operations, crashes, rereads, faults>>
  BY DEF RestoreEnds, At, Move, memory, counts
<1>2. actor[a].at \in RollingBack  BY <1>1 DEF RollingBack
<1> USE DEF Finishing, RollingBack, Recovering, Deleting, Step, Resting
<1>3. /\ actor[a].at \notin Resting /\ journal # NoJournal /\ journal.op \in Operation
      /\ actor[a].op = journal.op /\ journal.phase = "preparing" /\ marker = {}
      /\ Away \subseteq store \cup actor[a].todo
  BY <1>1, <1>2, RollingBackKnows
<1>4. actor \in [Actor -> Whereabouts]  BY DEF IInv, TypeOK, Actor
<1>5. r \in Whereabouts /\ r.job = actor[a].job /\ r.op = actor[a].op /\ r.at = "restore" /\ r.todo = actor[a].todo
  BY <1>4 DEF Whereabouts
<1> HIDE DEF r
<1>6. MayBe(a, r)  BY <1>3, <1>5, MovesOn
<1>7. /\ actor' \in [Actor -> Whereabouts] /\ actor'[a] = r
      /\ \A b \in Actor \ {a} : Progress(b)'
      /\ OneAtATime' /\ LockHeld' /\ RoomForJournal'
  BY <1>1, <1>3, <1>6, GoesOn
<1>8. Away' = Away  BY <1>1 DEF Away
<1>9. TypeOK'  BY <1>1, <1>7 DEF IInv, TypeOK, Actor
<1>10. FilesAccountedFor' /\ UNCHANGED <<rows, Kept>>  BY <1>1, <1>3, <1>8, MovesFiles
<1>11. Progress(a)'
  BY <1>1, <1>3, <1>5, <1>7, <1>8
  DEF Progress, OnTheJournal, WhileFinishing, WhileRollingBack, WhileDeleting
<1> QED  BY <1>7, <1>9, <1>10, <1>11 DEF StepOK, IInv

LEMMA RestoredAllOK ==
    ASSUME IInv, NEW a \in Actor, RestoredAll(a)
    PROVE  StepOK
<1> DEFINE r == [actor[a] EXCEPT !.at = "unstage"]
<1>1. /\ actor[a].at = "restore" /\ actor[a].todo = {} /\ actor' = [actor EXCEPT ![a] = r]
      /\ UNCHANGED <<disk, lock, refused, counts, faults>>
  BY DEF RestoredAll, At, Move, memory
<1>2. actor[a].at \in RollingBack  BY <1>1 DEF RollingBack
<1> USE DEF Finishing, RollingBack, Recovering, Deleting, Step, Resting
<1>3. /\ actor[a].at \notin Resting /\ journal # NoJournal /\ journal.op \in Operation
      /\ actor[a].op = journal.op /\ journal.phase = "preparing" /\ marker = {}
      /\ Away \subseteq store
  BY <1>1, <1>2, RollingBackKnows
<1>4. actor \in [Actor -> Whereabouts]  BY DEF IInv, TypeOK, Actor
<1>5. r \in Whereabouts /\ r.job = actor[a].job /\ r.op = actor[a].op /\ r.at = "unstage"
  BY <1>4 DEF Whereabouts
<1> HIDE DEF r
<1>6. MayBe(a, r)  BY <1>3, <1>5, MovesOn
<1>7. UNCHANGED <<rows, marker, journal, store, staged, backup, dirs, torn>>  BY <1>1 DEF disk
<1>8. Away' = Away /\ actor'[a] = r  BY <1>1, <1>4, <1>7 DEF Away
<1>9. Progress(a)'
  BY <1>3, <1>5, <1>7, <1>8
  DEF Progress, OnTheJournal, WhileFinishing, WhileRollingBack, WhileDeleting
<1>10. refused' \in SUBSET Thread /\ faults' \in Nat  BY <1>1 DEF IInv, TypeOK
<1> QED  BY <1>1, <1>3, <1>6, <1>9, <1>10, Walks

LEMMA RemoveStagedOK ==
    ASSUME IInv, NEW a \in Actor, RemoveStaged(a)
    PROVE  StepOK
<1>1. /\ actor[a].at = "unstage"
      /\ UNCHANGED <<rows, marker, journal, lock, refused, operations, crashes, rereads>>
  BY DEF RemoveStaged, At, memory, counts
<1>2. actor[a].at \in RollingBack  BY <1>1 DEF RollingBack
<1>3. faults' \in Nat  BY FaultIsCounted DEF RemoveStaged
<1> USE DEF Finishing, RollingBack, Recovering, Deleting, Step, Resting
<1>4. /\ actor[a].at \notin Resting /\ journal # NoJournal /\ journal.op \in Operation
      /\ actor[a].op = journal.op /\ journal.phase = "preparing" /\ marker = {}
      /\ Away \subseteq store
  BY <1>1, <1>2, RollingBackKnows
<1>5. actor \in [Actor -> Whereabouts] /\ staged \in [Operation -> SUBSET Thread]
  BY DEF IInv, TypeOK, Actor
<1>6. PICK e \in BOOLEAN :
          /\ actor' = [actor EXCEPT ![a] = [actor[a] EXCEPT !.at = "unbackup", !.erred = e]]
          /\ \/ e /\ UNCHANGED <<store, staged, backup, dirs, torn>>
             \/ /\ staged' = [staged EXCEPT ![actor[a].op] = {}]
                /\ dirs' = dirs \ {<<"staged", actor[a].op>>}
                /\ UNCHANGED <<store, backup, torn>>
  <2>1. CASE actor' = [actor EXCEPT ![a].at = "unbackup", ![a].erred = TRUE] /\ UNCHANGED files
    <3>1. actor' = [actor EXCEPT ![a] = [actor[a] EXCEPT !.at = "unbackup", !.erred = TRUE]]  BY <1>5, <2>1
    <3>2. UNCHANGED <<store, staged, backup, dirs, torn>>  BY <2>1 DEF files
    <3> QED  BY <3>1, <3>2
  <2>2. CASE /\ Move(a, "unbackup")
             /\ staged' = [staged EXCEPT ![actor[a].op] = {}]
             /\ dirs' = dirs \ {<<"staged", actor[a].op>>}
             /\ UNCHANGED <<store, backup, torn>>
    <3> DEFINE e == actor[a].erred
    <3>1. e \in BOOLEAN  BY <1>5 DEF Whereabouts
    <3>2. [actor[a] EXCEPT !.at = "unbackup"] = [actor[a] EXCEPT !.at = "unbackup", !.erred = e]
      BY <1>5 DEF Whereabouts
    <3>3. actor' = [actor EXCEPT ![a] = [actor[a] EXCEPT !.at = "unbackup"]]  BY <2>2 DEF Move
    <3> HIDE DEF e
    <3> QED  BY <2>2, <3>1, <3>2, <3>3
  <2> QED  BY <2>1, <2>2 DEF RemoveStaged
<1> DEFINE r == [actor[a] EXCEPT !.at = "unbackup", !.erred = e]
<1>7. /\ r \in Whereabouts /\ r.job = actor[a].job /\ r.op = actor[a].op /\ r.at = "unbackup" /\ r.erred = e
  <2>1. actor[a] \in Whereabouts /\ "unbackup" \in Step  BY <1>5
  <2> QED  BY <2>1 DEF Whereabouts
<1>8. actor' = [actor EXCEPT ![a] = r]  BY <1>6
<1> HIDE DEF r
<1>9. MayBe(a, r)  BY <1>4, <1>7, MovesOn
<1>10. /\ actor' \in [Actor -> Whereabouts] /\ actor'[a] = r
       /\ \A b \in Actor \ {a} : Progress(b)'
       /\ OneAtATime' /\ LockHeld' /\ RoomForJournal'
  BY <1>1, <1>4, <1>8, <1>9, GoesOn
<1>11. /\ staged' \in [Operation -> SUBSET Thread] /\ UNCHANGED <<store, backup, torn>> /\ dirs' \subseteq dirs
       /\ \A op \in Operation \ {journal.op} : staged'[op] = staged[op]
       /\ staged'[journal.op] \subseteq staged[journal.op]
       /\ ~e => staged'[journal.op] = {}
  BY <1>4, <1>5, <1>6
<1>12. Away' \subseteq Away /\ store' = store  BY <1>1, <1>11 DEF Away
<1>13. store' \cup Away' = store \cup Away  BY <1>4, <1>12
<1>14. TypeOK'  BY <1>1, <1>3, <1>10, <1>11 DEF IInv, TypeOK, Actor
<1>15. FilesAccountedFor' /\ UNCHANGED <<rows, Kept>>  BY <1>1, <1>4, <1>11, <1>13, MovesFiles
<1>16. Progress(a)'
  BY <1>1, <1>4, <1>7, <1>10, <1>11, <1>12
  DEF Progress, OnTheJournal, WhileFinishing, WhileRollingBack, WhileDeleting
<1> QED  BY <1>10, <1>14, <1>15, <1>16 DEF StepOK, IInv

LEMMA RemoveBackupOK ==
    ASSUME IInv, NEW a \in Actor, RemoveBackup(a)
    PROVE  StepOK
<1>1. /\ actor[a].at = "unbackup"
      /\ UNCHANGED <<rows, marker, journal, refused, counts>>
  BY DEF RemoveBackup, At
<1>2. actor[a].at \in RollingBack  BY <1>1 DEF RollingBack
<1>3. faults' \in Nat  BY FaultIsCounted DEF RemoveBackup
<1> USE DEF Finishing, RollingBack, Recovering, Deleting, Step, Resting
<1>4. /\ actor[a].at \notin Resting /\ journal # NoJournal /\ journal.op \in Operation
      /\ actor[a].op = journal.op /\ journal.phase = "preparing" /\ marker = {}
      /\ Away \subseteq store /\ rows = store \cup Away
      /\ ~actor[a].erred => staged[journal.op] = {}
  BY <1>1, <1>2, RollingBackKnows
<1>5. actor \in [Actor -> Whereabouts] /\ backup \in [Operation -> SUBSET Thread]
  BY DEF IInv, TypeOK, Actor
<1>6. PICK e \in BOOLEAN :
          /\ EndPass(a, e)
          /\ \/ e /\ UNCHANGED <<store, staged, backup, dirs, torn>>
             \/ /\ e = actor[a].erred
                /\ backup' = [backup EXCEPT ![actor[a].op] = {}]
                /\ dirs' = dirs \ {<<"backup", actor[a].op>>}
                /\ torn' = torn \ ({actor[a].op} \X Thread)
                /\ UNCHANGED <<store, staged>>
  <2>1. CASE EndPass(a, TRUE) /\ UNCHANGED files
    BY <2>1 DEF files
  <2>2. CASE /\ EndPass(a, actor[a].erred)
             /\ backup' = [backup EXCEPT ![actor[a].op] = {}]
             /\ dirs' = dirs \ {<<"backup", actor[a].op>>}
             /\ torn' = torn \ ({actor[a].op} \X Thread)
             /\ UNCHANGED <<store, staged>>
    <3>1. actor[a].erred \in BOOLEAN  BY <1>5 DEF Whereabouts
    <3> QED  BY <2>2, <3>1
  <2> QED  BY <2>1, <2>2 DEF RemoveBackup
<1>7. /\ backup' \in [Operation -> SUBSET Thread] /\ UNCHANGED <<store, staged>>
      /\ dirs' \subseteq dirs /\ torn' \subseteq torn
      /\ \A op \in Operation \ {journal.op} : backup'[op] = backup[op]
      /\ backup'[journal.op] \subseteq backup[journal.op]
      /\ ~e => backup'[journal.op] = {} /\ staged[journal.op] = {}
  BY <1>4, <1>5, <1>6
<1>8. Away' \subseteq Away /\ store' = store /\ (~e => Away' = {})  BY <1>1, <1>7 DEF Away
<1>9. store' \cup Away' = store \cup Away  BY <1>4, <1>8
<1>10. FilesAccountedFor' /\ UNCHANGED <<rows, Kept>>  BY <1>1, <1>4, <1>7, <1>9, MovesFiles
<1>11. UNCHANGED <<operations, crashes, rereads>>  BY <1>1 DEF counts
<1>12. ASSUME actor' \in [Actor -> Whereabouts], lock' \in Nat
       PROVE  TypeOK'
  BY <1>1, <1>3, <1>7, <1>11, <1>12 DEF IInv, TypeOK, Actor
<1>13. CASE Abandon(a)
  <2>1. /\ actor' \in [Actor -> Whereabouts] /\ lock' \in Nat
        /\ \A b \in Actor : Progress(b)'
        /\ OneAtATime' /\ LockHeld' /\ RoomForJournal'
    BY <1>4, <1>11, <1>13, GivesUp
  <2> QED  BY <1>10, <1>12, <2>1 DEF StepOK, IInv
<1>14. ASSUME NEW r \in Whereabouts, actor' = [actor EXCEPT ![a] = r], UNCHANGED lock, MayBe(a, r),
              r.op = actor[a].op, r.at \in {"list", "clear"}, r.at = "clear" => ~e
       PROVE  StepOK
  <2>1. /\ actor' \in [Actor -> Whereabouts] /\ actor'[a] = r
        /\ \A b \in Actor \ {a} : Progress(b)'
        /\ OneAtATime' /\ LockHeld' /\ RoomForJournal'
    BY <1>4, <1>11, <1>14, GoesOn
  <2>2. lock' \in Nat  BY <1>14 DEF IInv, TypeOK
  <2>3. Progress(a)'
    BY <1>1, <1>4, <1>8, <1>14, <2>1
    DEF Progress, OnTheJournal, WhileFinishing, WhileRollingBack, WhileDeleting
  <2> QED  BY <1>10, <1>12, <2>1, <2>2, <2>3 DEF StepOK, IInv
<1> QED  BY <1>2, <1>6, <1>13, <1>14, PassEnds

LEMMA ClearRolledBackOK ==
    ASSUME IInv, NEW a \in Actor, ClearRolledBack(a)
    PROVE  StepOK
<1>1. /\ actor[a].at = "clear"
      /\ UNCHANGED <<rows, marker, files, refused, counts>>
  BY DEF ClearRolledBack, At
<1>2. actor[a].at \in RollingBack  BY <1>1 DEF RollingBack
<1>3. faults' \in Nat  BY FaultIsCounted DEF ClearRolledBack
<1>4. /\ actor[a].at \notin Resting /\ journal # NoJournal /\ journal.op \in Operation
      /\ marker = {} /\ rows = store \cup Away /\ Away = {}
  BY <1>1, <1>2, RollingBackKnows
<1>5. CASE Abandon(a) /\ UNCHANGED journal
  <2>1. UNCHANGED disk  BY <1>1, <1>5 DEF disk, files
  <2> QED  BY <1>1, <1>3, <1>4, <1>5, <2>1, Quits
<1>6. CASE journal' = NoJournal /\ IF OwnDeletion(a) THEN Release(a) ELSE Recovered(a)
  <2>1. UNCHANGED <<rows, marker, store, staged, backup, dirs, torn, refused, operations, crashes, rereads>>
    BY <1>1 DEF files, counts
  <2>2. store = rows  BY <1>4
  <2> QED  BY <1>2, <1>3, <1>4, <1>6, <2>1, <2>2, Settles
<1> QED  BY <1>5, <1>6 DEF ClearRolledBack

LEMMA RecoveryOK ==
    ASSUME IInv, "restore" \notin Faulty, NEW a \in Actor, Recovery(a)
    PROVE  StepOK
BY LoadJournalOK, CheckMarkerOK, DiscardStagedOK, DiscardBackupOK, UnmarkOK, ClearFinishedOK,
   FinishStepFailsOK, ListKeysOK, RestoreEndsOK, RestoredAllOK, RemoveStagedOK, RemoveBackupOK,
   ClearRolledBackOK, RestoreKeyOK DEF Recovery

-----------------------------------------------------------------------------
(* Deleting *)

LEMMA RequestOK ==
    ASSUME IInv, NEW T \in SUBSET Thread, Request(T)
    PROVE  StepOK
<1> DEFINE r == [Place("load", "recover") EXCEPT !.target = T]
<1>1. /\ actor["manager"].at = "idle" /\ actor["lifecycle"].at # "off"
      /\ actor["lifecycle"].job = "startup" => actor["lifecycle"].at = "idle"
      /\ operations < MaxDeletions /\ lock' = lock + 1
      /\ actor' = [actor EXCEPT !["manager"] = r]
      /\ UNCHANGED <<rows, marker, journal, store, staged, backup, dirs, torn>>
      /\ UNCHANGED <<refused, operations, crashes, rereads, faults>>
  BY DEF Request, Ready, At, disk, counts
<1> USE DEF Finishing, RollingBack, Recovering, Deleting, Step, Resting
<1>2. actor["lifecycle"].at = "idle"  BY <1>1 DEF IInv, OneAtATime
<1>3. /\ r \in Whereabouts /\ r.at = "load" /\ r.job = "recover"
  <2>1. "load" \in Step /\ 1 \in 0..2  OBVIOUS
  <2>2. /\ Place("load", "recover") \in Whereabouts
        /\ Place("load", "recover").at = "load" /\ Place("load", "recover").job = "recover"
    BY <2>1 DEF Place, Whereabouts
  <2> QED  BY <2>2 DEF Whereabouts
<1> HIDE DEF r
<1>4. /\ actor' \in [Actor -> Whereabouts] /\ actor'["manager"] = r
      /\ actor'["lifecycle"] = actor["lifecycle"]
  BY <1>1, <1>3 DEF IInv, TypeOK, Actor
<1>5. lock' \in Nat /\ lock' > 0  BY <1>1 DEF IInv, TypeOK
<1>6. TypeOK'  BY <1>1, <1>4, <1>5 DEF IInv, TypeOK, Actor
<1>7. FilesAccountedFor' /\ UNCHANGED <<rows, Kept>>
  BY <1>1 DEF IInv, FilesAccountedFor, Committed, Away, Kept
<1>8. OneAtATime' /\ LockHeld' /\ RoomForJournal'
  BY <1>1, <1>2, <1>3, <1>4, <1>5 DEF IInv, OneAtATime, LockHeld, RoomForJournal
<1>9. Progress("lifecycle")'  BY <1>2, <1>4, Rests
<1>10. Progress("manager")'
  BY <1>3, <1>4 DEF Progress, OnTheJournal, WhileFinishing, WhileRollingBack, WhileDeleting
<1> QED  BY <1>6, <1>7, <1>8, <1>9, <1>10 DEF StepOK, IInv, Actor

\* What the manager knows about the disk once its journal is written.
LEMMA DeletingKnows ==
    ASSUME IInv, actor["manager"].at \in Deleting \ {"begin"}
    PROVE  /\ actor["manager"].at \notin Resting /\ actor["manager"].job = "delete"
           /\ journal # NoJournal /\ journal.op \in Operation /\ actor["manager"].op = journal.op
           /\ actor["manager"].at # "record" =>
                 /\ journal.phase = "preparing" /\ marker = {}
                 /\ rows = store \cup Away /\ Away \subseteq actor["manager"].target
<1> USE DEF Finishing, RollingBack, Recovering, Deleting, Resting
<1>1. Progress("manager")  BY DEF IInv, Actor
<1>2. journal # NoJournal /\ actor["manager"].op = journal.op  BY <1>1 DEF Progress, OnTheJournal
<1>3. actor["manager"].at # "record" =>
          journal.phase = "preparing" /\ journal.op \notin marker /\ Away \subseteq actor["manager"].target
  BY <1>1 DEF Progress, WhileDeleting
<1>4. actor["manager"].at # "record" => marker = {} /\ rows = store \cup Away
  BY <1>2, <1>3 DEF IInv, FilesAccountedFor, Committed
<1>5. actor["manager"].job = "delete"  BY DEF IInv, RoomForJournal
<1> QED  BY <1>2, <1>3, <1>4, <1>5, JournalType

\* Its deletion goes on, is finished or is rolled back.
LEMMA DeletesOn ==
    ASSUME IInv, NEW r \in Whereabouts, r.job = "delete",
           r.at \in (Deleting \ {"begin"}) \cup Finishing \cup RollingBack
    PROVE  MayBe("manager", r)
BY DEF MayBe, Finishing, RollingBack, Deleting, Resting

LEMMA BeginOK ==
    ASSUME IInv, Begin
    PROVE  StepOK
<1> DEFINE me == actor["manager"]
           new == operations + 1
           r == [me EXCEPT !.at = "open", !.job = "delete", !.op = new]
<1>1. /\ me.at = "begin"
      /\ UNCHANGED <<rows, marker, files, refused, crashes, rereads>>
  BY DEF Begin, At
<1>2. faults' \in Nat  BY FaultIsCounted DEF Begin
<1> USE DEF Finishing, RollingBack, Recovering, Deleting, Step, Resting
<1>3. journal = NoJournal  BY <1>1 DEF IInv, Progress, OnTheJournal, Actor
<1>4. /\ store = rows /\ marker = {}
      /\ \A op \in Operation : staged[op] = {} /\ backup[op] = {}
  BY <1>3 DEF IInv, FilesAccountedFor
<1>5. operations < MaxDeletions /\ operations \in Nat /\ MaxDeletions \in Nat
  BY <1>1, ThreadDeletionAssumption DEF IInv, RoomForJournal, TypeOK
<1>6. UNCHANGED <<rows, marker, store, staged, backup, dirs, torn, refused, crashes, rereads>>
  BY <1>1 DEF files
<1>7. CASE Release("manager") /\ UNCHANGED <<journal, operations>>
  <2>1. UNCHANGED <<disk, refused, counts>>  BY <1>6, <1>7 DEF disk, counts
  <2> QED  BY <1>1, <1>2, <1>4, <1>7, <2>1, Quits DEF Actor
<1>8. CASE /\ operations' = new
           /\ journal' = [op |-> new, phase |-> "preparing"]
           /\ actor' = [actor EXCEPT !["manager"].at = "open", !["manager"].job = "delete",
                                     !["manager"].op = new]
           /\ UNCHANGED lock
  <2>1. actor \in [Actor -> Whereabouts]  BY DEF IInv, TypeOK, Actor
  <2>2. actor' = [actor EXCEPT !["manager"] = r]  BY <1>8, <2>1 DEF Actor
  <2>3. new \in Operation /\ new \in 0..MaxDeletions  BY <1>5 DEF Operation
  <2>4. me \in Whereabouts /\ "open" \in Step  BY <2>1 DEF Actor
  <2>5. /\ operations' \in 0..MaxDeletions /\ journal' \in Journal
        /\ journal'.op = new /\ journal'.phase = "preparing"
    BY <1>8, <2>3 DEF Journal
  <2>6. journal' # NoJournal  BY <2>5, ThreadDeletionAssumption DEF Journal, Operation
  <2> HIDE DEF new
  <2>7. r \in Whereabouts /\ r.at = "open" /\ r.job = "delete" /\ r.op = new
    BY <2>3, <2>4 DEF Whereabouts
  <2> HIDE DEF r
  <2>8. /\ actor' \in [Actor -> Whereabouts] /\ actor'["manager"] = r
        /\ actor'["lifecycle"] = actor["lifecycle"]
    BY <2>1, <2>2, <2>7 DEF Actor
  <2>9. actor["lifecycle"].at = "idle" /\ lock > 0  BY <1>1 DEF IInv, OneAtATime, LockHeld
  <2>10. TypeOK'  BY <1>2, <1>6, <1>8, <2>5, <2>8 DEF IInv, TypeOK, Actor
  <2>11. Away' = {} /\ ~Committed'
    BY <1>4, <1>6, <2>3, <2>5 DEF Away, Committed
  <2>12. FilesAccountedFor'
    BY <1>4, <1>6, <2>6, <2>11 DEF FilesAccountedFor
  <2>13. UNCHANGED <<rows, Kept>>
    BY <1>3, <1>6, <2>6, <2>11 DEF Kept, Away
  <2>14. OneAtATime' /\ LockHeld' /\ RoomForJournal'
    BY <1>6, <1>8, <2>7, <2>8, <2>9 DEF IInv, OneAtATime, LockHeld, RoomForJournal
  <2>15. Progress("lifecycle")'  BY <2>8, <2>9, Rests
  <2>16. Progress("manager")'
    BY <1>4, <1>6, <2>5, <2>6, <2>7, <2>8, <2>11
    DEF Progress, OnTheJournal, WhileFinishing, WhileRollingBack, WhileDeleting
  <2> QED  BY <2>10, <2>12, <2>13, <2>14, <2>15, <2>16 DEF StepOK, IInv, Actor
<1> QED  BY <1>7, <1>8 DEF Begin

\* What the manager does to files before the commit, whichever file it is.
LEMMA ManagerMovesFiles ==
    ASSUME IInv, actor["manager"].at \in Deleting \ {"begin", "record"},
           NEW r \in Whereabouts, r.job = "delete",
           r.at \in (Deleting \ {"begin"}) \cup Finishing \cup RollingBack,
           actor' = [actor EXCEPT !["manager"] = r],
           UNCHANGED <<rows, marker, journal, lock, refused, operations, crashes, rereads, faults>>,
           store' \subseteq Thread, dirs' \subseteq {"staged", "backup"} \X Operation,
           torn' \subseteq (Operation \cup {0}) \X Thread,
           staged' \in [Operation -> SUBSET Thread], backup' \in [Operation -> SUBSET Thread],
           store' \cup Away' = store \cup Away,
           \A op \in Operation \ {journal.op} : staged'[op] = staged[op] /\ backup'[op] = backup[op],
           Progress("manager")'
    PROVE  StepOK
<1>1. /\ actor["manager"].at \notin Resting /\ journal # NoJournal
      /\ journal.phase = "preparing" /\ marker = {}
  BY DeletingKnows
<1>2. MayBe("manager", r)  BY DeletesOn
<1>3. /\ actor' \in [Actor -> Whereabouts] /\ actor'["manager"] = r
      /\ \A b \in Actor \ {"manager"} : Progress(b)'
      /\ OneAtATime' /\ LockHeld' /\ RoomForJournal'
  BY <1>1, <1>2, GoesOn DEF Actor
<1>4. TypeOK'  BY <1>3 DEF IInv, TypeOK, Actor
<1>5. FilesAccountedFor' /\ UNCHANGED <<rows, Kept>>  BY <1>1, MovesFiles
<1> QED  BY <1>3, <1>4, <1>5 DEF StepOK, IInv

LEMMA OpenDirectoriesOK ==
    ASSUME IInv, OpenDirectories
    PROVE  StepOK
<1> DEFINE me == actor["manager"]
           r == [me EXCEPT !.at = "copy", !.todo = me.target]
<1>1. /\ me.at = "open"
      /\ actor' = [actor EXCEPT !["manager"].at = "copy", !["manager"].todo = me.target]
      /\ dirs' = IF me.target = {} THEN dirs ELSE dirs \cup {<<"staged", me.op>>, <<"backup", me.op>>}
      /\ UNCHANGED <<rows, marker, journal, store, staged, backup, torn, lock, refused, operations, crashes, rereads, faults>>
  BY DEF OpenDirectories, At, memory, counts
<1> USE DEF Finishing, RollingBack, Recovering, Deleting, Step, Resting
<1>2. /\ journal # NoJournal /\ journal.op \in Operation /\ me.op = journal.op /\ me.job = "delete"
      /\ journal.phase = "preparing" /\ marker = {} /\ Away \subseteq me.target
  BY <1>1, DeletingKnows
<1>3. actor \in [Actor -> Whereabouts]  BY DEF IInv, TypeOK, Actor
<1>4. actor' = [actor EXCEPT !["manager"] = r] /\ actor'["manager"] = r  BY <1>1, <1>3 DEF Actor
<1>5. /\ r \in Whereabouts /\ r.job = me.job /\ r.op = me.op /\ r.target = me.target
      /\ r.at = "copy" /\ r.todo = me.target
  BY <1>3 DEF Whereabouts, Actor
<1> HIDE DEF r
<1>6. Away' = Away  BY <1>1 DEF Away
<1>7. Progress("manager")'
  BY <1>1, <1>2, <1>4, <1>5, <1>6
  DEF Progress, OnTheJournal, WhileFinishing, WhileRollingBack, WhileDeleting
<1>8. dirs' \subseteq {"staged", "backup"} \X Operation  BY <1>1, <1>2 DEF IInv, TypeOK
<1>9. /\ store' \subseteq Thread /\ torn' \subseteq (Operation \cup {0}) \X Thread
      /\ staged' \in [Operation -> SUBSET Thread] /\ backup' \in [Operation -> SUBSET Thread]
  BY <1>1 DEF IInv, TypeOK
<1> QED  BY <1>1, <1>2, <1>4, <1>5, <1>6, <1>7, <1>8, <1>9, ManagerMovesFiles

LEMMA PrepareFailsOK ==
    ASSUME IInv, PrepareFails
    PROVE  StepOK
<1> DEFINE me == actor["manager"]
           r == [me EXCEPT !.at = "list", !.attempt = 0]
<1>1. /\ me.at \in {"copy", "stage"}
      /\ actor' = [actor EXCEPT !["manager"].at = "list", !["manager"].attempt = 0]
      /\ UNCHANGED <<disk, lock, refused, counts>>
  BY DEF PrepareFails, At, memory
<1> USE DEF Finishing, RollingBack, Recovering, Deleting, Step, Resting
<1>2. /\ journal # NoJournal /\ journal.op \in Operation /\ me.op = journal.op /\ me.job = "delete"
      /\ journal.phase = "preparing" /\ marker = {} /\ me.at \notin Resting
  BY <1>1, DeletingKnows
<1>3. actor \in [Actor -> Whereabouts]  BY DEF IInv, TypeOK, Actor
<1>4. actor' = [actor EXCEPT !["manager"] = r] /\ actor'["manager"] = r  BY <1>1, <1>3 DEF Actor
<1>5. me \in Whereabouts /\ "list" \in Step /\ 0 \in 0..2  BY <1>3 DEF Actor
<1>6. r \in Whereabouts /\ r.job = me.job /\ r.op = me.op /\ r.at = "list"
  BY <1>5 DEF Whereabouts
<1> HIDE DEF r
<1>7. UNCHANGED <<rows, marker, journal, store, staged, backup, dirs, torn>>  BY <1>1 DEF disk
<1>8. Progress("manager")'
  BY <1>2, <1>4, <1>6, <1>7
  DEF Progress, OnTheJournal, WhileFinishing, WhileRollingBack, WhileDeleting
<1>9. faults' \in Nat  BY FaultIsCounted DEF PrepareFails
<1>10. refused' \in SUBSET Thread  BY <1>1 DEF IInv, TypeOK
<1>11. MayBe("manager", r)  BY <1>2, <1>6, DeletesOn
<1> QED  BY <1>1, <1>2, <1>4, <1>8, <1>9, <1>10, <1>11, Walks DEF Actor

\* The backup is a copy of a file that is still there.
LEMMA CopyKeyOK ==
    ASSUME IInv, NEW t \in Thread, CopyKey(t)
    PROVE  StepOK
<1> DEFINE me == actor["manager"]
           there == t \in store /\ <<"backup", me.op>> \in dirs
           s == IF there THEN "copying" ELSE "copy"
           r == [me EXCEPT !.at = s, !.todo = @ \ {t}, !.key = t]
<1>1. /\ me.at = "copy" /\ t \in me.todo
      /\ backup' = IF there THEN [backup EXCEPT ![me.op] = @ \cup {t}] ELSE backup
      /\ torn' = IF there THEN torn \cup {<<me.op, t>>} ELSE torn
      /\ actor' = [actor EXCEPT !["manager"].at = s, !["manager"].todo = @ \ {t}, !["manager"].key = t]
      /\ UNCHANGED <<rows, marker, journal, store, staged, dirs, lock, refused, operations, crashes, rereads, faults>>
  BY DEF CopyKey, At, memory, counts
<1> USE DEF Finishing, RollingBack, Recovering, Deleting, Step, Resting
<1>2. /\ journal # NoJournal /\ journal.op \in Operation /\ me.op = journal.op /\ me.job = "delete"
      /\ journal.phase = "preparing" /\ marker = {} /\ Away \subseteq me.target
  BY <1>1, DeletingKnows
<1>3. /\ me.todo \subseteq me.target /\ me.target \cap store \subseteq me.todo
      /\ {<<"staged", me.op>>, <<"backup", me.op>>} \subseteq dirs
  BY <1>1 DEF IInv, Progress, WhileDeleting, Actor
<1>4. actor \in [Actor -> Whereabouts]  BY DEF IInv, TypeOK, Actor
<1>5. s \in {"copying", "copy"} /\ s \in Step /\ (s = "copying" <=> there)  OBVIOUS
<1>6. there <=> t \in store  BY <1>3
<1> HIDE DEF s, there
<1>7. actor' = [actor EXCEPT !["manager"] = r] /\ actor'["manager"] = r  BY <1>1, <1>4 DEF Actor
<1>8. me \in Whereabouts  BY <1>4 DEF Actor
<1>9. /\ r \in Whereabouts /\ r.job = me.job /\ r.op = me.op /\ r.target = me.target
      /\ r.at = s /\ r.todo = me.todo \ {t} /\ r.key = t
  BY <1>5, <1>8 DEF Whereabouts
<1> HIDE DEF r
<1>10. /\ backup' \in [Operation -> SUBSET Thread]
       /\ torn' \subseteq (Operation \cup {0}) \X Thread
       /\ \A op \in Operation \ {journal.op} : backup'[op] = backup[op]
       /\ backup[journal.op] \subseteq backup'[journal.op]
       /\ backup'[journal.op] \subseteq backup[journal.op] \cup (store \cap {t})
  <2>1. backup \in [Operation -> SUBSET Thread] /\ torn \subseteq (Operation \cup {0}) \X Thread
    BY DEF IInv, TypeOK
  <2>2. CASE there
    <3>1. backup' = [backup EXCEPT ![me.op] = @ \cup {t}] /\ torn' = torn \cup {<<me.op, t>>}
      BY <1>1, <2>2
    <3> QED  BY <1>2, <1>6, <2>1, <2>2, <3>1
  <2>3. CASE ~there  BY <1>1, <2>1, <2>3
  <2> QED  BY <2>2, <2>3
<1>11. Away \subseteq Away' /\ Away' \subseteq Away \cup (store \cap {t})
  BY <1>1, <1>10 DEF Away
<1>12. store' \cup Away' = store \cup Away  BY <1>1, <1>11
<1>13. Away' \subseteq me.target  BY <1>1, <1>2, <1>3, <1>11
<1>14. Progress("manager")'
  <2>1. /\ journal' # NoJournal /\ r.op = journal'.op /\ journal'.phase = "preparing" /\ journal'.op \notin marker'
        /\ r.todo \subseteq r.target /\ {<<"staged", r.op>>, <<"backup", r.op>>} \subseteq dirs'
    BY <1>1, <1>2, <1>3, <1>9
  <2>2. r.at = "copy" => r.target \cap store' \subseteq r.todo
    BY <1>1, <1>3, <1>5, <1>6, <1>9
  <2>3. r.at = "copying" => r.key \in r.target /\ r.target \cap store' \subseteq r.todo \cup {r.key}
    BY <1>1, <1>3, <1>9
  <2>4. actor'["manager"] = r /\ r.at \in {"copying", "copy"} /\ Away' \subseteq r.target
    BY <1>5, <1>7, <1>9, <1>13
  <2> HIDE DEF me
  <2> QED
    BY <2>1, <2>2, <2>3, <2>4
    DEF Progress, OnTheJournal, WhileFinishing, WhileRollingBack, WhileDeleting
<1>15. /\ store' \subseteq Thread /\ dirs' \subseteq {"staged", "backup"} \X Operation
       /\ staged' \in [Operation -> SUBSET Thread]
  BY <1>1 DEF IInv, TypeOK
<1>16. \A op \in Operation \ {journal.op} : staged'[op] = staged[op] /\ backup'[op] = backup[op]
  BY <1>1, <1>10
<1>17. r.at \in Deleting \ {"begin"} /\ r.job = "delete" /\ me.at \in Deleting \ {"begin", "record"}
  BY <1>1, <1>2, <1>5, <1>9
<1> QED
  BY <1>1, <1>7, <1>9, <1>10, <1>12, <1>14, <1>15, <1>16, <1>17, ManagerMovesFiles

LEMMA CopyEndsOK ==
    ASSUME IInv, CopyEnds
    PROVE  StepOK
<1> DEFINE me == actor["manager"]
           r == [me EXCEPT !.at = "stage"]
<1>1. /\ me.at = "copying" /\ actor' = [actor EXCEPT !["manager"] = r] /\ torn' \subseteq torn
      /\ UNCHANGED <<rows, marker, journal, store, staged, backup, dirs, lock, refused, operations, crashes, rereads, faults>>
  BY DEF CopyEnds, At, Move, memory, counts
<1> USE DEF Finishing, RollingBack, Recovering, Deleting, Step, Resting
<1>2. /\ journal # NoJournal /\ journal.op \in Operation /\ me.op = journal.op /\ me.job = "delete"
      /\ journal.phase = "preparing" /\ marker = {} /\ Away \subseteq me.target
  BY <1>1, DeletingKnows
<1>3. Progress("manager")  BY DEF IInv, Actor
<1>4. actor \in [Actor -> Whereabouts]  BY DEF IInv, TypeOK, Actor
<1>5. /\ r \in Whereabouts /\ r.job = me.job /\ r.op = me.op /\ r.target = me.target
      /\ r.at = "stage" /\ r.todo = me.todo /\ r.key = me.key
  BY <1>4 DEF Whereabouts, Actor
<1> HIDE DEF r
<1>6. actor'["manager"] = r  BY <1>1, <1>4 DEF Actor
<1>7. Away' = Away  BY <1>1 DEF Away
<1>8. Progress("manager")'
  BY <1>1, <1>2, <1>3, <1>5, <1>6, <1>7
  DEF Progress, OnTheJournal, WhileFinishing, WhileRollingBack, WhileDeleting
<1>9. /\ store' \subseteq Thread /\ torn' \subseteq (Operation \cup {0}) \X Thread
      /\ dirs' \subseteq {"staged", "backup"} \X Operation
      /\ staged' \in [Operation -> SUBSET Thread] /\ backup' \in [Operation -> SUBSET Thread]
  BY <1>1 DEF IInv, TypeOK
<1> QED  BY <1>1, <1>2, <1>5, <1>7, <1>8, <1>9, ManagerMovesFiles

\* The file moves from the attachments to the staging directory.
LEMMA StageKeyOK ==
    ASSUME IInv, StageKey
    PROVE  StepOK
<1> DEFINE me == actor["manager"]
           there == me.key \in store /\ <<"staged", me.op>> \in dirs
           r == [me EXCEPT !.at = "copy"]
<1>1. /\ me.at = "stage" /\ actor' = [actor EXCEPT !["manager"] = r]
      /\ store' = IF there THEN store \ {me.key} ELSE store
      /\ staged' = IF there THEN [staged EXCEPT ![me.op] = @ \cup {me.key}] ELSE staged
      /\ UNCHANGED <<rows, marker, journal, backup, dirs, torn, lock, refused, operations, crashes, rereads, faults>>
  BY DEF StageKey, At, Move, memory, counts
<1> USE DEF Finishing, RollingBack, Recovering, Deleting, Step, Resting
<1>2. /\ journal # NoJournal /\ journal.op \in Operation /\ me.op = journal.op /\ me.job = "delete"
      /\ journal.phase = "preparing" /\ marker = {} /\ Away \subseteq me.target
  BY <1>1, DeletingKnows
<1>3. /\ me.todo \subseteq me.target /\ me.key \in me.target
      /\ me.target \cap store \subseteq me.todo \cup {me.key}
      /\ {<<"staged", me.op>>, <<"backup", me.op>>} \subseteq dirs
  BY <1>1 DEF IInv, Progress, WhileDeleting, Actor
<1>4. actor \in [Actor -> Whereabouts]  BY DEF IInv, TypeOK, Actor
<1>5. /\ r \in Whereabouts /\ r.job = me.job /\ r.op = me.op /\ r.target = me.target
      /\ r.at = "copy" /\ r.todo = me.todo
  BY <1>4 DEF Whereabouts, Actor
<1> HIDE DEF r
<1>6. actor'["manager"] = r  BY <1>1, <1>4 DEF Actor
<1>7. there <=> me.key \in store  BY <1>3
<1>8. /\ store' = store \ {me.key}
      /\ staged' \in [Operation -> SUBSET Thread]
      /\ \A op \in Operation \ {journal.op} : staged'[op] = staged[op]
      /\ staged'[journal.op] = staged[journal.op] \cup (store \cap {me.key})
  <2>1. staged \in [Operation -> SUBSET Thread]  BY DEF IInv, TypeOK
  <2>2. CASE there
    <3>1. store' = store \ {me.key} /\ staged' = [staged EXCEPT ![me.op] = @ \cup {me.key}]
      BY <1>1, <2>2
    <3>2. me.key \in Thread /\ me.key \in store  BY <1>7, <2>2 DEF IInv, TypeOK
    <3> HIDE DEF me, there
    <3> QED  BY <1>2, <2>1, <3>1, <3>2
  <2>3. CASE ~there  BY <1>1, <1>7, <2>1, <2>3
  <2> QED  BY <2>2, <2>3
<1> HIDE DEF there
<1>9. Away' = Away \cup (store \cap {me.key})  BY <1>1, <1>8 DEF Away
<1>10. store' \cup Away' = store \cup Away  BY <1>8, <1>9
<1>11. Away' \subseteq me.target /\ me.target \cap store' \subseteq me.todo
  BY <1>2, <1>3, <1>8, <1>9
<1>12. Progress("manager")'
  BY <1>1, <1>2, <1>3, <1>5, <1>6, <1>11
  DEF Progress, OnTheJournal, WhileFinishing, WhileRollingBack, WhileDeleting
<1>13. /\ store' \subseteq Thread /\ torn' \subseteq (Operation \cup {0}) \X Thread
       /\ dirs' \subseteq {"staged", "backup"} \X Operation
       /\ backup' \in [Operation -> SUBSET Thread]
  BY <1>1, <1>8 DEF IInv, TypeOK
<1>14. \A op \in Operation \ {journal.op} : staged'[op] = staged[op] /\ backup'[op] = backup[op]
  BY <1>1, <1>8
<1> QED
  BY <1>1, <1>2, <1>5, <1>8, <1>10, <1>12, <1>13, <1>14, ManagerMovesFiles

LEMMA PreparedOK ==
    ASSUME IInv, Prepared
    PROVE  StepOK
<1> DEFINE me == actor["manager"]
           r == [me EXCEPT !.at = "detach"]
<1>1. /\ me.at = "copy" /\ me.todo = {} /\ actor' = [actor EXCEPT !["manager"] = r]
      /\ UNCHANGED <<disk, lock, refused, counts, faults>>
  BY DEF Prepared, At, Move, memory
<1> USE DEF Finishing, RollingBack, Recovering, Deleting, Step, Resting
<1>2. /\ journal # NoJournal /\ journal.op \in Operation /\ me.op = journal.op /\ me.job = "delete"
      /\ journal.phase = "preparing" /\ marker = {} /\ Away \subseteq me.target /\ me.at \notin Resting
  BY <1>1, DeletingKnows
<1>3. me.target \cap store = {}  BY <1>1 DEF IInv, Progress, WhileDeleting, Actor
<1>4. actor \in [Actor -> Whereabouts]  BY DEF IInv, TypeOK, Actor
<1>5. /\ r \in Whereabouts /\ r.job = me.job /\ r.op = me.op /\ r.target = me.target /\ r.at = "detach"
  BY <1>4 DEF Whereabouts, Actor
<1> HIDE DEF r
<1>6. UNCHANGED <<rows, marker, journal, store, staged, backup, dirs, torn>>  BY <1>1 DEF disk
<1>7. actor'["manager"] = r /\ Away' = Away  BY <1>1, <1>4, <1>6 DEF Actor, Away
<1>8. Progress("manager")'
  BY <1>2, <1>3, <1>5, <1>6, <1>7
  DEF Progress, OnTheJournal, WhileFinishing, WhileRollingBack, WhileDeleting
<1>9. MayBe("manager", r)  BY <1>2, <1>5, DeletesOn
<1>10. refused' \in SUBSET Thread /\ faults' \in Nat  BY <1>1 DEF IInv, TypeOK
<1> QED  BY <1>1, <1>2, <1>8, <1>9, <1>10, Walks DEF Actor

LEMMA DetachOK ==
    ASSUME IInv, Detach
    PROVE  StepOK
<1> DEFINE me == actor["manager"]
           r == [me EXCEPT !.at = "commit"]
<1>1. /\ me.at = "detach" /\ actor' = [actor EXCEPT !["manager"] = r]
      /\ refused' = refused \cup me.target
      /\ UNCHANGED <<disk, lock, counts, faults>>
  BY DEF Detach, At, Move
<1> USE DEF Finishing, RollingBack, Recovering, Deleting, Step, Resting
<1>2. /\ journal # NoJournal /\ journal.op \in Operation /\ me.op = journal.op /\ me.job = "delete"
      /\ journal.phase = "preparing" /\ marker = {} /\ Away \subseteq me.target /\ me.at \notin Resting
  BY <1>1, DeletingKnows
<1>3. me.target \cap store = {}  BY <1>1 DEF IInv, Progress, WhileDeleting, Actor
<1>4. actor \in [Actor -> Whereabouts]  BY DEF IInv, TypeOK, Actor
<1>5. /\ r \in Whereabouts /\ r.job = me.job /\ r.op = me.op /\ r.target = me.target /\ r.at = "commit"
      /\ me.target \in SUBSET Thread
  BY <1>4 DEF Whereabouts, Actor
<1> HIDE DEF r
<1>6. UNCHANGED <<rows, marker, journal, store, staged, backup, dirs, torn>>  BY <1>1 DEF disk
<1>7. actor'["manager"] = r /\ Away' = Away  BY <1>1, <1>4, <1>6 DEF Actor, Away
<1>8. Progress("manager")'
  BY <1>2, <1>3, <1>5, <1>6, <1>7
  DEF Progress, OnTheJournal, WhileFinishing, WhileRollingBack, WhileDeleting
<1>9. MayBe("manager", r)  BY <1>2, <1>5, DeletesOn
<1>10. refused' \in SUBSET Thread /\ faults' \in Nat  BY <1>1, <1>5 DEF IInv, TypeOK
<1> QED  BY <1>1, <1>2, <1>8, <1>9, <1>10, Walks DEF Actor

\* The commit takes the rows of the threads whose files are away: it is the one
\* step in which the windows see threads go.
LEMMA CommitOK ==
    ASSUME IInv, Commit
    PROVE  StepOK
<1> DEFINE me == actor["manager"]
<1>1. me.at = "commit" /\ UNCHANGED <<journal, files, lock, counts>>  BY DEF Commit, At
<1> USE DEF Finishing, RollingBack, Recovering, Deleting, Step, Resting
<1>2. /\ journal # NoJournal /\ journal.op \in Operation /\ me.op = journal.op /\ me.job = "delete"
      /\ journal.phase = "preparing" /\ marker = {} /\ Away \subseteq me.target /\ me.at \notin Resting
      /\ rows = store \cup Away
  BY <1>1, DeletingKnows
<1>3. me.target \cap store = {}  BY <1>1 DEF IInv, Progress, WhileDeleting, Actor
<1>4. actor \in [Actor -> Whereabouts] /\ me \in Whereabouts /\ me.target \in SUBSET Thread
  BY DEF IInv, TypeOK, Actor, Whereabouts
<1>5. faults' \in Nat  BY FaultIsCounted DEF Commit
<1>6. CASE /\ refused' = refused \ me.target
           /\ actor' = [actor EXCEPT !["manager"].at = "list", !["manager"].attempt = 1]
           /\ UNCHANGED <<rows, marker>>
  <2> DEFINE r == [me EXCEPT !.at = "list", !.attempt = 1]
  <2>1. actor' = [actor EXCEPT !["manager"] = r] /\ actor'["manager"] = r  BY <1>4, <1>6 DEF Actor
  <2>2. "list" \in Step /\ 1 \in 0..2  OBVIOUS
  <2>3. r \in Whereabouts /\ r.job = me.job /\ r.op = me.op /\ r.at = "list"
    BY <1>4, <2>2 DEF Whereabouts
  <2> HIDE DEF r
  <2>4. UNCHANGED <<rows, marker, journal, store, staged, backup, dirs, torn>>
    BY <1>1, <1>6 DEF files
  <2>5. Progress("manager")'
    BY <1>2, <2>1, <2>3, <2>4
    DEF Progress, OnTheJournal, WhileFinishing, WhileRollingBack, WhileDeleting
  <2>6. refused' \in SUBSET Thread  BY <1>6 DEF IInv, TypeOK
  <2>7. MayBe("manager", r)  BY <1>2, <2>3, DeletesOn
  <2>8. UNCHANGED <<disk, lock, counts>>  BY <1>1, <2>4 DEF disk
  <2> QED  BY <1>2, <1>5, <2>1, <2>5, <2>6, <2>7, <2>8, Walks DEF Actor
<1>7. CASE /\ rows' = rows \ me.target
           /\ marker' = marker \cup {me.op}
           /\ Move("manager", "record")
           /\ UNCHANGED refused
  <2> DEFINE r == [me EXCEPT !.at = "record"]
  <2>1. actor' = [actor EXCEPT !["manager"] = r] /\ actor'["manager"] = r
    BY <1>4, <1>7 DEF Actor, Move
  <2>2. r \in Whereabouts /\ r.job = me.job /\ r.op = me.op /\ r.at = "record"
    BY <1>4 DEF Whereabouts
  <2> HIDE DEF r
  <2>3. UNCHANGED <<journal, store, staged, backup, dirs, torn, lock, operations, crashes, rereads, refused>>
    BY <1>1, <1>7 DEF files, counts
  <2>4. MayBe("manager", r)  BY <1>2, <2>2, DeletesOn
  <2>5. /\ actor' \in [Actor -> Whereabouts]
        /\ \A b \in Actor \ {"manager"} : Progress(b)'
        /\ OneAtATime' /\ LockHeld' /\ RoomForJournal'
    BY <1>2, <2>1, <2>3, <2>4, GoesOn DEF Actor
  <2>6. Away' = Away /\ rows' = store /\ marker' = {journal.op}
    BY <1>2, <1>3, <1>7, <2>3 DEF Away
  <2>7. Away \cap store = {}  BY <1>2, <1>3
  <2>8. TypeOK'
    BY <1>2, <1>5, <2>3, <2>5, <2>6 DEF IInv, TypeOK, Actor
  <2>9. FilesAccountedFor'
    <3>1. \A op \in Operation \ {journal.op} : staged[op] = {} /\ backup[op] = {}
      BY <1>2 DEF IInv, FilesAccountedFor
    <3> QED  BY <1>2, <2>3, <2>6, <2>7, <3>1 DEF FilesAccountedFor, Committed
  <2>10. Progress("manager")'
    BY <1>2, <2>1, <2>2, <2>3, <2>6
    DEF Progress, OnTheJournal, WhileFinishing, WhileRollingBack, WhileDeleting
  <2>11. Kept' = Kept  BY <2>3 DEF Kept
  <2>12. Promise!Delete(me.target)  BY <1>7, <2>11 DEF Promise!Delete
  <2>13. [Promise!Next]_<<rows, Kept>>  BY <1>4, <2>12 DEF Promise!Next
  <2> QED  BY <2>5, <2>8, <2>9, <2>10, <2>13 DEF StepOK, IInv, Actor
<1> QED  BY <1>6, <1>7 DEF Commit

\* Whether or not the journal says so, the marker does.
LEMMA RecordOK ==
    ASSUME IInv, Record
    PROVE  StepOK
<1> DEFINE me == actor["manager"]
           r == [me EXCEPT !.at = "discard", !.attempt = 1]
<1>1. /\ me.at = "record"
      /\ journal' = journal \/ journal' = [op |-> me.op, phase |-> "committed"]
      /\ actor' = [actor EXCEPT !["manager"].at = "discard", !["manager"].attempt = 1]
      /\ UNCHANGED <<rows, marker, store, staged, backup, dirs, torn, lock, refused, operations, crashes, rereads>>
  BY DEF Record, At, files, memory, counts
<1> USE DEF Finishing, RollingBack, Recovering, Deleting, Step, Resting
<1>2. /\ journal # NoJournal /\ journal.op \in Operation /\ me.op = journal.op /\ me.job = "delete"
      /\ me.at \notin Resting
  BY <1>1, DeletingKnows
<1>3. journal.op \in marker  BY <1>1 DEF IInv, Progress, WhileDeleting, Actor
<1>4. /\ store = rows /\ Away \cap rows = {} /\ marker \subseteq {journal.op}
      /\ \A op \in Operation \ {journal.op} : staged[op] = {} /\ backup[op] = {}
  BY <1>2, <1>3 DEF IInv, FilesAccountedFor, Committed
<1>5. actor \in [Actor -> Whereabouts] /\ me \in Whereabouts  BY DEF IInv, TypeOK, Actor
<1>6. actor' = [actor EXCEPT !["manager"] = r] /\ actor'["manager"] = r  BY <1>1, <1>5 DEF Actor
<1>7. "discard" \in Step /\ 1 \in 0..2  OBVIOUS
<1>8. r \in Whereabouts /\ r.job = me.job /\ r.op = me.op /\ r.at = "discard"
  BY <1>5, <1>7 DEF Whereabouts
<1> HIDE DEF r
<1>9. MayBe("manager", r)  BY <1>2, <1>8, DeletesOn
<1>10. /\ actor' \in [Actor -> Whereabouts]
       /\ \A b \in Actor \ {"manager"} : Progress(b)'
       /\ OneAtATime' /\ LockHeld' /\ RoomForJournal'
  BY <1>1, <1>2, <1>6, <1>9, GoesOn DEF Actor
<1>11. journal' \in Journal /\ journal'.op = journal.op /\ journal' # NoJournal
  <2>1. CASE journal' = journal  BY <1>2, <2>1 DEF IInv, TypeOK
  <2>2. CASE journal' = [op |-> me.op, phase |-> "committed"]
    BY <1>2, <2>2, ThreadDeletionAssumption DEF Journal, Operation
  <2> QED  BY <1>1, <2>1, <2>2
<1>12. faults' \in Nat  BY FaultIsCounted DEF Record
<1>13. TypeOK'  BY <1>1, <1>10, <1>11, <1>12 DEF IInv, TypeOK, Actor
<1>14. Away' = Away  BY <1>1, <1>11 DEF Away
<1>15. FilesAccountedFor'
  BY <1>1, <1>3, <1>4, <1>11, <1>14 DEF FilesAccountedFor, Committed
<1>16. Progress("manager")'
  BY <1>1, <1>2, <1>4, <1>6, <1>8, <1>11, <1>14
  DEF Progress, OnTheJournal, WhileFinishing, WhileRollingBack, WhileDeleting
<1>17. UNCHANGED <<rows, Kept>>  BY <1>1, <1>2, <1>11 DEF Kept
<1> QED  BY <1>10, <1>13, <1>15, <1>16, <1>17 DEF StepOK, IInv, Actor

LEMMA DeletionOK ==
    ASSUME IInv, Deletion
    PROVE  StepOK
BY BeginOK, OpenDirectoriesOK, PrepareFailsOK, CopyKeyOK, CopyEndsOK, StageKeyOK, PreparedOK,
   DetachOK, CommitOK, RecordOK DEF Deletion

-----------------------------------------------------------------------------
(* The App State lifecycle, and crashes *)

\* A place that an actor takes with nothing in its hands.
LEMMA PlaceType ==
    ASSUME NEW s \in Step, NEW j \in {"recover", "delete", "startup", "reread"}
    PROVE  Place(s, j) \in Whereabouts /\ Place(s, j).at = s /\ Place(s, j).job = j
<1>1. 1 \in 0..2 /\ 0 \in Operation \cup {0}  OBVIOUS
<1> QED  BY <1>1 DEF Place, Whereabouts

LEMMA StartOK ==
    ASSUME IInv, Start
    PROVE  StepOK
<1> DEFINE r == Place("load", "startup")
<1>1. /\ actor["lifecycle"].at = "off" /\ actor' = [actor EXCEPT !["lifecycle"] = r]
      /\ UNCHANGED <<rows, marker, journal, store, staged, backup, dirs, torn>>
      /\ UNCHANGED <<lock, refused, operations, crashes, rereads, faults>>
  BY DEF Start, At, disk, memory, counts
<1>2. r \in Whereabouts /\ r.at = "load" /\ r.job = "startup"
  BY PlaceType DEF Step, Recovering
<1> USE DEF Finishing, RollingBack, Recovering, Deleting, Step, Resting
<1> HIDE DEF r
<1>3. actor["manager"].at = "idle"  BY <1>1 DEF IInv, OneAtATime
<1>4. /\ actor' \in [Actor -> Whereabouts] /\ actor'["lifecycle"] = r
      /\ actor'["manager"] = actor["manager"]
  BY <1>1, <1>2 DEF IInv, TypeOK, Actor
<1>5. TypeOK'  BY <1>1, <1>4 DEF IInv, TypeOK, Actor
<1>6. FilesAccountedFor' /\ UNCHANGED <<rows, Kept>>
  BY <1>1 DEF IInv, FilesAccountedFor, Committed, Away, Kept
<1>7. OneAtATime' /\ LockHeld' /\ RoomForJournal'
  BY <1>1, <1>2, <1>3, <1>4 DEF IInv, OneAtATime, LockHeld, RoomForJournal
<1>8. Progress("manager")'  BY <1>3, <1>4, Rests
<1>9. Progress("lifecycle")'
  BY <1>2, <1>4 DEF Progress, OnTheJournal, WhileFinishing, WhileRollingBack, WhileDeleting
<1> QED  BY <1>5, <1>6, <1>7, <1>8, <1>9 DEF StepOK, IInv, Actor

LEMMA ReloadOK ==
    ASSUME IInv, Reload
    PROVE  StepOK
<1> DEFINE me == actor["lifecycle"]
           r == [me EXCEPT !.at = "reconcile", !.todo = rows]
<1>1. /\ me.at = "reload"
      /\ actor' = [actor EXCEPT !["lifecycle"].at = "reconcile", !["lifecycle"].todo = rows]
      /\ UNCHANGED <<disk, lock, refused, counts, faults>>
  BY DEF Reload, At, memory
<1> USE DEF Finishing, RollingBack, Recovering, Deleting, Step, Resting
<1>2. journal = NoJournal /\ me.job = "startup" /\ me.at \notin Resting
  BY <1>1 DEF IInv, Progress, OnTheJournal, OneAtATime, Actor
<1>3. actor \in [Actor -> Whereabouts] /\ me \in Whereabouts /\ rows \in SUBSET Thread
  BY DEF IInv, TypeOK, Actor
<1>4. actor' = [actor EXCEPT !["lifecycle"] = r] /\ actor'["lifecycle"] = r  BY <1>1, <1>3 DEF Actor
<1>5. "reconcile" \in Step  OBVIOUS
<1>6. r \in Whereabouts /\ r.job = me.job /\ r.at = "reconcile" /\ r.todo = rows
  BY <1>3, <1>5 DEF Whereabouts
<1> HIDE DEF r
<1>7. MayBe("lifecycle", r)  BY <1>2, <1>6 DEF MayBe
<1>8. UNCHANGED <<rows, journal>>  BY <1>1 DEF disk
<1>9. Progress("lifecycle")'
  BY <1>2, <1>4, <1>6, <1>8
  DEF Progress, OnTheJournal, WhileFinishing, WhileRollingBack, WhileDeleting
<1>10. refused' \in SUBSET Thread /\ faults' \in Nat  BY <1>1 DEF IInv, TypeOK
<1> QED  BY <1>1, <1>2, <1>4, <1>7, <1>9, <1>10, Walks DEF Actor

\* Startup deletes no attachment of a thread: there is no journal, and the rows
\* are still those that were read.
LEMMA ReconcileOK ==
    ASSUME IInv, Reconcile
    PROVE  StepOK
<1> DEFINE me == actor["lifecycle"]
           r == Place("idle", "startup")
<1>1. /\ me.at = "reconcile" /\ (store' = store \/ store' = store \cap me.todo)
      /\ UNCHANGED <<rows, marker, journal, staged, backup, dirs, torn, refused, operations, crashes, rereads>>
  BY DEF Reconcile, At, counts
<1>2. faults' \in Nat  BY FaultIsCounted DEF Reconcile
<1>3. r \in Whereabouts /\ r.at = "idle" /\ r.job = "startup"  BY PlaceType DEF Step
<1> USE DEF Finishing, RollingBack, Recovering, Deleting, Step, Resting
<1>4. journal = NoJournal /\ me.todo = rows /\ me.job = "startup"
  BY <1>1 DEF IInv, Progress, OnTheJournal, OneAtATime, Actor
<1>5. store = rows  BY <1>4 DEF IInv, FilesAccountedFor
<1>6. store' = store  BY <1>1, <1>4, <1>5
<1>7. actor \in [Actor -> Whereabouts]  BY DEF IInv, TypeOK, Actor
<1>8. actor' = [actor EXCEPT !["lifecycle"] = r] /\ lock' = lock
  BY <1>4, <1>7 DEF Reconcile, Leave, Actor
<1> HIDE DEF r
<1>9. actor["manager"].at = "idle"  BY <1>1 DEF IInv, OneAtATime
<1>10. /\ actor' \in [Actor -> Whereabouts] /\ actor'["lifecycle"] = r
       /\ actor'["manager"] = actor["manager"]
  BY <1>3, <1>7, <1>8 DEF Actor
<1>11. TypeOK'  BY <1>1, <1>2, <1>6, <1>8, <1>10 DEF IInv, TypeOK, Actor
<1>12. FilesAccountedFor' /\ UNCHANGED <<rows, Kept>>
  BY <1>1, <1>6 DEF IInv, FilesAccountedFor, Committed, Away, Kept
<1>13. OneAtATime' /\ LockHeld' /\ RoomForJournal'
  BY <1>1, <1>3, <1>5, <1>6, <1>9, <1>10 DEF IInv, OneAtATime, LockHeld, RoomForJournal
<1>14. Progress("manager")' /\ Progress("lifecycle")'  BY <1>3, <1>9, <1>10, Rests
<1> QED  BY <1>11, <1>12, <1>13, <1>14 DEF StepOK, IInv, Actor

\* A crash leaves the disk as it is, whoever was working on it.
LEMMA CrashOK ==
    ASSUME IInv, Crash
    PROVE  StepOK
<1> DEFINE m == Place("idle", "recover")
           l == Place("off", "startup")
<1>1. /\ lock' = 0 /\ refused' = {} /\ crashes' = crashes + 1
      /\ actor' = [a \in Actor |-> IF a = "manager" THEN m ELSE l]
      /\ UNCHANGED <<rows, marker, journal, store, staged, backup, dirs, torn>>
      /\ UNCHANGED <<operations, rereads, faults>>
  BY DEF Crash, disk, Actor
<1>2. /\ m \in Whereabouts /\ m.at = "idle" /\ m.job = "recover"
      /\ l \in Whereabouts /\ l.at = "off" /\ l.job = "startup"
  BY PlaceType DEF Step
<1> USE DEF Finishing, RollingBack, Recovering, Deleting, Step, Resting
<1> HIDE DEF m, l
<1>3. actor' \in [Actor -> Whereabouts] /\ actor'["lifecycle"] = l /\ actor'["manager"] = m
  BY <1>1, <1>2 DEF Actor
<1>4. TypeOK'  BY <1>1, <1>3 DEF IInv, TypeOK, Actor
<1>5. FilesAccountedFor' /\ UNCHANGED <<rows, Kept>>
  BY <1>1 DEF IInv, FilesAccountedFor, Committed, Away, Kept
<1>6. OneAtATime' /\ LockHeld' /\ RoomForJournal'
  BY <1>1, <1>2, <1>3 DEF IInv, OneAtATime, LockHeld, RoomForJournal
<1>7. Progress("manager")' /\ Progress("lifecycle")'  BY <1>2, <1>3, Rests
<1> QED  BY <1>4, <1>5, <1>6, <1>7 DEF StepOK, IInv, Actor

-----------------------------------------------------------------------------
(* The theorems *)

LEMMA InitOK ==
    ASSUME Init
    PROVE  IInv /\ Promise!Init
<1> DEFINE m == Place("idle", "recover")
           l == Place("off", "startup")
<1>1. actor = [a \in Actor |-> IF a = "manager" THEN m ELSE l]  BY DEF Init, Actor
<1>2. /\ m \in Whereabouts /\ m.at = "idle" /\ m.job = "recover"
      /\ l \in Whereabouts /\ l.at = "off" /\ l.job = "startup"
  BY PlaceType DEF Step
<1> USE DEF Finishing, RollingBack, Recovering, Deleting, Step, Resting
<1> HIDE DEF m, l
<1>3. actor \in [Actor -> Whereabouts] /\ actor["lifecycle"] = l /\ actor["manager"] = m
  BY <1>1, <1>2 DEF Actor
<1>4. TypeOK  BY <1>3, ThreadDeletionAssumption DEF Init, TypeOK, Actor
<1>5. FilesAccountedFor  BY DEF Init, FilesAccountedFor
<1>6. OneAtATime /\ LockHeld /\ RoomForJournal
  BY <1>2, <1>3 DEF Init, OneAtATime, LockHeld, RoomForJournal
<1>7. Progress("manager") /\ Progress("lifecycle")
  BY <1>2, <1>3 DEF Progress, OnTheJournal, WhileFinishing, WhileRollingBack, WhileDeleting
<1>8. Promise!Init  BY DEF Init, Promise!Init, Kept
<1> QED  BY <1>4, <1>5, <1>6, <1>7, <1>8 DEF IInv, Actor

LEMMA StutterOK ==
    ASSUME IInv, UNCHANGED vars
    PROVE  StepOK
<1>1. /\ UNCHANGED <<rows, marker, journal, store, staged, backup, dirs, torn>>
      /\ UNCHANGED <<lock, refused, actor, operations, crashes, rereads, faults>>
  BY DEF vars, disk, memory, counts
<1>2. TypeOK' /\ FilesAccountedFor' /\ UNCHANGED <<rows, Kept>>
  BY <1>1 DEF IInv, TypeOK, FilesAccountedFor, Committed, Away, Kept
<1>3. OneAtATime' /\ LockHeld' /\ RoomForJournal'
  BY <1>1 DEF IInv, OneAtATime, LockHeld, RoomForJournal
<1>4. \A a \in Actor : Progress(a)'
  BY <1>1 DEF IInv, Progress, OnTheJournal, WhileFinishing, WhileRollingBack, WhileDeleting, Away
<1> QED  BY <1>2, <1>3, <1>4 DEF StepOK, IInv

LEMMA NextOK ==
    ASSUME IInv, "restore" \notin Faulty, MaxRereads = 0, [Next]_vars
    PROVE  StepOK
<1>1. CASE Recovery("manager") \/ Recovery("lifecycle")  BY <1>1, RecoveryOK DEF Actor
<1>2. CASE Deletion  BY <1>2, DeletionOK
<1>3. CASE Lifecycle  BY <1>3, StartOK, ReloadOK, ReconcileOK DEF Lifecycle
<1>4. ASSUME NEW T \in SUBSET Thread, Request(T) PROVE StepOK  BY <1>4, RequestOK
<1>5. ~Reread  BY DEF Reread, IInv, OneAtATime
<1>6. CASE Crash  BY <1>6, CrashOK
<1>7. CASE UNCHANGED vars  BY <1>7, StutterOK
<1> QED  BY <1>1, <1>2, <1>3, <1>4, <1>5, <1>6, <1>7 DEF Next, Work

\* The journal accounts for every file, whatever fails and whenever the process
\* crashes.
THEOREM Invariance ==
    ASSUME "restore" \notin Faulty, MaxRereads = 0
    PROVE  Spec => []IInv
<1>1. Init => IInv  BY InitOK
<1>2. IInv /\ [Next]_vars => IInv'  BY NextOK DEF StepOK
<1> QED  BY <1>1, <1>2, PTL DEF Spec

\* Every variable keeps its shape.
THEOREM TypeCorrect ==
    ASSUME "restore" \notin Faulty, MaxRereads = 0
    PROVE  Spec => []TypeOK
<1>1. IInv => TypeOK  BY DEF IInv
<1> QED  BY <1>1, Invariance, PTL

\* No App State command is accepted while the file of a thread with rows is away:
\* the manager holds the App State lock, and keeps it when it has to leave the
\* rest to recovery (threadDeletionTransaction.ts, recoveryPending).
THEOREM NoWriteWhileAway ==
    ASSUME "restore" \notin Faulty, MaxRereads = 0
    PROVE  Spec => []WritesBlockedWhileAway
<1>1. IInv => WritesBlockedWhileAway
  <2> SUFFICES ASSUME IInv, Ready, ~(rows \subseteq store) PROVE lock > 0
    BY DEF WritesBlockedWhileAway
  <2>1. actor["lifecycle"].at = "idle"  BY DEF IInv, OneAtATime, Ready, At
  <2>2. lock \in Nat  BY DEF IInv, TypeOK
  <2>3. lock # 0  BY <2>1, <2>2 DEF IInv, LockHeld
  <2> QED  BY <2>2, <2>3
<1> QED  BY <1>1, Invariance, PTL

\* Once no journal is left, a deletion has happened altogether or not at all: the
\* attachments in the directory are those of the threads with rows.
THEOREM AllOrNothing ==
    ASSUME "restore" \notin Faulty, MaxRereads = 0
    PROVE  Spec => []SettledIsAtomic
<1>1. IInv => SettledIsAtomic  BY DEF IInv, FilesAccountedFor, SettledIsAtomic
<1> QED  BY <1>1, Invariance, PTL

\* To the windows a deletion is one step, and an attachment goes for good and only
\* after its thread: the three stores and the journal implement ThreadStore.
THEOREM ImplementsThreadStore ==
    ASSUME "restore" \notin Faulty, MaxRereads = 0
    PROVE  Spec => PromiseKept
<1>1. Init => Promise!Init  BY InitOK
<1>2. IInv /\ [Next]_vars => [Promise!Next]_<<rows, Kept>>  BY NextOK DEF StepOK
<1> QED  BY <1>1, <1>2, Invariance, PTL DEF Spec, PromiseKept, Promise!Spec
=============================================================================
